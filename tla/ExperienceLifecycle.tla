------------------------- MODULE ExperienceLifecycle -------------------------
(***************************************************************************)
(* The approved experiences of a project, the transitions a user confirms   *)
(* with a token, and the generations that are compiled from the active      *)
(* ones.  A confirmation is two transactions: the transition, and the       *)
(* compilation after it, which may fail or be lost with its process.  The   *)
(* times a request bears are read before its transaction begins.            *)
(***************************************************************************)
EXTENDS Naturals, FiniteSets

CONSTANTS Experiences,
          Expires,         \* the time at which an experience ceases to apply
          TokenLifetime,   \* experienceLifecyclePreviewLifetime
          MaxTime          \* bound of the clock

LifecycleAssumption ==
    TokenLifetime \in Nat /\ MaxTime \in Nat /\ Expires \in [Experiences -> Nat]

VARIABLES now,
          state,        \* the projected lifecycle state of an experience
          transitions,  \* the transitions that were appended
          tokens,       \* the previews handed out
          owed,         \* transitions whose compilation is still to come
          lost,         \* transitions whose compilation failed and nobody made up for
          generation    \* the active generation

lifecycleVars == <<now, state, transitions, tokens, owed, lost, generation>>

Actions == {"activate", "pause"}   \* supportedExperienceLearningLifecycle
States == {"approved", "active", "paused"}
Transition == [experience : Experiences, action : Actions, issued : Nat, at : Nat, to : States]

LifecycleTypeOK ==
    /\ now \in Nat /\ state \in [Experiences -> States]
    /\ transitions \subseteq Transition /\ owed \subseteq Transition /\ lost \subseteq Transition
    /\ tokens \subseteq [experience : Experiences, action : Actions, from : States, issued : Nat]
    /\ generation \in [number : Nat, members : SUBSET Experiences]

LifecycleInit ==
    /\ now = 0 /\ transitions = {} /\ tokens = {} /\ owed = {} /\ lost = {}
    /\ state = [e \in Experiences |-> "approved"]
    /\ generation = [number |-> 0, members |-> {}]

-----------------------------------------------------------------------------
ToStateLoose(action, from) ==
    IF action = "activate" THEN {"active"} \ {from} ELSE {"paused"} \ {from, "approved"}

(* TransitionFrom: the state an action leads to, if it is allowed at all.    *)
ToState(action, from) ==
    CASE action = "activate" /\ from = "approved" -> {"active"}
      [] action = "pause" /\ from = "active" -> {"paused"}
      [] OTHER -> {}

Prepare(e, action) ==
    /\ ToState(action, state[e]) # {}
    /\ tokens' = tokens \cup
         {[experience |-> e, action |-> action, from |-> state[e], issued |-> now]}
    /\ UNCHANGED <<now, state, transitions, owed, lost, generation>>

Of(e) == {r \in transitions : r.experience = e}

(* ApplyExperienceLifecycleAction with the append of the transition.         *)
Apply(t, at) ==
    /\ t.issued <= at /\ now <= t.issued + TokenLifetime
    /\ state[t.experience] = t.from
    /\ \A r \in Of(t.experience) : at > r.at
    /\ \E to \in ToState(t.action, t.from) :
          LET r == [experience |-> t.experience, action |-> t.action,
                    issued |-> t.issued, at |-> at, to |-> to]
          IN  /\ state' = [state EXCEPT ![t.experience] = to]
              /\ transitions' = transitions \cup {r}
              /\ owed' = owed \cup {r}
    /\ UNCHANGED <<now, tokens, lost, generation>>

(* The state the transitions give: that of the latest one.                   *)
Rebuilt(e) ==
    IF Of(e) = {} THEN "approved"
    ELSE (CHOOSE r \in Of(e) : \A q \in Of(e) : q.at <= r.at).to

Compilable(compiledAt) == {e \in Experiences : Rebuilt(e) = "active" /\ Expires[e] > compiledAt}

SameSize(members, compiled) == Cardinality(members) = Cardinality(compiled)

(* The active generation already is what would be compiled.                  *)
SameRefs(members, compiled) == members = compiled

(* CompileActiveExperienceGeneration, for the process that owes it.          *)
Compile(r, compiledAt) ==
    LET compiled == Compilable(compiledAt) IN
    /\ r \in owed
    /\ owed' = owed \ {r}
    /\ lost' = {}
    /\ IF generation.number > 0 /\ SameRefs(generation.members, compiled)
       THEN UNCHANGED generation
       ELSE generation' = [number |-> generation.number + 1, members |-> compiled]
    /\ UNCHANGED <<now, state, transitions, tokens>>

(* ExperienceLearningPartialDeliveryError, or the end of the process.        *)
CompileFails(r) ==
    /\ r \in owed
    /\ owed' = owed \ {r} /\ lost' = lost \cup {r}
    /\ UNCHANGED <<now, state, transitions, tokens, generation>>

LifecycleTick ==
    /\ now < MaxTime /\ now' = now + 1
    /\ UNCHANGED <<state, transitions, tokens, owed, lost, generation>>

LifecycleNext ==
    \/ \E e \in Experiences, action \in Actions : Prepare(e, action)
    \/ \E t \in tokens, at \in 0 .. now : Apply(t, at)
    \/ \E r \in owed : \/ \E compiledAt \in r.at .. now : Compile(r, compiledAt)
                       \/ CompileFails(r)
    \/ LifecycleTick

LifecycleSpec == LifecycleInit /\ [][LifecycleNext]_lifecycleVars

-----------------------------------------------------------------------------
(* A token confirms one transition, however often and from however many      *)
(* windows it is sent: nothing records that it was used, the states it leads *)
(* through must never return (docs/contracts/mcp-v1.md, "single-use action   *)
(* token").                                                                  *)
TokenUsedOnce ==
    \A r, q \in transitions :
        r.experience = q.experience /\ r.action = q.action /\ r.issued = q.issued => r = q

(* The active generation differs from the experiences that are active and    *)
(* unexpired only by those whose own transition has a compilation still to   *)
(* come, or one that failed and that no later compilation made up for.       *)
GenerationKeepsUp ==
    \A e \in Experiences :
        \/ \E r \in owed \cup lost : r.experience = e
        \/ (Rebuilt(e) = "active" /\ Expires[e] > now) <=>
             (e \in generation.members /\ Expires[e] > now)

(* Confirmations and compilations, in any order, lose and repeat nothing.     *)
LifecycleSound == TokenUsedOnce /\ GenerationKeepsUp
=============================================================================
