-------------------------- MODULE Experience_proofs --------------------------
(***************************************************************************)
(* What a user decides about experiences, for any number of experiences,    *)
(* proposals, previews and processes, any expiry times and any lifetime of a *)
(* token: a token is used once, a generation lags only behind a compilation  *)
(* that is owed, and an approval respects the user's last word.  And how a    *)
(* pack of them is delivered, for any packs, sessions and turns and any      *)
(* failures: every application and every link is grounded in a bound receipt. *)
(***************************************************************************)
EXTENDS ExperienceLifecycle, ExperienceReview, MissionPack, FiniteSetTheorems,
        WellFoundedInduction, TLAPS

-----------------------------------------------------------------------------
(* The lifecycle. *)

(* What happened to an experience, by the state it is in: no state returns,  *)
(* so there is one transition for each action that was confirmed.            *)
Activated(r) == r.action = "activate" /\ r.to = "active"
Paused(r) == r.action = "pause" /\ r.to = "paused"

Story(e) ==
    \/ state[e] = "approved" /\ Of(e) = {}
    \/ state[e] = "active" /\ \E r \in Transition : Of(e) = {r} /\ Activated(r)
    \/ state[e] = "paused" /\ \E r, q \in Transition :
          Of(e) = {r, q} /\ Activated(r) /\ Paused(q) /\ r.at < q.at

(* Whoever is behind with an experience.                                     *)
Behind(e) == \E r \in owed \cup lost : r.experience = e

KeptUp(e) ==
    Expires[e] > now => (state[e] = "active" <=> e \in generation.members)

LifecycleInv ==
    /\ LifecycleTypeOK
    /\ \A e \in Experiences : Story(e) /\ (Behind(e) \/ KeptUp(e))

(* The state that is projected is the one the transitions give.               *)
LEMMA ProjectionIsRebuilt ==
    ASSUME LifecycleInv, NEW e \in Experiences
    PROVE  Rebuilt(e) = state[e]
<1>0. Story(e)
  BY DEF LifecycleInv
<1>1. CASE Of(e) = {}
  BY <1>0, <1>1 DEF Story, Rebuilt
<1>2. ASSUME NEW r \in Transition, Of(e) = {r}, Activated(r), state[e] = "active"
      PROVE  Rebuilt(e) = state[e]
  <2>1. \A q \in Of(e) : q.at <= r.at
    BY <1>2 DEF Transition
  <2>2. (CHOOSE p \in Of(e) : \A q \in Of(e) : q.at <= p.at) = r
    BY <1>2, <2>1
  <2> QED
    BY <1>2, <2>2 DEF Rebuilt, Activated
<1>3. ASSUME NEW r \in Transition, NEW q \in Transition, Of(e) = {r, q},
             Paused(q), r.at < q.at, state[e] = "paused"
      PROVE  Rebuilt(e) = state[e]
  <2>1. \A p \in Of(e) : (\A o \in Of(e) : o.at <= p.at) <=> p = q
    BY <1>3 DEF Transition
  <2>2. (CHOOSE p \in Of(e) : \A o \in Of(e) : o.at <= p.at) = q
    <3>1. q \in Of(e)
      BY <1>3
    <3> QED
      BY <2>1, <3>1
  <2> QED
    BY <1>3, <2>2 DEF Rebuilt, Paused
<1> QED
  BY <1>0, <1>1, <1>2, <1>3 DEF Story

-----------------------------------------------------------------------------
(* Steps. *)

(* A confirmation: its experience goes on by one action.                     *)
LEMMA ApplyEffect ==
    ASSUME LifecycleInv, NEW t \in tokens, NEW at \in 0 .. now, Apply(t, at),
           NEW e, e = t.experience
    PROVE  /\ e \in Experiences /\ UNCHANGED <<now, lost, generation, tokens>>
           /\ \E r \in Transition :
                /\ r.experience = e /\ r.at = at /\ r.action = t.action
                /\ r.to \in ToState(t.action, state[e])
                /\ \A q \in Of(e) : q.at < at
                /\ state' = [state EXCEPT ![e] = r.to]
                /\ transitions' = transitions \cup {r}
                /\ owed' = owed \cup {r}
<1>1. /\ t \in [experience : Experiences, action : Actions, from : States, issued : Nat]
      /\ at \in Nat /\ transitions \subseteq Transition
  BY DEF LifecycleInv, LifecycleTypeOK
<1>2. PICK to \in ToState(t.action, t.from) :
        LET r == [experience |-> t.experience, action |-> t.action,
                  issued |-> t.issued, at |-> at, to |-> to]
        IN  /\ state' = [state EXCEPT ![t.experience] = to]
            /\ transitions' = transitions \cup {r}
            /\ owed' = owed \cup {r}
  BY DEF Apply
<1>3. PICK r : r = [experience |-> t.experience, action |-> t.action,
                    issued |-> t.issued, at |-> at, to |-> to]
  OBVIOUS
<1>4. to \in States
  BY DEF ToState, States
<1>5. r \in Transition
  BY <1>1, <1>3, <1>4 DEF Transition
<1>6. /\ state[e] = t.from /\ UNCHANGED <<now, lost, generation, tokens>>
      /\ \A q \in Of(e) : at > q.at
  BY DEF Apply
<1>7. \A q \in Of(e) : q.at < at
  BY <1>1, <1>6 DEF Of, Transition
<1>8. /\ r.experience = e /\ r.at = at /\ r.action = t.action
      /\ r.to \in ToState(t.action, state[e])
      /\ state' = [state EXCEPT ![e] = r.to]
      /\ transitions' = transitions \cup {r} /\ owed' = owed \cup {r}
  BY <1>2, <1>3, <1>6
<1> QED
  BY <1>1, <1>5, <1>6, <1>7, <1>8

LEMMA ApplyKeeps ==
    ASSUME LifecycleInv, NEW t \in tokens, NEW at \in 0 .. now, Apply(t, at)
    PROVE  LifecycleInv'
<1>1. PICK e : e = t.experience
  OBVIOUS
<1>2. /\ e \in Experiences /\ UNCHANGED <<now, lost, generation, tokens>>
      /\ \E r \in Transition :
           /\ r.experience = e /\ r.at = at /\ r.action = t.action
           /\ r.to \in ToState(t.action, state[e])
           /\ \A q \in Of(e) : q.at < at
           /\ state' = [state EXCEPT ![e] = r.to]
           /\ transitions' = transitions \cup {r}
           /\ owed' = owed \cup {r}
  BY <1>1, ApplyEffect
<1>3. PICK r \in Transition :
           /\ r.experience = e /\ r.at = at /\ r.action = t.action
           /\ r.to \in ToState(t.action, state[e])
           /\ \A q \in Of(e) : q.at < at
           /\ state' = [state EXCEPT ![e] = r.to]
           /\ transitions' = transitions \cup {r}
           /\ owed' = owed \cup {r}
  BY <1>2
<1>4. LifecycleTypeOK'
  <2>1. r.to \in States
    BY DEF Transition
  <2> QED
    BY <1>2, <1>3, <2>1 DEF LifecycleInv, LifecycleTypeOK
<1>5. state'[e] = r.to /\ \A d \in Experiences \ {e} : state'[d] = state[d]
  BY <1>2, <1>3 DEF LifecycleInv, LifecycleTypeOK
<1>6. Of(e)' = Of(e) \cup {r} /\ \A d \in Experiences \ {e} : Of(d)' = Of(d)
  BY <1>3 DEF Of
<1>7. Story(e)'
  <2>1. \/ state[e] = "approved" /\ Activated(r)
        \/ state[e] = "active" /\ Paused(r)
    BY <1>3 DEF ToState, Activated, Paused
  <2>2. CASE state[e] = "approved" /\ Activated(r)
    BY <1>2, <1>5, <1>6, <2>2 DEF LifecycleInv, Story, Activated
  <2>3. CASE state[e] = "active" /\ Paused(r)
    <3>1. PICK p \in Transition : Of(e) = {p} /\ Activated(p)
      BY <1>2, <2>3 DEF LifecycleInv, Story
    <3>2. p.at < r.at
      BY <1>3, <3>1
    <3> QED
      BY <1>3, <1>5, <1>6, <2>3, <3>1, <3>2 DEF Story, Paused
  <2> QED
    BY <2>1, <2>2, <2>3
<1>8. \A d \in Experiences \ {e} : Story(d)'
  BY <1>5, <1>6 DEF LifecycleInv, Story
<1>9. Behind(e)'
  BY <1>3 DEF Behind
<1>10. ASSUME NEW d \in Experiences \ {e} PROVE Behind(d)' \/ KeptUp(d)'
  BY <1>2, <1>3, <1>5 DEF LifecycleInv, Behind, KeptUp
<1> QED
  BY <1>2, <1>4, <1>7, <1>8, <1>9, <1>10 DEF LifecycleInv

(* A compilation at a time that is past makes up for everybody.              *)
LEMMA CompileKeeps ==
    ASSUME LifecycleAssumption, LifecycleInv, NEW r \in owed, NEW c \in r.at .. now, Compile(r, c)
    PROVE  LifecycleInv'
<1> USE DEF LifecycleInv
<1>1. /\ c <= now /\ c \in Nat /\ now \in Nat /\ \A e \in Experiences : Expires[e] \in Nat
  BY DEF LifecycleTypeOK, Transition, LifecycleAssumption
<1>2. \A e \in Experiences : Rebuilt(e) = state[e]
  BY ProjectionIsRebuilt
<1>3. UNCHANGED <<now, state, transitions, tokens>> /\ owed' = owed \ {r} /\ lost' = {}
  BY DEF Compile
<1>4. generation'.members = Compilable(c) /\ generation' \in [number : Nat, members : SUBSET Experiences]
  BY DEF Compile, SameRefs, Compilable, LifecycleTypeOK
<1>5. \A e \in Experiences : KeptUp(e)'
  BY <1>1, <1>2, <1>3, <1>4 DEF KeptUp, Compilable
<1>6. \A e \in Experiences : Story(e)'
  BY <1>3 DEF Story, Of
<1>7. LifecycleTypeOK'
  BY <1>3, <1>4 DEF LifecycleTypeOK
<1> QED
  BY <1>5, <1>6, <1>7

LEMMA LifecycleStep ==
    ASSUME LifecycleAssumption, LifecycleInv, [LifecycleNext]_lifecycleVars
    PROVE  LifecycleInv'
<1> USE DEF LifecycleInv
<1>1. ASSUME NEW e \in Experiences, NEW action \in Actions, Prepare(e, action)
      PROVE  LifecycleInv'
  BY <1>1 DEF Prepare, LifecycleTypeOK, Story, Of, Behind, KeptUp
<1>2. ASSUME NEW r \in owed, CompileFails(r) PROVE LifecycleInv'
  <2>1. owed' \cup lost' = owed \cup lost /\ UNCHANGED <<now, state, transitions, tokens, generation>>
    BY <1>2 DEF CompileFails
  <2>2. \A e \in Experiences : Story(e)' /\ (Behind(e)' \/ KeptUp(e)')
    BY <2>1 DEF Story, Of, Behind, KeptUp
  <2> QED
    BY <1>2, <2>1, <2>2 DEF CompileFails, LifecycleTypeOK
<1>3. CASE LifecycleTick
  <2>1. /\ now' = now + 1 /\ now \in Nat
        /\ UNCHANGED <<state, transitions, tokens, owed, lost, generation>>
    BY <1>3 DEF LifecycleTick, LifecycleTypeOK
  <2>2. \A e \in Experiences : Expires[e] \in Nat
    BY DEF LifecycleAssumption
  <2>3. \A e \in Experiences : Story(e)' /\ (Behind(e)' \/ KeptUp(e)')
    BY <2>1, <2>2 DEF Story, Of, Behind, KeptUp
  <2> QED
    BY <2>1, <2>3 DEF LifecycleTypeOK
<1>4. CASE UNCHANGED lifecycleVars
  BY <1>4 DEF lifecycleVars, LifecycleTypeOK, Story, Of, Behind, KeptUp
<1> QED
  BY <1>1, <1>2, <1>3, <1>4, ApplyKeeps, CompileKeeps DEF LifecycleNext

-----------------------------------------------------------------------------
(* Theorems. *)

(* The inductive invariant of the lifecycle.                                 *)
THEOREM LifecycleInvariant ==
    ASSUME LifecycleAssumption PROVE LifecycleSpec => []LifecycleInv
<1>1. LifecycleInit => LifecycleInv
  BY DEF LifecycleInit, LifecycleInv, LifecycleTypeOK, States, Story, Of, Behind, KeptUp
<1>2. LifecycleInv /\ [LifecycleNext]_lifecycleVars => LifecycleInv'
  BY LifecycleStep
<1> QED
  BY <1>1, <1>2, PTL DEF LifecycleSpec

(* However often a token is sent, and whatever fails after the transition,    *)
(* nothing happens twice and no change of an experience is forgotten.        *)
THEOREM LifecycleIsSound ==
    ASSUME LifecycleAssumption PROVE LifecycleSpec => []LifecycleSound
<1>1. ASSUME LifecycleInv PROVE TokenUsedOnce
  <2> SUFFICES ASSUME NEW r \in transitions, NEW q \in transitions,
                      r.experience = q.experience, r.action = q.action
               PROVE  r = q
    BY DEF TokenUsedOnce
  <2>1. PICK e \in Experiences : r \in Of(e) /\ q \in Of(e)
    BY <1>1 DEF LifecycleInv, LifecycleTypeOK, Transition, Of
  <2> QED
    BY <1>1, <2>1 DEF LifecycleInv, Story, Activated, Paused
<1>2. ASSUME LifecycleInv PROVE GenerationKeepsUp
  BY <1>2, ProjectionIsRebuilt DEF LifecycleInv, GenerationKeepsUp, Behind, KeptUp
<1>3. LifecycleInv => LifecycleSound
  BY <1>1, <1>2 DEF LifecycleSound
<1> QED
  BY <1>3, LifecycleInvariant, PTL

-----------------------------------------------------------------------------
(* The review. *)

(* A finite set that is not empty has a latest element, whatever the order.   *)
(* The sets of what is later than an element are ordered by inclusion, and a  *)
(* least one of them is empty.                                               *)
Later(S, R, x) == {y \in S : <<y, x>> \in R}

LEMMA FiniteHasLatest ==
    ASSUME NEW S, IsFiniteSet(S), S # {}, NEW R,
           \A x \in S : <<x, x>> \notin R,
           \A x, y, z \in S : <<x, y>> \in R /\ <<y, z>> \in R => <<x, z>> \in R
    PROVE  \E x \in S : \A y \in S : <<y, x>> \notin R
<1> DEFINE family == {Later(S, R, x) : x \in S}
<1>1. family \subseteq FiniteSubsetsOf(S) /\ family # {}
  <2>1. \A x \in S : Later(S, R, x) \in SUBSET S
    BY DEF Later
  <2>2. \A T \in SUBSET S : IsFiniteSet(T)
    BY FS_Subset
  <2> QED
    BY <2>1, <2>2 DEF FiniteSubsetsOf
<1>2. \E L \in family : \A K \in family : <<K, L>> \notin StrictSubsetOrdering(S)
  <2> HIDE DEF family
  <2>1. IsWellFoundedOn(StrictSubsetOrdering(S), FiniteSubsetsOf(S))
    BY FS_StrictSubsetOrderingWellFounded
  <2> QED
    BY <1>1, <2>1, WFMin
<1>3. PICK x \in S : \A y \in S : <<Later(S, R, y), Later(S, R, x)>> \notin StrictSubsetOrdering(S)
  BY <1>2
<1>4. ASSUME NEW y \in S, <<y, x>> \in R PROVE FALSE
  <2>1. Later(S, R, y) \subseteq Later(S, R, x)
    BY <1>4 DEF Later
  <2>2. y \in Later(S, R, x) /\ y \notin Later(S, R, y)
    BY <1>4 DEF Later
  <2>3. Later(S, R, y) \in SUBSET S /\ Later(S, R, x) \in SUBSET S
    BY DEF Later
  <2>4. <<Later(S, R, y), Later(S, R, x)>> \in StrictSubsetOrdering(S)
    BY <2>1, <2>2, <2>3 DEF StrictSubsetOrdering
  <2> QED
    BY <1>3, <2>4
<1> QED
  BY <1>4

(* The order of the decisions has a latest one for each proposal that has any. *)
LEMMA NewerIsAnOrder ==
    ASSUME ReviewAssumption
    PROVE  /\ \A a \in Decisions : ~Newer(a, a)
           /\ \A a, b, c \in Decisions : Newer(a, b) /\ Newer(b, c) => Newer(a, c)
<1>1. \A a \in Decisions : Rank(a) \in Nat /\ a.occurred \in Nat
  BY DEF ReviewAssumption, Decisions
<1> QED
  BY <1>1 DEF Newer

LEMMA LatestExists ==
    ASSUME ReviewAssumption, reviews \subseteq Decisions, IsFiniteSet(reviews),
           NEW a \in reviews
    PROVE  \E l \in LatestOf(a.proposal) : ~Newer(a, l)
<1> DEFINE S == {b \in reviews : b.proposal = a.proposal}
           R == {p \in Decisions \X Decisions : Newer(p[1], p[2])}
<1>1. S \subseteq Decisions /\ S # {} /\ a \in S
  OBVIOUS
<1>2. IsFiniteSet(S)
  <2>1. S \in SUBSET reviews
    OBVIOUS
  <2> QED
    BY <2>1, FS_Subset
<1>3. \A x, y \in Decisions : <<x, y>> \in R <=> Newer(x, y)
  OBVIOUS
<1> HIDE DEF R
<1>4. /\ \A x \in S : <<x, x>> \notin R
      /\ \A x, y, z \in S : <<x, y>> \in R /\ <<y, z>> \in R => <<x, z>> \in R
  BY <1>1, <1>3, NewerIsAnOrder
<1>5. PICK l \in S : \A y \in S : <<y, l>> \notin R
  <2> HIDE DEF S
  <2> QED
    BY <1>1, <1>2, <1>4, FiniteHasLatest
<1> QED
  BY <1>1, <1>3, <1>5 DEF LatestOf, IsLatest

(* An approved candidate is that of its experience's proposal.               *)
ReviewInv ==
    /\ ReviewTypeOK
    /\ IsFiniteSet(reviews)
    /\ \A c \in Candidates : Approved(c) => CandidateOf[experience[c].proposal] = c
    /\ ApprovalRespectsReview

(* What a proposal's decisions allow: nothing blocks its approval any more.    *)
LEMMA UnblockedIsRespected ==
    ASSUME ReviewAssumption, ReviewInv, NEW t \in previews, ~Blocks(t),
           NEW a \in reviews, a.proposal = t.proposal
    PROVE  /\ a.occurred < t.issued
           /\ a.disposition = "reject" => \E b \in reviews : b.proposal = a.proposal /\ Newer(b, a)
<1>1. PICK l \in LatestOf(a.proposal) : ~Newer(a, l)
  BY LatestExists DEF ReviewInv, ReviewTypeOK
<1>2. a \in Decisions /\ l \in Decisions /\ t.issued \in Nat
  BY DEF LatestOf, ReviewInv, ReviewTypeOK
<1>3. l.occurred < t.issued
  BY <1>1, <1>2 DEF Blocks, Decisions
<1>4. a.occurred <= l.occurred
  BY <1>1, <1>2 DEF Newer, Decisions
<1>5. a.disposition = "reject" => a \notin LatestOf(a.proposal)
  BY DEF Blocks
<1> QED
  BY <1>2, <1>3, <1>4, <1>5 DEF LatestOf, IsLatest, Decisions

LEMMA ApproveKeeps ==
    ASSUME ReviewAssumption, ReviewInv, NEW t \in previews, NEW at \in Timely(t), Approve(t, at)
    PROVE  ReviewInv'
<1>1. PICK k, x : k = CandidateOf[t.proposal] /\
                  x = [proposal |-> t.proposal, issued |-> t.issued, at |-> at]
  OBVIOUS
<1>2. /\ t.proposal \in Proposals /\ t.issued \in 0 .. MaxClock /\ at \in 0 .. MaxClock
      /\ k \in Candidates
  BY <1>1 DEF ReviewInv, ReviewTypeOK, Timely, ReviewAssumption, Candidates
<1>3. /\ ~Blocks(t) /\ experience' = [experience EXCEPT ![k] = x]
      /\ UNCHANGED <<clock, reviews, listed, previews>>
  BY <1>1 DEF Approve
<1>4. experience'[k] = x /\ \A c \in Candidates \ {k} : experience'[c] = experience[c]
  BY <1>2, <1>3 DEF ReviewInv, ReviewTypeOK
<1>5. ReviewTypeOK'
  BY <1>1, <1>2, <1>3 DEF ReviewInv, ReviewTypeOK
<1>6. \A c \in Candidates : Approved(c)' => CandidateOf[experience'[c].proposal] = c
  BY <1>1, <1>4 DEF ReviewInv, Approved
<1>7. ApprovalRespectsReview'
  <2> SUFFICES ASSUME NEW c \in Candidates, Approved(c)', NEW a \in reviews,
                      a.proposal = experience'[c].proposal
               PROVE  /\ a.occurred < experience'[c].issued
                      /\ a.disposition = "reject" =>
                           \E b \in reviews : b.proposal = a.proposal /\ Newer(b, a)
    BY <1>3 DEF ApprovalRespectsReview, Newer
  <2>1. CASE c = k
    <3>1. a.proposal = t.proposal /\ experience'[c].issued = t.issued
      BY <1>1, <1>4, <2>1
    <3> QED
      BY <1>3, <3>1, UnblockedIsRespected
  <2>2. CASE c # k
    BY <1>4, <2>2 DEF ReviewInv, ApprovalRespectsReview, Approved
  <2> QED
    BY <2>1, <2>2
<1> QED
  BY <1>3, <1>5, <1>6, <1>7 DEF ReviewInv, Candidates

(* A decision on an approved candidate is refused.                            *)
LEMMA RecordKeeps ==
    ASSUME ReviewAssumption, ReviewInv, NEW t \in previews, NEW at \in Timely(t),
           NEW disposition \in Dispositions, RecordReview(t, disposition, at)
    PROVE  ReviewInv'
<1>1. PICK r : r = ActionOf(t, disposition, at)
  OBVIOUS
<1>2. /\ reviews' = reviews \cup {r} /\ UNCHANGED <<clock, experience, listed, previews>>
      /\ ~Approved(CandidateOf[r.proposal])
  BY <1>1 DEF RecordReview, Reviewable, ActionOf
<1>3. r \in Decisions
  BY <1>1 DEF ActionOf, Decisions, Timely, ReviewInv, ReviewTypeOK, ReviewAssumption
<1>4. IsFiniteSet(reviews')
  BY <1>2, FS_AddElement DEF ReviewInv
<1>5. ReviewTypeOK'
  BY <1>2, <1>3 DEF ReviewInv, ReviewTypeOK
<1>6. ApprovalRespectsReview'
  <2> SUFFICES ASSUME NEW c \in Candidates, Approved(c), NEW a \in reviews',
                      a.proposal = experience[c].proposal
               PROVE  /\ a.occurred < experience[c].issued
                      /\ a.disposition = "reject" =>
                           \E b \in reviews' : b.proposal = a.proposal /\ Newer(b, a)
    BY <1>2 DEF ApprovalRespectsReview, Newer, Approved
  <2>1. a \in reviews
    BY <1>2 DEF ReviewInv
  <2> QED
    BY <1>2, <2>1 DEF ReviewInv, ApprovalRespectsReview
<1> QED
  BY <1>2, <1>4, <1>5, <1>6 DEF ReviewInv, Approved

LEMMA ReviewStep ==
    ASSUME ReviewAssumption, ReviewInv, [ReviewNext]_reviewVars
    PROVE  ReviewInv'
<1>1. ASSUME ReviewTypeOK', UNCHANGED <<reviews, experience>> PROVE ReviewInv'
  BY <1>1 DEF ReviewInv, Approved, ApprovalRespectsReview, Newer
<1>2. ASSUME NEW includeDeferred \in BOOLEAN, ListReviews(includeDeferred) PROVE ReviewInv'
  BY <1>1, <1>2 DEF ListReviews, Pending, ReviewInv, ReviewTypeOK
<1>3. ASSUME NEW p \in Proposals, IssuePreview(p) PROVE ReviewInv'
  BY <1>1, <1>3 DEF IssuePreview, ReviewInv, ReviewTypeOK
<1>4. CASE ReviewTick
  BY <1>1, <1>4 DEF ReviewTick, ReviewInv, ReviewTypeOK, ReviewAssumption
<1>5. CASE UNCHANGED reviewVars
  BY <1>1, <1>5 DEF reviewVars, ReviewInv, ReviewTypeOK
<1> QED
  BY <1>2, <1>3, <1>4, <1>5, ApproveKeeps, RecordKeeps DEF ReviewNext

(* The inductive invariant of the review.                                    *)
THEOREM ReviewInvariant ==
    ASSUME ReviewAssumption PROVE ReviewSpec => []ReviewInv
<1>1. ReviewInit => ReviewInv
  BY FS_EmptySet DEF ReviewAssumption, ReviewInit, ReviewInv, ReviewTypeOK, Approved, ApprovalRespectsReview
<1>2. ReviewInv /\ [ReviewNext]_reviewVars => ReviewInv'
  BY ReviewStep
<1> QED
  BY <1>1, <1>2, PTL DEF ReviewSpec

(* Nobody's experience comes from a preview that a later decision outran, nor  *)
(* from a proposal that was rejected last: the check of the approval and the  *)
(* one of the decision suffice, though they are of different transactions.    *)
THEOREM ApprovalsRespectReviews ==
    ASSUME ReviewAssumption PROVE ReviewSpec => []ApprovalRespectsReview
<1>1. ReviewInv => ApprovalRespectsReview
  BY DEF ReviewInv
<1> QED
  BY <1>1, ReviewInvariant, PTL

-----------------------------------------------------------------------------
(* The deliveries. *)

(* The inductive invariant.  A receipt that is bound never changes again, so   *)
(* what the poll has listed as bound still is when it comes to it; and turns   *)
(* stay, so a session that a probe has found worked within the window,        *)
(* whenever it is bound.                                                     *)
Packs == [generation : Nat, refs : SUBSET Refs, task : Tasks]
Receipts == [accepted : Nat, state : {"pending", "bound", "expired", "ambiguous"},
             session : SessionKeys \cup {NoSession}]
Rounds == [phase : {"idle", "reconcile", "resolve", "materialize", "insert", "link"},
           observed : Nat, queue : SUBSET Packs, pack : Packs \cup {NoPack},
           probed : SUBSET SessionKeys, refs : SUBSET Refs,
           made : [experience : Refs, session : SessionKeys, delivered : Nat] \cup {NoApplication}]

DeliveryTypeOK ==
    /\ time \in Nat /\ active \subseteq Refs
    /\ compiled \in [number : Nat, members : SUBSET Refs]
    /\ DOMAIN previewed \subseteq Packs
    /\ DOMAIN receipts \subseteq Packs /\ \A p \in DOMAIN receipts : receipts[p] \in Receipts
    /\ worked \subseteq [session : SessionKeys, at : Nat]
    /\ poller \in Rounds

Worked(p, session) ==
    session \in SessionKeys /\ \E turn \in worked : turn.session = session /\ Within(p, turn)

Bound == {p \in DOMAIN receipts : receipts[p].state = "bound"}

RoundSound(r) ==
    /\ r.phase = "idle" => r.queue = {}
    /\ r.phase \in {"reconcile", "resolve"} => r.queue \subseteq DOMAIN receipts
    /\ r.phase = "resolve" => r.pack \in DOMAIN receipts /\ \A s \in r.probed : Worked(r.pack, s)
    /\ r.phase \in {"materialize", "insert", "link"} => r.queue \subseteq Bound
    /\ r.phase \in {"insert", "link"} => r.pack \in Bound /\ r.refs \subseteq r.pack.refs

BindingsWorked == \A p \in Bound : Worked(p, receipts[p].session)

LinksBound ==
    \A d \in DOMAIN progress : /\ d[1] \in DOMAIN receipts
                               /\ progress[d] # NoApplication => d[1] \in Bound

DeliveryInv ==
    DeliveryTypeOK /\ RoundSound(poller) /\ BindingsWorked /\ LinksBound /\ DeliveriesGrounded

(* What a transaction leaves of what there was.                              *)
Kept ==
    /\ \A p \in DOMAIN receipts :
            /\ p \in DOMAIN receipts' /\ receipts'[p].accepted = receipts[p].accepted
            /\ receipts[p].state = "bound" => receipts'[p] = receipts[p]
    /\ worked \subseteq worked' /\ applications \subseteq applications'

-----------------------------------------------------------------------------
LEMMA WorkedStands ==
    ASSUME Kept, NEW p \in DOMAIN receipts, NEW session, Worked(p, session)
    PROVE  Worked(p, session)'
BY DEF Kept, Worked, Within, WindowEnd

LEMMA RoundStands ==
    ASSUME Kept, NEW r, RoundSound(r)
    PROVE  RoundSound(r)'
<1>1. Bound \subseteq Bound'
  BY DEF Kept, Bound
<1>2. \A p \in DOMAIN receipts : \A s : Worked(p, s) => Worked(p, s)'
  BY WorkedStands
<1> QED
  BY <1>1, <1>2 DEF RoundSound, Kept

LEMMA GroundedStands ==
    ASSUME Kept, NEW a, Grounded(a)
    PROVE  Grounded(a)'
<1>1. PICK p \in DOMAIN receipts :
        /\ receipts[p].state = "bound" /\ receipts[p].session = a.session
        /\ a.experience \in p.refs /\ a.delivered = receipts[p].accepted
        /\ \E turn \in worked : turn.session = a.session /\ Within(p, turn)
  BY DEF Grounded
<1>2. p \in DOMAIN receipts' /\ receipts'[p] = receipts[p] /\ worked \subseteq worked'
  BY <1>1 DEF Kept
<1> QED
  BY <1>1, <1>2 DEF Grounded, Within, WindowEnd

(* The round goes on, and the store keeps what it had.                       *)
LEMMA StoreGoesOn ==
    ASSUME DeliveryInv, Kept, DeliveryTypeOK', NEW r, RoundSound(r), poller' = r,
           BindingsWorked', \A a \in applications' \ applications : Grounded(a)',
           \A d \in DOMAIN progress' :
                \/ d \in DOMAIN progress /\ progress'[d] = progress[d]
                \/ /\ d[1] \in DOMAIN receipts'
                   /\ progress'[d] # NoApplication =>
                        /\ d[1] \in Bound /\ progress'[d] \in applications'
                        /\ progress'[d].experience = d[2]
                        /\ progress'[d].session = receipts[d[1]].session
    PROVE  DeliveryInv'
<1>1. RoundSound(poller)'
  <2>1. RoundSound(r)'
    BY RoundStands
  <2> QED
    BY <2>1 DEF RoundSound
<1>2. \A a \in applications' : Grounded(a)'
  BY GroundedStands DEF DeliveryInv, DeliveriesGrounded
<1>3. ASSUME NEW d \in DOMAIN progress'
      PROVE  /\ d[1] \in DOMAIN receipts'
             /\ progress'[d] # NoApplication =>
                    /\ d[1] \in Bound' /\ progress'[d] \in applications'
                    /\ progress'[d].experience = d[2]
                    /\ progress'[d].session = receipts'[d[1]].session
  <2>1. CASE d \in DOMAIN progress /\ progress'[d] = progress[d]
    <3>1. /\ d[1] \in DOMAIN receipts
          /\ progress[d] # NoApplication =>
                    /\ d[1] \in Bound /\ progress[d] \in applications
                    /\ progress[d].experience = d[2] /\ progress[d].session = receipts[d[1]].session
      BY <2>1 DEF DeliveryInv, LinksBound, DeliveriesGrounded
    <3> QED
      BY <2>1, <3>1 DEF Kept, Bound
  <2>2. CASE /\ d[1] \in DOMAIN receipts'
             /\ progress'[d] # NoApplication =>
                    /\ d[1] \in Bound /\ progress'[d] \in applications'
                    /\ progress'[d].experience = d[2]
                    /\ progress'[d].session = receipts[d[1]].session
    BY <2>2 DEF Kept, Bound
  <2> QED
    BY <1>3, <2>1, <2>2
<1> QED
  BY <1>1, <1>2, <1>3 DEF DeliveryInv, LinksBound, DeliveriesGrounded

(* The round goes on, and the store is as it was.                            *)
LEMMA RoundGoesOn ==
    ASSUME DeliveryInv, NEW r \in Rounds, RoundSound(r), poller' = r,
           UNCHANGED <<time, registryVars, previewed, deliveryVars, worked>>
    PROVE  DeliveryInv'
<1>1. UNCHANGED <<time, active, compiled, previewed, receipts, progress, applications, worked>>
  BY DEF registryVars, deliveryVars
<1>2. Kept /\ DeliveryTypeOK' /\ BindingsWorked'
  BY <1>1 DEF Kept, DeliveryInv, DeliveryTypeOK, BindingsWorked, Bound, Worked, Within, WindowEnd
<1> QED
  BY <1>1, <1>2, StoreGoesOn

LEMMA DeliveryInitially ==
    ASSUME MissionPackInit
    PROVE  DeliveryInv
<1>1. DeliveryTypeOK
  BY DEF MissionPackInit, Waiting, DeliveryTypeOK, Rounds
<1>2. RoundSound(poller) /\ BindingsWorked /\ LinksBound /\ DeliveriesGrounded
  BY DEF MissionPackInit, Waiting, RoundSound, BindingsWorked, Bound, LinksBound, DeliveriesGrounded
<1> QED
  BY <1>1, <1>2 DEF DeliveryInv

(* The registry, the previews and the clock.                                 *)
LEMMA RegistrySound ==
    ASSUME DeliveryInv, UNCHANGED <<deliveryVars, worked, poller>>, DeliveryTypeOK'
    PROVE  DeliveryInv'
<1>1. UNCHANGED <<receipts, progress, applications, worked>>
  BY DEF deliveryVars
<1>2. Kept /\ BindingsWorked'
  BY <1>1 DEF Kept, DeliveryInv, BindingsWorked, Bound, Worked, Within, WindowEnd
<1>3. PICK r : r = poller
  OBVIOUS
<1>4. RoundSound(r) /\ poller' = r
  BY <1>3 DEF DeliveryInv
<1> QED
  BY <1>1, <1>2, <1>4, StoreGoesOn

LEMMA AcceptSound ==
    ASSUME MissionPackAssumption, DeliveryInv, NEW p \in DOMAIN previewed, NEW at \in 0 .. time,
           Accept(p, at)
    PROVE  DeliveryInv'
<1>1. p \in Packs /\ at \in Nat /\ p \notin DOMAIN receipts
  BY DEF DeliveryInv, DeliveryTypeOK, Accept
<1>2. PICK r : r = [accepted |-> at, state |-> "pending", session |-> NoSession]
  OBVIOUS
<1>3. r \in Receipts /\ r.state = "pending"
  BY <1>1, <1>2 DEF Receipts
<1>4. receipts' = [q \in DOMAIN receipts \cup {p} |-> IF q = p THEN r ELSE receipts[q]]
  BY <1>2 DEF Accept
<1>5. /\ DOMAIN receipts' = DOMAIN receipts \cup {p} /\ receipts'[p] = r
      /\ \A q \in DOMAIN receipts : receipts'[q] = receipts[q]
  BY <1>1, <1>4
<1>6. UNCHANGED <<time, active, compiled, previewed, applications, worked, poller>>
  BY DEF Accept, registryVars
<1>7. Kept /\ DeliveryTypeOK'
  BY <1>1, <1>3, <1>5, <1>6 DEF Kept, DeliveryInv, DeliveryTypeOK
<1>8. BindingsWorked'
  <2>1. Bound' = Bound
    BY <1>1, <1>3, <1>5 DEF Bound
  <2>2. \A q \in Bound : receipts'[q] = receipts[q] /\ Worked(q, receipts[q].session)
    BY <1>5 DEF Bound, DeliveryInv, BindingsWorked
  <2> QED
    BY <1>6, <2>1, <2>2 DEF BindingsWorked, Worked, Within, WindowEnd
<1>9. \A d \in DOMAIN progress' :
        \/ d \in DOMAIN progress /\ progress'[d] = progress[d]
        \/ d[1] = p /\ progress'[d] = NoApplication
  BY DEF Accept, WithProgress
<1>10. PICK w : w = poller
  OBVIOUS
<1>11. RoundSound(w) /\ poller' = w
  BY <1>6, <1>10 DEF DeliveryInv
<1> QED
  BY <1>5, <1>6, <1>7, <1>8, <1>9, <1>11, StoreGoesOn

LEMMA ImportTurnSound ==
    ASSUME DeliveryInv, NEW session \in SessionKeys, NEW at \in 0 .. time, ImportTurn(session, at)
    PROVE  DeliveryInv'
<1>1. worked' = worked \cup {[session |-> session, at |-> at]}
      /\ UNCHANGED <<time, active, compiled, previewed, receipts, progress, applications, poller>>
  BY DEF ImportTurn, registryVars, deliveryVars
<1>2. at \in Nat
  BY DEF DeliveryInv, DeliveryTypeOK
<1>3. Kept /\ DeliveryTypeOK'
  BY <1>1, <1>2 DEF Kept, DeliveryInv, DeliveryTypeOK
<1>4. BindingsWorked'
  BY <1>1 DEF DeliveryInv, BindingsWorked, Bound, Worked, Within, WindowEnd
<1>5. PICK r : r = poller
  OBVIOUS
<1>6. RoundSound(r) /\ poller' = r
  BY <1>1, <1>5 DEF DeliveryInv
<1> QED
  BY <1>1, <1>3, <1>4, <1>6, StoreGoesOn

-----------------------------------------------------------------------------
(* A round. *)

LEMMA StartReconcileSound ==
    ASSUME DeliveryInv, StartReconcile
    PROVE  DeliveryInv'
<1>1. PICK s \in SUBSET Unresolved :
        poller' = [poller EXCEPT !.phase = "reconcile", !.queue = s, !.observed = time]
  BY DEF StartReconcile, Firsts
<1>2. PICK r : r = [poller EXCEPT !.phase = "reconcile", !.queue = s, !.observed = time]
  OBVIOUS
<1>3. s \subseteq DOMAIN receipts /\ s \subseteq Packs /\ time \in Nat /\ poller \in Rounds
  BY DEF Unresolved, DeliveryInv, DeliveryTypeOK
<1>4. r \in Rounds /\ r.phase = "reconcile" /\ r.queue = s
  BY <1>2, <1>3 DEF Rounds
<1>5. RoundSound(r)
  BY <1>3, <1>4 DEF RoundSound
<1> QED
  BY <1>1, <1>2, <1>4, <1>5, RoundGoesOn DEF StartReconcile

LEMMA ProbeSound ==
    ASSUME DeliveryInv, Probe
    PROVE  DeliveryInv'
<1>1. PICK p \in poller.queue :
        poller' = [poller EXCEPT !.phase = "resolve", !.queue = @ \ {p}, !.pack = p,
                      !.probed = IF poller.observed < WindowEnd(p) THEN Compatible(p) ELSE {}]
  BY DEF Probe, Foremost
<1>2. PICK probed : probed = IF poller.observed < WindowEnd(p) THEN Compatible(p) ELSE {}
  OBVIOUS
<1>3. /\ poller \in Rounds /\ poller.queue \subseteq DOMAIN receipts /\ DOMAIN receipts \subseteq Packs
      /\ worked \subseteq [session : SessionKeys, at : Nat]
  BY DEF Probe, DeliveryInv, DeliveryTypeOK, RoundSound
<1>4. \A s \in probed : Worked(p, s)
  BY <1>2, <1>3 DEF Compatible, Worked
<1>5. PICK r : r = [poller EXCEPT !.phase = "resolve", !.queue = @ \ {p}, !.pack = p, !.probed = probed]
  OBVIOUS
<1>6. probed \subseteq SessionKeys
  BY <1>4 DEF Worked
<1>7. r \in Rounds /\ r.phase = "resolve" /\ r.queue \subseteq poller.queue /\ r.pack = p
      /\ r.probed = probed
  BY <1>1, <1>3, <1>5, <1>6 DEF Rounds
<1>8. RoundSound(r)
  BY <1>1, <1>3, <1>4, <1>7 DEF RoundSound
<1> QED
  BY <1>1, <1>2, <1>5, <1>7, <1>8, RoundGoesOn DEF Probe

(* What becomes of a receipt: what is not pending stays, and it is bound to a  *)
(* session that was found.                                                   *)
LEMMA ResolutionMeans ==
    ASSUME MissionPackAssumption, NEW r \in Receipts, NEW sessions \in SUBSET SessionKeys,
           NEW observed \in Nat, NEW s, s = Resolution(r, sessions, observed)
    PROVE  /\ s \in Receipts /\ s.accepted = r.accepted
           /\ r.state # "pending" => s = r
           /\ (r.state = "pending" /\ s.state = "bound") => s.session \in sessions
<1>1. Cardinality(sessions) = 1 => (CHOOSE t \in sessions : TRUE) \in sessions
  <2>1. sessions = {} => Cardinality(sessions) = 0
    BY FS_EmptySet
  <2> QED
    BY <2>1
<1>2. r.accepted \in Nat /\ BindingWindow \in Nat
  BY DEF Receipts, MissionPackAssumption
<1>3. CASE r.state # "pending"
  BY <1>3 DEF Resolution
<1>4. CASE r.state = "pending" /\ observed >= r.accepted + BindingWindow
  <2>1. s = [r EXCEPT !.state = "expired"]
    BY <1>2, <1>4 DEF Resolution
  <2> QED
    BY <1>4, <2>1 DEF Receipts
<1>5. CASE r.state = "pending" /\ ~(observed >= r.accepted + BindingWindow)
  <2>1. \/ s = r
        \/ /\ s = [r EXCEPT !.state = "bound", !.session = CHOOSE t \in sessions : TRUE]
           /\ Cardinality(sessions) = 1
        \/ s = [r EXCEPT !.state = "ambiguous"]
    BY <1>2, <1>5 DEF Resolution
  <2> QED
    BY <1>1, <1>5, <2>1 DEF Receipts
<1> QED
  BY <1>3, <1>4, <1>5

LEMMA ResolveSound ==
    ASSUME MissionPackAssumption, DeliveryInv, Resolve
    PROVE  DeliveryInv'
<1> DEFINE p == poller.pack
<1>1. /\ poller \in Rounds /\ poller.phase = "resolve" /\ p \in DOMAIN receipts
      /\ poller.queue \subseteq DOMAIN receipts /\ DOMAIN receipts \subseteq Packs
      /\ receipts[p] \in Receipts
      /\ \A s \in poller.probed : Worked(p, s)
  BY DEF Resolve, DeliveryInv, DeliveryTypeOK, RoundSound
<1>2. poller.observed \in Nat /\ poller.probed \subseteq SessionKeys
  BY <1>1 DEF Rounds
<1>3. PICK r : r = Resolution(receipts[p], poller.probed, poller.observed)
  OBVIOUS
<1>4. /\ r \in Receipts /\ r.accepted = receipts[p].accepted
      /\ receipts[p].state # "pending" => r = receipts[p]
      /\ (receipts[p].state = "pending" /\ r.state = "bound") => r.session \in poller.probed
  <2>1. PICK before, probed, observed : before = receipts[p] /\ probed = poller.probed
                                        /\ observed = poller.observed
    OBVIOUS
  <2>2. before \in Receipts /\ probed \in SUBSET SessionKeys /\ observed \in Nat
        /\ r = Resolution(before, probed, observed)
    BY <1>1, <1>2, <1>3, <2>1
  <2> QED
    BY <2>1, <2>2, ResolutionMeans
<1>5. receipts' = [receipts EXCEPT ![p] = r]
  BY <1>3 DEF Resolve
<1>6. /\ DOMAIN receipts' = DOMAIN receipts /\ receipts'[p] = r
      /\ \A q \in DOMAIN receipts : q # p => receipts'[q] = receipts[q]
  BY <1>1, <1>5
<1>7. UNCHANGED <<time, active, compiled, previewed, progress, applications, worked>>
  BY DEF Resolve, registryVars
<1>8. PICK w : w = [poller EXCEPT !.phase = "reconcile", !.pack = NoPack, !.probed = {}]
  OBVIOUS
<1>9. w \in Rounds /\ w.phase = "reconcile" /\ w.queue = poller.queue /\ poller' = w
  BY <1>1, <1>8 DEF Rounds, Resolve
<1>10. RoundSound(w)
  BY <1>1, <1>9 DEF RoundSound
<1>11. Kept
  BY <1>4, <1>6, <1>7 DEF Kept
<1>12. DeliveryTypeOK'
  BY <1>1, <1>4, <1>6, <1>7, <1>9 DEF DeliveryInv, DeliveryTypeOK
<1>13. ASSUME NEW q \in DOMAIN receipts, receipts'[q].state = "bound"
       PROVE  Worked(q, receipts'[q].session)
  <2>1. CASE q = p /\ receipts[p].state = "pending"
    BY <1>1, <1>4, <1>6, <1>13, <2>1
  <2>2. CASE ~(q = p /\ receipts[p].state = "pending")
    BY <1>4, <1>6, <1>13, <2>2 DEF DeliveryInv, BindingsWorked, Bound
  <2> QED
    BY <2>1, <2>2
<1>14. BindingsWorked'
  <2>1. ASSUME NEW q \in DOMAIN receipts, receipts'[q].state = "bound"
        PROVE  /\ receipts'[q].session \in SessionKeys
               /\ \E turn \in worked : turn.session = receipts'[q].session /\ Within(q, turn)'
    BY <1>6, <1>11, <1>13, <2>1 DEF Worked, Within, WindowEnd, Kept
  <2> QED
    BY <1>6, <1>7, <2>1 DEF BindingsWorked, Bound, Worked, Within, WindowEnd
<1> QED
  BY <1>7, <1>9, <1>10, <1>11, <1>12, <1>14, StoreGoesOn

LEMMA StartMaterializeSound ==
    ASSUME DeliveryInv, StartMaterialize
    PROVE  DeliveryInv'
<1>1. PICK s \in SUBSET Bound : poller' = [poller EXCEPT !.phase = "materialize", !.queue = s]
  BY DEF StartMaterialize, Firsts, Bound
<1>2. PICK r : r = [poller EXCEPT !.phase = "materialize", !.queue = s]
  OBVIOUS
<1>3. s \subseteq Packs /\ poller \in Rounds
  BY DEF Bound, DeliveryInv, DeliveryTypeOK
<1>4. r \in Rounds /\ r.phase = "materialize" /\ r.queue = s
  BY <1>2, <1>3 DEF Rounds
<1>5. RoundSound(r)
  BY <1>4 DEF RoundSound
<1> QED
  BY <1>1, <1>2, <1>4, <1>5, RoundGoesOn DEF StartMaterialize

LEMMA EnsureSound ==
    ASSUME DeliveryInv, Ensure
    PROVE  DeliveryInv'
<1>1. PICK p \in poller.queue :
        /\ progress' = WithProgress(p)
        /\ poller' = [poller EXCEPT !.phase = "insert", !.queue = @ \ {p},
                                    !.pack = p, !.refs = p.refs]
  BY DEF Ensure, Foremost
<1>2. poller \in Rounds /\ poller.queue \subseteq Bound /\ p \in Packs /\ Bound \subseteq DOMAIN receipts
  BY DEF Ensure, DeliveryInv, DeliveryTypeOK, RoundSound, Bound
<1>3. UNCHANGED <<time, active, compiled, previewed, receipts, applications, worked>>
  BY DEF Ensure, registryVars
<1>4. PICK r : r = [poller EXCEPT !.phase = "insert", !.queue = @ \ {p}, !.pack = p, !.refs = p.refs]
  OBVIOUS
<1>5. r \in Rounds /\ r.phase = "insert" /\ r.queue \subseteq poller.queue /\ r.pack = p
      /\ r.refs = p.refs
  BY <1>2, <1>4 DEF Rounds, Packs
<1>6. RoundSound(r)
  BY <1>1, <1>2, <1>5 DEF RoundSound
<1>7. Kept /\ DeliveryTypeOK' /\ BindingsWorked'
  BY <1>1, <1>3, <1>4, <1>5 DEF Kept, DeliveryInv, DeliveryTypeOK, BindingsWorked, Bound, Worked,
                                Within, WindowEnd
<1>8. \A d \in DOMAIN progress' :
        \/ d \in DOMAIN progress /\ progress'[d] = progress[d]
        \/ d[1] = p /\ progress'[d] = NoApplication
  BY <1>1 DEF WithProgress
<1> QED
  BY <1>1, <1>2, <1>3, <1>4, <1>6, <1>7, <1>8, StoreGoesOn

LEMMA InsertSound ==
    ASSUME DeliveryInv, Insert
    PROVE  DeliveryInv'
<1>1. PICK e \in poller.refs :
        /\ applications' = applications \cup {Delivered(poller.pack, e)}
        /\ poller' = [poller EXCEPT !.phase = "link", !.refs = @ \ {e},
                                    !.made = Delivered(poller.pack, e)]
  BY DEF Insert
<1> DEFINE p == poller.pack
           a == Delivered(p, e)
<1>2. /\ poller \in Rounds /\ poller.queue \subseteq Bound /\ p \in Bound /\ e \in p.refs
      /\ poller.refs \subseteq p.refs /\ Bound \subseteq DOMAIN receipts
      /\ Worked(p, receipts[p].session) /\ receipts[p] \in Receipts /\ p \in Packs
  BY DEF Insert, DeliveryInv, DeliveryTypeOK, RoundSound, BindingsWorked, Bound
<1>3. UNCHANGED <<time, active, compiled, previewed, receipts, progress, worked>>
  BY DEF Insert, registryVars
<1>4. a \in [experience : Refs, session : SessionKeys, delivered : Nat]
  BY <1>2 DEF Delivered, Worked, Receipts, Packs
<1>5. PICK made : made = a
  OBVIOUS
<1>6. PICK r : r = [poller EXCEPT !.phase = "link", !.refs = @ \ {e}, !.made = made]
  OBVIOUS
<1>7. r \in Rounds /\ r.phase = "link" /\ r.queue = poller.queue /\ r.pack = p
      /\ r.refs \subseteq poller.refs
  BY <1>2, <1>4, <1>5, <1>6 DEF Rounds
<1>8. RoundSound(r)
  BY <1>2, <1>7 DEF RoundSound
<1>9. Kept /\ DeliveryTypeOK' /\ BindingsWorked'
  BY <1>1, <1>3, <1>5, <1>6, <1>7 DEF Kept, DeliveryInv, DeliveryTypeOK, BindingsWorked, Bound,
                                      Worked, Within, WindowEnd
<1>10. \A b \in applications' \ applications : Grounded(b)'
  <2>1. p \in DOMAIN receipts /\ receipts[p].state = "bound"
    BY <1>2 DEF Bound
  <2>2. Grounded(a)
    BY <1>2, <2>1 DEF Grounded, Delivered, Worked
  <2>3. Grounded(made)'
    BY <1>5, <1>9, <2>2, GroundedStands DEF Grounded
  <2> QED
    BY <1>1, <1>5, <2>3 DEF Grounded
<1> QED
  BY <1>1, <1>3, <1>5, <1>6, <1>8, <1>9, <1>10, StoreGoesOn

(* What comes after a reference is sound, whichever references are left.      *)
LEMMA OnwardSound ==
    ASSUME DeliveryInv, poller.phase \in {"insert", "link"}, NEW refs \in SUBSET poller.refs,
           NEW r, r = Onward(refs)
    PROVE  r \in Rounds /\ RoundSound(r)
<1>1. poller \in Rounds /\ poller.queue \subseteq Bound /\ poller.pack \in Bound
      /\ poller.refs \subseteq poller.pack.refs
  BY DEF DeliveryInv, DeliveryTypeOK, RoundSound
<1>2. /\ r \in Rounds /\ r.queue = poller.queue /\ r.refs = refs
      /\ \/ r.phase = "materialize"
         \/ r.phase = "insert" /\ r.pack = poller.pack
  BY <1>1 DEF Onward, Rounds
<1> QED
  BY <1>1, <1>2 DEF RoundSound

LEMMA LinkSound ==
    ASSUME DeliveryInv, Link
    PROVE  DeliveryInv'
<1> DEFINE p == poller.pack
           a == poller.made
<1>1. PICK r : r = Onward(poller.refs)
  OBVIOUS
<1>2. r \in Rounds /\ RoundSound(r) /\ poller' = r
  <2>1. PICK refs : refs = poller.refs
    OBVIOUS
  <2> QED
    BY <1>1, <2>1, OnwardSound DEF Link
<1>3. UNCHANGED <<time, active, compiled, previewed, receipts, applications, worked>>
  BY DEF Link, registryVars
<1>4. Kept /\ DeliveryTypeOK' /\ BindingsWorked'
  BY <1>2, <1>3 DEF Kept, DeliveryInv, DeliveryTypeOK, BindingsWorked, Bound, Worked, Within,
                    WindowEnd
<1>5. p \in Bound
  BY DEF Link, DeliveryInv, RoundSound
<1>6. \A d \in DOMAIN progress' :
        \/ d \in DOMAIN progress /\ progress'[d] = progress[d]
        \/ /\ d = <<p, a.experience>> /\ progress'[d] = a
           /\ a \in applications /\ a = Delivered(p, a.experience)
  BY DEF Link, Linkable
<1>7. \A d \in DOMAIN progress' :
        \/ d \in DOMAIN progress /\ progress'[d] = progress[d]
        \/ /\ d[1] = p /\ progress'[d] \in applications
           /\ progress'[d].experience = d[2] /\ progress'[d].session = receipts[p].session
  BY <1>6 DEF Delivered
<1> QED
  BY <1>2, <1>3, <1>4, <1>5, <1>7, StoreGoesOn DEF Bound

LEMMA RestartSound ==
    ASSUME DeliveryInv, poller' = Waiting,
           UNCHANGED <<time, registryVars, previewed, deliveryVars, worked>>
    PROVE  DeliveryInv'
<1>1. PICK r : r = Waiting
  OBVIOUS
<1>2. r \in Rounds /\ r.phase = "idle" /\ r.queue = {}
  BY <1>1 DEF Waiting, Rounds
<1>3. RoundSound(r)
  BY <1>2 DEF RoundSound
<1> QED
  BY <1>1, <1>2, <1>3, RoundGoesOn

LEMMA StepFailsSound ==
    ASSUME DeliveryInv, StepFails
    PROVE  DeliveryInv'
<1>1. UNCHANGED <<time, registryVars, previewed, deliveryVars, worked>>
  BY DEF StepFails
<1>2. poller \in Rounds /\ RoundSound(poller)
  BY DEF DeliveryInv, DeliveryTypeOK
<1>3. CASE poller.phase = "idle" /\ poller' = [poller EXCEPT !.phase = "reconcile"]
  <2>1. PICK r : r = [poller EXCEPT !.phase = "reconcile"]
    OBVIOUS
  <2>2. r \in Rounds /\ r.phase = "reconcile" /\ r.queue = {}
    BY <1>2, <1>3, <2>1 DEF Rounds, RoundSound
  <2>3. RoundSound(r)
    BY <2>2 DEF RoundSound
  <2> QED
    BY <1>1, <1>3, <2>1, <2>2, <2>3, RoundGoesOn
<1>4. CASE poller.phase = "reconcile" /\ poller.queue = {} /\ poller' = Waiting
  BY <1>1, <1>4, RestartSound
<1>5. CASE /\ poller.phase \in {"reconcile", "materialize"}
           /\ \E p \in Foremost(poller.queue) : poller' = [poller EXCEPT !.queue = @ \ {p}]
  <2>1. PICK p : poller' = [poller EXCEPT !.queue = @ \ {p}]
    BY <1>5
  <2>2. PICK r : r = [poller EXCEPT !.queue = @ \ {p}]
    OBVIOUS
  <2>3. r \in Rounds /\ r.phase = poller.phase /\ r.queue \subseteq poller.queue
    BY <1>2, <2>2 DEF Rounds
  <2>4. RoundSound(r)
    BY <1>2, <1>5, <2>3 DEF RoundSound
  <2> QED
    BY <1>1, <2>1, <2>2, <2>3, <2>4, RoundGoesOn
<1>6. CASE /\ poller.phase = "resolve"
           /\ poller' = [poller EXCEPT !.phase = "reconcile", !.pack = NoPack, !.probed = {}]
  <2>1. PICK r : r = [poller EXCEPT !.phase = "reconcile", !.pack = NoPack, !.probed = {}]
    OBVIOUS
  <2>2. r \in Rounds /\ r.phase = "reconcile" /\ r.queue = poller.queue
    BY <1>2, <2>1 DEF Rounds
  <2>3. RoundSound(r)
    BY <1>2, <1>6, <2>2 DEF RoundSound
  <2> QED
    BY <1>1, <1>6, <2>1, <2>2, <2>3, RoundGoesOn
<1>7. CASE /\ poller.phase \in {"insert", "link"}
           /\ \E refs \in SUBSET poller.refs : poller' = Onward(refs)
  <2>1. PICK refs \in SUBSET poller.refs : poller' = Onward(refs)
    BY <1>7
  <2>2. PICK r : r = Onward(refs)
    OBVIOUS
  <2> QED
    BY <1>1, <1>7, <2>1, <2>2, OnwardSound, RoundGoesOn
<1> QED
  BY <1>3, <1>4, <1>5, <1>6, <1>7 DEF StepFails

LEMMA DeliveryStepSound ==
    ASSUME MissionPackAssumption, DeliveryInv, [MissionPackNext]_packVars
    PROVE  DeliveryInv'
<1>1. ASSUME NEW e \in Refs, Pause(e)
      PROVE  DeliveryInv'
  BY <1>1, RegistrySound DEF Pause, DeliveryInv, DeliveryTypeOK, deliveryVars
<1>2. CASE Recompile
  <2>1. DeliveryTypeOK'
    BY <1>2 DEF Recompile, DeliveryInv, DeliveryTypeOK, deliveryVars
  <2> QED
    BY <1>2, <2>1, RegistrySound DEF Recompile
<1>3. ASSUME NEW task \in Tasks, NEW refs \in SUBSET Refs, Preview(task, refs)
      PROVE  DeliveryInv'
  <2>1. [generation |-> compiled.number, refs |-> refs, task |-> task] \in Packs
    BY DEF Packs, DeliveryInv, DeliveryTypeOK
  <2>2. DeliveryTypeOK'
    BY <1>3, <2>1 DEF Preview, DeliveryInv, DeliveryTypeOK, deliveryVars, registryVars
  <2> QED
    BY <1>3, <2>2, RegistrySound DEF Preview
<1>4. ASSUME NEW p \in DOMAIN previewed, NEW at \in 0 .. time, Accept(p, at)
      PROVE  DeliveryInv'
  BY <1>4, AcceptSound
<1>5. ASSUME NEW session \in SessionKeys, NEW at \in 0 .. time, ImportTurn(session, at)
      PROVE  DeliveryInv'
  BY <1>5, ImportTurnSound
<1>6. CASE PollStep
  BY <1>6, StartReconcileSound, ProbeSound, ResolveSound, StartMaterializeSound, EnsureSound,
     InsertSound, LinkSound, RestartSound DEF PollStep, EndRound
<1>7. CASE StepFails
  BY <1>7, StepFailsSound
<1>8. CASE PollerStops
  BY <1>8, RestartSound DEF PollerStops
<1>9. CASE PackTick
  <2>1. DeliveryTypeOK'
    BY <1>9 DEF PackTick, DeliveryInv, DeliveryTypeOK, deliveryVars, registryVars
  <2> QED
    BY <1>9, <2>1, RegistrySound DEF PackTick
<1>10. CASE UNCHANGED packVars
  <2>1. DeliveryTypeOK'
    BY <1>10 DEF packVars, DeliveryInv, DeliveryTypeOK
  <2> QED
    BY <1>10, <2>1, RegistrySound DEF packVars, deliveryVars
<1> QED
  BY <1>1, <1>2, <1>3, <1>4, <1>5, <1>6, <1>7, <1>8, <1>9, <1>10 DEF MissionPackNext

(* Whatever is imported, accepted, paused or compiled meanwhile and whichever   *)
(* step of a round fails: what the poll has listed as bound is bound, and what *)
(* it has probed worked within the window (Reconcile, Materialize).            *)
THEOREM DeliveryInvariant ==
    ASSUME MissionPackAssumption
    PROVE  MissionPackSpec => []DeliveryInv
<1>1. MissionPackInit => DeliveryInv
  BY DeliveryInitially
<1>2. DeliveryInv /\ [MissionPackNext]_packVars => DeliveryInv'
  BY DeliveryStepSound
<1> QED
  BY <1>1, <1>2, PTL DEF MissionPackSpec

(* Every application is of a receipt that is bound to its session, which       *)
(* worked within the receipt's window, and every link is to an application of  *)
(* its receipt (InsertExperienceApplication,                                  *)
(* LinkMissionPackReceiptApplication).                                        *)
THEOREM DeliveriesAreGrounded ==
    ASSUME MissionPackAssumption
    PROVE  MissionPackSpec => []DeliveriesGrounded
<1>1. DeliveryInv => DeliveriesGrounded
  BY DEF DeliveryInv
<1> QED
  BY <1>1, DeliveryInvariant, PTL
=============================================================================
