----------------------------- MODULE MissionPack -----------------------------
(***************************************************************************)
(* A mission pack on its way to a session: a preview is built from the      *)
(* active generation and registered, its acceptance leaves a receipt, the   *)
(* poll of the lease holder binds the receipt to the one session that       *)
(* worked within its window, and materialises one application per           *)
(* experience.  The poll reads, probes and writes in separate transactions, *)
(* goes on after an error, and starts anew after a stop.  A preview is      *)
(* built and registered in one step: one that is stale when it is           *)
(* registered is like one that goes stale after.  The registry, whose own   *)
(* transitions are in module ExperienceLifecycle, pauses and compiles.      *)
(***************************************************************************)
EXTENDS Naturals, FiniteSets

CONSTANTS Refs,              \* experience references
          SessionKeys, Tasks,
          PreviewLifetime,   \* missionPackPreviewLifetime
          BindingWindow,     \* missionPackReceiptBindingWindow
          Limit,             \* receipts per round, 64 in cmd/belay/local.go
          NoSession, NoApplication, NoPack,
          MaxTicks, MaxTurns, MaxHitches    \* bounds of the clock, the turns and the failures

MissionPackAssumption ==
    /\ PreviewLifetime \in Nat \ {0} /\ BindingWindow \in Nat \ {0} /\ Limit \in Nat \ {0}
    /\ MaxTicks \in Nat /\ MaxTurns \in Nat /\ MaxHitches \in Nat

VARIABLES
    time,
    active,         \* the experiences that may be given
    compiled,       \* the active generation: its number and its members
    previewed,      \* pack id -> time of its generation
    receipts,       \* pack id -> receipt
    progress,       \* <<pack id, experience>> -> linked application
    applications,
    worked,         \* the turns of transcripts that are imported
    poller,         \* the round of the poll: what it has listed and read
    hitches

packVars == <<time, active, compiled, previewed, receipts, progress,
              applications, worked, poller, hitches>>
registryVars == <<active, compiled>>
deliveryVars == <<receipts, progress, applications>>

Waiting == [phase |-> "idle", observed |-> 0, queue |-> {}, pack |-> NoPack, probed |-> {},
            refs |-> {}, made |-> NoApplication]

MissionPackInit ==
    /\ time = 0 /\ active = Refs
    /\ compiled = [number |-> 1, members |-> Refs]
    /\ previewed = << >> /\ receipts = << >> /\ progress = << >>
    /\ applications = {} /\ worked = {}
    /\ poller = Waiting /\ hitches = 0

-----------------------------------------------------------------------------
(* The registry moves on under the packs.                                    *)
Pause(e) ==
    /\ e \in active /\ active' = active \ {e}
    /\ UNCHANGED <<time, compiled, previewed, deliveryVars, worked, poller, hitches>>

Recompile ==
    /\ compiled.members # active
    /\ compiled' = [number |-> compiled.number + 1, members |-> active]
    /\ UNCHANGED <<time, active, previewed, deliveryVars, worked, poller, hitches>>

(* A pack is built and its preview registered, fresh or in the place of an   *)
(* older one.  The identity of a pack has no time in it (derivePackID).      *)
Preview(task, refs) ==
    /\ refs \subseteq compiled.members \cap active /\ refs # {}
    /\ LET p == [generation |-> compiled.number, refs |-> refs, task |-> task] IN
       previewed' = [q \in DOMAIN previewed \cup {p} |-> IF q = p THEN time ELSE previewed[q]]
    /\ UNCHANGED <<time, registryVars, deliveryVars, worked, poller, hitches>>

(* A row of progress for each experience of a pack, where there is none.     *)
WithProgress(p) ==
    [d \in DOMAIN progress \cup {<<p, e>> : e \in p.refs} |->
        IF d \in DOMAIN progress THEN progress[d] ELSE NoApplication]

(* AcceptMissionPackPreview, asked for at a time that may have passed.  An   *)
(* accepted pack is answered with the receipt it has, whatever became of it. *)
Accept(p, at) ==
    /\ p \notin DOMAIN receipts
    /\ previewed[p] <= at /\ at < previewed[p] + PreviewLifetime
    /\ p.generation = compiled.number /\ p.refs \subseteq compiled.members \cap active
    /\ receipts' = [q \in DOMAIN receipts \cup {p} |->
                      IF q = p THEN [accepted |-> at, state |-> "pending", session |-> NoSession]
                      ELSE receipts[q]]
    /\ progress' = WithProgress(p)
    /\ UNCHANGED <<time, registryVars, previewed, applications, worked, poller, hitches>>

(* A turn reaches the store, in the poll or in a scan, soon or late.         *)
ImportTurn(session, at) ==
    /\ worked' = worked \cup {[session |-> session, at |-> at]}
    /\ Cardinality(worked') <= MaxTurns
    /\ UNCHANGED <<time, registryVars, previewed, deliveryVars, poller, hitches>>

-----------------------------------------------------------------------------
WindowEnd(p) == receipts[p].accepted + BindingWindow

Within(p, turn) == receipts[p].accepted <= turn.at /\ turn.at < WindowEnd(p)

(* QueryCompatibleTranscriptSessionKeys; of more than one, two are enough.   *)
Compatible(p) == {turn.session : turn \in {t \in worked : Within(p, t)}}

(* By the time of acceptance; of one time, by identity, here in any order.    *)
Earlier(p, q) == receipts[p].accepted < receipts[q].accepted

Foremost(packs) == {p \in packs : \A q \in packs : ~Earlier(q, p)}

(* The receipts of a round: of all the earliest, at most Limit.               *)
Firsts(packs) ==
    {s \in SUBSET packs :
        /\ Cardinality(s) <= Limit /\ (s # packs => Cardinality(s) = Limit)
        /\ \A p \in s, q \in packs \ s : ~Earlier(q, p)}

Unresolved == {p \in DOMAIN receipts : receipts[p].state = "pending"}

StartReconcile ==
    /\ poller.phase = "idle"
    /\ \E s \in Firsts(Unresolved) :
         poller' = [poller EXCEPT !.phase = "reconcile", !.queue = s, !.observed = time]
    /\ UNCHANGED <<time, registryVars, previewed, deliveryVars, worked, hitches>>

Probe ==
    /\ poller.phase = "reconcile"
    /\ \E p \in Foremost(poller.queue) :
         poller' = [poller EXCEPT !.phase = "resolve", !.queue = @ \ {p}, !.pack = p,
                      !.probed = IF poller.observed < WindowEnd(p) THEN Compatible(p) ELSE {}]
    /\ UNCHANGED <<time, registryVars, previewed, deliveryVars, worked, hitches>>

(* The receipt after ResolveMissionPackReceipt.                              *)
Resolution(r, sessions, observed) ==
    CASE r.state # "pending" -> r
      [] r.state = "pending" /\ observed >= r.accepted + BindingWindow ->
            [r EXCEPT !.state = "expired"]
      [] r.state = "pending" /\ observed < r.accepted + BindingWindow ->
            CASE Cardinality(sessions) = 0 -> r
              [] Cardinality(sessions) = 1 ->
                    [r EXCEPT !.state = "bound", !.session = CHOOSE s \in sessions : TRUE]
              [] OTHER -> [r EXCEPT !.state = "ambiguous"]

Resolve ==
    /\ poller.phase = "resolve"
    /\ receipts' = [receipts EXCEPT ![poller.pack] = Resolution(@, poller.probed, poller.observed)]
    /\ poller' = [poller EXCEPT !.phase = "reconcile", !.pack = NoPack, !.probed = {}]
    /\ UNCHANGED <<time, registryVars, previewed, progress, applications, worked, hitches>>

-----------------------------------------------------------------------------
\* Mutant: a receipt with some of its applications linked is done.
NeedsProgress(p) == \A e \in p.refs : <<p, e>> \notin DOMAIN progress

(* QueryBoundMissionPackReceiptsNeedingApplications                          *)
Needs(p) ==
    \/ \A e \in p.refs : <<p, e>> \notin DOMAIN progress
    \/ \E e \in p.refs : <<p, e>> \in DOMAIN progress /\ progress[<<p, e>>] = NoApplication

StartMaterialize ==
    /\ poller.phase = "reconcile" /\ poller.queue = {}
    /\ \E s \in Firsts({p \in DOMAIN receipts : receipts[p].state = "bound" /\ Needs(p)}) :
         poller' = [poller EXCEPT !.phase = "materialize", !.queue = s]
    /\ UNCHANGED <<time, registryVars, previewed, deliveryVars, worked, hitches>>

(* EnsureMissionPackReceiptApplicationProgress, for the next receipt.         *)
Ensure ==
    /\ poller.phase = "materialize"
    /\ \E p \in Foremost(poller.queue) :
         /\ progress' = WithProgress(p)
         /\ poller' = [poller EXCEPT !.phase = "insert", !.queue = @ \ {p},
                                     !.pack = p, !.refs = p.refs]
    /\ UNCHANGED <<time, registryVars, previewed, receipts, applications, worked, hitches>>

\* Mutant: an application is dated when it is made.
DeliveredNow(p, e) ==
    [experience |-> e, session |-> receipts[p].session, delivered |-> time]

(* deliveredMissionPackApplication: its identity is what it says.            *)
Delivered(p, e) ==
    [experience |-> e, session |-> receipts[p].session, delivered |-> receipts[p].accepted]

Insert ==
    /\ poller.phase = "insert"
    /\ \E e \in poller.refs :
         /\ applications' = applications \cup {Delivered(poller.pack, e)}
         /\ poller' = [poller EXCEPT !.phase = "link", !.refs = @ \ {e},
                                     !.made = Delivered(poller.pack, e)]
    /\ UNCHANGED <<time, registryVars, previewed, receipts, progress, worked, hitches>>

(* The link is refused unless the application is stored and is of the receipt. *)
Linkable(p, a) ==
    /\ receipts[p].state = "bound" /\ a \in applications /\ a = Delivered(p, a.experience)
    /\ <<p, a.experience>> \in DOMAIN progress
    /\ progress[<<p, a.experience>>] = NoApplication

(* What comes after one reference: the next, or the next receipt.             *)
Onward(refs) ==
    [poller EXCEPT !.phase = IF refs = {} THEN "materialize" ELSE "insert", !.refs = refs,
                   !.pack = IF refs = {} THEN NoPack ELSE @, !.made = NoApplication]

Link ==
    /\ poller.phase = "link"
    /\ progress' = IF Linkable(poller.pack, poller.made)
                   THEN [progress EXCEPT ![<<poller.pack, poller.made.experience>>] = poller.made]
                   ELSE progress
    /\ poller' = Onward(poller.refs)
    /\ UNCHANGED <<time, registryVars, previewed, receipts, applications, worked, hitches>>

EndRound ==
    /\ poller.phase = "materialize" /\ poller.queue = {}
    /\ poller' = Waiting
    /\ UNCHANGED <<time, registryVars, previewed, deliveryVars, worked, hitches>>

(* The next query or transaction of the round fails, and the round goes on    *)
(* without it: with the next receipt, or the next reference.                 *)
StepFails ==
    /\ hitches < MaxHitches /\ hitches' = hitches + 1
    /\ \/ poller.phase = "idle" /\ poller' = [poller EXCEPT !.phase = "reconcile"]
       \/ poller.phase = "reconcile" /\ poller.queue = {} /\ poller' = Waiting
       \/ /\ poller.phase \in {"reconcile", "materialize"}
          /\ \E p \in Foremost(poller.queue) : poller' = [poller EXCEPT !.queue = @ \ {p}]
       \/ /\ poller.phase = "resolve"
          /\ poller' = [poller EXCEPT !.phase = "reconcile", !.pack = NoPack, !.probed = {}]
       \/ /\ poller.phase = "insert"
          /\ \E e \in poller.refs : poller' = Onward(poller.refs \ {e})
       \/ /\ poller.phase = "link" /\ poller' = Onward(poller.refs)
    /\ UNCHANGED <<time, registryVars, previewed, deliveryVars, worked>>

(* The process ends, and the next holder of the lease polls.                 *)
PollerStops ==
    /\ hitches < MaxHitches /\ hitches' = hitches + 1
    /\ poller # Waiting /\ poller' = Waiting
    /\ UNCHANGED <<time, registryVars, previewed, deliveryVars, worked>>

PollStep ==
    \/ StartReconcile \/ Probe \/ Resolve
    \/ StartMaterialize \/ Ensure \/ Insert \/ Link \/ EndRound

PackTick ==
    /\ time < MaxTicks /\ time' = time + 1
    /\ UNCHANGED <<registryVars, previewed, deliveryVars, worked, poller, hitches>>

MissionPackNext ==
    \/ \E e \in Refs : Pause(e)
    \/ Recompile
    \/ \E task \in Tasks, refs \in SUBSET Refs : Preview(task, refs)
    \/ \E p \in DOMAIN previewed : \E at \in 0 .. time :
          at + BindingWindow <= MaxTicks /\ Accept(p, at)
    \/ \E session \in SessionKeys, at \in 0 .. time : ImportTurn(session, at)
    \/ PollStep \/ StepFails \/ PollerStops
    \/ PackTick

MissionPackSpec ==
    MissionPackInit /\ [][MissionPackNext]_packVars /\ WF_packVars(PollStep) /\ WF_packVars(PackTick)

-----------------------------------------------------------------------------
Grounded(a) ==
    \E p \in DOMAIN receipts :
        /\ receipts[p].state = "bound" /\ receipts[p].session = a.session
        /\ a.experience \in p.refs /\ a.delivered = receipts[p].accepted
        /\ \E turn \in worked : turn.session = a.session /\ Within(p, turn)

(* Every application comes from a receipt that is bound to its session,      *)
(* bears the time of the acceptance, once whatever was repeated, and its     *)
(* session worked within the window of the receipt; every link is to the     *)
(* application of its receipt.                                               *)
DeliveriesGrounded ==
    /\ \A a \in applications : Grounded(a)
    /\ \A d \in DOMAIN progress : progress[d] # NoApplication =>
          /\ progress[d] \in applications
          /\ progress[d].experience = d[2] /\ progress[d].session = receipts[d[1]].session

Settled(p) ==
    /\ p \in DOMAIN receipts /\ receipts[p].state # "pending"
    /\ receipts[p].state = "bound" => \A e \in p.refs : progress[<<p, e>>] # NoApplication

(* An accepted pack does not stay pending, and one that is bound gets all    *)
(* its applications, linked, whatever step failed and whoever stopped        *)
(* between the insert of an application and its link.                        *)
ReceiptsSettle ==
    \A task \in Tasks, refs \in SUBSET Refs \ {{}} :
        LET p == [generation |-> 1, refs |-> refs, task |-> task] IN
        p \in DOMAIN receipts ~> Settled(p)
=============================================================================
