-------------------------- MODULE ExperienceReview --------------------------
(***************************************************************************)
(* What a user decides about the proposals made from a candidate: approve,  *)
(* defer or reject.  A decision carries a token that a listing issued; the *)
(* processes that list and decide are slow, so the time a decision bears    *)
(* may lie before the time it is committed.  An approval of a candidate     *)
(* that has an experience is a replay or a conflict: it changes nothing.    *)
(***************************************************************************)
EXTENDS Naturals

CONSTANTS Proposals, CandidateOf,   \* a candidate has one proposal per harness
          ApprovalLifetime,            \* experienceApprovalPreviewLifetime
          DeferWindow,              \* experienceLearningDeferWindow
          NoExperience,
          Rank(_),                  \* the order of the hashed action ids
          MaxClock                   \* bound of the clock

Dispositions == {"defer", "reject"}
Decisions == [proposal : Proposals, disposition : Dispositions,
              issued : 0 .. MaxClock, occurred : 0 .. MaxClock]

ReviewAssumption ==
    /\ ApprovalLifetime \in Nat /\ DeferWindow \in Nat \ {0} /\ MaxClock \in Nat
    /\ \A p \in Proposals : p \in DOMAIN CandidateOf
    /\ \A a \in Decisions : Rank(a) \in Nat

VARIABLES clock, reviews, experience, listed, previews

reviewVars == <<clock, reviews, experience, listed, previews>>

Candidates == {CandidateOf[p] : p \in Proposals}

ReviewTypeOK ==
    /\ clock \in 0 .. MaxClock
    /\ reviews \subseteq Decisions
    /\ experience \in [Candidates ->
                         {NoExperience} \cup [proposal : Proposals, issued : 0 .. MaxClock, at : 0 .. MaxClock]]
    /\ listed \subseteq Proposals
    /\ previews \subseteq [proposal : Proposals, issued : 0 .. MaxClock]

ReviewInit ==
    /\ clock = 0 /\ reviews = {} /\ listed = {} /\ previews = {}
    /\ experience = [c \in Candidates |-> NoExperience]

-----------------------------------------------------------------------------
Newer(a, b) ==
    \/ a.occurred > b.occurred
    \/ a.occurred = b.occurred /\ Rank(a) > Rank(b)

IsLatest(a) == \A b \in reviews : b.proposal = a.proposal => ~Newer(b, a)
LatestOf(p) == {a \in reviews : a.proposal = p /\ IsLatest(a)}

Approved(c) == experience[c] # NoExperience

(* QueryPendingCurrentExperienceSemanticProposals                            *)
Pending(includeDeferred) ==
    {p \in Proposals :
        /\ ~Approved(CandidateOf[p])
        /\ \A a \in LatestOf(p) :
              /\ a.disposition = "defer"
              /\ includeDeferred \/ a.occurred + DeferWindow <= clock}

ListReviews(includeDeferred) ==
    /\ listed' = listed \cup Pending(includeDeferred)
    /\ UNCHANGED <<clock, reviews, experience, previews>>

(* A listing issues its previews one by one, and reads no decision again.      *)
IssuePreview(p) ==
    /\ p \in listed
    /\ listed' = listed \ {p}
    /\ previews' = previews \cup {[proposal |-> p, issued |-> clock]}
    /\ UNCHANGED <<clock, reviews, experience>>

(* The times at which a request with token t can have been made.             *)
Timely(t) == {at \in t.issued .. clock : at <= t.issued + ApprovalLifetime}

ActionOf(t, disposition, at) ==
    [proposal |-> t.proposal, disposition |-> disposition, issued |-> t.issued, occurred |-> at]

(* The identity of an action leaves out its time.                            *)
Recorded(a) ==
    \E b \in reviews : /\ b.proposal = a.proposal /\ b.issued = a.issued
                       /\ b.disposition = a.disposition

ReviewableWhenApproved(p) == TRUE
Reviewable(p) == ~Approved(CandidateOf[p])

RecordReview(t, disposition, at) ==
    /\ Reviewable(t.proposal)
    /\ ~Recorded(ActionOf(t, disposition, at))
    /\ reviews' = reviews \cup {ActionOf(t, disposition, at)}
    /\ UNCHANGED <<clock, experience, listed, previews>>

BlocksRejectOnly(t) == \E a \in LatestOf(t.proposal) : a.disposition = "reject"

(* experienceReviewActionBlocksApprovalTx                                    *)
Blocks(t) ==
    \E a \in LatestOf(t.proposal) : a.occurred >= t.issued \/ a.disposition = "reject"

Approve(t, at) ==
    /\ ~Blocks(t)
    /\ ~Approved(CandidateOf[t.proposal])
    /\ experience' = [experience EXCEPT ![CandidateOf[t.proposal]] =
                        [proposal |-> t.proposal, issued |-> t.issued, at |-> at]]
    /\ UNCHANGED <<clock, reviews, listed, previews>>

ReviewTick == clock < MaxClock /\ clock' = clock + 1 /\ UNCHANGED <<reviews, experience, listed, previews>>

ReviewNext ==
    \/ \E includeDeferred \in BOOLEAN : ListReviews(includeDeferred)
    \/ \E p \in Proposals : IssuePreview(p)
    \/ \E t \in previews : \E at \in Timely(t) :
          \/ Approve(t, at)
          \/ \E disposition \in Dispositions : RecordReview(t, disposition, at)
    \/ ReviewTick

ReviewSpec == ReviewInit /\ [][ReviewNext]_reviewVars

-----------------------------------------------------------------------------
(* An experience exists only if the user's last word on its proposal is not  *)
(* a rejection, and every decision on it was taken before the preview that   *)
(* was approved; this stays so, since a decision on an approved candidate is *)
(* refused (experienceReviewActionBlocksApprovalTx and the approved check of *)
(* RecordExperienceReviewAction, in two transactions of two processes).      *)
ApprovalRespectsReview ==
    \A c \in Candidates : Approved(c) =>
        \A a \in reviews : a.proposal = experience[c].proposal =>
            /\ a.occurred < experience[c].issued
            /\ a.disposition = "reject" =>
                 \E b \in reviews : b.proposal = a.proposal /\ Newer(b, a)
=============================================================================
