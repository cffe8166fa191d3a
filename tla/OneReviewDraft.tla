--------------------------- MODULE OneReviewDraft ---------------------------
(***************************************************************************)
(* What every producer of NullOne promises of review drafts, with no       *)
(* process, file or lock in it: a piece of work has one create attempt in  *)
(* its life.  It is spent before the request leaves, the request makes at  *)
(* most one draft, DRAFT_CREATED is only said of a draft that exists, and  *)
(* what is said of a settled attempt is never taken back.                  *)
(* nullone_zernio_draft_adapter.py:912-1010 is where the attempt is spent; *)
(* DraftBridge, DraftFactory, BreakingDispatch and ScheduledRuns implement *)
(* the promise, for a manifest, a candidate, a target of a development and *)
(* a Story.                                                                *)
(***************************************************************************)
EXTENDS Naturals

CONSTANT Works      \* what gets one draft

VARIABLES
    review,     \* [Works -> what is recorded of the attempt]
    drafts      \* [Works -> drafts made at Zernio]

vars == <<review, drafts>>

Init ==
    /\ review = [w \in Works |-> "NOT_CREATED"]
    /\ drafts = [w \in Works |-> 0]

\* A bridge comes some way: it spends the attempt, its request makes a draft or
\* not, the outcome is recorded.  Who looks less often sees several of these at
\* once; where a bridge dies nothing follows, or what its request still did.
Bridge(w) ==
    /\ review[w] \in {"NOT_CREATED", "CREATE_IN_FLIGHT"}
    /\ review'[w] \in {"CREATE_IN_FLIGHT", "REVIEW_UNKNOWN", "DRAFT_CREATED"}
    /\ drafts'[w] \in drafts[w]..1
    /\ review'[w] = "DRAFT_CREATED" => drafts'[w] = 1
    /\ review' = [review EXCEPT ![w] = review'[w]]
    /\ drafts' = [drafts EXCEPT ![w] = drafts'[w]]

Next == \E w \in Works : Bridge(w)

Spec == Init /\ [][Next]_vars
=============================================================================
