---------------------------- MODULE BreakingPolicy ----------------------------
(***************************************************************************)
(* The decisions of the breaking-news path, as operators: what an          *)
(* assessment identifies, how it relates to what the repository already    *)
(* holds of it, and which drafts it may have.  Texts, URLs and hashes are  *)
(* abstracted to the equality they decide.                                 *)
(***************************************************************************)
EXTENDS Naturals, FiniteSets

CONSTANT None           \* absent field

Severities == {"NORMAL", "MATERIAL_BREAKING", "EXCEPTIONAL_BREAKING"}
MainFormats == {"FEED", "CAROUSEL"}
Targets == {"STORY"} \cup MainFormats

LiveStates == {"PUBLISH_ACCEPTED", "PUBLISHING", "PUBLISHED", "PUBLISH_IN_FLIGHT"}
UnsafeStates == {"UNKNOWN", "READBACK_FAILED", "CHECK_REQUIRED", "FAILED"}
ExcludedStatuses == {"REJECTED", "LEGACY_DRAFT", "SUPERSEDED_DRAFT"}
-----------------------------------------------------------------------------
(* Identity.                                                               *)

\* An assessment's evidence: its announcement ids, and whether its first
\* item names a product and any item a URL.
IdentityBasis(a) ==
    IF Cardinality(a.announced) > 1 THEN "UNRESOLVED"
    ELSE IF a.announced # {} THEN "EXACT_IDENTIFIER"
    ELSE IF a.product # None THEN "NORMALIZED_CLAIM"
    ELSE IF a.url # None THEN "CANONICAL_SOURCE"
    ELSE "UNRESOLVED"

EventOf(a) ==
    CASE IdentityBasis(a) = "EXACT_IDENTIFIER" -> <<"announcement", a.announced>>
      [] IdentityBasis(a) = "NORMALIZED_CLAIM" -> <<"product", {a.product}>>
      [] IdentityBasis(a) = "CANONICAL_SOURCE" -> <<"url", {a.url}>>
      [] OTHER -> None

\* One event has a development per claim made of it.
DevelopmentOf(a) == <<EventOf(a), a.claim>>

\* What a record of the repository says of the development it is about:
\* consequential, reserved, excluded, and whether that is itself unsettled.
NoKind == [cons |-> FALSE, res |-> FALSE, excl |-> FALSE, open |-> FALSE]

ManifestKind(m) ==
    LET spentPut == m.pub \notin LiveStates /\ (m.pub \in UnsafeStates \/ m.attempts > 0)
        cons == m.pub \in LiveStates \/ spentPut \/ m.first
        openReview == \/ m.review \in {"CREATE_IN_FLIGHT", "REVIEW_UNKNOWN"}
                      \/ m.review # "DRAFT_CREATED" /\ m.creates > 0
    IN  [cons |-> cons, res |-> openReview \/ m.review = "DRAFT_CREATED",
         excl |-> FALSE, open |-> spentPut \/ openReview]

LedgerKind(status) ==
    [NoKind EXCEPT !.cons = status \in LiveStates \cup UnsafeStates,
                   !.excl = status \in ExcludedStatuses,
                   !.open = status \in UnsafeStates]

QueueKind(status, hasManifest) ==
    LET k == LedgerKind(status)
    IN  [k EXCEPT !.cons = @ \/ status = "SCHEDULED",
                  !.excl = @ \/ (status = "DRAFTED" /\ ~hasManifest)]

\* Between the manifests of one candidate the unsettled one governs ...
SiblingRank(k) ==
    CASE k.cons /\ k.open -> 0
      [] k.res /\ k.open /\ ~k.cons -> 1
      [] k.cons /\ ~k.open -> 2
      [] k.res /\ ~k.open /\ ~k.cons -> 3
      [] OTHER -> 4
\* ... between records that may correct one another, the settled one.
SeverityRank(k) ==
    CASE k.cons /\ ~k.open -> 0
      [] k.cons /\ k.open -> 1
      [] k.res /\ ~k.open /\ ~k.cons -> 2
      [] k.res /\ k.open /\ ~k.cons -> 3
      [] k.excl /\ ~k.cons /\ ~k.res -> 4
      [] OTHER -> 5

GoverningKind(kinds) ==
    CHOOSE k \in kinds : \A other \in kinds : SiblingRank(k) <= SiblingRank(other)

\* The candidate seen again: its manifests, then the first row of weight in the
\* publish ledger, then its queue row.  A queue row of no weight still replaces the open flag.
Resurfaced(view) ==
    LET kinds == {ManifestKind(m) : m \in view.manifests}
        m == IF kinds = {} THEN NoKind ELSE GoverningKind(kinds)
        row == LedgerKind(view.ledger)
        l == IF m.cons \/ ~row.cons THEN m
             ELSE [m EXCEPT !.cons = TRUE, !.open = @ \/ row.open]
        q == QueueKind(view.queue, kinds # {})
    IN  IF view.queue = None \/ l.cons THEN l
        ELSE [l EXCEPT !.cons = q.cons, !.excl = q.excl, !.open = q.open]

IsResurfaced(view) == view.manifests # {} \/ view.ledger # None \/ view.queue # None

Decide(decision, reason, recon) ==
    [decision |-> decision, reason |-> reason, recon |-> recon]

DuplicateReason(decision, k) ==
    IF k.cons THEN Decide(decision, "EXISTING_CONSEQUENTIAL_STATE", k.open)
    ELSE IF k.res THEN Decide(decision, "EXISTING_DRAFT_REQUEST", k.open)
    ELSE IF k.excl THEN Decide(decision, "CANDIDATE_EXCLUDED", FALSE)
    ELSE Decide(decision, IF decision = "EXACT_DUPLICATE" THEN "EXACT_EVENT_DUPLICATE"
                          ELSE "SAME_EVENT_DIFFERENT_SOURCE", FALSE)

Unresolved == Decide("AMBIGUOUS_IDENTITY", "IDENTITY_UNRESOLVED", TRUE)

\* Lines of the topic ledger about the same event, and the one that governs.
RelatedTopics(a, view) == {i \in DOMAIN view.topics : view.topics[i].event = EventOf(a)}
GoverningTopic(a, view) ==
    LET Rank(i) == SeverityRank(LedgerKind(view.topics[i].status))
    IN  view.topics[CHOOSE i \in RelatedTopics(a, view) :
                        \A j \in RelatedTopics(a, view) :
                            Rank(i) < Rank(j) \/ (Rank(i) = Rank(j) /\ i <= j)]

\* A row of the same event: the same claim of it, or a follow-up, which the
\* assessment must assert and the row's own state must allow.
FromTopic(a, row) ==
    LET k == LedgerKind(row.status)
    IN  IF row.claim \in {None, a.claim} THEN DuplicateReason("SAME_EVENT", k)
        ELSE IF ~a.delta THEN Unresolved
        ELSE IF k.cons /\ k.open
             THEN Decide("MATERIAL_FOLLOW_UP", "UNRESOLVED_EVENT_HISTORY", TRUE)
             ELSE Decide("MATERIAL_FOLLOW_UP", "VERIFIED_FOLLOW_UP", FALSE)

EvaluateIdentity(a, view) ==
    IF IdentityBasis(a) = "UNRESOLVED" THEN Unresolved
    ELSE IF IsResurfaced(view) THEN DuplicateReason("EXACT_DUPLICATE", Resurfaced(view))
    ELSE IF RelatedTopics(a, view) # {} THEN FromTopic(a, GoverningTopic(a, view))
    ELSE IF ~view.proven THEN Decide("AMBIGUOUS_IDENTITY", "STATE_UNAVAILABLE_OR_CONFLICTING", TRUE)
    ELSE IF IdentityBasis(a) = "CANONICAL_SOURCE" \/ a.delta THEN Unresolved
    ELSE Decide("DISTINCT_EVENT", "NO_MATCH", FALSE)

AmbiguousCodes == {"IDENTITY_UNRESOLVED", "STATE_UNAVAILABLE_OR_CONFLICTING"}
SuppressCodes == {"EXISTING_CONSEQUENTIAL_STATE", "UNRESOLVED_EVENT_HISTORY",
                  "EXISTING_DRAFT_REQUEST", "CANDIDATE_EXCLUDED",
                  "EXACT_EVENT_DUPLICATE", "SAME_EVENT_DIFFERENT_SOURCE"}
-----------------------------------------------------------------------------
(* Routing.                                                                *)

Accelerated == {"IMMEDIATE_STORY_DRAFT", "IMMEDIATE_STORY_AND_MAIN_DRAFT"}

\* The main format both scores and structure agree on, or None.
SelectMainFormat(main, capacity) ==
    LET multi == main.multi /\ ~main.single
        single == main.single /\ ~main.multi
    IN  IF ~capacity \/ (~main.feed /\ ~main.carousel) THEN None
        ELSE IF main.carousel /\ (~main.feed \/ multi) THEN "CAROUSEL"
        ELSE IF main.feed /\ (~main.carousel \/ single) THEN "FEED"
        ELSE None

Routed(decision, targets, recon) ==
    [decision |-> decision, targets |-> targets, recon |-> recon]

\* Story drafts first; a main draft only beside a Story and only for an
\* exceptional development with a justification and a format.
EvaluateRouting(a, id, storyCapacity, mainCapacity) ==
    LET format == IF a.severity # "EXCEPTIONAL_BREAKING" \/ a.main = None THEN None
                  ELSE SelectMainFormat(a.main, mainCapacity)
    IN  IF id.reason \in SuppressCodes THEN Routed("SUPPRESS_DUPLICATE", {}, id.recon)
        ELSE IF id.decision = "AMBIGUOUS_IDENTITY"
             THEN Routed("BLOCKED_AMBIGUOUS_IDENTITY", {}, TRUE)
        ELSE IF ~a.verified THEN Routed("BLOCKED_UNVERIFIED", {}, FALSE)
        ELSE IF a.covered THEN Routed("SUPPRESS_RECENT_COVERAGE", {}, FALSE)
        ELSE IF a.severity = "NORMAL" THEN Routed("NORMAL_QUEUE", {}, FALSE)
        ELSE IF ~(a.safe /\ storyCapacity) THEN Routed("BLOCKED_DRAFT_SAFETY", {}, FALSE)
        ELSE IF format = None THEN Routed("IMMEDIATE_STORY_DRAFT", {"STORY"}, FALSE)
        ELSE Routed("IMMEDIATE_STORY_AND_MAIN_DRAFT", {"STORY", format}, FALSE)

\* validate_routing_result_dict: what a dispatcher accepts as a decision.
Licensed(a, id, route) ==
    /\ id.decision \in {"EXACT_DUPLICATE", "SAME_EVENT"} =>
           route.decision = "SUPPRESS_DUPLICATE"
    /\ route.decision = "BLOCKED_AMBIGUOUS_IDENTITY" => route.recon
    /\ route.decision \in Accelerated =>
           /\ a.verified /\ a.severity # "NORMAL"
           /\ IdentityBasis(a) # "UNRESOLVED"
           /\ id.decision \in {"DISTINCT_EVENT", "MATERIAL_FOLLOW_UP"}
           /\ ~route.recon
    /\ CASE route.decision = "IMMEDIATE_STORY_DRAFT" -> route.targets = {"STORY"}
         [] route.decision = "IMMEDIATE_STORY_AND_MAIN_DRAFT" ->
                /\ a.severity = "EXCEPTIONAL_BREAKING" /\ a.main # None
                /\ \E f \in MainFormats : route.targets = {"STORY", f}
         [] OTHER -> route.targets = {}
-----------------------------------------------------------------------------
(* Load: what occupies the day's slots of a format.                        *)

PendingPublication == {"PUBLISH_ACCEPTED", "PUBLISHING", "PUBLISH_IN_FLIGHT",
                       "UNKNOWN", "READBACK_FAILED", "CHECK_REQUIRED"}

IsPending(m) ==
    /\ m.pub # "FAILED"
    /\ \/ m.review = "DRAFT_CREATED" /\ m.pub = "NOT_REQUESTED"
       \/ m.first /\ ~m.final
       \/ m.pub \in PendingPublication
=============================================================================
