------------------------ MODULE BreakingDispatchProofs ------------------------
(***************************************************************************)
(* Proofs about BreakingDispatch: its inductive invariant for every set of *)
(* occurrences, assessments and histories, and the three safety properties *)
(* that rest on it.                                                        *)
(***************************************************************************)
EXTENDS BreakingDispatch, TLAPS, FiniteSetTheorems

-----------------------------------------------------------------------------
(* The decisions.                                                          *)

\* EvaluateIdentity: what is neither suppressed nor ambiguous is a new event or
\* a follow-up of one, of an assessment whose identity has a basis.
LEMMA IdentityResolves ==
    ASSUME NEW a, NEW view
    PROVE  Resolved(a, EvaluateIdentity(a, view))
<1>1. ASSUME NEW decision, NEW k
      PROVE  DuplicateReason(decision, k).reason \in SuppressCodes
  BY DEF DuplicateReason, Decide, SuppressCodes
<1>2. Unresolved.decision = "AMBIGUOUS_IDENTITY"
  BY DEF Unresolved, Decide
<1>3. ASSUME NEW row, IdentityBasis(a) # "UNRESOLVED"
      PROVE  Resolved(a, FromTopic(a, row))
  <2> DEFINE k == LedgerKind(row.status)
  <2>1. CASE row.claim \in {None, a.claim}
    BY <1>1, <2>1 DEF FromTopic, Resolved
  <2>2. CASE row.claim \notin {None, a.claim} /\ ~a.delta
    BY <1>2, <2>2 DEF FromTopic, Resolved
  <2>3. CASE row.claim \notin {None, a.claim} /\ a.delta /\ k.cons /\ k.open
    <3>1. FromTopic(a, row) = Decide("MATERIAL_FOLLOW_UP", "UNRESOLVED_EVENT_HISTORY", TRUE)
      BY <2>3 DEF FromTopic
    <3> QED
      BY <3>1 DEF Resolved, Decide, SuppressCodes
  <2>4. CASE row.claim \notin {None, a.claim} /\ a.delta /\ ~(k.cons /\ k.open)
    <3>1. FromTopic(a, row) = Decide("MATERIAL_FOLLOW_UP", "VERIFIED_FOLLOW_UP", FALSE)
      BY <2>4 DEF FromTopic
    <3>2. FromTopic(a, row) \in Identity
      BY <3>1 DEF Identity, Decide
    <3> QED
      BY <3>2, <1>3 DEF Resolved
  <2> QED
    BY <2>1, <2>2, <2>3, <2>4
<1>4. Decide("AMBIGUOUS_IDENTITY", "STATE_UNAVAILABLE_OR_CONFLICTING", TRUE).decision
          = "AMBIGUOUS_IDENTITY"
  BY DEF Decide
<1>5. Decide("DISTINCT_EVENT", "NO_MATCH", FALSE) \in Identity
  BY DEF Decide, Identity
<1>6. CASE IdentityBasis(a) = "UNRESOLVED"
  BY <1>2, <1>6 DEF EvaluateIdentity, Resolved
<1>7. CASE IdentityBasis(a) # "UNRESOLVED" /\ IsResurfaced(view)
  BY <1>1, <1>7 DEF EvaluateIdentity, Resolved
<1>8. CASE IdentityBasis(a) # "UNRESOLVED" /\ ~IsResurfaced(view) /\ RelatedTopics(a, view) # {}
  BY <1>3, <1>8 DEF EvaluateIdentity
<1>9. CASE IdentityBasis(a) # "UNRESOLVED" /\ ~IsResurfaced(view) /\ RelatedTopics(a, view) = {}
  BY <1>2, <1>4, <1>5, <1>9 DEF EvaluateIdentity, Resolved
<1> QED
  BY <1>6, <1>7, <1>8, <1>9

\* SelectMainFormat answers a main format or none.
LEMMA MainFormatOrNone ==
    ASSUME NEW main, NEW capacity
    PROVE  SelectMainFormat(main, capacity) \in MainFormats \cup {None}
  BY DEF SelectMainFormat, MainFormats

\* EvaluateRouting: an accelerated route of a resolved identity is one a
\* dispatcher accepts, and its fields have their types.
LEMMA RoutingIsLicensed ==
    ASSUME NEW a, a.severity \in Severities, NEW id, Resolved(a, id), NEW sc, NEW mc,
           NEW route, route = EvaluateRouting(a, id, sc, mc), route.decision \in Accelerated
    PROVE  /\ id \in Identity /\ Licensed(a, id, route)
           /\ route \in [decision : Accelerated, targets : SUBSET Targets, recon : {FALSE}]
<1> DEFINE format == IF a.severity # "EXCEPTIONAL_BREAKING" \/ a.main = None THEN None
                     ELSE SelectMainFormat(a.main, mc)
<1>1. format \in MainFormats \cup {None}
  BY MainFormatOrNone
<1>2. format # None => a.severity = "EXCEPTIONAL_BREAKING" /\ a.main # None
  OBVIOUS
<1> HIDE DEF format
<1>3. route = IF id.reason \in SuppressCodes THEN Routed("SUPPRESS_DUPLICATE", {}, id.recon)
              ELSE IF id.decision = "AMBIGUOUS_IDENTITY"
                   THEN Routed("BLOCKED_AMBIGUOUS_IDENTITY", {}, TRUE)
              ELSE IF ~a.verified THEN Routed("BLOCKED_UNVERIFIED", {}, FALSE)
              ELSE IF a.covered THEN Routed("SUPPRESS_RECENT_COVERAGE", {}, FALSE)
              ELSE IF a.severity = "NORMAL" THEN Routed("NORMAL_QUEUE", {}, FALSE)
              ELSE IF ~(a.safe /\ sc) THEN Routed("BLOCKED_DRAFT_SAFETY", {}, FALSE)
              ELSE IF format = None THEN Routed("IMMEDIATE_STORY_DRAFT", {"STORY"}, FALSE)
              ELSE Routed("IMMEDIATE_STORY_AND_MAIN_DRAFT", {"STORY", format}, FALSE)
  BY DEF EvaluateRouting, format
<1>4. /\ id.reason \notin SuppressCodes /\ id.decision # "AMBIGUOUS_IDENTITY"
      /\ a.verified /\ a.severity # "NORMAL"
      /\ route = IF format = None THEN Routed("IMMEDIATE_STORY_DRAFT", {"STORY"}, FALSE)
                 ELSE Routed("IMMEDIATE_STORY_AND_MAIN_DRAFT", {"STORY", format}, FALSE)
  BY <1>3 DEF Routed, Accelerated
<1>5. id \in Identity /\ IdentityBasis(a) # "UNRESOLVED"
  BY <1>4 DEF Resolved
<1>6. route.recon = FALSE /\ route.decision \in Accelerated
      /\ \/ route.decision = "IMMEDIATE_STORY_DRAFT" /\ route.targets = {"STORY"}
         \/ /\ route.decision = "IMMEDIATE_STORY_AND_MAIN_DRAFT"
            /\ route.targets = {"STORY", format} /\ format \in MainFormats
            /\ a.severity = "EXCEPTIONAL_BREAKING" /\ a.main # None
  <2>1. CASE format = None
    BY <1>4, <2>1 DEF Routed
  <2>2. CASE format # None
    <3>1. format \in MainFormats
      BY <1>1, <2>2
    <3> QED
      BY <3>1, <1>2, <1>4, <2>2 DEF Routed
  <2> QED
    BY <2>1, <2>2
<1>7. route = [decision |-> route.decision, targets |-> route.targets, recon |-> route.recon]
  <2>1. CASE format = None
    BY <1>4, <2>1 DEF Routed
  <2>2. CASE format # None
    BY <1>4, <2>2 DEF Routed
  <2> QED
    BY <2>1, <2>2
<1>8. route.targets \in SUBSET Targets
  BY <1>6 DEF Targets
<1>9. route \in [decision : Accelerated, targets : SUBSET Targets, recon : {FALSE}]
  BY <1>6, <1>7, <1>8
<1>10. id.decision \in {"DISTINCT_EVENT", "MATERIAL_FOLLOW_UP"}
  BY <1>5 DEF Identity
<1>11. Licensed(a, id, route)
  <2>1. CASE route.decision = "IMMEDIATE_STORY_DRAFT"
    BY <2>1, <1>4, <1>5, <1>6, <1>10 DEF Licensed
  <2>2. CASE route.decision # "IMMEDIATE_STORY_DRAFT"
    BY <2>2, <1>4, <1>5, <1>6, <1>10 DEF Licensed
  <2> QED
    BY <2>1, <2>2
<1> QED
  BY <1>5, <1>9, <1>11

\* An answer that suppresses nothing names neither a duplicate nor a same event,
\* and nothing of the development stands in its way.
LEMMA IdentityIsNew ==
    ASSUME NEW a, NEW view, EvaluateIdentity(a, view).reason \notin SuppressCodes
    PROVE  /\ EvaluateIdentity(a, view).decision \notin {"EXACT_DUPLICATE", "SAME_EVENT"}
           /\ \/ EvaluateIdentity(a, view).decision = "AMBIGUOUS_IDENTITY"
              \/ /\ ~IsResurfaced(view) /\ IdentityBasis(a) # "UNRESOLVED"
                 /\ IF RelatedTopics(a, view) = {}
                    THEN view.proven /\ ~a.delta /\ IdentityBasis(a) # "CANONICAL_SOURCE"
                    ELSE LET row == GoverningTopic(a, view)
                         IN  /\ a.delta /\ row.claim \notin {None, a.claim}
                             /\ ~(LedgerKind(row.status).cons /\ LedgerKind(row.status).open)
<1> DEFINE id == EvaluateIdentity(a, view)
           row == GoverningTopic(a, view)
           k == LedgerKind(row.status)
<1>1. ASSUME NEW decision, NEW kind
      PROVE  DuplicateReason(decision, kind).reason \in SuppressCodes
  BY DEF DuplicateReason, Decide, SuppressCodes
<1>2. Unresolved.decision = "AMBIGUOUS_IDENTITY"
  BY DEF Unresolved, Decide
<1>3. CASE IdentityBasis(a) = "UNRESOLVED"
  BY <1>2, <1>3 DEF EvaluateIdentity
<1>4. ~(IdentityBasis(a) # "UNRESOLVED" /\ IsResurfaced(view))
  BY <1>1 DEF EvaluateIdentity
<1>5. CASE IdentityBasis(a) # "UNRESOLVED" /\ ~IsResurfaced(view) /\ RelatedTopics(a, view) # {}
  <2>1. id = FromTopic(a, row)
    BY <1>5 DEF EvaluateIdentity
  <2>2. row.claim \notin {None, a.claim}
    BY <1>1, <2>1 DEF FromTopic
  <2>3. CASE ~a.delta
    BY <1>2, <2>1, <2>2, <2>3 DEF FromTopic
  <2>4. CASE a.delta
    <3>1. ~(k.cons /\ k.open)
      <4>1. ASSUME k.cons /\ k.open PROVE FALSE
        <5>1. id = Decide("MATERIAL_FOLLOW_UP", "UNRESOLVED_EVENT_HISTORY", TRUE)
          BY <2>1, <2>2, <2>4, <4>1 DEF FromTopic
        <5> QED
          BY <5>1 DEF Decide, SuppressCodes
      <4> QED
        BY <4>1
    <3>2. id = Decide("MATERIAL_FOLLOW_UP", "VERIFIED_FOLLOW_UP", FALSE)
      BY <2>1, <2>2, <2>4, <3>1 DEF FromTopic
    <3>3. id.decision = "MATERIAL_FOLLOW_UP"
      BY <3>2 DEF Decide
    <3> QED
      BY <1>5, <2>2, <2>4, <3>1, <3>3
  <2> QED
    BY <2>3, <2>4
<1>6. CASE IdentityBasis(a) # "UNRESOLVED" /\ ~IsResurfaced(view) /\ RelatedTopics(a, view) = {}
  <2>1. CASE ~view.proven
    <3>1. id = Decide("AMBIGUOUS_IDENTITY", "STATE_UNAVAILABLE_OR_CONFLICTING", TRUE)
      BY <1>6, <2>1 DEF EvaluateIdentity
    <3> QED
      BY <3>1 DEF Decide
  <2>2. CASE view.proven /\ (IdentityBasis(a) = "CANONICAL_SOURCE" \/ a.delta)
    BY <1>2, <1>6, <2>2 DEF EvaluateIdentity
  <2>3. CASE view.proven /\ ~(IdentityBasis(a) = "CANONICAL_SOURCE" \/ a.delta)
    <3>1. id = Decide("DISTINCT_EVENT", "NO_MATCH", FALSE)
      BY <1>6, <2>3 DEF EvaluateIdentity
    <3>2. id.decision = "DISTINCT_EVENT"
      BY <3>1 DEF Decide
    <3> QED
      BY <1>6, <2>3, <3>2
  <2> QED
    BY <2>1, <2>2, <2>3
<1> QED
  BY <1>3, <1>4, <1>5, <1>6

\* The policy of the breaking path, for every assessment, repository and load: its
\* routing is always one a dispatcher accepts, and only a verified, safe, uncovered
\* development with a free slot is accelerated, of a candidate without any trace
\* and of an event that is new, or a follow-up whose history is settled.
THEOREM AccelerationIsEarned ==
    ASSUME NEW a, a.severity \in Severities, NEW view, NEW storyCapacity, NEW mainCapacity
    PROVE  LET id == EvaluateIdentity(a, view)
               route == EvaluateRouting(a, id, storyCapacity, mainCapacity)
           IN  /\ Licensed(a, id, route)
               /\ route.decision \in Accelerated =>
                    /\ a.verified /\ ~a.covered /\ a.severity # "NORMAL"
                    /\ a.safe /\ storyCapacity
                    /\ ~IsResurfaced(view)
                    /\ IF RelatedTopics(a, view) = {}
                       THEN view.proven /\ ~a.delta /\ IdentityBasis(a) # "CANONICAL_SOURCE"
                       ELSE LET row == GoverningTopic(a, view)
                            IN  /\ a.delta /\ row.claim \notin {None, a.claim}
                                /\ ~(LedgerKind(row.status).cons /\ LedgerKind(row.status).open)
               /\ route.decision = "IMMEDIATE_STORY_AND_MAIN_DRAFT" => mainCapacity
<1> DEFINE id == EvaluateIdentity(a, view)
           route == EvaluateRouting(a, id, storyCapacity, mainCapacity)
           format == IF a.severity # "EXCEPTIONAL_BREAKING" \/ a.main = None THEN None
                     ELSE SelectMainFormat(a.main, mainCapacity)
           accelerated == IF format = None THEN Routed("IMMEDIATE_STORY_DRAFT", {"STORY"}, FALSE)
                          ELSE Routed("IMMEDIATE_STORY_AND_MAIN_DRAFT", {"STORY", format}, FALSE)
<1>1. Resolved(a, id)
  BY IdentityResolves
<1>2. format # None => mainCapacity
  BY DEF SelectMainFormat
<1>3. route = IF id.reason \in SuppressCodes THEN Routed("SUPPRESS_DUPLICATE", {}, id.recon)
              ELSE IF id.decision = "AMBIGUOUS_IDENTITY"
                   THEN Routed("BLOCKED_AMBIGUOUS_IDENTITY", {}, TRUE)
              ELSE IF ~a.verified THEN Routed("BLOCKED_UNVERIFIED", {}, FALSE)
              ELSE IF a.covered THEN Routed("SUPPRESS_RECENT_COVERAGE", {}, FALSE)
              ELSE IF a.severity = "NORMAL" THEN Routed("NORMAL_QUEUE", {}, FALSE)
              ELSE IF ~(a.safe /\ storyCapacity) THEN Routed("BLOCKED_DRAFT_SAFETY", {}, FALSE)
              ELSE accelerated
  BY DEF EvaluateRouting
<1> HIDE DEF format
<1>4. CASE /\ id.reason \notin SuppressCodes /\ id.decision # "AMBIGUOUS_IDENTITY"
           /\ a.verified /\ ~a.covered /\ a.severity # "NORMAL" /\ a.safe /\ storyCapacity
  <2>1. route = accelerated
    BY <1>3, <1>4
  <2>2. /\ route.decision \in Accelerated
        /\ route.decision = "IMMEDIATE_STORY_AND_MAIN_DRAFT" => format # None
    BY <2>1 DEF Routed, Accelerated
  <2> HIDE DEF route, id, accelerated
  <2>3. Licensed(a, id, route)
    <3> USE DEF route
    <3> QED
      BY <1>1, <2>2, RoutingIsLicensed
  <2>4. /\ ~IsResurfaced(view)
        /\ IF RelatedTopics(a, view) = {}
           THEN view.proven /\ ~a.delta /\ IdentityBasis(a) # "CANONICAL_SOURCE"
           ELSE LET row == GoverningTopic(a, view)
                IN  /\ a.delta /\ row.claim \notin {None, a.claim}
                    /\ ~(LedgerKind(row.status).cons /\ LedgerKind(row.status).open)
    <3>1. id.reason \notin SuppressCodes /\ id.decision # "AMBIGUOUS_IDENTITY"
      BY <1>4
    <3> QED
      BY <3>1, IdentityIsNew DEF id
  <2> USE DEF id, route
  <2> QED
    BY <1>2, <1>4, <2>2, <2>3, <2>4
<1>5. CASE ~(/\ id.reason \notin SuppressCodes /\ id.decision # "AMBIGUOUS_IDENTITY"
             /\ a.verified /\ ~a.covered /\ a.severity # "NORMAL" /\ a.safe /\ storyCapacity)
  <2>1. /\ route.decision \notin Accelerated /\ route.targets = {}
        /\ route.decision = "BLOCKED_AMBIGUOUS_IDENTITY" => route.recon
        /\ id.reason \in SuppressCodes => route.decision = "SUPPRESS_DUPLICATE"
    <3> HIDE DEF id, route
    <3> QED
      BY <1>3, <1>5 DEF Routed, Accelerated
  <2>2. id.decision \in {"EXACT_DUPLICATE", "SAME_EVENT"} => route.decision = "SUPPRESS_DUPLICATE"
    BY <2>1, IdentityIsNew
  <2>3. Licensed(a, id, route)
    <3> HIDE DEF id, route
    <3> QED
      BY <2>1, <2>2 DEF Licensed, Accelerated
  <2> HIDE DEF id, route
  <2>4. route.decision # "IMMEDIATE_STORY_AND_MAIN_DRAFT"
    BY <2>1 DEF Accelerated
  <2> USE DEF id, route
  <2> QED
    BY <2>1, <2>3, <2>4
<1> QED
  BY <1>4, <1>5

\* A licensed decision has a Story and at most one main target.
LEMMA LicensedTargets ==
    ASSUME NEW decision \in Decision,
           Licensed(decision.a, decision.id, decision.route)
    PROVE  LET targets == decision.route.targets IN
           /\ "STORY" \in targets /\ targets \subseteq Targets
           /\ \A t, u \in targets : t # "STORY" /\ u # "STORY" => t = u
  BY DEF Decision, Accelerated, Licensed, Targets, MainFormats

\* The main target of a set is its one target that is not the Story.
LEMMA MainTargetOf ==
    ASSUME NEW targets, targets \subseteq Targets, "STORY" \in targets
    PROVE  \/ MainTarget(targets) = None /\ targets = {"STORY"}
           \/ MainTarget(targets) \in targets \ {"STORY"} /\ MainTarget(targets) # None
<1>1. CASE targets \subseteq {"STORY"}
  BY <1>1 DEF MainTarget
<1>2. CASE ~(targets \subseteq {"STORY"})
  <2>1. PICK t \in targets : t # "STORY"
    BY <1>2
  <2>2. MainTarget(targets) \in targets /\ MainTarget(targets) # "STORY"
    BY <1>2, <2>1 DEF MainTarget
  <2> QED
    BY <2>2, NoneAssumption
<1> QED
  BY <1>1, <1>2
-----------------------------------------------------------------------------
(* Draft set records.                                                      *)

\* A set's record has a Story, a bounded set of targets and a typed status.
LEMMA RecordShape ==
    ASSUME NEW d, NEW s, SetFacts(d, s)
    PROVE  /\ s.decision \in Decision /\ s.recon \in BOOLEAN
           /\ s = [decision |-> s.decision, recon |-> s.recon, status |-> s.status]
           /\ s.status \in [s.decision.route.targets -> Statuses]
           /\ DOMAIN s.status = s.decision.route.targets
           /\ "STORY" \in DOMAIN s.status /\ DOMAIN s.status \subseteq Targets
           /\ \A t, u \in DOMAIN s.status : t # "STORY" /\ u # "STORY" => t = u
           /\ s # None
<1>1. /\ s.decision \in Decision /\ s \in SetRecord(s.decision)
      /\ Licensed(s.decision.a, s.decision.id, s.decision.route)
  BY DEF SetFacts
<1>2. /\ s.recon \in BOOLEAN /\ s.status \in [s.decision.route.targets -> Statuses]
      /\ s = [decision |-> s.decision, recon |-> s.recon, status |-> s.status]
      /\ DOMAIN s.status = s.decision.route.targets
  BY <1>1 DEF SetRecord
<1>3. s # None
  BY <1>1, NoneAssumption
<1> QED
  BY <1>1, <1>2, <1>3, LicensedTargets

\* The target an ordinary dispatch goes on with is PENDING, after its Story.
LEMMA NextTargetIsPending ==
    ASSUME NEW d, NEW s, SetFacts(d, s), NextTarget(s) # None
    PROVE  /\ NextTarget(s) \in DOMAIN s.status /\ s.status[NextTarget(s)] = "PENDING"
           /\ NextTarget(s) # "STORY" => s.status["STORY"] = "SUCCEEDED"
<1>1. MainTarget(DOMAIN s.status) # None => MainTarget(DOMAIN s.status) \in DOMAIN s.status
  BY RecordShape, MainTargetOf
<1>2. CASE s.status["STORY"] = "PENDING"
  BY <1>2, RecordShape DEF NextTarget
<1>3. CASE s.status["STORY"] # "PENDING"
  BY <1>1, <1>3 DEF NextTarget
<1> QED
  BY <1>2, <1>3

\* The outcome of a dispatch names the requests its set records as succeeded.
LEMMA OutcomeNamesSuccesses ==
    ASSUME NEW d \in Developments, NEW s, SetFacts(d, s)
    PROVE  /\ SetOutcome(d, s) \in Outcome
           /\ \A k \in SetOutcome(d, s).artifacts :
                 /\ k[1] = s.decision.a.cand /\ k[2] = d
                 /\ k[3] \in DOMAIN s.status /\ s.status[k[3]] = "SUCCEEDED"
<1> DEFINE artifacts == {<<s.decision.a.cand, d, t>> :
                            t \in {u \in DOMAIN s.status : s.status[u] = "SUCCEEDED"}}
<1>1. SetOutcome(d, s).artifacts = artifacts
  BY DEF SetOutcome
<1>2. SetOutcome(d, s) = [domain |-> SetOutcome(d, s).domain,
                          artifacts |-> SetOutcome(d, s).artifacts]
  BY DEF SetOutcome
<1>3. SetOutcome(d, s).domain \in Outcomes
  BY DEF SetOutcome, Outcomes
<1>4. s.decision.a.cand \in Candidates
  <2>1. s.decision.a \in Assessments
    BY RecordShape DEF Decision
  <2> QED
    BY <2>1 DEF Candidates
<1>5. artifacts \subseteq Keys
  BY <1>4, RecordShape DEF Keys
<1> QED
  BY <1>1, <1>2, <1>3, <1>5 DEF Outcome

\* A target's new status leaves a sound record, if what it says is so.
LEMMA StatusIsSound ==
    ASSUME NEW d, NEW s, SetFacts(d, s), NEW t \in DOMAIN s.status, NEW status \in Statuses,
           t # "STORY" => s.status["STORY"] = "SUCCEEDED", s.status[t] # "SUCCEEDED",
           status = "SUCCEEDED" => sent[KeyOf(s, d, t)] = "SENT",
           status \in {"PENDING", "BLOCKED_BEFORE_ATTEMPT"} => Fresh(KeyOf(s, d, t)),
           NEW s1, s1 = SetStatus(s, t, status)
    PROVE  /\ SetFacts(d, s1) /\ s1.decision = s.decision
           /\ s1.status = [s.status EXCEPT ![t] = status]
<1>1. /\ s.decision \in Decision /\ s.recon \in BOOLEAN
      /\ s = [decision |-> s.decision, recon |-> s.recon, status |-> s.status]
      /\ s.status \in [s.decision.route.targets -> Statuses]
      /\ "STORY" \in DOMAIN s.status
  BY RecordShape
<1>2. /\ s1.decision = s.decision /\ s1.status = [s.status EXCEPT ![t] = status]
      /\ s1.recon = (s.recon \/ status = "AMBIGUOUS")
      /\ s1 = [decision |-> s1.decision, recon |-> s1.recon, status |-> s1.status]
  BY <1>1 DEF SetStatus
<1>3. s1 \in SetRecord(s1.decision)
  <2>1. s1.status \in [s.decision.route.targets -> Statuses] /\ s1.recon \in BOOLEAN
    BY <1>1, <1>2
  <2> QED
    BY <1>2, <2>1 DEF SetRecord
<1>4. DOMAIN s1.status = DOMAIN s.status
  BY <1>2
<1>5. ASSUME NEW u \in DOMAIN s1.status
      PROVE  /\ s1.status[u] = "AMBIGUOUS" => s1.recon
             /\ s1.status[u] = "SUCCEEDED" => sent[KeyOf(s1, d, u)] = "SENT"
             /\ s1.status[u] \in {"PENDING", "BLOCKED_BEFORE_ATTEMPT"} => Fresh(KeyOf(s1, d, u))
             /\ u # "STORY" /\ work[KeyOf(s1, d, u)] # None => s1.status["STORY"] = "SUCCEEDED"
  <2>1. KeyOf(s1, d, u) = KeyOf(s, d, u)
    BY <1>2 DEF KeyOf
  <2>2. /\ s.status[u] = "AMBIGUOUS" => s.recon
        /\ s.status[u] = "SUCCEEDED" => sent[KeyOf(s, d, u)] = "SENT"
        /\ s.status[u] \in {"PENDING", "BLOCKED_BEFORE_ATTEMPT"} => Fresh(KeyOf(s, d, u))
        /\ u # "STORY" /\ work[KeyOf(s, d, u)] # None => s.status["STORY"] = "SUCCEEDED"
    BY <1>4 DEF SetFacts
  <2>3. CASE u = t
    <3>1. s1.status[u] = status
      BY <1>2, <2>3
    <3>2. t # "STORY" => s1.status["STORY"] = "SUCCEEDED"
      BY <1>1, <1>2
    <3> QED
      BY <2>1, <3>1, <3>2, <1>2, <2>2, <2>3
  <2>4. CASE u # t
    <3>1. s1.status[u] = s.status[u]
      BY <1>2, <2>4, <1>4
    <3>2. s.status["STORY"] = "SUCCEEDED" => s1.status["STORY"] = "SUCCEEDED"
      BY <1>1, <1>2
    <3> QED
      BY <2>1, <2>2, <3>1, <3>2, <1>2
  <2> QED
    BY <2>3, <2>4
<1>6. DevelopmentOf(s.decision.a) = d /\ Licensed(s.decision.a, s.decision.id, s.decision.route)
  BY DEF SetFacts
<1> QED
  BY <1>1, <1>2, <1>3, <1>5, <1>6 DEF SetFacts

\* The record with another recon flag.
SetRecon(s, recon) == [s EXCEPT !.recon = recon]

\* Asking for reconciliation leaves a sound record.
LEMMA ReconIsSound ==
    ASSUME NEW d, NEW s, SetFacts(d, s), NEW recon \in BOOLEAN, s.recon => recon,
           NEW s1, s1 = SetRecon(s, recon)
    PROVE  SetFacts(d, s1) /\ s1.decision = s.decision /\ s1.status = s.status
<1>1. /\ s = [decision |-> s.decision, recon |-> s.recon, status |-> s.status]
      /\ s.status \in [s.decision.route.targets -> Statuses]
  BY RecordShape
<1>2. /\ s1.decision = s.decision /\ s1.status = s.status /\ s1.recon = recon
      /\ s1 = [decision |-> s1.decision, recon |-> s1.recon, status |-> s1.status]
  BY <1>1 DEF SetRecon
<1>3. s1 \in SetRecord(s1.decision)
  BY <1>1, <1>2 DEF SetRecord
<1>4. \A t : KeyOf(s1, d, t) = KeyOf(s, d, t)
  BY <1>2 DEF KeyOf
<1> QED
  BY <1>2, <1>3, <1>4 DEF SetFacts
-----------------------------------------------------------------------------
(* Runners and requests.                                                   *)

\* A runner inside a set's lock works on a request of that set.
LEMMA InsideBasics ==
    ASSUME Coherent, NEW r \in Runners, run[r].pc \in Inside
    PROVE  /\ InsideFacts(r) /\ Dev(r) \in Developments /\ Key(r) \in Keys
           /\ run[r].target \in Targets
           /\ SetFacts(Dev(r), set[Dev(r)])
           /\ Key(r) = KeyOf(set[Dev(r)], Dev(r), run[r].target)
           /\ Key(r)[1] = set[Dev(r)].decision.a.cand
           /\ Key(r)[2] = Dev(r) /\ Key(r)[3] = run[r].target
<1>1. InsideFacts(r)
  BY DEF Coherent, RunFacts, Inside
<1>2. /\ run[r].decision \in Decision /\ set[Dev(r)] # None
      /\ set[Dev(r)].decision = run[r].decision
      /\ run[r].target \in DOMAIN set[Dev(r)].status
  BY <1>1 DEF InsideFacts
<1>3. run[r].decision.a \in Assessments
  BY <1>2 DEF Decision
<1>4. Dev(r) \in Developments /\ run[r].decision.a.cand \in Candidates
  BY <1>3 DEF Dev, Developments, Candidates
<1>5. SetFacts(Dev(r), set[Dev(r)])
  BY <1>2, <1>4 DEF Coherent
<1>6. run[r].target \in Targets
  BY <1>2, <1>5, RecordShape
<1>7. Key(r) \in Keys
  BY <1>4, <1>6 DEF Key, Keys
<1> QED
  BY <1>1, <1>2, <1>4, <1>5, <1>6, <1>7 DEF Key, KeyOf

\* Two runners inside sets are inside different ones, on different requests.
LEMMA OneRunnerPerSet ==
    ASSUME Coherent, NEW r \in Runners, NEW q \in Runners, q # r,
           run[r].pc \in Inside, run[q].pc \in Inside
    PROVE  Dev(q) # Dev(r) /\ Key(q) # Key(r)
<1>1. holder[Dev(r)] = r /\ holder[Dev(q)] = q
  BY InsideBasics DEF InsideFacts
<1>2. Dev(q) # Dev(r)
  BY <1>1
<1> QED
  BY <1>2, InsideBasics

\* Runners outside every set.
LEMMA OutsideIsNotInside ==
    ASSUME NEW r, run[r].pc \in {"idle", "route", "reserve", "emit"}
    PROVE  run[r].pc \notin Inside
  BY DEF Inside

\* The manifests are told apart from what is absent and from a text.
LEMMA ManifestOrNot ==
    ASSUME TypeOK, NEW k \in Keys
    PROVE  IsManifest(work[k]) <=> work[k] \in Manifest
  BY NoneAssumption DEF TypeOK, IsManifest

\* What does not undo a request: it stays untouched, a manifest, a draft, shown.
Kept(k) ==
    /\ Fresh(k) => Fresh(k)'
    /\ work[k] # None => work'[k] # None
    /\ IsManifest(work[k]) => IsManifest(work'[k])
    /\ IsManifest(work[k]) /\ work[k].review = "DRAFT_CREATED"
          => work'[k].review = "DRAFT_CREATED"
    /\ sent[k] # None => sent'[k] = sent[k]

\* A request nothing touched is kept.
LEMMA UntouchedIsKept ==
    ASSUME NEW k, work'[k] = work[k], sent'[k] = sent[k], k \in child' <=> k \in child
    PROVE  Kept(k)
  BY DEF Kept, Fresh, IsManifest

\* A runner that did not move keeps what it relies on, if its lock, its set and
\* its request were left alone.
LEMMA BystanderStays ==
    ASSUME Coherent, NEW r \in Runners, run'[r] = run[r], assess' = assess,
           run[r].pc \in Inside => /\ holder'[Dev(r)] = holder[Dev(r)]
                                   /\ set'[Dev(r)] = set[Dev(r)] /\ Kept(Key(r)),
           \A k \in Keys : Achieved(k) => Achieved(k)'
    PROVE  RunFacts(r)'
<1>1. RunFacts(r)
  BY DEF Coherent
<1>2. CASE run[r].pc \in Inside
  <2>1. InsideFacts(r)
    BY <1>2, InsideBasics
  <2>2. Dev(r)' = Dev(r) /\ Key(r)' = Key(r)
    BY DEF Dev, Key
  <2>3. InsideFacts(r)'
    <3>1. /\ run'[r].decision \in Decision
          /\ holder'[Dev(r)] = r /\ set'[Dev(r)] # None /\ set'[Dev(r)].decision = run'[r].decision
      BY <1>2, <2>1 DEF InsideFacts
    <3>2. LET status == set'[Dev(r)].status
              t == run'[r].target
          IN  /\ t \in DOMAIN status /\ (t # "STORY" => status["STORY"] = "SUCCEEDED")
              /\ status[t] \in IF run'[r].pc = "recheck" THEN {"PENDING", "BLOCKED_BEFORE_ATTEMPT"}
                               ELSE {"DISPATCH_IN_FLIGHT"}
      BY <1>2, <2>1 DEF InsideFacts
    <3>3. /\ run'[r].pc \in {"spec", "build"} => Fresh(Key(r))'
          /\ run'[r].pc = "build" => work'[Key(r)] # None
          /\ run'[r].pc \in {"wait", "preview", "classify"} => IsManifest(work'[Key(r)])
          /\ run'[r].pc = "preview" => work'[Key(r)].review = "DRAFT_CREATED"
          /\ run'[r].pc = "classify" => sent'[Key(r)] # None
      BY <1>2, <2>1 DEF InsideFacts, Kept
    <3> QED
      BY <2>2, <3>1, <3>2, <3>3 DEF InsideFacts, Fresh
  <2> QED
    BY <1>2, <2>3 DEF RunFacts
<1>3. CASE run[r].pc \notin Inside
  <2>1. CASE run[r].pc = "emit"
    <3>1. r \in Occurrences /\ Backed(run[r].outcome)
      BY <1>1, <2>1, <1>3 DEF RunFacts
    <3>2. Backed(run[r].outcome)'
      BY <3>1 DEF Backed, Outcome
    <3> QED
      BY <2>1, <3>1, <3>2 DEF RunFacts
  <2>2. CASE run[r].pc # "emit"
    BY <1>1, <1>3, <2>2 DEF RunFacts
  <2> QED
    BY <2>1, <2>2
<1> QED
  BY <1>2, <1>3

\* What was achieved stays so while the sets of the requests do.
LEMMA AchievedStays ==
    ASSUME set' = set
    PROVE  \A k \in Keys : Achieved(k) => Achieved(k)'
  BY DEF Achieved

\* Persisted results stay backed.
LEMMA ResultsStayBacked ==
    ASSUME Coherent, result' = result, \A k \in Keys : Achieved(k) => Achieved(k)'
    PROVE  (\A o \in Occurrences : result[o] # None => Backed(result[o]))'
<1>1. ASSUME NEW o \in Occurrences, result'[o] # None
      PROVE  Backed(result[o])'
  <2>1. Backed(result[o])
    BY <1>1 DEF Coherent
  <2> QED
    BY <2>1 DEF Backed, Outcome
<1> QED
  BY <1>1

\* One value of a function changes.
Assign(f, x, v) == [f EXCEPT ![x] = v]

\* A step that gives one development a sound record of the same decision, which
\* forgets no success, keeps the sets and the requests sound.
LEMMA SetStep ==
    ASSUME Coherent, NEW d \in Developments, NEW s, SetFacts(d, s), set' = Assign(set, d, s),
           UNCHANGED <<work, zernio, sent>>,
           set[d] # None =>
               /\ s.decision = set[d].decision
               /\ \A t \in DOMAIN s.status : set[d].status[t] = "SUCCEEDED" => s.status[t] = "SUCCEEDED"
    PROVE  /\ (\A e \in Developments : set[e] # None => SetFacts(e, set[e]))'
           /\ (\A k \in Keys : KeyFacts(k))'
           /\ \A k \in Keys : Achieved(k) => Achieved(k)'
           /\ \A k \in Keys : Kept(k)
<1>1. set = [e \in Developments |-> set[e]]
  BY DEF Coherent, TypeOK
<1>2. set'[d] = s /\ \A e \in Developments : e # d => set'[e] = set[e]
  BY <1>1 DEF Assign
<1>3. UNCHANGED <<work, child, drafts, sent>>
  BY DEF zernio
<1>4. \A k : Fresh(k)' <=> Fresh(k)
  BY <1>3 DEF Fresh, IsManifest
<1>5. ASSUME NEW e \in Developments, set'[e] # None
      PROVE  SetFacts(e, set[e])'
  <2>1. SetFacts(e, set'[e])
    BY <1>2, <1>5 DEF Coherent
  <2>2. \A t : KeyOf(set'[e], e, t) = KeyOf(set[e], e, t)'
    BY DEF KeyOf
  <2> QED
    BY <2>1, <2>2, <1>3, <1>4 DEF SetFacts
<1>6. s # None /\ DOMAIN s.status = s.decision.route.targets
  BY RecordShape
<1>7. set[d] # None => DOMAIN set[d].status = DOMAIN s.status
  <2>1. ASSUME set[d] # None
        PROVE  DOMAIN set[d].status = set[d].decision.route.targets
    <3>1. SetFacts(d, set[d])
      BY <2>1 DEF Coherent
    <3> QED
      BY <3>1, RecordShape
  <2> QED
    BY <2>1, <1>6
<1>8. ASSUME NEW k \in Keys
      PROVE  KeyFacts(k)'
  <2>1. k[2] \in Developments /\ KeyFacts(k)
    BY DEF Keys, Coherent
  <2>2. work'[k] # None => /\ set'[k[2]] # None /\ set'[k[2]].decision.a.cand = k[1]
                           /\ k[3] \in DOMAIN set'[k[2]].status
    <3>1. CASE k[2] = d
      BY <2>1, <3>1, <1>2, <1>3, <1>6, <1>7 DEF KeyFacts
    <3>2. CASE k[2] # d
      BY <2>1, <3>2, <1>2, <1>3 DEF KeyFacts
    <3> QED
      BY <3>1, <3>2
  <2> QED
    BY <2>1, <2>2, <1>3 DEF KeyFacts, IsManifest
<1>9. ASSUME NEW k \in Keys, Achieved(k)
      PROVE  Achieved(k)'
  <2>1. k[2] \in Developments
    BY DEF Keys
  <2>2. CASE k[2] = d
    BY <1>9, <2>2, <1>2, <1>6, <1>7 DEF Achieved
  <2>3. CASE k[2] # d
    BY <1>9, <2>1, <2>3, <1>2 DEF Achieved
  <2> QED
    BY <2>2, <2>3
<1>10. \A k \in Keys : Kept(k)
  BY <1>3, UntouchedIsKept
<1> QED
  BY <1>5, <1>8, <1>9, <1>10

\* A step that changes what is stored of one request, and no set, keeps the sets
\* and the requests sound if what its set says of it is still so.
LEMMA KeyStep ==
    ASSUME Coherent, NEW k \in Keys, set' = set,
           \A j \in Keys \ {k} : /\ work'[j] = work[j] /\ sent'[j] = sent[j]
                                 /\ drafts'[j] = drafts[j] /\ (j \in child' <=> j \in child),
           KeyFacts(k)',
           NEW s, s = set[k[2]],
           s # None /\ s.decision.a.cand = k[1] /\ k[3] \in DOMAIN s.status =>
               /\ s.status[k[3]] \in {"PENDING", "BLOCKED_BEFORE_ATTEMPT"} => Fresh(k)'
               /\ s.status[k[3]] = "SUCCEEDED" => sent'[k] = sent[k]
               /\ k[3] # "STORY" /\ work'[k] # None => s.status["STORY"] = "SUCCEEDED"
    PROVE  /\ (\A e \in Developments : set[e] # None => SetFacts(e, set[e]))'
           /\ (\A j \in Keys : KeyFacts(j))'
           /\ \A j \in Keys : Achieved(j) => Achieved(j)'
           /\ \A j \in Keys \ {k} : Kept(j)
<1>1. ASSUME NEW j \in Keys, j # k
      PROVE  Kept(j) /\ (Fresh(j)' <=> Fresh(j)) /\ KeyFacts(j)'
  <2>1. /\ work'[j] = work[j] /\ sent'[j] = sent[j] /\ drafts'[j] = drafts[j]
        /\ (j \in child' <=> j \in child)
    BY <1>1
  <2>2. KeyFacts(j)
    BY DEF Coherent
  <2>3. Kept(j)
    BY <2>1, UntouchedIsKept
  <2>4. Fresh(j)' <=> Fresh(j)
    BY <2>1 DEF Fresh, IsManifest
  <2> QED
    BY <2>1, <2>2, <2>3, <2>4 DEF KeyFacts, IsManifest
<1>2. ASSUME NEW e \in Developments, set'[e] # None
      PROVE  SetFacts(e, set[e])'
  <2> DEFINE z == set[e]
  <2>1. SetFacts(e, z)
    BY <1>2 DEF Coherent
  <2>2. z.decision.a \in Assessments /\ DOMAIN z.status \subseteq Targets
    BY <2>1, RecordShape DEF Decision
  <2>3. z.decision.a.cand \in Candidates
    BY <2>2 DEF Candidates
  <2>4. ASSUME NEW t \in DOMAIN z.status
        PROVE  /\ z.status[t] = "AMBIGUOUS" => z.recon
               /\ z.status[t] = "SUCCEEDED" => sent'[KeyOf(z, e, t)] = "SENT"
               /\ z.status[t] \in {"PENDING", "BLOCKED_BEFORE_ATTEMPT"} => Fresh(KeyOf(z, e, t))'
               /\ t # "STORY" /\ work'[KeyOf(z, e, t)] # None => z.status["STORY"] = "SUCCEEDED"
    <3> DEFINE j == KeyOf(z, e, t)
    <3>1. j \in Keys
      BY <2>2, <2>3 DEF KeyOf, Keys
    <3>2. /\ z.status[t] = "AMBIGUOUS" => z.recon
          /\ z.status[t] = "SUCCEEDED" => sent[j] = "SENT"
          /\ z.status[t] \in {"PENDING", "BLOCKED_BEFORE_ATTEMPT"} => Fresh(j)
          /\ t # "STORY" /\ work[j] # None => z.status["STORY"] = "SUCCEEDED"
      BY <2>1 DEF SetFacts
    <3>3. CASE j # k
      <4>1. work'[j] = work[j] /\ sent'[j] = sent[j]
        BY <3>1, <3>3
      <4>2. Fresh(j)' <=> Fresh(j)
        BY <3>1, <3>3, <1>1
      <4>3. KeyOf(z, e, t)' = KeyOf(z, e, t)
        BY DEF KeyOf
      <4> QED
        BY <3>2, <4>1, <4>2, <4>3 DEF Fresh
    <3>4. CASE j = k
      <4>1. k[1] = z.decision.a.cand /\ k[2] = e /\ k[3] = t
        BY <3>4 DEF KeyOf
      <4>2. z = s /\ s # None
        BY <4>1, <1>2
      <4>3. KeyOf(z, e, t)' = KeyOf(z, e, t)
        BY DEF KeyOf
      <4> QED
        BY <3>2, <3>4, <4>1, <4>2, <4>3 DEF Fresh
    <3> QED
      BY <3>3, <3>4
  <2>5. /\ z.decision \in Decision /\ z \in SetRecord(z.decision)
        /\ DevelopmentOf(z.decision.a) = e
        /\ Licensed(z.decision.a, z.decision.id, z.decision.route)
    BY <2>1 DEF SetFacts
  <2>6. z' = z /\ \A t : KeyOf(z, e, t)' = KeyOf(z, e, t)
    BY DEF KeyOf
  <2> HIDE DEF z
  <2>7. SetFacts(e, z)'
    BY <2>4, <2>5, <2>6 DEF SetFacts, Fresh
  <2> QED
    BY <2>7 DEF z
<1>3. \A j \in Keys : KeyFacts(j)'
  BY <1>1
<1> QED
  BY <1>1, <1>2, <1>3, AchievedStays

\* Other runners rely on other sets and requests than the one a runner moves.
LEMMA OthersStay ==
    ASSUME Coherent, NEW r \in Runners, NEW d \in Developments,
           \A q \in Runners \ {r} : run'[q] = run[q] /\ (run[q].pc \in Inside => Dev(q) # d),
           \A e \in Developments \ {d} : set'[e] = set[e] /\ holder'[e] = holder[e],
           \A k \in Keys : k[2] # d => Kept(k),
           assess' = assess, \A k \in Keys : Achieved(k) => Achieved(k)'
    PROVE  \A q \in Runners \ {r} : RunFacts(q)'
<1>1. ASSUME NEW q \in Runners, q # r
      PROVE  RunFacts(q)'
  <2>1. CASE run[q].pc \in Inside
    <3>1. Dev(q) \in Developments /\ Dev(q) # d /\ Key(q) \in Keys /\ Key(q)[2] = Dev(q)
      BY <1>1, <2>1, InsideBasics
    <3>2. Kept(Key(q))
      BY <3>1
    <3> QED
      BY <1>1, <3>1, <3>2, BystanderStays
  <2>2. CASE run[q].pc \notin Inside
    BY <1>1, <2>2, BystanderStays
  <2> QED
    BY <2>1, <2>2
<1> QED
  BY <1>1

\* The holders of the other locks work on as they did.
LEMMA OtherHoldersStay ==
    ASSUME Coherent, NEW r \in Runners, NEW d \in Developments,
           \A q \in Runners \ {r} : run'[q] = run[q],
           \A e \in Developments \ {d} : holder'[e] = holder[e] /\ holder[e] # r
    PROVE  \A e \in Developments \ {d} : HolderFacts(e)'
<1>1. ASSUME NEW e \in Developments, e # d, holder'[e] # None
      PROVE  run'[holder'[e]].pc \in Inside /\ Dev(holder[e])' = e
  <2> DEFINE q == holder[e]
  <2>1. q \in Runners /\ q # r /\ holder'[e] = q
    BY <1>1 DEF Coherent, TypeOK
  <2>2. run[q].pc \in Inside /\ Dev(q) = e
    BY <1>1, <2>1 DEF Coherent, HolderFacts
  <2>3. run'[q] = run[q]
    BY <2>1
  <2> QED
    BY <2>1, <2>2, <2>3 DEF Dev
<1> QED
  BY <1>1 DEF HolderFacts
-----------------------------------------------------------------------------
(* Steps under a set's lock.                                               *)

\* The shape of a process is its five fields.
Shaped(p) == p = [pc |-> p.pc, id |-> p.id, decision |-> p.decision,
                  target |-> p.target, outcome |-> p.outcome]

LEMMA RunShape ==
    ASSUME TypeOK, NEW r \in Runners
    PROVE  Shaped(run[r])
  BY DEF TypeOK, Shaped

LEMMA IdleShape == Shaped(IdleRun) /\ IdleRun.pc = "idle"
  BY DEF Shaped, IdleRun

\* One process moves: the others stay, and the shape is kept.
LEMMA RunMoves ==
    ASSUME TypeOK, NEW r \in Runners, NEW p, Shaped(p), run' = Assign(run, r, p)
    PROVE  /\ run'[r] = p /\ \A q \in Runners \ {r} : run'[q] = run[q]
           /\ run' = [q \in Runners |-> run'[q]]
           /\ \A q \in Runners : Shaped(run'[q])
<1>1. run = [q \in Runners |-> run[q]]
  BY DEF TypeOK
<1>2. \A q \in Runners : Shaped(run[q])
  BY RunShape
<1> QED
  BY <1>1, <1>2 DEF Assign

\* The shape of the stores after a step, from what the step does to each.
LEMMA TypesStay ==
    ASSUME TypeOK, UNCHANGED inputs, filled' \subseteq {"STORY", "MAIN"},
           \/ set' = set
           \/ \E d \in Developments : \E s : set' = Assign(set, d, s),
           \/ holder' = holder
           \/ \E d \in Developments, q \in Runners \cup {None} : holder' = Assign(holder, d, q),
           work' \in [Keys -> Manifest \cup {None, Finalized}],
           child' \subseteq Keys, drafts' \in [Keys -> 0..1],
           sent' \in [Keys -> {None, "SENT", "UNSENT"}],
           run' = [q \in Runners |-> run'[q]], \A q \in Runners : Shaped(run'[q]),
           result' \in [Occurrences -> Outcome \cup {None}]
    PROVE  TypeOK'
<1>1. assess' \in Scans /\ history' \in Histories
  BY DEF TypeOK, inputs
<1>2. set' = [d \in Developments |-> set'[d]]
  <2>1. set = [d \in Developments |-> set[d]]
    BY DEF TypeOK
  <2>2. CASE set' = set
    BY <2>1, <2>2
  <2>3. CASE \E d \in Developments : \E s : set' = Assign(set, d, s)
    BY <2>1, <2>3 DEF Assign
  <2> QED
    BY <2>2, <2>3
<1>3. holder' \in [Developments -> Runners \cup {None}]
  BY DEF TypeOK, Assign
<1> QED
  BY <1>1, <1>2, <1>3 DEF TypeOK, Shaped

\* The stores of the requests keep their shape when left alone.
LEMMA StoresStay ==
    ASSUME TypeOK, UNCHANGED <<filled, work, zernio, sent, result>>
    PROVE  /\ filled' \subseteq {"STORY", "MAIN"}
           /\ work' \in [Keys -> Manifest \cup {None, Finalized}]
           /\ child' \subseteq Keys /\ drafts' \in [Keys -> 0..1]
           /\ sent' \in [Keys -> {None, "SENT", "UNSENT"}]
           /\ result' \in [Occurrences -> Outcome \cup {None}]
  BY DEF TypeOK, zernio

\* Leaving a set with a sound record keeps the invariant.
LEMMA LeavePreserves ==
    ASSUME Coherent, NEW r \in Runners, NEW d \in Developments, NEW s, SetFacts(d, s),
           set[d] # None =>
               /\ s.decision = set[d].decision
               /\ \A t \in DOMAIN s.status : set[d].status[t] = "SUCCEEDED" => s.status[t] = "SUCCEEDED",
           Leave(r, d, s), UNCHANGED <<inputs, filled, work, zernio, sent, result>>,
           \A q \in Runners \ {r} : run[q].pc \in Inside => Dev(q) # d,
           \A e \in Developments \ {d} : holder[e] # r
    PROVE  Coherent'
<1> DEFINE p == IF r = Operator THEN IdleRun
                ELSE [run[r] EXCEPT !.pc = "emit", !.outcome = SetOutcome(d, s)]
<1>1. set' = [set EXCEPT ![d] = s] /\ holder' = [holder EXCEPT ![d] = None]
  BY DEF Leave
<1>2. TypeOK
  BY DEF Coherent
<1>3. Shaped(run[r])
  BY <1>2, RunShape
<1>4. run' = [run EXCEPT ![r] = p]
  BY DEF Leave
<1>5. /\ Shaped(p)
      /\ r = Operator => p.pc = "idle"
      /\ r # Operator => p.pc = "emit" /\ p.outcome = SetOutcome(d, s)
  BY <1>3, IdleShape DEF Shaped
<1> HIDE DEF p
<1>6. /\ run'[r] = p /\ \A q \in Runners \ {r} : run'[q] = run[q]
      /\ run' = [q \in Runners |-> run'[q]] /\ \A q \in Runners : Shaped(run'[q])
  BY <1>2, <1>4, <1>5, RunMoves DEF Assign
<1>7. /\ (\A e \in Developments : set[e] # None => SetFacts(e, set[e]))'
      /\ (\A k \in Keys : KeyFacts(k))'
      /\ \A k \in Keys : Achieved(k) => Achieved(k)'
      /\ \A k \in Keys : Kept(k)
  BY <1>1, SetStep DEF Assign
<1>8. TypeOK'
  BY <1>1, <1>2, <1>6, StoresStay, TypesStay DEF Assign
<1>9. /\ set'[d] = s /\ holder'[d] = None
      /\ \A e \in Developments \ {d} : set'[e] = set[e] /\ holder'[e] = holder[e]
  BY <1>1, <1>2 DEF TypeOK
<1>10. \A e \in Developments : HolderFacts(e)'
  <2>1. HolderFacts(d)'
    BY <1>9 DEF HolderFacts
  <2>2. \A e \in Developments \ {d} : HolderFacts(e)'
    BY <1>6, <1>9, OtherHoldersStay
  <2> QED
    BY <2>1, <2>2
<1>11. \A q \in Runners \ {r} : RunFacts(q)'
  <2>1. assess' = assess
    BY DEF inputs
  <2> QED
    BY <2>1, <1>6, <1>7, <1>9, OthersStay
<1>12. RunFacts(r)'
  <2>1. CASE r = Operator
    BY <2>1, <1>5, <1>6 DEF RunFacts
  <2>2. CASE r # Operator
    <3>1. r \in Occurrences /\ run'[r].pc = "emit" /\ run'[r].outcome = SetOutcome(d, s)
      BY <2>2, <1>5, <1>6 DEF Runners
    <3>2. SetOutcome(d, s) \in Outcome
      BY OutcomeNamesSuccesses
    <3>3. ASSUME NEW k \in SetOutcome(d, s).artifacts
          PROVE  Achieved(k)'
      <4>1. /\ k[1] = s.decision.a.cand /\ k[2] = d
            /\ k[3] \in DOMAIN s.status /\ s.status[k[3]] = "SUCCEEDED"
        BY OutcomeNamesSuccesses
      <4>2. s # None
        BY RecordShape
      <4> QED
        BY <4>1, <4>2, <1>9 DEF Achieved
    <3>4. Backed(run[r].outcome)'
      BY <3>1, <3>2, <3>3 DEF Backed
    <3> QED
      BY <3>1, <3>4 DEF RunFacts
  <2> QED
    BY <2>1, <2>2
<1>13. (\A o \in Occurrences : result[o] # None => Backed(result[o]))'
  BY <1>7, ResultsStayBacked
<1>14. \A q \in Runners : RunFacts(q)'
  BY <1>11, <1>12
<1> QED
  BY <1>7, <1>8, <1>10, <1>13, <1>14 DEF Coherent

\* Going on with a target of the set's sound record keeps the invariant.
LEMMA EnterPreserves ==
    ASSUME Coherent, NEW r \in Runners, NEW d \in Developments, NEW s, SetFacts(d, s),
           set[d] # None =>
               /\ s.decision = set[d].decision
               /\ \A t \in DOMAIN s.status : set[d].status[t] = "SUCCEEDED" => s.status[t] = "SUCCEEDED",
           set' = Assign(set, d, s), holder' = Assign(holder, d, r),
           NEW p, Shaped(p), run' = Assign(run, r, p),
           p.decision = s.decision, p.target \in DOMAIN s.status,
           p.target # "STORY" => s.status["STORY"] = "SUCCEEDED",
           \/ p.pc = "recheck" /\ s.status[p.target] \in {"PENDING", "BLOCKED_BEFORE_ATTEMPT"}
           \/ /\ p.pc = "spec" /\ s.status[p.target] = "DISPATCH_IN_FLIGHT"
              /\ Fresh(KeyOf(s, d, p.target)),
           UNCHANGED <<inputs, filled, work, zernio, sent, result>>,
           \A q \in Runners \ {r} : run[q].pc \in Inside => Dev(q) # d,
           \A e \in Developments \ {d} : holder[e] # r
    PROVE  Coherent'
<1>1. /\ set' = [set EXCEPT ![d] = s] /\ holder' = [holder EXCEPT ![d] = r]
      /\ run' = [run EXCEPT ![r] = p]
  BY DEF Assign
<1>2. TypeOK
  BY DEF Coherent
<1>6. /\ run'[r] = p /\ \A q \in Runners \ {r} : run'[q] = run[q]
      /\ run' = [q \in Runners |-> run'[q]] /\ \A q \in Runners : Shaped(run'[q])
  BY <1>2, RunMoves
<1>7. /\ (\A e \in Developments : set[e] # None => SetFacts(e, set[e]))'
      /\ (\A k \in Keys : KeyFacts(k))'
      /\ \A k \in Keys : Achieved(k) => Achieved(k)'
      /\ \A k \in Keys : Kept(k)
  BY SetStep
<1>8. TypeOK'
  BY <1>2, <1>6, StoresStay, TypesStay
<1>9. /\ set'[d] = s /\ holder'[d] = r
      /\ \A e \in Developments \ {d} : set'[e] = set[e] /\ holder'[e] = holder[e]
  BY <1>1, <1>2 DEF TypeOK
<1>3. Dev(r)' = d /\ Key(r)' = KeyOf(s, d, p.target) /\ p.decision \in Decision /\ s # None
  <2>1. DevelopmentOf(s.decision.a) = d /\ s.decision \in Decision
    BY DEF SetFacts
  <2>2. s # None
    BY RecordShape
  <2> QED
    BY <2>1, <2>2, <1>6 DEF Dev, Key, KeyOf
<1>4. p.pc \in Inside /\ p.pc \in {"recheck", "spec"}
  BY DEF Inside
<1>10. \A e \in Developments : HolderFacts(e)'
  <2>1. HolderFacts(d)'
    BY <1>3, <1>4, <1>6, <1>9 DEF HolderFacts
  <2>2. \A e \in Developments \ {d} : HolderFacts(e)'
    BY <1>6, <1>9, OtherHoldersStay
  <2> QED
    BY <2>1, <2>2
<1>11. \A q \in Runners \ {r} : RunFacts(q)'
  <2>1. assess' = assess
    BY DEF inputs
  <2> QED
    BY <2>1, <1>6, <1>7, <1>9, OthersStay
<1>12. RunFacts(r)'
  <2>1. /\ run'[r].decision \in Decision
        /\ holder'[Dev(r)'] = r /\ set'[Dev(r)'] # None /\ set'[Dev(r)'].decision = run'[r].decision
    BY <1>3, <1>6, <1>9
  <2>2. /\ run'[r].target \in DOMAIN s.status
        /\ run'[r].target # "STORY" => s.status["STORY"] = "SUCCEEDED"
        /\ s.status[run'[r].target] \in IF run'[r].pc = "recheck"
                                       THEN {"PENDING", "BLOCKED_BEFORE_ATTEMPT"}
                                       ELSE {"DISPATCH_IN_FLIGHT"}
    BY <1>6
  <2>3. run'[r].pc \in {"spec", "build"} => Fresh(Key(r))'
    <3>1. Key(r)' = KeyOf(s, d, p.target)
      BY <1>3
    <3>2. UNCHANGED <<work, child>>
      BY DEF zernio
    <3> QED
      BY <3>1, <3>2, <1>6 DEF Fresh, IsManifest
  <2>4. run'[r].pc \notin {"build", "wait", "preview", "classify"}
    BY <1>4, <1>6
  <2>5. InsideFacts(r)'
    BY <2>1, <2>2, <2>3, <2>4, <1>3, <1>9 DEF InsideFacts
  <2> QED
    BY <2>5, <1>4, <1>6 DEF RunFacts
<1>13. (\A o \in Occurrences : result[o] # None => Backed(result[o]))'
  BY <1>7, ResultsStayBacked
<1>14. \A q \in Runners : RunFacts(q)'
  BY <1>11, <1>12
<1> QED
  BY <1>7, <1>8, <1>10, <1>13, <1>14 DEF Coherent

\* A runner inside a set is alone there, and holds no other set's lock.
LEMMA AloneInside ==
    ASSUME Coherent, NEW r \in Runners, run[r].pc \in Inside
    PROVE  /\ \A q \in Runners \ {r} : run[q].pc \in Inside => Dev(q) # Dev(r)
           /\ \A e \in Developments \ {Dev(r)} : holder[e] # r
           /\ holder = [holder EXCEPT ![Dev(r)] = r]
<1>1. r # None
  BY BreakingAssumption
<1>2. \A e \in Developments \ {Dev(r)} : holder[e] # r
  BY <1>1 DEF Coherent, HolderFacts
<1>3. Dev(r) \in Developments /\ holder[Dev(r)] = r
  BY InsideBasics DEF InsideFacts
<1>4. holder = [holder EXCEPT ![Dev(r)] = r]
  BY <1>3 DEF Coherent, TypeOK
<1> QED
  BY <1>2, <1>4, OneRunnerPerSet

\* AfterTarget with a sound record keeps the invariant.
LEMMA AfterTargetPreserves ==
    ASSUME Coherent, NEW r \in Runners, run[r].pc \in Inside, NEW s, SetFacts(Dev(r), s),
           s.decision = set[Dev(r)].decision,
           \A t \in DOMAIN s.status :
               set[Dev(r)].status[t] = "SUCCEEDED" => s.status[t] = "SUCCEEDED",
           AfterTarget(r, s), UNCHANGED <<inputs, filled, work, zernio, sent, result>>
    PROVE  Coherent'
<1> DEFINE d == Dev(r)
<1>1. d \in Developments /\ InsideFacts(r)
  BY InsideBasics
<1>2. CASE Leave(r, d, s)
  BY <1>1, <1>2, AloneInside, LeavePreserves
<1>3. CASE ~Leave(r, d, s)
  <2> DEFINE p == [run[r] EXCEPT !.pc = "recheck", !.target = NextTarget(s)]
  <2>1. /\ NextTarget(s) # None /\ set' = [set EXCEPT ![d] = s] /\ holder' = holder
        /\ run' = [run EXCEPT ![r] = p]
    BY <1>3 DEF AfterTarget
  <2>2. Shaped(run[r])
    BY RunShape DEF Coherent
  <2>3. /\ Shaped(p) /\ p.pc = "recheck" /\ p.target = NextTarget(s)
        /\ p.decision = run[r].decision
    <3> DEFINE x == run[r]
               t == NextTarget(s)
    <3>1. x = [pc |-> x.pc, id |-> x.id, decision |-> x.decision,
               target |-> x.target, outcome |-> x.outcome]
      BY <2>2 DEF Shaped
    <3>2. p = [x EXCEPT !.pc = "recheck", !.target = t]
      OBVIOUS
    <3> HIDE DEF x, p, t
    <3>3. p = [pc |-> "recheck", id |-> x.id, decision |-> x.decision,
               target |-> t, outcome |-> x.outcome]
      BY <3>1, <3>2
    <3>4. /\ Shaped(p) /\ p.pc = "recheck" /\ p.target = t /\ p.decision = x.decision
      BY <3>3 DEF Shaped
    <3> QED
      BY <3>4 DEF x, t
  <2> HIDE DEF p
  <2>4. holder' = Assign(holder, d, r)
    BY <2>1, AloneInside DEF Assign
  <2>5. p.decision = s.decision
    BY <1>1, <2>3 DEF InsideFacts
  <2>6. /\ p.target \in DOMAIN s.status /\ s.status[p.target] = "PENDING"
        /\ p.target # "STORY" => s.status["STORY"] = "SUCCEEDED"
    BY <2>1, <2>3, NextTargetIsPending
  <2>7. /\ \A q \in Runners \ {r} : run[q].pc \in Inside => Dev(q) # d
        /\ \A e \in Developments \ {d} : holder[e] # r
    BY AloneInside
  <2> HIDE DEF d
  <2>8. set[d] # None =>
            /\ s.decision = set[d].decision
            /\ \A t \in DOMAIN s.status : set[d].status[t] = "SUCCEEDED" => s.status[t] = "SUCCEEDED"
    BY DEF d
  <2>9. SetFacts(d, s) /\ d \in Developments
    BY <1>1 DEF d
  <2>10. \/ p.pc = "recheck" /\ s.status[p.target] \in {"PENDING", "BLOCKED_BEFORE_ATTEMPT"}
         \/ /\ p.pc = "spec" /\ s.status[p.target] = "DISPATCH_IN_FLIGHT"
            /\ Fresh(KeyOf(s, d, p.target))
    BY <2>3, <2>6
  <2>11. Shaped(p) /\ set' = Assign(set, d, s) /\ run' = Assign(run, r, p)
    BY <2>1, <2>3 DEF Assign
  <2> QED
    BY <2>4, <2>5, <2>6, <2>7, <2>8, <2>9, <2>10, <2>11, EnterPreserves
<1> QED
  BY <1>2, <1>3

\* A new status of the runner's own target.
LEMMA OwnStatusIsSound ==
    ASSUME Coherent, NEW r \in Runners, run[r].pc \in Inside, NEW status \in Statuses,
           status = "SUCCEEDED" => sent[Key(r)] = "SENT",
           status \in {"PENDING", "BLOCKED_BEFORE_ATTEMPT"} => Fresh(Key(r)),
           NEW s, s = SetStatus(set[Dev(r)], run[r].target, status)
    PROVE  /\ SetFacts(Dev(r), s) /\ s.decision = set[Dev(r)].decision
           /\ run[r].target \in DOMAIN s.status /\ s.status[run[r].target] = status
           /\ run[r].target # "STORY" => s.status["STORY"] = "SUCCEEDED"
           /\ \A t \in DOMAIN s.status :
                  set[Dev(r)].status[t] = "SUCCEEDED" => s.status[t] = "SUCCEEDED"
           /\ KeyOf(s, Dev(r), run[r].target) = Key(r)
<1> DEFINE d == Dev(r)
           z == set[d]
           t == run[r].target
<1>1. /\ SetFacts(d, z) /\ InsideFacts(r) /\ Key(r) = KeyOf(z, d, t)
  BY InsideBasics
<1>2. /\ t \in DOMAIN z.status /\ (t # "STORY" => z.status["STORY"] = "SUCCEEDED")
      /\ z.status[t] # "SUCCEEDED"
  BY <1>1 DEF InsideFacts
<1> HIDE DEF d, z, t
<1>3. s = SetStatus(z, t, status)
  BY DEF d, z, t
<1>4. /\ SetFacts(d, s) /\ s.decision = z.decision
      /\ s.status = [z.status EXCEPT ![t] = status]
  BY <1>1, <1>2, <1>3, StatusIsSound
<1>5. \A u \in DOMAIN s.status : z.status[u] = "SUCCEEDED" => s.status[u] = "SUCCEEDED"
  BY <1>2, <1>4
<1>6. KeyOf(s, d, t) = KeyOf(z, d, t)
  BY <1>4 DEF KeyOf
<1>7. t \in DOMAIN s.status /\ s.status[t] = status
  BY <1>2, <1>4
<1>8. t # "STORY" => s.status["STORY"] = "SUCCEEDED"
  <2>1. "STORY" \in DOMAIN s.status
    BY <1>4, RecordShape
  <2> QED
    BY <1>2, <1>5, <2>1
<1> QED
  BY <1>1, <1>4, <1>5, <1>6, <1>7, <1>8 DEF d, z, t

\* The recorded end of a target keeps the invariant, if it says what is so.
LEMMA EndPreserves ==
    ASSUME Coherent, NEW r \in Runners, run[r].pc \in Inside,
           NEW end, end \in {"SENT", "UNSENT", "BLOCKED", "AMBIGUOUS"},
           end = "SENT" => sent[Key(r)] = "SENT", end = "BLOCKED" => Fresh(Key(r)),
           EndsWith(r, end), UNCHANGED <<inputs, filled, work, zernio, sent, result>>
    PROVE  Coherent'
<1> DEFINE s == SetStatus(set[Dev(r)], run[r].target, StatusOf(end))
<1>1. /\ StatusOf(end) \in Statuses /\ (StatusOf(end) = "SUCCEEDED" => end = "SENT")
      /\ StatusOf(end) \in {"PENDING", "BLOCKED_BEFORE_ATTEMPT"} => end = "BLOCKED"
  BY DEF StatusOf, Statuses
<1>2. AfterTarget(r, s)
  BY DEF EndsWith
<1> DEFINE status == StatusOf(end)
<1>3. /\ status \in Statuses
      /\ status = "SUCCEEDED" => sent[Key(r)] = "SENT"
      /\ status \in {"PENDING", "BLOCKED_BEFORE_ATTEMPT"} => Fresh(Key(r))
  BY <1>1
<1>6. s = SetStatus(set[Dev(r)], run[r].target, status)
  OBVIOUS
<1> HIDE DEF s, status
<1>4. /\ SetFacts(Dev(r), s) /\ s.decision = set[Dev(r)].decision
      /\ \A t \in DOMAIN s.status :
             set[Dev(r)].status[t] = "SUCCEEDED" => s.status[t] = "SUCCEEDED"
  BY <1>6, <1>3, OwnStatusIsSound
<1> QED
  BY <1>2, <1>4, AfterTargetPreserves

\* A step of a runner on its own request, whose target stays in flight.
LEMMA OwnRequestPreserves ==
    ASSUME Coherent, NEW r \in Runners, run[r].pc \in Inside \ {"recheck"},
           UNCHANGED <<inputs, filled, set, holder, result>>,
           NEW k, k = Key(r),
           \A j \in Keys \ {k} : /\ work'[j] = work[j] /\ sent'[j] = sent[j]
                                 /\ drafts'[j] = drafts[j] /\ (j \in child' <=> j \in child),
           KeyFacts(k)',
           work' \in [Keys -> Manifest \cup {None, Finalized}],
           child' \subseteq Keys, drafts' \in [Keys -> 0..1],
           sent' \in [Keys -> {None, "SENT", "UNSENT"}],
           NEW pc \in Inside \ {"recheck"}, Goto(r, pc),
           pc \in {"spec", "build"} => Fresh(k)',
           pc = "build" => work'[k] # None,
           pc \in {"wait", "preview", "classify"} => IsManifest(work'[k]),
           pc = "preview" => work'[k].review = "DRAFT_CREATED",
           pc = "classify" => sent'[k] # None
    PROVE  Coherent'
<1> DEFINE d == Dev(r)
           p == [run[r] EXCEPT !.pc = pc]
<1>1. /\ d \in Developments /\ k \in Keys /\ InsideFacts(r) /\ k[1] = set[d].decision.a.cand
      /\ k[2] = d /\ k[3] = run[r].target /\ TypeOK
  BY InsideBasics DEF Coherent
<1>2. Shaped(run[r])
  BY <1>1, RunShape
<1>3. run' = [run EXCEPT ![r] = p]
  BY DEF Goto
<1>4. Shaped(p) /\ p.pc = pc /\ p.decision = run[r].decision /\ p.target = run[r].target
  BY <1>2 DEF Shaped
<1> HIDE DEF p
<1>5. /\ run'[r] = p /\ \A q \in Runners \ {r} : run'[q] = run[q]
      /\ run' = [q \in Runners |-> run'[q]] /\ \A q \in Runners : Shaped(run'[q])
  BY <1>1, <1>3, <1>4, RunMoves DEF Assign
<1>6. TypeOK'
  BY <1>1, <1>5, TypesStay DEF TypeOK
<1>7. /\ set[d].status[k[3]] = "DISPATCH_IN_FLIGHT"
      /\ k[3] # "STORY" => set[d].status["STORY"] = "SUCCEEDED"
  BY <1>1 DEF InsideFacts
<1>8. /\ (\A e \in Developments : set[e] # None => SetFacts(e, set[e]))'
      /\ (\A j \in Keys : KeyFacts(j))'
      /\ \A j \in Keys : Achieved(j) => Achieved(j)'
      /\ \A j \in Keys \ {k} : Kept(j)
  BY <1>1, <1>7, KeyStep
<1>9. Dev(r)' = d /\ Key(r)' = k
  BY <1>4, <1>5 DEF Dev, Key
<1>10. \A q \in Runners \ {r} : RunFacts(q)'
  <2>1. \A q \in Runners \ {r} : run[q].pc \in Inside => Dev(q) # d
    BY AloneInside
  <2>2. \A j \in Keys : j[2] # d => Kept(j)
    BY <1>1, <1>8
  <2>3. assess' = assess
    BY DEF inputs
  <2> HIDE DEF d
  <2> QED
    BY <1>1, <1>5, <1>8, <2>1, <2>2, <2>3, OthersStay
<1>11. RunFacts(r)'
  <2>1. InsideFacts(r)'
    <3>1. /\ run'[r].decision \in Decision
          /\ holder'[d] = r /\ set'[d] # None /\ set'[d].decision = run'[r].decision
      BY <1>1, <1>4, <1>5 DEF InsideFacts
    <3>2. /\ run'[r].target \in DOMAIN set'[d].status
          /\ run'[r].target # "STORY" => set'[d].status["STORY"] = "SUCCEEDED"
          /\ set'[d].status[run'[r].target] = "DISPATCH_IN_FLIGHT"
      BY <1>1, <1>4, <1>5, <1>7 DEF InsideFacts
    <3>3. Fresh(Key(r))' <=> Fresh(k)'
      BY <1>9 DEF Fresh
    <3> HIDE DEF d
    <3> QED
      BY <1>4, <1>5, <1>9, <3>1, <3>2, <3>3 DEF InsideFacts
  <2> QED
    BY <2>1, <1>4, <1>5 DEF RunFacts
<1>12. \A e \in Developments : HolderFacts(e)'
  <2>1. ASSUME NEW e, e = d
        PROVE  HolderFacts(e)'
    BY <2>1, <1>1, <1>4, <1>5, <1>9 DEF HolderFacts, InsideFacts
  <2>2. \A e \in Developments \ {d} : holder'[e] = holder[e] /\ holder[e] # r
    BY AloneInside
  <2>4. d \in Developments /\ \A q \in Runners \ {r} : run'[q] = run[q]
    BY <1>1, <1>5
  <2> HIDE DEF d
  <2>3. \A e \in Developments \ {d} : HolderFacts(e)'
    BY <2>2, <2>4, OtherHoldersStay
  <2> QED
    BY <2>1, <2>3
<1>13. (\A o \in Occurrences : result[o] # None => Backed(result[o]))'
  BY <1>8, ResultsStayBacked
<1>14. \A q \in Runners : RunFacts(q)'
  BY <1>10, <1>11
<1> QED
  BY <1>6, <1>8, <1>12, <1>13, <1>14 DEF Coherent

\* A step of a request's child or of its owner, which undoes nothing.
LEMMA ForeignRequestPreserves ==
    ASSUME Coherent, NEW k \in Keys,
           UNCHANGED <<inputs, filled, set, holder, sent, run, result>>,
           \A j \in Keys \ {k} : /\ work'[j] = work[j]
                                 /\ drafts'[j] = drafts[j] /\ (j \in child' <=> j \in child),
           KeyFacts(k)', Kept(k), work[k] # None,
           work' \in [Keys -> Manifest \cup {None, Finalized}],
           child' \subseteq Keys, drafts' \in [Keys -> 0..1]
    PROVE  Coherent'
<1>1. TypeOK
  BY DEF Coherent
<1>2. TypeOK'
  BY <1>1 DEF TypeOK, inputs
<1> DEFINE s == set[k[2]]
<1>3. s # None /\ s.decision.a.cand = k[1] /\ k[3] \in DOMAIN s.status =>
          /\ s.status[k[3]] \in {"PENDING", "BLOCKED_BEFORE_ATTEMPT"} => Fresh(k)'
          /\ s.status[k[3]] = "SUCCEEDED" => sent'[k] = sent[k]
          /\ k[3] # "STORY" /\ work'[k] # None => s.status["STORY"] = "SUCCEEDED"
  <2> SUFFICES ASSUME s # None, s.decision.a.cand = k[1], k[3] \in DOMAIN s.status
               PROVE  /\ s.status[k[3]] \in {"PENDING", "BLOCKED_BEFORE_ATTEMPT"} => Fresh(k)'
                      /\ k[3] # "STORY" => s.status["STORY"] = "SUCCEEDED"
    OBVIOUS
  <2>1. k[2] \in Developments /\ k = <<k[1], k[2], k[3]>>
    BY DEF Keys
  <2>2. SetFacts(k[2], s) /\ KeyOf(s, k[2], k[3]) = k
    BY <2>1 DEF Coherent, KeyOf
  <2> HIDE DEF s
  <2> QED
    BY <2>2 DEF SetFacts, Kept
<1>4. /\ (\A e \in Developments : set[e] # None => SetFacts(e, set[e]))'
      /\ (\A j \in Keys : KeyFacts(j))'
      /\ \A j \in Keys : Achieved(j) => Achieved(j)'
      /\ \A j \in Keys : Kept(j)
  BY <1>3, KeyStep
<1>5. \A q \in Runners : RunFacts(q)'
  <2>1. ASSUME NEW q \in Runners
        PROVE  RunFacts(q)'
    <3>1. run[q].pc \in Inside => Kept(Key(q))
      BY <1>4, InsideBasics
    <3>2. assess' = assess
      BY DEF inputs
    <3> QED
      BY <1>4, <3>1, <3>2, BystanderStays
  <2> QED
    BY <2>1
<1>6. \A e \in Developments : HolderFacts(e)'
  BY DEF Coherent, HolderFacts, Dev
<1>7. (\A o \in Occurrences : result[o] # None => Backed(result[o]))'
  BY <1>4, ResultsStayBacked
<1> QED
  BY <1>2, <1>4, <1>5, <1>6, <1>7 DEF Coherent

\* A step of one process outside every set.
LEMMA OutsidePreserves ==
    ASSUME Coherent, NEW r \in Runners, NEW p, Shaped(p), run' = Assign(run, r, p),
           run[r].pc \notin Inside, p.pc \notin Inside,
           UNCHANGED <<inputs, filled, set, holder, work, zernio, sent>>,
           result' \in [Occurrences -> Outcome \cup {None}],
           \A o \in Occurrences : result'[o] # None => Backed(result'[o]),
           RunFacts(r)'
    PROVE  Coherent'
<1>1. TypeOK
  BY DEF Coherent
<1>2. /\ run'[r] = p /\ \A q \in Runners \ {r} : run'[q] = run[q]
      /\ run' = [q \in Runners |-> run'[q]] /\ \A q \in Runners : Shaped(run'[q])
  BY <1>1, RunMoves
<1>3. UNCHANGED <<child, drafts>> /\ assess' = assess
  BY DEF zernio, inputs
<1>4. TypeOK'
  BY <1>1, <1>2, <1>3, TypesStay DEF TypeOK
<1>5. \A k \in Keys : Achieved(k) => Achieved(k)'
  BY AchievedStays
<1>6. \A k \in Keys : Kept(k)
  BY <1>3, UntouchedIsKept
<1>7. \A q \in Runners \ {r} : RunFacts(q)'
  <2>1. ASSUME NEW q \in Runners \ {r}
        PROVE  RunFacts(q)'
    <3>1. run[q].pc \in Inside => Kept(Key(q))
      BY <1>6, InsideBasics
    <3> QED
      BY <1>2, <1>3, <1>5, <3>1, BystanderStays
  <2> QED
    BY <2>1
<1>8. \A e \in Developments : HolderFacts(e)'
  <2>1. ASSUME NEW e \in Developments, holder'[e] # None
        PROVE  run'[holder'[e]].pc \in Inside /\ Dev(holder[e])' = e
    <3>1. /\ holder[e] \in Runners /\ run[holder[e]].pc \in Inside /\ Dev(holder[e]) = e
      BY <1>1, <2>1 DEF Coherent, HolderFacts, TypeOK
    <3>2. run'[holder[e]] = run[holder[e]]
      BY <1>2, <3>1
    <3> QED
      BY <3>1, <3>2 DEF Dev
  <2> QED
    BY <2>1 DEF HolderFacts
<1>9. (\A e \in Developments : set[e] # None => SetFacts(e, set[e]))'
  BY <1>3 DEF Coherent, SetFacts, Fresh, KeyOf
<1>10. (\A k \in Keys : KeyFacts(k))'
  BY <1>3 DEF Coherent, KeyFacts
<1>11. (\A o \in Occurrences : result[o] # None => Backed(result[o]))'
  BY DEF Backed, Achieved
<1>12. \A q \in Runners : RunFacts(q)'
  BY <1>7, <1>2
<1> QED
  BY <1>4, <1>8, <1>9, <1>10, <1>11, <1>12 DEF Coherent
-----------------------------------------------------------------------------
(* The actions.                                                            *)

LEMMA InitInv == Init => Coherent
<1> SUFFICES ASSUME Init PROVE Coherent
  OBVIOUS
<1>1. /\ set = [d \in Developments |-> None] /\ holder = [d \in Developments |-> None]
      /\ work = [k \in Keys |-> None] /\ child = {} /\ drafts = [k \in Keys |-> 0]
      /\ sent = [k \in Keys |-> None] /\ run = [r \in Runners |-> IdleRun]
      /\ result = [o \in Occurrences |-> None] /\ assess \in Scans /\ history \in Histories
      /\ filled = {}
  BY DEF Init
<1>2. /\ holder \in [Developments -> Runners \cup {None}]
      /\ work \in [Keys -> Manifest \cup {None, Finalized}]
      /\ drafts \in [Keys -> 0..1] /\ sent \in [Keys -> {None, "SENT", "UNSENT"}]
      /\ result \in [Occurrences -> Outcome \cup {None}]
  BY <1>1
<1>3. \A r \in Runners : run[r].pc = "idle" /\ Shaped(run[r])
  BY <1>1, IdleShape
<1>4. TypeOK
  BY <1>1, <1>2, <1>3 DEF TypeOK, Shaped
<1>5. \A d \in Developments : set[d] = None /\ HolderFacts(d)
  BY <1>1 DEF HolderFacts
<1>6. \A k \in Keys : KeyFacts(k)
  BY <1>1 DEF KeyFacts, IsManifest
<1>7. \A r \in Runners : RunFacts(r)
  BY <1>3 DEF RunFacts
<1>8. \A o \in Occurrences : result[o] = None
  BY <1>1
<1> QED
  BY <1>4, <1>5, <1>6, <1>7, <1>8 DEF Coherent

\* Results as they are keep their type and stay backed.
LEMMA SameResults ==
    ASSUME Coherent, result' = result
    PROVE  /\ result' \in [Occurrences -> Outcome \cup {None}]
           /\ \A o \in Occurrences : result'[o] # None => Backed(result'[o])
  BY DEF Coherent, TypeOK

LEMMA IdentifyPreserves ==
    ASSUME Coherent, NEW o \in Occurrences, Identify(o)
    PROVE  Coherent'
<1> DEFINE id == EvaluateIdentity(assess[o], View(assess[o].cand))
           p == [IdleRun EXCEPT !.pc = "route", !.id = id]
<1>1. /\ run[o].pc = "idle" /\ run' = [run EXCEPT ![o] = p]
      /\ UNCHANGED <<inputs, filled, set, holder, work, zernio, sent, result>>
  BY DEF Identify
<1>2. Resolved(assess[o], id)
  BY IdentityResolves
<1> HIDE DEF id
<1>3. Shaped(p) /\ p.pc = "route" /\ p.id = id
  <2> DEFINE x == IdleRun
  <2>1. x = [pc |-> "idle", id |-> None, decision |-> None, target |-> None, outcome |-> None]
    BY DEF IdleRun
  <2>2. p = [x EXCEPT !.pc = "route", !.id = id]
    OBVIOUS
  <2> HIDE DEF x, p
  <2>3. p = [pc |-> "route", id |-> id, decision |-> None, target |-> None, outcome |-> None]
    BY <2>1, <2>2
  <2> QED
    BY <2>3 DEF Shaped
<1> HIDE DEF p
<1>4. o \in Runners /\ run[o].pc \notin Inside /\ p.pc \notin Inside
  BY <1>1, <1>3 DEF Runners, Inside
<1>5. run' = Assign(run, o, p)
  BY <1>1 DEF Assign
<1>6. run'[o] = p
  BY <1>3, <1>4, <1>5, RunMoves DEF Coherent
<1>7. RunFacts(o)'
  BY <1>1, <1>2, <1>3, <1>6 DEF RunFacts, inputs
<1> QED
  BY <1>1, <1>3, <1>4, <1>5, <1>7, SameResults, OutsidePreserves

LEMMA RoutePreserves ==
    ASSUME Coherent, NEW o \in Occurrences, Route(o)
    PROVE  Coherent'
<1> DEFINE a == assess[o]
           route == EvaluateRouting(a, run[o].id, StoryCapacity, MainCapacity)
           decision == [a |-> a, id |-> run[o].id, route |-> route]
           outcome == [domain |-> UndispatchedOutcome(route), artifacts |-> {}]
           x == run[o]
           p == IF route.decision \in Accelerated
                THEN [x EXCEPT !.pc = "reserve", !.decision = decision]
                ELSE [x EXCEPT !.pc = "emit", !.outcome = outcome]
<1>1. /\ run[o].pc = "route"
      /\ UNCHANGED <<inputs, filled, set, holder, work, zernio, sent, result>>
  BY DEF Route
<1>2. run' = [run EXCEPT ![o] = p]
  BY DEF Route
<1>3. o \in Runners /\ Resolved(a, run[o].id) /\ a \in Assessments
  <2>1. o \in Runners
    BY DEF Runners
  <2>2. RunFacts(o)
    BY <2>1 DEF Coherent
  <2>3. assess \in [Occurrences -> Assessments]
    BY BreakingAssumption DEF Coherent, TypeOK
  <2> QED
    BY <1>1, <2>1, <2>2, <2>3 DEF RunFacts, Inside
<1>4. Shaped(x)
  BY <1>3, RunShape DEF Coherent
<1>5. route.decision \in Accelerated =>
          decision \in Decision /\ Licensed(decision.a, decision.id, decision.route)
  <2> SUFFICES ASSUME route.decision \in Accelerated
               PROVE  decision \in Decision /\ Licensed(decision.a, decision.id, decision.route)
    OBVIOUS
  <2>1. a.severity \in Severities
    BY <1>3, BreakingAssumption
  <2> DEFINE id == run[o].id
             sc == StoryCapacity
             mc == MainCapacity
  <2>2. route = EvaluateRouting(a, id, sc, mc) /\ Resolved(a, id)
    BY <1>3
  <2> HIDE DEF route, a, id, sc, mc
  <2>3. /\ id \in Identity /\ Licensed(a, id, route)
        /\ route \in [decision : Accelerated, targets : SUBSET Targets, recon : {FALSE}]
    BY <2>1, <2>2, RoutingIsLicensed
  <2> QED
    BY <2>3, <1>3 DEF Decision, id
<1>6. outcome \in Outcome /\ outcome.artifacts = {}
  <2>1. UndispatchedOutcome(route) \in Outcomes
    BY DEF UndispatchedOutcome, Outcomes
  <2> QED
    BY <2>1 DEF Outcome
<1> HIDE DEF outcome, decision, route, x
<1>7. /\ Shaped(p)
      /\ route.decision \in Accelerated => p.pc = "reserve" /\ p.decision = decision
      /\ route.decision \notin Accelerated => p.pc = "emit" /\ p.outcome = outcome
  BY <1>4 DEF Shaped
<1> HIDE DEF p
<1>8. run[o].pc \notin Inside /\ p.pc \notin Inside
  BY <1>1, <1>7 DEF Inside
<1>9. run' = Assign(run, o, p)
  BY <1>2 DEF Assign
<1>10. run'[o] = p
  BY <1>3, <1>7, <1>9, RunMoves DEF Coherent
<1>11. RunFacts(o)'
  <2>1. CASE route.decision \in Accelerated
    BY <2>1, <1>5, <1>7, <1>10 DEF RunFacts
  <2>2. CASE route.decision \notin Accelerated
    <3>1. run'[o].pc = "emit" /\ run'[o].outcome = outcome
      BY <2>2, <1>7, <1>10
    <3>2. Backed(run[o].outcome)'
      BY <3>1, <1>6 DEF Backed
    <3> QED
      BY <3>1, <3>2 DEF RunFacts
  <2> QED
    BY <2>1, <2>2
<1> QED
  BY <1>1, <1>3, <1>7, <1>8, <1>9, <1>11, SameResults, OutsidePreserves

LEMMA EmitPreserves ==
    ASSUME Coherent, NEW o \in Occurrences, Emit(o)
    PROVE  Coherent'
<1>1. /\ run[o].pc = "emit" /\ result' = [result EXCEPT ![o] = run[o].outcome]
      /\ run' = [run EXCEPT ![o] = IdleRun]
      /\ UNCHANGED <<inputs, filled, set, holder, work, zernio, sent>>
  BY DEF Emit
<1>2. o \in Runners
  BY DEF Runners
<1>3. Backed(run[o].outcome)
  BY <1>1, <1>2 DEF Coherent, RunFacts, Inside
<1>4. /\ result' \in [Occurrences -> Outcome \cup {None}]
      /\ \A q \in Occurrences : result'[q] # None => Backed(result'[q])
  <2>1. result \in [Occurrences -> Outcome \cup {None}] /\ run[o].outcome \in Outcome
    BY <1>3 DEF Coherent, TypeOK, Backed
  <2>2. ASSUME NEW q \in Occurrences, result'[q] # None
        PROVE  Backed(result'[q])
    <3>1. CASE q = o
      BY <3>1, <1>1, <1>3, <2>1
    <3>2. CASE q # o
      <4>1. result'[q] = result[q]
        BY <3>2, <1>1, <2>1
      <4> QED
        BY <4>1, <2>2 DEF Coherent
    <3> QED
      BY <3>1, <3>2
  <2> QED
    BY <1>1, <2>1, <2>2
<1>5. run' = Assign(run, o, IdleRun)
  BY <1>1 DEF Assign
<1>6. run'[o] = IdleRun
  BY <1>2, <1>5, RunMoves, IdleShape DEF Coherent
<1>7. RunFacts(o)'
  BY <1>6, IdleShape DEF RunFacts
<1>8. run[o].pc \notin Inside /\ IdleRun.pc \notin Inside
  BY <1>1, IdleShape DEF Inside
<1> QED
  BY <1>1, <1>2, <1>4, <1>5, <1>7, <1>8, IdleShape, OutsidePreserves

\* A runner outside every set holds no lock, and nobody is in a set whose lock is free.
LEMMA FreeLock ==
    ASSUME Coherent, NEW r \in Runners, run[r].pc \notin Inside, NEW d \in Developments, holder[d] = None
    PROVE  /\ \A q \in Runners \ {r} : run[q].pc \in Inside => Dev(q) # d
           /\ \A e \in Developments \ {d} : holder[e] # r
<1>1. r # None /\ \A q \in Runners : q # None
  BY BreakingAssumption
<1>2. \A q \in Runners : run[q].pc \in Inside => holder[Dev(q)] = q
  BY InsideBasics DEF InsideFacts
<1>3. \A e \in Developments : holder[e] # r
  BY <1>1 DEF Coherent, HolderFacts
<1> QED
  BY <1>1, <1>2, <1>3

\* A new set of a licensed decision is sound: none of its requests was touched.
LEMMA NewSetIsSound ==
    ASSUME Coherent, NEW d \in Developments, set[d] = None, NEW decision \in Decision,
           DevelopmentOf(decision.a) = d, Licensed(decision.a, decision.id, decision.route)
    PROVE  SetFacts(d, NewSet(decision)) /\ NewSet(decision).decision = decision
<1> DEFINE s == NewSet(decision)
<1>1. /\ s.decision = decision /\ s.recon = FALSE
      /\ s.status = [t \in decision.route.targets |-> "PENDING"]
      /\ s = [decision |-> s.decision, recon |-> s.recon, status |-> s.status]
  BY DEF NewSet
<1> HIDE DEF s
<1>2. s.status \in [decision.route.targets -> Statuses]
  BY <1>1 DEF Statuses
<1>3. s \in SetRecord(s.decision)
  BY <1>1, <1>2 DEF SetRecord
<1>4. ASSUME NEW t \in DOMAIN s.status
      PROVE  /\ s.status[t] = "PENDING" /\ Fresh(KeyOf(s, d, t))
             /\ work[KeyOf(s, d, t)] = None
  <2>1. t \in Targets
    BY <1>1, LicensedTargets
  <2>2. decision.a.cand \in Candidates
    <3>1. decision.a \in Assessments
      BY DEF Decision
    <3> QED
      BY <3>1 DEF Candidates
  <2>3. KeyOf(s, d, t) \in Keys /\ KeyOf(s, d, t)[2] = d
    BY <1>1, <2>1, <2>2 DEF KeyOf, Keys
  <2>4. KeyFacts(KeyOf(s, d, t))
    BY <2>3 DEF Coherent
  <2>5. work[KeyOf(s, d, t)] = None
    BY <2>3, <2>4 DEF KeyFacts
  <2> QED
    BY <1>1, <2>4, <2>5 DEF KeyFacts, Fresh, IsManifest
<1> QED
  BY <1>1, <1>3, <1>4 DEF SetFacts, s

LEMMA ReservePreserves ==
    ASSUME Coherent, NEW o \in Occurrences, Reserve(o)
    PROVE  Coherent'
<1> DEFINE d == Dev(o)
           decision == run[o].decision
           s == IF set[d] = None THEN NewSet(decision) ELSE set[d]
<1>1. /\ run[o].pc = "reserve" /\ holder[d] = None
      /\ UNCHANGED <<inputs, filled, work, zernio, sent, result>>
  BY DEF Reserve
<1>2. o \in Runners /\ run[o].pc \notin Inside
  BY <1>1 DEF Runners, Inside
<1>3. /\ decision \in Decision /\ Licensed(decision.a, decision.id, decision.route)
      /\ DevelopmentOf(decision.a) = d /\ d \in Developments
  <2>1. decision \in Decision /\ Licensed(decision.a, decision.id, decision.route)
    BY <1>1, <1>2 DEF Coherent, RunFacts
  <2>2. decision.a \in Assessments
    BY <2>1 DEF Decision
  <2> QED
    BY <2>1, <2>2 DEF Dev, Developments
<1>4. Shaped(run[o])
  BY <1>2, RunShape DEF Coherent
<1>5. SetFacts(d, s) /\ (set[d] # None => s = set[d])
  <2>1. CASE set[d] = None
    <3> HIDE DEF d, decision
    <3> QED
      BY <1>3, <2>1, NewSetIsSound
  <2>2. CASE set[d] # None
    BY <1>3, <2>2 DEF Coherent
  <2> QED
    BY <2>1, <2>2
<1>6. /\ \A q \in Runners \ {o} : run[q].pc \in Inside => Dev(q) # d
      /\ \A e \in Developments \ {d} : holder[e] # o
  <2>1. d \in Developments /\ holder[d] = None
    BY <1>1, <1>3
  <2> HIDE DEF d
  <2> QED
    BY <1>2, <2>1, FreeLock
<1>7. CASE s.decision # decision
  <2> DEFINE out == [domain |-> "UNKNOWN", artifacts |-> {}]
             p == [run[o] EXCEPT !.pc = "emit", !.outcome = out]
  <2>1. run' = [run EXCEPT ![o] = p] /\ UNCHANGED <<set, holder>>
    BY <1>7 DEF Reserve
  <2>2. out \in Outcome /\ out.artifacts = {}
    BY DEF Outcome, Outcomes
  <2> HIDE DEF out
  <2>3. Shaped(p) /\ p.pc = "emit" /\ p.outcome = out
    <3> DEFINE x == run[o]
    <3>1. x = [pc |-> x.pc, id |-> x.id, decision |-> x.decision,
               target |-> x.target, outcome |-> x.outcome]
      BY <1>4 DEF Shaped
    <3>2. p = [x EXCEPT !.pc = "emit", !.outcome = out]
      OBVIOUS
    <3> HIDE DEF x, p
    <3>3. p = [pc |-> "emit", id |-> x.id, decision |-> x.decision,
               target |-> x.target, outcome |-> out]
      BY <3>1, <3>2
    <3> QED
      BY <3>3 DEF Shaped
  <2> HIDE DEF p
  <2>4. run' = Assign(run, o, p) /\ p.pc \notin Inside
    BY <2>1, <2>3 DEF Assign, Inside
  <2>5. run'[o] = p
    BY <1>2, <2>3, <2>4, RunMoves DEF Coherent
  <2>6. RunFacts(o)'
    <3>1. Backed(run[o].outcome)'
      BY <2>2, <2>3, <2>5 DEF Backed
    <3> QED
      BY <2>3, <2>5, <3>1 DEF RunFacts
  <2> QED
    BY <1>1, <1>2, <2>1, <2>3, <2>4, <2>6, SameResults, OutsidePreserves
<1>8. CASE s.decision = decision /\ NextTarget(s) = None
  <2> DEFINE z == MarkInFlight(s)
  <2>1. Leave(o, d, z)
    BY <1>8 DEF Reserve
  <2>2. SetFacts(d, z) /\ z.decision = s.decision /\ z.status = s.status
    <3>1. PICK recon \in BOOLEAN : z = SetRecon(s, recon) /\ (s.recon => recon)
      BY DEF MarkInFlight, SetRecon
    <3> HIDE DEF z, s, d
    <3> QED
      BY <1>5, <3>1, ReconIsSound
  <2>3. set[d] # None =>
            /\ z.decision = set[d].decision
            /\ \A t \in DOMAIN z.status : set[d].status[t] = "SUCCEEDED" => z.status[t] = "SUCCEEDED"
    BY <1>5, <2>2
  <2>4. d \in Developments
    BY <1>3
  <2> HIDE DEF z, s, d
  <2> QED
    BY <1>1, <1>2, <1>6, <2>1, <2>2, <2>3, <2>4, LeavePreserves
<1>9. CASE s.decision = decision /\ NextTarget(s) # None
  <2> DEFINE t == NextTarget(s)
             x == run[o]
             p == [x EXCEPT !.pc = "recheck", !.target = t]
  <2>1. /\ set' = [set EXCEPT ![d] = s] /\ holder' = [holder EXCEPT ![d] = o]
        /\ run' = [run EXCEPT ![o] = p]
    BY <1>9 DEF Reserve
  <2>2. /\ t \in DOMAIN s.status /\ s.status[t] = "PENDING"
        /\ t # "STORY" => s.status["STORY"] = "SUCCEEDED"
    <3> HIDE DEF s, d
    <3> QED
      BY <1>5, <1>9, NextTargetIsPending
  <2>3. x.decision = s.decision
    BY <1>9
  <2>4. Shaped(x)
    BY <1>4
  <2> HIDE DEF t, x
  <2>5. Shaped(p) /\ p.pc = "recheck" /\ p.target = t /\ p.decision = x.decision
    <3>1. x = [pc |-> x.pc, id |-> x.id, decision |-> x.decision,
               target |-> x.target, outcome |-> x.outcome]
      BY <2>4 DEF Shaped
    <3>2. p = [x EXCEPT !.pc = "recheck", !.target = t]
      OBVIOUS
    <3> HIDE DEF p
    <3>3. p = [pc |-> "recheck", id |-> x.id, decision |-> x.decision,
               target |-> t, outcome |-> x.outcome]
      BY <3>1, <3>2
    <3> QED
      BY <3>3 DEF Shaped
  <2> HIDE DEF p
  <2>6. /\ set' = Assign(set, d, s) /\ holder' = Assign(holder, d, o)
        /\ run' = Assign(run, o, p)
    BY <2>1 DEF Assign
  <2>7. /\ p.decision = s.decision /\ p.target \in DOMAIN s.status
        /\ p.target # "STORY" => s.status["STORY"] = "SUCCEEDED"
        /\ \/ p.pc = "recheck" /\ s.status[p.target] \in {"PENDING", "BLOCKED_BEFORE_ATTEMPT"}
           \/ /\ p.pc = "spec" /\ s.status[p.target] = "DISPATCH_IN_FLIGHT"
              /\ Fresh(KeyOf(s, d, p.target))
    BY <2>2, <2>3, <2>5
  <2>8. set[d] # None =>
            /\ s.decision = set[d].decision
            /\ \A u \in DOMAIN s.status : set[d].status[u] = "SUCCEEDED" => s.status[u] = "SUCCEEDED"
    BY <1>5
  <2>9. d \in Developments
    BY <1>3
  <2> HIDE DEF s, d
  <2> QED
    BY <1>1, <1>2, <1>5, <1>6, <2>5, <2>6, <2>7, <2>8, <2>9, EnterPreserves
<1> QED
  BY <1>7, <1>8, <1>9

LEMMA ContinuePreserves ==
    ASSUME Coherent, Continue
    PROVE  Coherent'
<1>1. /\ run[Operator].pc = "idle"
      /\ UNCHANGED <<inputs, filled, set, work, zernio, sent, result>>
  BY DEF Continue
<1>2. Operator \in Runners /\ run[Operator].pc \notin Inside
  BY <1>1 DEF Runners, Inside
<1>3. PICK d \in Developments : /\ set[d] # None /\ holder[d] = None
         /\ \E t \in DOMAIN set[d].status :
              /\ set[d].status[t] = "BLOCKED_BEFORE_ATTEMPT"
              /\ t # "STORY" => set[d].status["STORY"] = "SUCCEEDED"
              /\ run' = [run EXCEPT ![Operator] =
                            [IdleRun EXCEPT !.pc = "recheck",
                                            !.decision = set[d].decision, !.target = t]]
              /\ holder' = [holder EXCEPT ![d] = Operator]
  BY DEF Continue
<1> DEFINE s == set[d]
<1>4. PICK t \in DOMAIN s.status :
              /\ s.status[t] = "BLOCKED_BEFORE_ATTEMPT"
              /\ t # "STORY" => s.status["STORY"] = "SUCCEEDED"
              /\ run' = [run EXCEPT ![Operator] =
                            [IdleRun EXCEPT !.pc = "recheck",
                                            !.decision = s.decision, !.target = t]]
              /\ holder' = [holder EXCEPT ![d] = Operator]
  BY <1>3
<1> DEFINE p == [IdleRun EXCEPT !.pc = "recheck", !.decision = s.decision, !.target = t]
<1>5. SetFacts(d, s) /\ s = set[d]
  BY <1>3 DEF Coherent
<1>6. /\ set' = Assign(set, d, s) /\ holder' = Assign(holder, d, Operator)
      /\ run' = Assign(run, Operator, p)
  <2>1. set = [e \in Developments |-> set[e]]
    BY DEF Coherent, TypeOK
  <2>2. set = [set EXCEPT ![d] = s]
    BY <2>1
  <2> QED
    BY <1>1, <1>4, <2>2 DEF Assign
<1> HIDE DEF s
<1>7. Shaped(p) /\ p.pc = "recheck" /\ p.target = t /\ p.decision = s.decision
  <2> DEFINE x == IdleRun
             decision == s.decision
  <2>1. x = [pc |-> "idle", id |-> None, decision |-> None, target |-> None, outcome |-> None]
    BY DEF IdleRun
  <2>2. p = [x EXCEPT !.pc = "recheck", !.decision = decision, !.target = t]
    OBVIOUS
  <2> HIDE DEF x, p, decision
  <2>3. p = [pc |-> "recheck", id |-> None, decision |-> decision, target |-> t, outcome |-> None]
    BY <2>1, <2>2
  <2> QED
    BY <2>3 DEF Shaped, decision
<1> HIDE DEF p
<1>8. /\ p.decision = s.decision /\ p.target \in DOMAIN s.status
      /\ p.target # "STORY" => s.status["STORY"] = "SUCCEEDED"
      /\ \/ p.pc = "recheck" /\ s.status[p.target] \in {"PENDING", "BLOCKED_BEFORE_ATTEMPT"}
         \/ /\ p.pc = "spec" /\ s.status[p.target] = "DISPATCH_IN_FLIGHT"
            /\ Fresh(KeyOf(s, d, p.target))
  BY <1>4, <1>7
<1>9. /\ \A q \in Runners \ {Operator} : run[q].pc \in Inside => Dev(q) # d
      /\ \A e \in Developments \ {d} : holder[e] # Operator
  BY <1>2, <1>3, FreeLock
<1>10. set[d] # None =>
            /\ s.decision = set[d].decision
            /\ \A u \in DOMAIN s.status : set[d].status[u] = "SUCCEEDED" => s.status[u] = "SUCCEEDED"
  BY <1>5
<1> QED
  BY <1>1, <1>2, <1>5, <1>6, <1>7, <1>8, <1>9, <1>10, EnterPreserves

LEMMA PermitPreserves ==
    ASSUME Coherent, NEW r \in Runners, Permit(r)
    PROVE  Coherent'
<1> DEFINE d == Dev(r)
           t == run[r].target
           z == set[d]
           blocked == SetStatus(z, t, "BLOCKED_BEFORE_ATTEMPT")
           flight == SetStatus(z, t, "DISPATCH_IN_FLIGHT")
<1>1. run[r].pc = "recheck" /\ UNCHANGED <<inputs, filled, work, zernio, sent, result>>
  BY DEF Permit
<1>2. run[r].pc \in Inside
  BY <1>1 DEF Inside
<1>3. d \in Developments /\ InsideFacts(r) /\ SetFacts(d, z) /\ Key(r) = KeyOf(z, d, t)
  BY <1>2, InsideBasics
<1>4. Fresh(Key(r))
  <2>1. t \in DOMAIN z.status /\ z.status[t] \in {"PENDING", "BLOCKED_BEFORE_ATTEMPT"}
    BY <1>1, <1>3 DEF InsideFacts
  <2> HIDE DEF z, d, t
  <2> QED
    BY <1>3, <2>1 DEF SetFacts
<1>5. /\ SetFacts(d, blocked) /\ blocked.decision = z.decision
      /\ \A u \in DOMAIN blocked.status :
             z.status[u] = "SUCCEEDED" => blocked.status[u] = "SUCCEEDED"
  <2>1. "BLOCKED_BEFORE_ATTEMPT" \in Statuses
    BY DEF Statuses
  <2> QED
    BY <1>2, <1>4, <2>1, OwnStatusIsSound
<1>6. CASE AfterTarget(r, blocked)
  BY <1>1, <1>2, <1>5, <1>6, AfterTargetPreserves
<1>7. CASE AfterTarget(r, [blocked EXCEPT !.recon = TRUE])
  <2> DEFINE s == [blocked EXCEPT !.recon = TRUE]
  <2>1. SetFacts(d, s) /\ s.decision = blocked.decision /\ s.status = blocked.status
    <3>1. s = SetRecon(blocked, TRUE)
      BY DEF SetRecon
    <3>2. PICK recon \in BOOLEAN : recon = TRUE
      OBVIOUS
    <3>3. SetFacts(d, blocked) /\ s = SetRecon(blocked, recon) /\ (blocked.recon => recon)
      BY <1>5, <3>1, <3>2
    <3> HIDE DEF s, blocked, d
    <3> QED
      BY <3>3, ReconIsSound
  <2>2. \A u \in DOMAIN s.status : z.status[u] = "SUCCEEDED" => s.status[u] = "SUCCEEDED"
    BY <1>5, <2>1
  <2> HIDE DEF s, blocked
  <2>3. AfterTarget(r, s)
    BY <1>7 DEF s
  <2> QED
    BY <1>1, <1>2, <1>5, <2>1, <2>2, <2>3, AfterTargetPreserves
<1>8. CASE set' = [set EXCEPT ![d] = flight] /\ Goto(r, "spec") /\ holder' = holder
  <2>1. "DISPATCH_IN_FLIGHT" \in Statuses
    BY DEF Statuses
  <2>2. /\ SetFacts(d, flight) /\ flight.decision = z.decision
        /\ t \in DOMAIN flight.status /\ flight.status[t] = "DISPATCH_IN_FLIGHT"
        /\ t # "STORY" => flight.status["STORY"] = "SUCCEEDED"
        /\ \A u \in DOMAIN flight.status :
               z.status[u] = "SUCCEEDED" => flight.status[u] = "SUCCEEDED"
        /\ KeyOf(flight, d, t) = Key(r)
    BY <1>2, <2>1, OwnStatusIsSound
  <2> DEFINE x == run[r]
             p == [x EXCEPT !.pc = "spec"]
  <2>3. Shaped(x) /\ x.decision = z.decision
    BY <1>3, RunShape DEF Coherent, InsideFacts
  <2>4. run' = Assign(run, r, p)
    BY <1>8 DEF Goto, Assign
  <2>5. Shaped(p) /\ p.pc = "spec" /\ p.target = x.target /\ p.decision = x.decision
    <3> HIDE DEF x
    <3> QED
      BY <2>3 DEF Shaped
  <2> HIDE DEF p
  <2>6. set' = Assign(set, d, flight) /\ holder' = Assign(holder, d, r)
    BY <1>2, <1>8, AloneInside DEF Assign
  <2>7. /\ p.decision = flight.decision /\ p.target \in DOMAIN flight.status
        /\ p.target # "STORY" => flight.status["STORY"] = "SUCCEEDED"
        /\ \/ p.pc = "recheck" /\ flight.status[p.target] \in {"PENDING", "BLOCKED_BEFORE_ATTEMPT"}
           \/ /\ p.pc = "spec" /\ flight.status[p.target] = "DISPATCH_IN_FLIGHT"
              /\ Fresh(KeyOf(flight, d, p.target))
    BY <1>4, <2>2, <2>3, <2>5
  <2>8. /\ \A q \in Runners \ {r} : run[q].pc \in Inside => Dev(q) # d
        /\ \A e \in Developments \ {d} : holder[e] # r
    BY <1>2, AloneInside
  <2>9. set[d] # None =>
            /\ flight.decision = set[d].decision
            /\ \A u \in DOMAIN flight.status :
                   set[d].status[u] = "SUCCEEDED" => flight.status[u] = "SUCCEEDED"
    BY <2>2
  <2> HIDE DEF flight, d, t, x
  <2> QED
    BY <1>1, <1>3, <2>2, <2>4, <2>5, <2>6, <2>7, <2>8, <2>9, EnterPreserves
<1> QED
  BY <1>6, <1>7, <1>8 DEF Permit

\* What no step of the runner's own request touches.
LEMMA TypesOf ==
    ASSUME Coherent
    PROVE  /\ work \in [Keys -> Manifest \cup {None, Finalized}]
           /\ child \subseteq Keys /\ drafts \in [Keys -> 0..1]
           /\ sent \in [Keys -> {None, "SENT", "UNSENT"}]
  BY DEF Coherent, TypeOK

LEMMA FinalizePreserves ==
    ASSUME Coherent, NEW r \in Runners, Finalize(r)
    PROVE  Coherent'
<1>1. run[r].pc = "spec" /\ UNCHANGED <<inputs, filled, zernio, sent, result>>
  BY DEF Finalize
<1>2. run[r].pc \in Inside \ {"recheck"}
  BY <1>1 DEF Inside
<1>3. InsideFacts(r) /\ Key(r) \in Keys /\ Fresh(Key(r))
  BY <1>1, <1>2, InsideBasics DEF InsideFacts
<1>4. ASSUME NEW end \in Refusals, EndsWith(r, end), UNCHANGED work
      PROVE  Coherent'
  <2>1. end \in {"SENT", "UNSENT", "BLOCKED", "AMBIGUOUS"} /\ end # "SENT"
    BY DEF Refusals
  <2> QED
    BY <1>1, <1>2, <1>3, <1>4, <2>1, EndPreserves
<1>5. CASE /\ Goto(r, "build") /\ work' = [work EXCEPT ![Key(r)] = SpecText(@)]
           /\ UNCHANGED <<set, holder>>
  <2>17. PICK k : k = Key(r)
    OBVIOUS
  <2>1. k \in Keys /\ Fresh(k) /\ KeyFacts(k)
    BY <1>3, <2>17 DEF Coherent
  <2>2. work \in [Keys -> Manifest \cup {None, Finalized}]
    BY TypesOf
  <2>3. work' = [work EXCEPT ![k] = SpecText(work[k])] /\ SpecText(work[k]) # None
    BY <1>5, <2>17, BreakingAssumption DEF SpecText
  <2>4. SpecText(work[k]) \in Manifest \cup {None, Finalized}
    BY <2>1, <2>2 DEF SpecText
  <2>5. work'[k] = SpecText(work[k]) /\ \A j \in Keys \ {k} : work'[j] = work[j]
    BY <2>1, <2>2, <2>3
  <2>6. work' \in [Keys -> Manifest \cup {None, Finalized}]
    BY <2>2, <2>3, <2>4
  <2>7. IsManifest(work'[k]) => IsManifest(work[k]) /\ work'[k] = work[k]
    BY <2>5 DEF SpecText, IsManifest
  <2>8. IsManifest(work[k]) => work'[k] = work[k]
    BY <2>5 DEF SpecText, IsManifest
  <2>9. UNCHANGED <<child, drafts, sent, set>>
    BY <1>1, <1>5 DEF zernio
  <2>10. Fresh(k)'
    BY <2>1, <2>7, <2>9 DEF Fresh
  <2>11. /\ set[k[2]] # None /\ set[k[2]].decision.a.cand = k[1]
         /\ k[3] \in DOMAIN set[k[2]].status
    BY <1>2, <1>3, <2>17, InsideBasics DEF InsideFacts
  <2>12. KeyFacts(k)'
    BY <2>1, <2>7, <2>8, <2>9, <2>11 DEF KeyFacts
  <2>13. child' \subseteq Keys /\ drafts' \in [Keys -> 0..1]
         /\ sent' \in [Keys -> {None, "SENT", "UNSENT"}]
    BY <2>9, TypesOf
  <2>14. "build" \in Inside \ {"recheck"} /\ k = Key(r) /\ work'[k] # None
    BY <2>3, <2>5, <2>17 DEF Inside
  <2>15. UNCHANGED <<inputs, filled, set, holder, result>>
    BY <1>1, <1>5
  <2>16. \A j \in Keys \ {k} : /\ work'[j] = work[j] /\ sent'[j] = sent[j]
                               /\ drafts'[j] = drafts[j] /\ (j \in child' <=> j \in child)
    BY <2>5, <2>9
  <2> QED
    BY <1>2, <1>5, <2>6, <2>10, <2>12, <2>13, <2>14, <2>15, <2>16, OwnRequestPreserves
<1> QED
  BY <1>4, <1>5 DEF Finalize

LEMMA BuildPreserves ==
    ASSUME Coherent, NEW r \in Runners, Build(r)
    PROVE  Coherent'
<1>8. PICK k : k = Key(r)
  OBVIOUS
<1>1. run[r].pc = "build" /\ UNCHANGED <<inputs, filled, drafts, sent, result>>
  BY DEF Build
<1>2. run[r].pc \in Inside \ {"recheck"}
  BY <1>1 DEF Inside
<1>3. InsideFacts(r) /\ k \in Keys /\ Fresh(k) /\ KeyFacts(k) /\ work[k] # None
  BY <1>1, <1>2, <1>8, InsideBasics DEF InsideFacts, Coherent
<1>4. ASSUME NEW end \in {"AMBIGUOUS", "BLOCKED"}, EndsWith(r, end), UNCHANGED <<work, child>>
      PROVE  Coherent'
  BY <1>1, <1>2, <1>3, <1>4, <1>8, EndPreserves DEF zernio
<1>5. ASSUME child' = child \cup {k}, Goto(r, "wait"), UNCHANGED <<set, holder>>,
             \/ IsManifest(work[k]) /\ work' = work
             \/ ~IsManifest(work[k]) /\ work' = [work EXCEPT ![k] = NewManifest]
      PROVE  Coherent'
  <2>1. work \in [Keys -> Manifest \cup {None, Finalized}]
    BY TypesOf
  <2>2. NewManifest \in Manifest /\ NewManifest.creates = 0 /\ NewManifest.review = "NOT_CREATED"
    BY DEF NewManifest, Manifest
  <2>3. IsManifest(NewManifest)
    BY <2>2, NoneAssumption DEF IsManifest
  <2>4. /\ work' \in [Keys -> Manifest \cup {None, Finalized}]
        /\ \A j \in Keys \ {k} : work'[j] = work[j]
        /\ work'[k] = IF IsManifest(work[k]) THEN work[k] ELSE NewManifest
    BY <1>3, <1>5, <2>1, <2>2
  <2>5. IsManifest(work'[k]) /\ work'[k].creates = 0 /\ work'[k].review = "NOT_CREATED"
    BY <1>3, <2>2, <2>3, <2>4 DEF Fresh, KeyFacts
  <2>6. drafts[k] = 0 /\ sent[k] = None
    BY <1>3 DEF KeyFacts, Fresh
  <2>7. KeyFacts(k)'
    BY <1>1, <1>3, <1>5, <2>5, <2>6 DEF KeyFacts
  <2>8. /\ child' \subseteq Keys /\ drafts' \in [Keys -> 0..1]
        /\ sent' \in [Keys -> {None, "SENT", "UNSENT"}]
    BY <1>1, <1>3, <1>5, TypesOf
  <2>9. "wait" \in Inside \ {"recheck"} /\ k = Key(r)
    BY <1>8 DEF Inside
  <2>10. UNCHANGED <<inputs, filled, set, holder, result>>
    BY <1>1, <1>5
  <2>11. \A j \in Keys \ {k} : /\ work'[j] = work[j] /\ sent'[j] = sent[j]
                               /\ drafts'[j] = drafts[j] /\ (j \in child' <=> j \in child)
    BY <1>1, <1>5, <2>4
  <2> QED
    BY <1>2, <1>5, <2>4, <2>5, <2>7, <2>8, <2>9, <2>10, <2>11, OwnRequestPreserves
<1>6. CASE IsManifest(work[k])
  <2>1. \/ child' = child \cup {k} /\ Goto(r, "wait") /\ UNCHANGED <<set, holder>> /\ work' = work
        \/ EndsWith(r, "AMBIGUOUS") /\ UNCHANGED <<work, child>>
    BY <1>6, <1>8 DEF Build
  <2> QED
    BY <1>4, <1>5, <1>6, <2>1
<1>7. CASE ~IsManifest(work[k])
  <2>1. \/ /\ child' = child \cup {k} /\ Goto(r, "wait") /\ UNCHANGED <<set, holder>>
           /\ work' = [work EXCEPT ![k] = NewManifest]
        \/ EndsWith(r, "BLOCKED") /\ UNCHANGED <<work, child>>
    BY <1>7, <1>8 DEF Build
  <2> QED
    BY <1>4, <1>5, <1>7, <2>1
<1> QED
  BY <1>6, <1>7

LEMMA ConnectedPreserves ==
    ASSUME Coherent, NEW r \in Runners, Connected(r)
    PROVE  Coherent'
<1>6. PICK k : k = Key(r)
  OBVIOUS
<1>1. /\ run[r].pc = "wait" /\ k \notin child
      /\ UNCHANGED <<inputs, filled, work, zernio, sent, result>>
  BY <1>6 DEF Connected
<1>2. run[r].pc \in Inside \ {"recheck"}
  BY <1>1 DEF Inside
<1>3. k \in Keys /\ KeyFacts(k) /\ IsManifest(work[k])
  BY <1>1, <1>2, <1>6, InsideBasics DEF InsideFacts, Coherent
<1>4. CASE work[k].review = "DRAFT_CREATED"
  <2>1. Goto(r, "preview") /\ UNCHANGED <<set, holder>>
    BY <1>4, <1>6 DEF Connected
  <2>2. UNCHANGED <<inputs, filled, set, holder, result>>
    BY <1>1, <2>1
  <2>3. UNCHANGED <<work, child, drafts, sent, set>>
    BY <1>1, <2>1 DEF zernio
  <2>4. KeyFacts(k)'
    BY <1>3, <2>3 DEF KeyFacts
  <2>5. /\ work' \in [Keys -> Manifest \cup {None, Finalized}]
        /\ child' \subseteq Keys /\ drafts' \in [Keys -> 0..1]
        /\ sent' \in [Keys -> {None, "SENT", "UNSENT"}]
    BY <2>3, TypesOf
  <2>6. "preview" \in Inside \ {"recheck"} /\ k = Key(r)
    BY <1>6 DEF Inside
  <2>7. \A j \in Keys \ {k} : /\ work'[j] = work[j] /\ sent'[j] = sent[j]
                               /\ drafts'[j] = drafts[j] /\ (j \in child' <=> j \in child)
    BY <2>3
  <2>8. IsManifest(work'[k]) /\ work'[k].review = "DRAFT_CREATED"
    BY <1>3, <1>4, <2>3
  <2> QED
    BY <1>2, <2>1, <2>2, <2>4, <2>5, <2>6, <2>7, <2>8, OwnRequestPreserves
<1>5. CASE work[k].review # "DRAFT_CREATED"
  <2> DEFINE end == IF work[k].creates = 0 THEN "BLOCKED" ELSE "AMBIGUOUS"
  <2>1. EndsWith(r, end)
    BY <1>5, <1>6 DEF Connected
  <2>2. end \in {"SENT", "UNSENT", "BLOCKED", "AMBIGUOUS"} /\ end # "SENT"
    OBVIOUS
  <2>3. end = "BLOCKED" => Fresh(k)
    BY <1>1, <1>3 DEF Fresh
  <2> HIDE DEF end
  <2> QED
    BY <1>1, <1>2, <1>6, <2>1, <2>2, <2>3, EndPreserves
<1> QED
  BY <1>4, <1>5

LEMMA PreviewPreserves ==
    ASSUME Coherent, NEW r \in Runners, Preview(r)
    PROVE  Coherent'
<1>12. PICK k : k = Key(r)
  OBVIOUS
<1>1. /\ run[r].pc = "preview" /\ Goto(r, "classify")
      /\ UNCHANGED <<inputs, filled, set, holder, work, zernio, result>>
  BY DEF Preview
<1>2. PICK end \in {"SENT", "UNSENT"} : sent' = [sent EXCEPT ![k] = end]
  BY <1>12 DEF Preview
<1>3. run[r].pc \in Inside \ {"recheck"}
  BY <1>1 DEF Inside
<1>4. k \in Keys /\ KeyFacts(k) /\ IsManifest(work[k]) /\ work[k].review = "DRAFT_CREATED"
  BY <1>1, <1>3, <1>12, InsideBasics DEF InsideFacts, Coherent
<1>5. UNCHANGED <<work, child, drafts, set>>
  BY <1>1 DEF zernio
<1>6. "classify" \in Inside \ {"recheck"} /\ k = Key(r)
  BY <1>12 DEF Inside
<1>7. sent'[k] = end /\ \A j \in Keys \ {k} : sent'[j] = sent[j]
  BY <1>2, <1>4, TypesOf
<1>8. KeyFacts(k)'
  BY <1>4, <1>5 DEF KeyFacts
<1>9. /\ work' \in [Keys -> Manifest \cup {None, Finalized}]
      /\ child' \subseteq Keys /\ drafts' \in [Keys -> 0..1]
      /\ sent' \in [Keys -> {None, "SENT", "UNSENT"}]
  BY <1>2, <1>5, TypesOf
<1>10. \A j \in Keys \ {k} : /\ work'[j] = work[j] /\ sent'[j] = sent[j]
                             /\ drafts'[j] = drafts[j] /\ (j \in child' <=> j \in child)
  BY <1>5, <1>7
<1>11. IsManifest(work'[k]) /\ sent'[k] # None
  BY <1>4, <1>5, <1>7, NoneAssumption
<1> QED
  BY <1>1, <1>3, <1>6, <1>8, <1>9, <1>10, <1>11, OwnRequestPreserves

LEMMA ClassifyPreserves ==
    ASSUME Coherent, NEW r \in Runners, Classify(r)
    PROVE  Coherent'
<1>1. /\ run[r].pc = "classify" /\ EndsWith(r, sent[Key(r)])
      /\ UNCHANGED <<inputs, filled, work, zernio, sent, result>>
  BY DEF Classify
<1>2. run[r].pc \in Inside
  BY <1>1 DEF Inside
<1>3. sent[Key(r)] \in {"SENT", "UNSENT"}
  BY <1>1, <1>2, InsideBasics, TypesOf DEF InsideFacts
<1> DEFINE end == sent[Key(r)]
<1>4. /\ end \in {"SENT", "UNSENT", "BLOCKED", "AMBIGUOUS"} /\ EndsWith(r, end)
      /\ (end = "SENT" => sent[Key(r)] = "SENT") /\ end # "BLOCKED"
  BY <1>1, <1>3
<1> HIDE DEF end
<1> QED
  BY <1>1, <1>2, <1>4, EndPreserves

\* A child's create call, or its refusal.
LEMMA AttemptPreserves ==
    ASSUME Coherent, NEW k \in Keys, k \in child, Attempt(k)
    PROVE  Coherent'
<1>1. work[k].creates = 0 /\ UNCHANGED <<inputs, filled, set, holder, sent, run, result>>
  BY DEF Attempt
<1>2. KeyFacts(k) /\ IsManifest(work[k]) /\ work[k] \in Manifest /\ drafts[k] = 0
  BY <1>1, NoneAssumption, TypesOf DEF Coherent, KeyFacts, IsManifest
<1>3. sent[k] = None /\ work[k] # None /\ ~Fresh(k) /\ work[k].review # "DRAFT_CREATED"
  BY <1>1, <1>2 DEF KeyFacts, Fresh, IsManifest
<1>4. CASE UNCHANGED <<work, drafts>> /\ child' = child \ {k}
  <2>1. child' \subseteq Keys /\ k \notin child'
    BY <1>4, TypesOf
  <2>2. KeyFacts(k)'
    BY <1>1, <1>2, <1>4, <2>1 DEF KeyFacts, IsManifest
  <2>3. Kept(k)
    BY <1>1, <1>3, <1>4 DEF Kept
  <2>4. /\ work' \in [Keys -> Manifest \cup {None, Finalized}]
        /\ drafts' \in [Keys -> 0..1]
    BY <1>4, TypesOf
  <2>5. \A j \in Keys \ {k} : /\ work'[j] = work[j]
                              /\ drafts'[j] = drafts[j] /\ (j \in child' <=> j \in child)
    BY <1>4
  <2> QED
    BY <1>1, <1>3, <2>1, <2>2, <2>3, <2>4, <2>5, ForeignRequestPreserves
<1>5. CASE /\ work' = [work EXCEPT ![k] = [@ EXCEPT !.review = "CREATE_IN_FLIGHT", !.creates = 1]]
           /\ drafts' = [drafts EXCEPT ![k] = @ + 1] /\ UNCHANGED child
  <2> DEFINE m == [work[k] EXCEPT !.review = "CREATE_IN_FLIGHT", !.creates = 1]
  <2>1. work' = [work EXCEPT ![k] = m]
    BY <1>5
  <2>2. m \in Manifest /\ m.review = "CREATE_IN_FLIGHT" /\ m.creates = 1
    <3>1. ASSUME NEW w \in Manifest, NEW n \in 0..1
          PROVE  LET v == [w EXCEPT !.review = "CREATE_IN_FLIGHT", !.creates = n]
                 IN  v \in Manifest /\ v.review = "CREATE_IN_FLIGHT" /\ v.creates = n
      BY DEF Manifest
    <3>2. 1 \in 0..1
      OBVIOUS
    <3> QED
      BY <1>2, <3>1, <3>2
  <2> HIDE DEF m
  <2>3. /\ work' \in [Keys -> Manifest \cup {None, Finalized}]
        /\ work'[k] = m /\ \A j \in Keys \ {k} : work'[j] = work[j]
    BY <2>1, <2>2, TypesOf
  <2>4. /\ drafts' \in [Keys -> 0..1] /\ drafts'[k] = 1
        /\ \A j \in Keys \ {k} : drafts'[j] = drafts[j]
    BY <1>2, <1>5, TypesOf
  <2>5. IsManifest(work'[k]) /\ work'[k] # None
    BY <2>2, <2>3, NoneAssumption DEF IsManifest
  <2>6. KeyFacts(k)'
    BY <1>1, <1>2, <1>3, <1>5, <2>2, <2>3, <2>4, <2>5 DEF KeyFacts
  <2>7. Kept(k)
    BY <1>1, <1>3, <2>5 DEF Kept
  <2>8. child' \subseteq Keys /\ \A j \in Keys \ {k} : j \in child' <=> j \in child
    BY <1>5, TypesOf
  <2>9. \A j \in Keys \ {k} : /\ work'[j] = work[j]
                              /\ drafts'[j] = drafts[j] /\ (j \in child' <=> j \in child)
    BY <2>3, <2>4, <2>8
  <2> QED
    BY <1>1, <1>3, <2>3, <2>4, <2>6, <2>7, <2>8, <2>9, ForeignRequestPreserves
<1> QED
  BY <1>4, <1>5 DEF Attempt

LEMMA AnswerPreserves ==
    ASSUME Coherent, NEW k \in Keys, k \in child, Answer(k)
    PROVE  Coherent'
<1>1. /\ work[k].creates = 1 /\ child' = child \ {k}
      /\ UNCHANGED <<inputs, filled, set, holder, drafts, sent, run, result>>
  BY DEF Answer
<1>2. PICK review \in {"DRAFT_CREATED", "REVIEW_UNKNOWN"} :
          work' = [work EXCEPT ![k] = [@ EXCEPT !.review = review]]
  BY DEF Answer
<1>3. KeyFacts(k) /\ IsManifest(work[k]) /\ work[k] \in Manifest
  BY NoneAssumption, TypesOf DEF Coherent, KeyFacts, IsManifest
<1>4. /\ sent[k] = None /\ work[k] # None /\ ~Fresh(k) /\ work[k].review = "CREATE_IN_FLIGHT"
      /\ drafts[k] = 1
  BY <1>1, <1>3 DEF KeyFacts, Fresh, IsManifest
<1> DEFINE m == [work[k] EXCEPT !.review = review]
<1>5. work' = [work EXCEPT ![k] = m]
  BY <1>2
<1>6. m \in Manifest /\ m.review = review /\ m.creates = work[k].creates
  BY <1>3 DEF Manifest
<1> HIDE DEF m
<1>7. /\ work' \in [Keys -> Manifest \cup {None, Finalized}]
      /\ work'[k] = m /\ \A j \in Keys \ {k} : work'[j] = work[j]
  BY <1>5, <1>6, TypesOf
<1>8. IsManifest(work'[k]) /\ work'[k] # None
  BY <1>6, <1>7, NoneAssumption DEF IsManifest
<1>9. child' \subseteq Keys /\ k \notin child' /\ \A j \in Keys \ {k} : j \in child' <=> j \in child
  BY <1>1, TypesOf
<1>10. KeyFacts(k)'
  BY <1>1, <1>3, <1>4, <1>6, <1>7, <1>8, <1>9 DEF KeyFacts
<1>11. Kept(k)
  BY <1>1, <1>4, <1>8 DEF Kept
<1>12. /\ drafts' \in [Keys -> 0..1]
       /\ \A j \in Keys \ {k} : /\ work'[j] = work[j]
                                /\ drafts'[j] = drafts[j] /\ (j \in child' <=> j \in child)
  BY <1>1, <1>7, <1>9, TypesOf
<1> QED
  BY <1>1, <1>4, <1>7, <1>9, <1>10, <1>11, <1>12, ForeignRequestPreserves

LEMMA KilledPreserves ==
    ASSUME Coherent, NEW k \in Keys, k \in child, Killed(k)
    PROVE  Coherent'
<1>1. /\ child' = child \ {k}
      /\ UNCHANGED <<inputs, filled, set, holder, work, drafts, sent, run, result>>
  BY DEF Killed
<1>2. KeyFacts(k) /\ work[k] # None /\ ~Fresh(k)
  BY DEF Coherent, KeyFacts, IsManifest, Fresh
<1>3. child' \subseteq Keys /\ k \notin child' /\ \A j \in Keys \ {k} : j \in child' <=> j \in child
  BY <1>1, TypesOf
<1>4. KeyFacts(k)'
  BY <1>1, <1>2, <1>3 DEF KeyFacts, IsManifest
<1>5. Kept(k)
  BY <1>1, <1>2 DEF Kept
<1>6. /\ work' \in [Keys -> Manifest \cup {None, Finalized}]
      /\ drafts' \in [Keys -> 0..1]
      /\ \A j \in Keys \ {k} : /\ work'[j] = work[j]
                               /\ drafts'[j] = drafts[j] /\ (j \in child' <=> j \in child)
  BY <1>1, <1>3, TypesOf
<1> QED
  BY <1>1, <1>2, <1>3, <1>4, <1>5, <1>6, ForeignRequestPreserves

LEMMA OwnerPreserves ==
    ASSUME Coherent, NEW k \in Keys, Owner(k)
    PROVE  Coherent'
<1>1. /\ IsManifest(work[k]) /\ work[k].review = "DRAFT_CREATED" /\ sent[k] # None
      /\ UNCHANGED <<inputs, filled, set, holder, zernio, sent, run, result>>
  BY DEF Owner
<1>2. PICK pub \in {"PUBLISHED", "FAILED"} :
          work' = [work EXCEPT ![k] = [@ EXCEPT !.pub = pub, !.attempts = 1,
                                               !.first = TRUE, !.final = TRUE]]
  BY DEF Owner
<1>3. KeyFacts(k) /\ work[k] \in Manifest /\ work[k] # None
  BY <1>1, TypesOf DEF Coherent, IsManifest
<1> DEFINE m == [work[k] EXCEPT !.pub = pub, !.attempts = 1, !.first = TRUE, !.final = TRUE]
<1>4. work' = [work EXCEPT ![k] = m]
  BY <1>2
<1>5. m \in Manifest /\ m.review = work[k].review /\ m.creates = work[k].creates
  <2>1. ASSUME NEW w \in Manifest, NEW n \in 0..1
        PROVE  LET v == [w EXCEPT !.pub = pub, !.attempts = n, !.first = TRUE, !.final = TRUE]
               IN  v \in Manifest /\ v.review = w.review /\ v.creates = w.creates
    BY DEF Manifest
  <2>2. 1 \in 0..1
    OBVIOUS
  <2> QED
    BY <1>3, <2>1, <2>2
<1> HIDE DEF m
<1>6. /\ work' \in [Keys -> Manifest \cup {None, Finalized}]
      /\ work'[k] = m /\ \A j \in Keys \ {k} : work'[j] = work[j]
  BY <1>4, <1>5, TypesOf
<1>7. IsManifest(work'[k]) /\ work'[k] # None
  BY <1>5, <1>6, NoneAssumption DEF IsManifest
<1>8. UNCHANGED <<child, drafts>>
  BY <1>1 DEF zernio
<1>9. KeyFacts(k)'
  BY <1>1, <1>3, <1>5, <1>6, <1>7, <1>8 DEF KeyFacts
<1>10. Kept(k)
  BY <1>1, <1>5, <1>6, <1>7, <1>8 DEF Kept, Fresh
<1>11. /\ child' \subseteq Keys /\ drafts' \in [Keys -> 0..1]
       /\ \A j \in Keys \ {k} : /\ work'[j] = work[j]
                                /\ drafts'[j] = drafts[j] /\ (j \in child' <=> j \in child)
  BY <1>6, <1>8, TypesOf
<1> QED
  BY <1>1, <1>3, <1>6, <1>9, <1>10, <1>11, ForeignRequestPreserves

\* A killed runner's lock is free; its child and its set are as they were.
LEMMA CrashPreserves ==
    ASSUME Coherent, NEW r \in Runners, Crash(r)
    PROVE  Coherent'
<1>1. /\ run' = Assign(run, r, IdleRun)
      /\ holder' = [d \in Developments |-> IF holder[d] = r THEN None ELSE holder[d]]
      /\ UNCHANGED <<inputs, filled, set, work, zernio, sent, result>>
  BY DEF Crash, Assign
<1>2. TypeOK /\ r # None
  BY BreakingAssumption DEF Coherent
<1>3. /\ run'[r] = IdleRun /\ \A q \in Runners \ {r} : run'[q] = run[q]
      /\ run' = [q \in Runners |-> run'[q]] /\ \A q \in Runners : Shaped(run'[q])
  BY <1>1, <1>2, RunMoves, IdleShape
<1>4. UNCHANGED <<work, child, drafts, sent, set, assess>>
  BY <1>1 DEF zernio, inputs
<1>5. holder' \in [Developments -> Runners \cup {None}]
  BY <1>1, <1>2 DEF TypeOK
<1>6. TypeOK'
  BY <1>1, <1>2, <1>3, <1>4, <1>5 DEF TypeOK, inputs, Shaped
<1>7. \A k \in Keys : Kept(k) /\ (Achieved(k) => Achieved(k)')
  BY <1>4, UntouchedIsKept, AchievedStays
<1>8. ASSUME NEW q \in Runners
      PROVE  RunFacts(q)'
  <2>1. CASE q = r
    BY <2>1, <1>3, IdleShape DEF RunFacts
  <2>2. CASE q # r
    <3>1. run[q].pc \in Inside => /\ holder'[Dev(q)] = holder[Dev(q)]
                                  /\ set'[Dev(q)] = set[Dev(q)] /\ Kept(Key(q))
      <4>1. ASSUME run[q].pc \in Inside
            PROVE  holder[Dev(q)] = q /\ Dev(q) \in Developments /\ Key(q) \in Keys
        BY <4>1, InsideBasics DEF InsideFacts
      <4> QED
        BY <4>1, <2>2, <1>1, <1>4, <1>7
    <3> QED
      BY <2>2, <3>1, <1>3, <1>4, <1>7, BystanderStays
  <2> QED
    BY <2>1, <2>2
<1>9. ASSUME NEW d \in Developments, holder'[d] # None
      PROVE  run'[holder'[d]].pc \in Inside /\ Dev(holder[d])' = d
  <2>1. holder'[d] = holder[d] /\ holder[d] # r /\ holder[d] \in Runners
    BY <1>1, <1>2, <1>9 DEF TypeOK
  <2>2. run[holder[d]].pc \in Inside /\ Dev(holder[d]) = d
    BY <1>9, <2>1 DEF Coherent, HolderFacts
  <2>3. run'[holder[d]] = run[holder[d]]
    BY <2>1, <1>3
  <2> QED
    BY <2>1, <2>2, <2>3 DEF Dev
<1>10. \A d \in Developments : HolderFacts(d)'
  BY <1>9 DEF HolderFacts
<1>11. (\A e \in Developments : set[e] # None => SetFacts(e, set[e]))'
  BY <1>4 DEF Coherent, SetFacts, Fresh, KeyOf
<1>12. (\A k \in Keys : KeyFacts(k))'
  BY <1>4 DEF Coherent, KeyFacts
<1>13. (\A o \in Occurrences : result[o] # None => Backed(result[o]))'
  BY <1>1, <1>7, ResultsStayBacked
<1> QED
  BY <1>6, <1>8, <1>10, <1>11, <1>12, <1>13 DEF Coherent

\* What the invariant does not speak of may change.
LEMMA UnseenPreserves ==
    ASSUME Coherent, UNCHANGED <<inputs, set, holder, work, zernio, sent, run, result>>,
           filled' \subseteq {"STORY", "MAIN"}
    PROVE  Coherent'
<1>1. UNCHANGED <<assess, history, set, holder, work, child, drafts, sent, run, result>>
  BY DEF inputs, zernio
<1>2. TypeOK'
  BY <1>1 DEF Coherent, TypeOK
<1>3. (\A e \in Developments : (set[e] # None => SetFacts(e, set[e])) /\ HolderFacts(e))'
  BY <1>1 DEF Coherent, SetFacts, Fresh, KeyOf, HolderFacts, Dev
<1>4. (\A k \in Keys : KeyFacts(k))'
  BY <1>1 DEF Coherent, KeyFacts
<1>5. \A k \in Keys : Kept(k) /\ (Achieved(k) => Achieved(k)')
  BY <1>1, UntouchedIsKept, AchievedStays
<1>6. ASSUME NEW r \in Runners
      PROVE  RunFacts(r)'
  <2>1. run[r].pc \in Inside => Kept(Key(r))
    BY <1>5, InsideBasics
  <2> QED
    BY <1>1, <1>5, <2>1, BystanderStays
<1>7. (\A o \in Occurrences : result[o] # None => Backed(result[o]))'
  BY <1>1, <1>5, ResultsStayBacked
<1> QED
  BY <1>2, <1>3, <1>4, <1>6, <1>7 DEF Coherent

LEMMA FillPreserves ==
    ASSUME Coherent, Fill
    PROVE  Coherent'
<1>1. filled' \subseteq {"STORY", "MAIN"}
  BY DEF Fill, Coherent, TypeOK
<1> QED
  BY <1>1, UnseenPreserves DEF Fill

LEMMA TargetStepPreserves ==
    ASSUME Coherent, NEW r \in Runners, TargetStep(r)
    PROVE  Coherent'
  BY PermitPreserves, FinalizePreserves, BuildPreserves, ConnectedPreserves,
     PreviewPreserves, ClassifyPreserves DEF TargetStep

\* Every step keeps the invariant.
LEMMA NextInv == Coherent /\ [Next]_vars => Coherent'
<1> SUFFICES ASSUME Coherent, [Next]_vars PROVE Coherent'
  OBVIOUS
<1>1. ASSUME NEW o \in Occurrences, OccurrenceStep(o)
      PROVE  Coherent'
  <2>1. o \in Runners
    BY DEF Runners
  <2> QED
    BY <1>1, <2>1, IdentifyPreserves, RoutePreserves, ReservePreserves,
       TargetStepPreserves, EmitPreserves DEF OccurrenceStep
<1>2. CASE TargetStep(Operator)
  <2>1. Operator \in Runners
    BY DEF Runners
  <2> QED
    BY <1>2, <2>1, TargetStepPreserves
<1>3. ASSUME NEW k \in child, BridgeStep(k)
      PROVE  Coherent'
  <2>1. k \in Keys
    BY TypesOf
  <2> QED
    BY <1>3, <2>1, AttemptPreserves, AnswerPreserves, KilledPreserves DEF BridgeStep
<1>4. CASE UNCHANGED vars
  <2>1. UNCHANGED <<inputs, set, holder, work, zernio, sent, run, result>> /\ filled' = filled
    BY <1>4 DEF vars
  <2>2. filled \subseteq {"STORY", "MAIN"}
    BY DEF Coherent, TypeOK
  <2> QED
    BY <2>1, <2>2, UnseenPreserves
<1> QED
  BY <1>1, <1>2, <1>3, <1>4, ContinuePreserves, OwnerPreserves, CrashPreserves,
     FillPreserves DEF Next, Progress

-----------------------------------------------------------------------------
(* The promise of a single review draft.  One request at most of a         *)
(* development and a kind of post gets a manifest, whatever candidates and *)
(* occurrences name it, so what is promised of them is what it says.       *)

Says(k) == IF IsManifest(work[k]) THEN work[k].review ELSE "NOT_CREATED"

\* No other request of the development and the kind has a manifest.
Sole(x, k) == k \in RequestsOf(x) /\ \A l \in RequestsOf(x) \ {k} : ~IsManifest(work[l])

LEMMA RequestsAreKeys ==
    ASSUME NEW x \in Works
    PROVE  /\ RequestsOf(x) \subseteq Keys /\ RequestsOf(x) # {}
           /\ x[1] \in Developments /\ x[2] \in Kinds
           /\ RequestsOf(x) = {k \in Keys : k[2] = x[1] /\ k[3] \in Formats(x[2])}
<1>1. x[1] \in Developments /\ x[2] \in Kinds
  BY DEF Works
<1>2. Formats(x[2]) \subseteq Targets /\ Formats(x[2]) # {}
  BY DEF Formats, Targets, MainFormats
<1>3. PICK a \in Assessments : x[1] = DevelopmentOf(a)
  BY <1>1 DEF Developments
<1>4. a.cand \in Candidates
  BY DEF Candidates
<1>5. PICK f \in Formats(x[2]) : TRUE
  BY <1>2
<1>6. <<a.cand, x[1], f>> \in RequestsOf(x)
  BY <1>4, <1>5 DEF RequestsOf
<1> QED
  BY <1>1, <1>2, <1>6 DEF RequestsOf, Keys

\* The set of a development fixes the request of each of its targets.
LEMMA OneManifest ==
    ASSUME Coherent, NEW x \in Works, NEW k \in RequestsOf(x), NEW l \in RequestsOf(x),
           IsManifest(work[k]), IsManifest(work[l])
    PROVE  k = l
<1> DEFINE d == x[1]  s == set[d]
<1>1. /\ k \in Keys /\ l \in Keys /\ k[2] = d /\ l[2] = d
      /\ k[3] \in Formats(x[2]) /\ l[3] \in Formats(x[2]) /\ d \in Developments /\ x[2] \in Kinds
  BY RequestsAreKeys
<1>2. /\ s # None /\ s.decision.a.cand = k[1] /\ s.decision.a.cand = l[1]
      /\ k[3] \in DOMAIN s.status /\ l[3] \in DOMAIN s.status
  BY <1>1 DEF Coherent, KeyFacts, IsManifest
<1>3. SetFacts(d, s)
  BY <1>1, <1>2 DEF Coherent
<1>4. \A t, u \in DOMAIN s.status : t # "STORY" /\ u # "STORY" => t = u
  BY <1>3, RecordShape
<1>5. k[3] = l[3]
  <2>1. CASE x[2] = "STORY"
    BY <1>1, <2>1 DEF Formats
  <2>2. CASE x[2] = "MAIN"
    <3>1. k[3] # "STORY" /\ l[3] # "STORY"
      BY <1>1, <2>2 DEF Formats, MainFormats
    <3> QED
      BY <1>2, <1>4, <3>1
  <2> QED
    BY <1>1, <2>1, <2>2 DEF Kinds
<1>6. k = <<k[1], k[2], k[3]>> /\ l = <<l[1], l[2], l[3]>>
  BY <1>1 DEF Keys
<1> QED
  BY <1>1, <1>2, <1>5, <1>6

\* Some request stands alone for its kind, and it says what is promised.
LEMMA SoleExists ==
    ASSUME Coherent, NEW x \in Works
    PROVE  \E k \in RequestsOf(x) : Sole(x, k)
<1>1. CASE \E k \in RequestsOf(x) : IsManifest(work[k])
  BY <1>1, OneManifest DEF Sole
<1>2. CASE \A k \in RequestsOf(x) : ~IsManifest(work[k])
  BY <1>2, RequestsAreKeys DEF Sole
<1> QED
  BY <1>1, <1>2

LEMMA SoleSays ==
    ASSUME Coherent, NEW x \in Works, NEW k \in RequestsOf(x), Sole(x, k)
    PROVE  ReviewOf(x) = Says(k) /\ DraftsOf(x) = drafts[k]
<1>1. k \in Keys /\ drafts[k] \in {0, 1}
  BY RequestsAreKeys, TypesOf
<1>2. ReviewOf(x) = Says(k)
  <2>1. CASE IsManifest(work[k])
    <3>1. \A l \in RequestsOf(x) : IsManifest(work[l]) <=> l = k
      BY <2>1 DEF Sole
    <3>2. (CHOOSE l \in RequestsOf(x) : IsManifest(work[l])) = k
      BY <3>1
    <3> QED
      BY <2>1, <3>2 DEF ReviewOf, Says
  <2>2. CASE ~IsManifest(work[k])
    <3>1. \A l \in RequestsOf(x) : ~IsManifest(work[l])
      BY <2>2 DEF Sole
    <3> QED
      BY <2>2, <3>1 DEF ReviewOf, Says
  <2> QED
    BY <2>1, <2>2
<1> DEFINE D == Drafted(x[1], Formats(x[2]))
<1>3. \A q : q \in D <=> q \in RequestsOf(x) \X (1..2) /\ q[2] <= drafts[q[1]]
  BY DEF Drafted, RequestsOf
<1>4. ASSUME NEW q \in D
      PROVE  q = <<k, 1>> /\ drafts[k] = 1
  <2>1. q[1] \in RequestsOf(x) /\ q[2] \in 1..2 /\ q = <<q[1], q[2]>> /\ q[2] <= drafts[q[1]]
    BY <1>3
  <2>2. q[1] \in Keys /\ drafts[q[1]] \in {0, 1} /\ KeyFacts(q[1])
    BY <2>1, RequestsAreKeys, TypesOf DEF Coherent
  <2>3. q[2] = 1 /\ drafts[q[1]] = 1
    BY <2>1, <2>2
  <2>4. IsManifest(work[q[1]])
    BY <2>2, <2>3 DEF KeyFacts
  <2>5. q[1] = k
    BY <2>1, <2>4 DEF Sole
  <2> QED
    BY <2>1, <2>3, <2>5
<1>5. DraftsOf(x) = Cardinality(D)
  BY DEF DraftsOf
<1>6. drafts[k] = 1 => <<k, 1>> \in D
  BY <1>3
<1> HIDE DEF D
<1>7. CASE drafts[k] = 0
  <2>1. D = {}
    BY <1>4, <1>7
  <2> QED
    BY <1>2, <1>5, <1>7, <2>1, FS_EmptySet
<1>8. CASE drafts[k] = 1
  <2>1. D = {<<k, 1>>}
    BY <1>4, <1>6, <1>8
  <2> QED
    BY <1>2, <1>5, <1>8, <2>1, FS_Singleton
<1> QED
  BY <1>1, <1>7, <1>8

Viewed ==
    \A x \in Works :
        /\ \E k \in RequestsOf(x) : Sole(x, k)
        /\ \A k \in RequestsOf(x) : Sole(x, k) => ReviewOf(x) = Says(k) /\ DraftsOf(x) = drafts[k]

LEMMA Views == Coherent => Viewed
BY SoleExists, SoleSays DEF Viewed

LEMMA ViewsNext == Coherent' => Viewed'
BY Views, PTL

\* What a step does to a request: nothing the promise sees, or the attempt.
Quiet(k) ==
    /\ IsManifest(work[k]) => IsManifest(work'[k])
    /\ Says(k)' = Says(k) /\ drafts'[k] = drafts[k]
Moves(k) ==
    /\ IsManifest(work[k]) /\ IsManifest(work'[k])
    /\ Says(k) \in {"NOT_CREATED", "CREATE_IN_FLIGHT"}
    /\ Says(k)' \in {"CREATE_IN_FLIGHT", "REVIEW_UNKNOWN", "DRAFT_CREATED"}
    /\ drafts[k] \in {0, 1} /\ drafts'[k] = 1

LEMMA StillIsQuiet ==
    ASSUME NEW k, work'[k] = work[k], drafts'[k] = drafts[k]
    PROVE  Quiet(k)
BY DEF Quiet, Says, IsManifest

\* A text, a manifest built of it and the owner's approval leave the review alone.
LEMMA FinalizeQuiet ==
    ASSUME Coherent, NEW r \in Runners, Finalize(r), NEW k \in Keys
    PROVE  Quiet(k)
<1>1. UNCHANGED drafts /\ run[r].pc \in Inside
  BY DEF Finalize, zernio, Inside
<1>2. CASE UNCHANGED work
  BY <1>1, <1>2, StillIsQuiet
<1>3. CASE work' = [work EXCEPT ![Key(r)] = SpecText(@)]
  <2>1. PICK e \in Keys : e = Key(r)
    BY <1>1, InsideBasics
  <2>2. work'[k] = IF k = e THEN SpecText(work[k]) ELSE work[k]
    BY <1>3, <2>1, TypesOf
  <2> QED
    BY <1>1, <2>2 DEF Quiet, Says, IsManifest, SpecText
<1> QED
  BY <1>2, <1>3 DEF Finalize

LEMMA BuildQuiet ==
    ASSUME Coherent, NEW r \in Runners, Build(r), NEW k \in Keys
    PROVE  Quiet(k)
<1>1. UNCHANGED drafts /\ run[r].pc \in Inside
  BY DEF Build, Inside
<1>2. PICK e \in Keys : e = Key(r)
  BY <1>1, InsideBasics
<1>3. UNCHANGED work \/ (~IsManifest(work[e]) /\ work' = [work EXCEPT ![e] = NewManifest])
  BY <1>2 DEF Build
<1>4. CASE ~IsManifest(work[e]) /\ work' = [work EXCEPT ![e] = NewManifest]
  <2>1. work'[k] = IF k = e THEN NewManifest ELSE work[k]
    BY <1>4, TypesOf
  <2>2. NewManifest.review = "NOT_CREATED" /\ NewManifest \in Manifest
    BY DEF NewManifest, Manifest
  <2>3. IsManifest(NewManifest)
    BY <2>2, NoneAssumption DEF IsManifest
  <2> QED
    BY <1>1, <1>4, <2>1, <2>2, <2>3 DEF Quiet, Says, IsManifest
<1> QED
  BY <1>1, <1>3, <1>4, StillIsQuiet

LEMMA OwnerQuiet ==
    ASSUME Coherent, NEW e \in Keys, Owner(e), NEW k \in Keys
    PROVE  Quiet(k)
<1>1. IsManifest(work[e]) /\ UNCHANGED drafts
  BY DEF Owner, zernio
<1>2. PICK pub \in {"PUBLISHED", "FAILED"} :
          work' = [work EXCEPT ![e] = [@ EXCEPT !.pub = pub, !.attempts = 1,
                                               !.first = TRUE, !.final = TRUE]]
  BY DEF Owner
<1>3. work[e] \in Manifest
  BY <1>1, TypesOf DEF IsManifest
<1> DEFINE m == [work[e] EXCEPT !.pub = pub, !.attempts = 1, !.first = TRUE, !.final = TRUE]
<1>4. work' = [work EXCEPT ![e] = m]
  BY <1>2
<1>5. m \in Manifest /\ m.review = work[e].review
  <2>1. ASSUME NEW w \in Manifest, NEW n \in 0..1
        PROVE  LET v == [w EXCEPT !.pub = pub, !.attempts = n, !.first = TRUE, !.final = TRUE]
               IN  v \in Manifest /\ v.review = w.review
    BY DEF Manifest
  <2>2. 1 \in 0..1
    OBVIOUS
  <2> QED
    BY <1>3, <2>1, <2>2
<1> HIDE DEF m
<1>6. work'[k] = IF k = e THEN m ELSE work[k]
  BY <1>4, TypesOf
<1>7. IsManifest(m)
  BY <1>5, NoneAssumption DEF IsManifest
<1> QED
  BY <1>1, <1>5, <1>6, <1>7 DEF Quiet, Says, IsManifest

LEMMA AttemptMoves ==
    ASSUME Coherent, NEW k \in Keys, k \in child, Attempt(k), ~UNCHANGED <<work, drafts>>
    PROVE  Moves(k) /\ \A l \in Keys \ {k} : Quiet(l)
<1>1. /\ work[k].creates = 0 /\ drafts' = [drafts EXCEPT ![k] = @ + 1]
      /\ work' = [work EXCEPT ![k] = [@ EXCEPT !.review = "CREATE_IN_FLIGHT", !.creates = 1]]
  BY DEF Attempt
<1>2. KeyFacts(k) /\ IsManifest(work[k]) /\ work[k] \in Manifest
  BY TypesOf DEF Coherent, KeyFacts, IsManifest
<1>3. drafts[k] = 0 /\ Says(k) = "NOT_CREATED"
  BY <1>1, <1>2 DEF KeyFacts, Says
<1> DEFINE m == [work[k] EXCEPT !.review = "CREATE_IN_FLIGHT", !.creates = 1]
<1>4. work' = [work EXCEPT ![k] = m]
  BY <1>1
<1>5. m \in Manifest /\ m.review = "CREATE_IN_FLIGHT"
  <2>1. ASSUME NEW w \in Manifest, NEW n \in 0..1
        PROVE  LET v == [w EXCEPT !.review = "CREATE_IN_FLIGHT", !.creates = n]
               IN  v \in Manifest /\ v.review = "CREATE_IN_FLIGHT"
    BY DEF Manifest
  <2>2. 1 \in 0..1
    OBVIOUS
  <2> QED
    BY <1>2, <2>1, <2>2
<1> HIDE DEF m
<1>6. work'[k] = m /\ \A l \in Keys \ {k} : work'[l] = work[l]
  BY <1>4, TypesOf
<1>7. drafts'[k] = 1 /\ \A l \in Keys \ {k} : drafts'[l] = drafts[l]
  BY <1>1, <1>3, TypesOf
<1>8. IsManifest(m)
  BY <1>5, NoneAssumption DEF IsManifest
<1>9. Says(k)' = "CREATE_IN_FLIGHT"
  BY <1>5, <1>6, <1>8 DEF Says, IsManifest
<1> QED
  BY <1>2, <1>3, <1>6, <1>7, <1>8, <1>9, StillIsQuiet DEF Moves

LEMMA AnswerMoves ==
    ASSUME Coherent, NEW k \in Keys, k \in child, Answer(k)
    PROVE  Moves(k) /\ \A l \in Keys \ {k} : Quiet(l)
<1>1. work[k].creates = 1 /\ UNCHANGED drafts
  BY DEF Answer
<1>2. PICK review \in {"DRAFT_CREATED", "REVIEW_UNKNOWN"} :
          work' = [work EXCEPT ![k] = [@ EXCEPT !.review = review]]
  BY DEF Answer
<1>3. KeyFacts(k) /\ IsManifest(work[k]) /\ work[k] \in Manifest
  BY TypesOf DEF Coherent, KeyFacts, IsManifest
<1>4. drafts[k] = 1 /\ Says(k) = "CREATE_IN_FLIGHT"
  BY <1>1, <1>3 DEF KeyFacts, Says
<1> DEFINE m == [work[k] EXCEPT !.review = review]
<1>5. work' = [work EXCEPT ![k] = m]
  BY <1>2
<1>6. m \in Manifest /\ m.review = review
  BY <1>3 DEF Manifest
<1> HIDE DEF m
<1>7. work'[k] = m /\ \A l \in Keys \ {k} : work'[l] = work[l]
  BY <1>5, TypesOf
<1>8. IsManifest(m)
  BY <1>6, NoneAssumption DEF IsManifest
<1>9. Says(k)' = review
  BY <1>6, <1>7, <1>8 DEF Says, IsManifest
<1> QED
  BY <1>1, <1>3, <1>4, <1>7, <1>8, <1>9, StillIsQuiet DEF Moves

\* Every step is quiet, or moves one request.
LEMMA TwoKinds ==
    ASSUME Coherent, [Next]_vars
    PROVE  \/ \A k \in Keys : Quiet(k)
           \/ \E k \in Keys : Moves(k) /\ \A l \in Keys \ {k} : Quiet(l)
<1>1. CASE UNCHANGED <<work, drafts>>
  BY <1>1, StillIsQuiet
<1>2. ASSUME NEW r \in Runners, TargetStep(r)
      PROVE  \A k \in Keys : Quiet(k)
  <2>1. CASE Finalize(r) \/ Build(r)
    BY <2>1, FinalizeQuiet, BuildQuiet
  <2>2. CASE Permit(r) \/ Connected(r) \/ Preview(r) \/ Classify(r)
    <3>1. UNCHANGED <<work, drafts>>
      BY <2>2 DEF Permit, Connected, Preview, Classify, zernio
    <3> QED
      BY <3>1, StillIsQuiet
  <2> QED
    BY <1>2, <2>1, <2>2 DEF TargetStep
<1>3. ASSUME NEW o \in Occurrences, OccurrenceStep(o)
      PROVE  \A k \in Keys : Quiet(k)
  <2>1. CASE Identify(o) \/ Route(o) \/ Reserve(o) \/ Emit(o)
    <3>1. UNCHANGED <<work, drafts>>
      BY <2>1 DEF Identify, Route, Reserve, Emit, zernio
    <3> QED
      BY <3>1, StillIsQuiet
  <2>2. CASE TargetStep(o)
    <3>1. o \in Runners
      BY DEF Runners
    <3> QED
      BY <1>2, <2>2, <3>1
  <2> QED
    BY <1>3, <2>1, <2>2 DEF OccurrenceStep
<1>4. CASE TargetStep(Operator)
  <2>1. Operator \in Runners
    BY DEF Runners
  <2> QED
    BY <1>2, <1>4, <2>1
<1>5. ASSUME NEW k \in child, BridgeStep(k), ~UNCHANGED <<work, drafts>>
      PROVE  k \in Keys /\ Moves(k) /\ \A l \in Keys \ {k} : Quiet(l)
  <2>1. k \in Keys
    BY TypesOf
  <2>2. Attempt(k) \/ Answer(k)
    BY <1>5 DEF BridgeStep, Killed
  <2> QED
    BY <1>5, <2>1, <2>2, AttemptMoves, AnswerMoves
<1>6. CASE \E k \in Keys : Owner(k)
  BY <1>6, OwnerQuiet
<1>7. CASE Continue \/ (\E r \in Runners : Crash(r)) \/ Fill \/ UNCHANGED vars
  <2>1. UNCHANGED <<work, drafts>>
    BY <1>7 DEF Continue, Crash, Fill, vars, zernio
  <2> QED
    BY <1>1, <2>1
<1>8. CASE \E k \in child : BridgeStep(k)
  BY <1>1, <1>5, <1>8
<1> QED
  BY <1>3, <1>4, <1>6, <1>7, <1>8 DEF Next, Progress

\* The views of a development's kind before and after a step that moves it.
LEMMA BridgeIsPromised ==
    ASSUME NEW x \in Works,
           ReviewOf(x) \in {"NOT_CREATED", "CREATE_IN_FLIGHT"},
           ReviewOf(x)' \in {"CREATE_IN_FLIGHT", "REVIEW_UNKNOWN", "DRAFT_CREATED"},
           DraftsOf(x) \in {0, 1}, DraftsOf(x)' = 1,
           \A y \in Works \ {x} : ReviewOf(y)' = ReviewOf(y) /\ DraftsOf(y)' = DraftsOf(y)
    PROVE  Promise!Next
<1> DEFINE v == [y \in Works |-> ReviewOf(y)]
           n == [y \in Works |-> DraftsOf(y)]
<1>1. v[x] = ReviewOf(x) /\ v'[x] = ReviewOf(x)' /\ n[x] = DraftsOf(x) /\ n'[x] = DraftsOf(x)'
  OBVIOUS
<1>2. v' = [v EXCEPT ![x] = v'[x]]
  OBVIOUS
<1>3. n' = [n EXCEPT ![x] = n'[x]]
  OBVIOUS
<1>4. n'[x] \in n[x]..1
  BY <1>1
<1>5. /\ v[x] \in {"NOT_CREATED", "CREATE_IN_FLIGHT"}
      /\ v'[x] \in {"CREATE_IN_FLIGHT", "REVIEW_UNKNOWN", "DRAFT_CREATED"}
      /\ v'[x] = "DRAFT_CREATED" => n'[x] = 1
  BY <1>1
<1>6. Promise!Bridge(x)
  BY <1>2, <1>3, <1>4, <1>5, Zenon DEF Promise!Bridge
<1> QED
  BY <1>6 DEF Promise!Next

LEMMA SameViews ==
    ASSUME \A x \in Works : ReviewOf(x)' = ReviewOf(x) /\ DraftsOf(x)' = DraftsOf(x)
    PROVE  UNCHANGED Promise!vars
BY DEF Promise!vars

LEMMA PromiseStep ==
    ASSUME Coherent, [Next]_vars
    PROVE  [Promise!Next]_(Promise!vars)
<1>1. Viewed /\ Viewed'
  BY Views, ViewsNext, NextInv
<1>2. \A k \in Keys : IsManifest(work[k]) => IsManifest(work'[k])
  BY TwoKinds DEF Quiet, Moves
<1>3. ASSUME NEW x \in Works
      PROVE  \E k \in RequestsOf(x) : /\ Sole(x, k) /\ Sole(x, k)'
                                      /\ ReviewOf(x) = Says(k) /\ DraftsOf(x) = drafts[k]
                                      /\ ReviewOf(x)' = Says(k)' /\ DraftsOf(x)' = drafts'[k]
  <2>1. RequestsOf(x)' = RequestsOf(x) /\ RequestsOf(x) \subseteq Keys
    BY RequestsAreKeys DEF RequestsOf
  <2>2. PICK k \in RequestsOf(x) : Sole(x, k)'
    BY <1>1, <2>1 DEF Viewed
  <2>3. Sole(x, k)
    BY <1>2, <2>1, <2>2 DEF Sole
  <2> QED
    BY <1>1, <2>1, <2>2, <2>3 DEF Viewed
<1>4. ASSUME NEW x \in Works, \A k \in RequestsOf(x) : Quiet(k)
      PROVE  ReviewOf(x)' = ReviewOf(x) /\ DraftsOf(x)' = DraftsOf(x)
  BY <1>3, <1>4 DEF Quiet
<1>5. CASE \A k \in Keys : Quiet(k)
  <2>1. \A x \in Works : ReviewOf(x)' = ReviewOf(x) /\ DraftsOf(x)' = DraftsOf(x)
    BY <1>4, <1>5, RequestsAreKeys
  <2> QED
    BY <2>1, SameViews
<1>6. ASSUME NEW k \in Keys, Moves(k), \A l \in Keys \ {k} : Quiet(l)
      PROVE  Promise!Next
  <2> DEFINE x == <<k[2], IF k[3] = "STORY" THEN "STORY" ELSE "MAIN">>
  <2>1. k[2] \in Developments /\ k[3] \in Targets
    BY DEF Keys
  <2>2. x \in Works
    BY <2>1 DEF Works, Kinds
  <2>3. k[3] \in Formats(x[2])
    BY <2>1 DEF Formats, Targets
  <2>4. k \in RequestsOf(x)
    BY <2>2, <2>3, RequestsAreKeys
  <2>5. ASSUME NEW y \in Works \ {x}
        PROVE  ReviewOf(y)' = ReviewOf(y) /\ DraftsOf(y)' = DraftsOf(y)
    <3>1. k \notin RequestsOf(y)
      <4>1. ASSUME k \in RequestsOf(y) PROVE FALSE
        <5>1. y[1] = k[2] /\ y[2] \in Kinds /\ k[3] \in Formats(y[2])
          BY <4>1, RequestsAreKeys
        <5>2. y[2] = x[2]
          BY <5>1 DEF Kinds, Formats, MainFormats
        <5>3. y = <<y[1], y[2]>>
          BY DEF Works
        <5> QED
          BY <5>1, <5>2, <5>3
      <4> QED
        BY <4>1
    <3>2. \A l \in RequestsOf(y) : Quiet(l)
      BY <1>6, <3>1, RequestsAreKeys
    <3> QED
      BY <1>4, <3>2
  <2> HIDE DEF x
  <2>6. PICK l \in RequestsOf(x) : /\ Sole(x, l) /\ ReviewOf(x) = Says(l) /\ DraftsOf(x) = drafts[l]
                                   /\ ReviewOf(x)' = Says(l)' /\ DraftsOf(x)' = drafts'[l]
    BY <1>3, <2>2
  <2>7. l = k
    BY <1>6, <2>4, <2>6 DEF Sole, Moves
  <2>8. /\ ReviewOf(x) \in {"NOT_CREATED", "CREATE_IN_FLIGHT"}
        /\ ReviewOf(x)' \in {"CREATE_IN_FLIGHT", "REVIEW_UNKNOWN", "DRAFT_CREATED"}
        /\ DraftsOf(x) \in {0, 1} /\ DraftsOf(x)' = 1
    BY <1>6, <2>6, <2>7 DEF Moves
  <2> QED
    BY <2>2, <2>5, <2>8, BridgeIsPromised
<1> QED
  BY <1>5, <1>6, TwoKinds

-----------------------------------------------------------------------------
(* What follows.                                                           *)

\* A request with a create call is its development's set's, and one of at most
\* two: its Story and its one main target.
LEMMA DraftedBelongs ==
    ASSUME Coherent, NEW q \in Keys \X (1..2), q[2] <= drafts[q[1]]
    PROVE  /\ q[2] = 1 /\ set[q[1][2]] # None
           /\ q[1] = KeyOf(set[q[1][2]], q[1][2], q[1][3])
           /\ q[1][3] \in DOMAIN set[q[1][2]].status
<1> DEFINE k == q[1]
<1>1. k \in Keys /\ q[2] \in 1..2 /\ KeyFacts(k) /\ drafts[k] \in 0..1
  BY TypesOf DEF Coherent
<1>2. q[2] = 1 /\ drafts[k] = 1
  BY <1>1
<1>3. work[k] # None
  BY <1>1, <1>2 DEF KeyFacts, IsManifest
<1>4. k = <<k[1], k[2], k[3]>>
  BY <1>1 DEF Keys
<1> QED
  BY <1>1, <1>2, <1>3, <1>4 DEF KeyFacts, KeyOf

\* Zernio holds at most one draft of a development's Story and one of its main post.
LEMMA InvGivesOneDraft == Coherent => OneDraftPerTarget
<1> SUFFICES ASSUME Coherent, NEW d \in Developments, NEW formats,
                    formats = {"STORY"} \/ formats = MainFormats
             PROVE  Cardinality(Drafted(d, formats)) <= 1
  BY DEF OneDraftPerTarget
<1>1. ASSUME NEW p \in Drafted(d, formats), NEW q \in Drafted(d, formats)
      PROVE  p = q
  <2>1. /\ p \in Keys \X (1..2) /\ q \in Keys \X (1..2) /\ p[1][2] = d /\ q[1][2] = d
        /\ p[1][3] \in formats /\ q[1][3] \in formats
        /\ p[2] <= drafts[p[1]] /\ q[2] <= drafts[q[1]]
    <3>1. formats \subseteq Targets
      BY DEF MainFormats, Targets
    <3> QED BY <3>1 DEF Drafted, Keys
  <2> DEFINE s == set[d]
  <2>2. /\ p[2] = 1 /\ q[2] = 1 /\ s # None
        /\ p[1] = KeyOf(s, d, p[1][3]) /\ q[1] = KeyOf(s, d, q[1][3])
        /\ p[1][3] \in DOMAIN s.status /\ q[1][3] \in DOMAIN s.status
    BY <2>1, DraftedBelongs
  <2>3. SetFacts(d, s)
    BY <2>2 DEF Coherent
  <2>4. p[1][3] = q[1][3]
    <3>1. CASE formats = {"STORY"}
      BY <3>1, <2>1
    <3>2. CASE formats = MainFormats
      <4>1. p[1][3] # "STORY" /\ q[1][3] # "STORY"
        BY <3>2, <2>1 DEF MainFormats
      <4>2. \A t, u \in DOMAIN s.status : t # "STORY" /\ u # "STORY" => t = u
        BY <2>3, RecordShape
      <4> QED
        BY <4>1, <4>2, <2>2
    <3> QED
      BY <3>1, <3>2
  <2>5. p[1] = q[1]
    BY <2>2, <2>4
  <2> QED
    BY <2>1, <2>2, <2>5
<1>2. CASE Drafted(d, formats) = {}
  BY <1>2, FS_EmptySet
<1>3. CASE Drafted(d, formats) # {}
  <2>1. PICK p : p \in Drafted(d, formats)
    BY <1>3
  <2>2. Drafted(d, formats) = {p}
    BY <1>1, <2>1
  <2>3. Cardinality({p}) = 1
    BY FS_Singleton
  <2> QED
    BY <2>2, <2>3
<1> QED
  BY <1>2, <1>3

\* A success is a draft the owner was shown, and nothing of a main draft exists
\* before its Story's.
LEMMA InvGivesSeen == IInv => SucceededWasSeen
<1> SUFFICES ASSUME Coherent, RequestsAccounted PROVE SucceededWasSeen
  BY DEF IInv
<1>1. ASSUME NEW k \in Keys, sent[k] = "SENT"
      PROVE  work[k].review = "DRAFT_CREATED" /\ drafts[k] = 1
  <2>1. /\ IsManifest(work[k]) /\ work[k].review = "DRAFT_CREATED"
        /\ drafts[k] = work[k].creates /\ work[k].creates # 0
    BY <1>1, NoneAssumption DEF Coherent, KeyFacts
  <2> QED BY <2>1, TypesOf
<1>2. ASSUME NEW d \in Developments, set[d] # None, NEW t \in DOMAIN set[d].status
      PROVE  /\ KeyOf(set[d], d, t) \in Keys
             /\ set[d].status[t] = "SUCCEEDED" => sent[KeyOf(set[d], d, t)] = "SENT"
             /\ t # "STORY" /\ work[KeyOf(set[d], d, t)] # None
                    => set[d].status["STORY"] = "SUCCEEDED"
  <2> DEFINE s == set[d]
  <2>1. SetFacts(d, s)
    BY <1>2 DEF Coherent
  <2>2. s.decision.a \in Assessments /\ t \in Targets
    BY <1>2, <2>1, RecordShape DEF Decision
  <2>3. KeyOf(s, d, t) \in Keys
    BY <2>2 DEF KeyOf, Keys, Candidates
  <2> QED
    BY <1>2, <2>1, <2>3 DEF SetFacts
<1>3. ASSUME NEW o \in Occurrences, result[o] # None, NEW k \in result[o].artifacts
      PROVE  work[k].review = "DRAFT_CREATED" /\ drafts[k] = 1 /\ sent[k] = "SENT"
  <2>1. Backed(result[o])
    BY <1>3 DEF Coherent
  <2>2. k \in Keys /\ Achieved(k)
    BY <1>3, <2>1 DEF Backed, Outcome
  <2>3. /\ k[2] \in Developments /\ k = <<k[1], k[2], k[3]>>
    BY <2>2 DEF Keys
  <2>4. /\ set[k[2]] # None /\ k[3] \in DOMAIN set[k[2]].status
        /\ k = KeyOf(set[k[2]], k[2], k[3]) /\ set[k[2]].status[k[3]] = "SUCCEEDED"
    BY <2>2, <2>3 DEF Achieved, KeyOf
  <2>5. sent[k] = "SENT"
    BY <1>2, <2>3, <2>4
  <2> QED
    BY <1>1, <2>2, <2>5
<1>4. \A o \in Occurrences : result[o] # None => Accounted(o, result[o])
  BY DEF RequestsAccounted, RequestFacts
<1> QED
  BY <1>1, <1>2, <1>3, <1>4 DEF SucceededWasSeen

\* A consumed attempt is never offered again.
LEMMA InvGivesVisible == Coherent => UnsettledIsVisible
<1> SUFFICES ASSUME Coherent, NEW d \in Developments
             PROVE  /\ \A k \in Keys : k[2] = d /\ (k \in child \/ (IsManifest(work[k]) /\ work[k].creates > 0)) =>
                          /\ set[d] # None /\ set[d].decision.a.cand = k[1]
                          /\ set[d].status[k[3]] \notin {"PENDING", "BLOCKED_BEFORE_ATTEMPT"}
                    /\ set[d] # None /\ (\E t \in DOMAIN set[d].status : set[d].status[t] = "AMBIGUOUS")
                          => set[d].recon
  BY DEF UnsettledIsVisible
<1> DEFINE s == set[d]
<1>1. ASSUME NEW k \in Keys, k[2] = d, k \in child \/ (IsManifest(work[k]) /\ work[k].creates > 0)
      PROVE  /\ s # None /\ s.decision.a.cand = k[1]
             /\ s.status[k[3]] \notin {"PENDING", "BLOCKED_BEFORE_ATTEMPT"}
  <2>1. KeyFacts(k)
    BY DEF Coherent
  <2>2. work[k] # None
    BY <1>1, <2>1 DEF KeyFacts, IsManifest
  <2>3. s # None /\ s.decision.a.cand = k[1] /\ k[3] \in DOMAIN s.status
    BY <1>1, <2>1, <2>2 DEF KeyFacts
  <2>4. k = <<k[1], k[2], k[3]>>
    BY DEF Keys
  <2>5. KeyOf(s, d, k[3]) = k
    BY <1>1, <2>3, <2>4 DEF KeyOf
  <2>6. ~Fresh(k)
    <3>1. CASE k \in child
      BY <3>1 DEF Fresh
    <3>2. CASE IsManifest(work[k]) /\ work[k].creates > 0
      BY <3>2 DEF Fresh
    <3> QED
      BY <1>1, <3>1, <3>2
  <2>7. SetFacts(d, s)
    BY <2>3 DEF Coherent
  <2> HIDE DEF s
  <2> QED
    BY <2>3, <2>5, <2>6, <2>7 DEF SetFacts
<1>2. ASSUME s # None, NEW t \in DOMAIN s.status, s.status[t] = "AMBIGUOUS"
      PROVE  s.recon
  <2>1. SetFacts(d, s)
    BY <1>2 DEF Coherent
  <2> QED
    BY <1>2, <2>1 DEF SetFacts
<1> QED
  BY <1>1, <1>2
-----------------------------------------------------------------------------
(* What an occurrence asked for.  Its success names every draft, unless a  *)
(* killed run is replayed as something not to be dispatched.               *)

\* The record of a development's set is about the drafts a decision asks for.
Asks(d, s, decision) ==
    /\ decision \in Decision /\ Licensed(decision.a, decision.id, decision.route)
    /\ DevelopmentOf(decision.a) = d /\ s.decision = decision
    /\ DOMAIN s.status = decision.route.targets

LEMMA SoundRecordAsks ==
    ASSUME NEW d, NEW s, SetFacts(d, s)
    PROVE  Asks(d, s, s.decision)
  BY RecordShape DEF Asks, SetFacts

\* New statuses and flags change nothing about what is asked for.
LEMMA StatusAsks ==
    ASSUME NEW d, NEW z, SetFacts(d, z), NEW t, NEW status, NEW s, s = SetStatus(z, t, status)
    PROVE  /\ Asks(d, s, z.decision)
           /\ Asks(d, [s EXCEPT !.recon = TRUE], z.decision)
<1>1. /\ z = [decision |-> z.decision, recon |-> z.recon, status |-> z.status]
      /\ Asks(d, z, z.decision)
  BY RecordShape, SoundRecordAsks
<1>2. /\ s.decision = z.decision /\ s.status = [z.status EXCEPT ![t] = status]
      /\ s = [decision |-> s.decision, recon |-> s.recon, status |-> s.status]
  BY <1>1 DEF SetStatus
<1>3. DOMAIN s.status = DOMAIN z.status
  BY <1>2
<1> DEFINE u == [s EXCEPT !.recon = TRUE]
<1>4. u.decision = s.decision /\ u.status = s.status
  BY <1>2
<1> QED
  BY <1>1, <1>2, <1>3, <1>4 DEF Asks

\* A dispatch succeeds with every draft its decision asks for.
LEMMA SuccessIsWhole ==
    ASSUME NEW d, NEW s, NEW decision, Asks(d, s, decision),
           SetOutcome(d, s).domain = "SUCCEEDED"
    PROVE  DraftsAsked(decision) \subseteq SetOutcome(d, s).artifacts
<1> DEFINE targets == decision.route.targets
           main == MainTarget(targets)
<1>1. /\ "STORY" \in targets /\ targets \subseteq Targets
      /\ \A t, u \in targets : t # "STORY" /\ u # "STORY" => t = u
  BY LicensedTargets DEF Asks
<1>2. \/ main = None /\ targets = {"STORY"}
      \/ main \in targets \ {"STORY"} /\ main # None
  BY <1>1, MainTargetOf
<1>3. DOMAIN s.status = targets
  BY DEF Asks
<1>4. s.status["STORY"] = "SUCCEEDED" /\ (main # None => s.status[main] = "SUCCEEDED")
  <2> DEFINE first == IF s.status["STORY"] # "SUCCEEDED" THEN "STORY" ELSE main
             st == IF first = None THEN "SUCCEEDED" ELSE s.status[first]
             domain == IF s.recon \/ st \in {"AMBIGUOUS", "DISPATCH_IN_FLIGHT"} THEN "UNKNOWN"
                       ELSE IF st = "SUCCEEDED" THEN "SUCCEEDED"
                       ELSE IF st = "BLOCKED_BEFORE_ATTEMPT" THEN "BLOCKED"
                       ELSE "FAILED"
  <2>1. SetOutcome(d, s).domain = domain
    BY <1>3 DEF SetOutcome
  <2>2. st = "SUCCEEDED"
    BY <2>1
  <2>3. "STORY" # None
    BY NoneAssumption DEF Targets
  <2> HIDE DEF main
  <2>4. CASE s.status["STORY"] # "SUCCEEDED"
    BY <2>2, <2>3, <2>4
  <2>5. CASE s.status["STORY"] = "SUCCEEDED"
    BY <2>2, <2>5
  <2> QED
    BY <2>4, <2>5
<1> HIDE DEF main, targets
<1>5. \A t \in targets : s.status[t] = "SUCCEEDED"
  BY <1>1, <1>2, <1>4
<1>6. SetOutcome(d, s).artifacts = {<<s.decision.a.cand, d, t>> :
                            t \in {u \in DOMAIN s.status : s.status[u] = "SUCCEEDED"}}
  BY DEF SetOutcome
<1>7. DraftsAsked(decision) = {<<s.decision.a.cand, d, t>> : t \in targets}
  BY DEF DraftsAsked, Asks, targets
<1> QED
  BY <1>3, <1>5, <1>6, <1>7

\* A runner inside a set goes on with its decision, or leaves with its outcome.
Onward(r) ==
    /\ \A q \in Runners \ {r} : run'[q] = run[q]
    /\ r # Operator =>
         \/ run'[r].pc \in Inside /\ run'[r].decision = run[r].decision
         \/ /\ run'[r].pc = "emit"
            /\ \E d, s : /\ Asks(d, s, run[r].decision)
                         /\ run'[r].outcome = SetOutcome(d, s)

LEMMA GotoMoves ==
    ASSUME Coherent, NEW r \in Runners, NEW pc \in Inside, Goto(r, pc)
    PROVE  Onward(r)
<1>1. TypeOK /\ Shaped(run[r])
  BY RunShape DEF Coherent
<1> DEFINE x == run[r]
           p == [x EXCEPT !.pc = pc]
<1>2. run' = Assign(run, r, p)
  BY DEF Goto, Assign
<1> HIDE DEF x
<1>3. Shaped(p) /\ p.pc = pc /\ p.decision = x.decision
  BY <1>1 DEF Shaped, x
<1> HIDE DEF p
<1>4. run'[r] = p /\ \A q \in Runners \ {r} : run'[q] = run[q]
  BY <1>1, <1>2, <1>3, RunMoves
<1> QED
  BY <1>3, <1>4 DEF Onward, x

LEMMA LeaveMoves ==
    ASSUME Coherent, NEW r \in Runners, NEW d, NEW s, Asks(d, s, run[r].decision),
           Leave(r, d, s)
    PROVE  Onward(r)
<1>1. TypeOK /\ Shaped(run[r])
  BY RunShape DEF Coherent
<1> DEFINE x == run[r]
           p == IF r = Operator THEN IdleRun
                ELSE [x EXCEPT !.pc = "emit", !.outcome = SetOutcome(d, s)]
<1>2. run' = Assign(run, r, p)
  BY DEF Leave, Assign
<1> HIDE DEF x
<1>3. Shaped(p) /\ (r # Operator => p.pc = "emit" /\ p.outcome = SetOutcome(d, s))
  BY <1>1, IdleShape DEF Shaped, x
<1> HIDE DEF p
<1>4. run'[r] = p /\ \A q \in Runners \ {r} : run'[q] = run[q]
  BY <1>1, <1>2, <1>3, RunMoves
<1> QED
  BY <1>3, <1>4 DEF Onward

LEMMA AfterTargetMoves ==
    ASSUME Coherent, NEW r \in Runners, NEW s, Asks(Dev(r), s, run[r].decision),
           AfterTarget(r, s)
    PROVE  Onward(r)
<1>1. CASE Leave(r, Dev(r), s)
  BY <1>1, LeaveMoves
<1>2. CASE ~Leave(r, Dev(r), s)
  <2>1. TypeOK /\ Shaped(run[r])
    BY RunShape DEF Coherent
  <2> DEFINE x == run[r]
             t == NextTarget(s)
             p == [x EXCEPT !.pc = "recheck", !.target = t]
  <2>2. run' = Assign(run, r, p)
    BY <1>2 DEF AfterTarget, Assign
  <2> HIDE DEF x, t
  <2>30. Shaped(x) /\ p = [x EXCEPT !.pc = "recheck", !.target = t]
    BY <2>1 DEF x
  <2> HIDE DEF p
  <2>31. p = [pc |-> "recheck", id |-> x.id, decision |-> x.decision, target |-> t, outcome |-> x.outcome]
    BY <2>30 DEF Shaped
  <2>3. Shaped(p) /\ p.pc = "recheck" /\ p.decision = x.decision
    BY <2>31 DEF Shaped
  <2>4. run'[r] = p /\ \A q \in Runners \ {r} : run'[q] = run[q]
    BY <2>1, <2>2, <2>3, RunMoves
  <2> QED
    BY <2>3, <2>4 DEF Onward, Inside, x
<1> QED
  BY <1>1, <1>2

\* A runner inside a set stays within its decision, whatever its step.
LEMMA TargetMoves ==
    ASSUME Coherent, NEW r \in Runners, TargetStep(r)
    PROVE  /\ run[r].pc \in Inside /\ Onward(r) /\ result' = result
           /\ requested' = requested /\ killed' = killed
<1>1. run[r].pc \in Inside /\ result' = result /\ requested' = requested /\ killed' = killed
  BY DEF TargetStep, Permit, Finalize, Build, Connected, Preview, Classify, Inside, past
<1> DEFINE z == set[Dev(r)]
           t == run[r].target
<1>2. SetFacts(Dev(r), z) /\ z.decision = run[r].decision
  BY <1>1, InsideBasics DEF InsideFacts
<1>3. ASSUME NEW status
      PROVE  /\ Asks(Dev(r), SetStatus(z, t, status), run[r].decision)
             /\ Asks(Dev(r), [SetStatus(z, t, status) EXCEPT !.recon = TRUE], run[r].decision)
  <2> HIDE DEF z, t
  <2> QED
    BY <1>2, StatusAsks
<1>4. ASSUME NEW end, EndsWith(r, end)
      PROVE  Onward(r)
  BY <1>3, <1>4, AfterTargetMoves DEF EndsWith
<1>5. ASSUME Permit(r) PROVE Onward(r)
  <2> DEFINE blocked == SetStatus(z, t, "BLOCKED_BEFORE_ATTEMPT")
  <2>1. Goto(r, "spec") \/ AfterTarget(r, blocked) \/ AfterTarget(r, [blocked EXCEPT !.recon = TRUE])
    BY <1>5 DEF Permit
  <2>2. Asks(Dev(r), blocked, run[r].decision)
        /\ Asks(Dev(r), [blocked EXCEPT !.recon = TRUE], run[r].decision)
    BY <1>3
  <2> HIDE DEF blocked
  <2>3. ASSUME Goto(r, "spec") PROVE Onward(r)
    <3>1. PICK pc \in Inside : pc = "spec"
      BY DEF Inside
    <3>2. Goto(r, pc)
      BY <2>3, <3>1
    <3> QED
      BY <3>1, <3>2, GotoMoves
  <2>4. CASE AfterTarget(r, blocked)
    BY <2>2, <2>4, AfterTargetMoves
  <2>5. CASE AfterTarget(r, [blocked EXCEPT !.recon = TRUE])
    <3> DEFINE s == [blocked EXCEPT !.recon = TRUE]
    <3>1. AfterTarget(r, s) /\ Asks(Dev(r), s, run[r].decision)
      BY <2>2, <2>5
    <3> HIDE DEF s
    <3> QED
      BY <3>1, AfterTargetMoves
  <2> QED
    BY <2>1, <2>3, <2>4, <2>5
<1>6. \A pc \in {"build", "wait", "preview", "classify"} : pc \in Inside
  BY DEF Inside
<1>7. ASSUME ~Permit(r) PROVE Onward(r)
  <2>1. \/ \E pc \in {"build", "wait", "preview", "classify"} : Goto(r, pc)
        \/ \E end : EndsWith(r, end)
    BY <1>7 DEF TargetStep, Finalize, Build, Connected, Preview, Classify
  <2>2. ASSUME NEW pc \in {"build", "wait", "preview", "classify"}, Goto(r, pc)
        PROVE  Onward(r)
    <3>1. pc \in Inside
      BY <1>6, <2>2
    <3> QED
      BY <2>2, <3>1, GotoMoves
  <2> QED
    BY <1>4, <2>1, <2>2
<1> QED
  BY <1>1, <1>5, <1>7

\* The occurrences that did not move stay accounted for.
LEMMA OthersAccounted ==
    ASSUME NEW o \in Occurrences, RequestFacts(o), run'[o] = run[o],
           result'[o] = result[o], requested'[o] = requested[o], killed \subseteq killed'
    PROVE  RequestFacts(o)'
<1>1. \A outcome : Accounted(o, outcome) => Accounted(o, outcome)'
  BY DEF Accounted
<1>2. ASSUME NEW outcome, Accounted(o, outcome)
      PROVE  Accounted(o, outcome)'
  BY <1>1, <1>2
<1>3. /\ run[o].pc = "emit" => Accounted(o, run[o].outcome)'
      /\ result[o] # None => Accounted(o, result[o])'
  BY <1>2 DEF RequestFacts
<1> QED
  BY <1>3 DEF RequestFacts, Accounted

\* A step inside a set's lock accounts for what was asked for.
LEMMA TargetAccounted ==
    ASSUME Coherent, RequestsAccounted, NEW r \in Runners, TargetStep(r)
    PROVE  RequestsAccounted'
<1>1. /\ run[r].pc \in Inside /\ Onward(r) /\ result' = result
      /\ requested' = requested /\ killed' = killed
  BY TargetMoves
<1>2. ASSUME NEW o \in Occurrences, o # r
      PROVE  RequestFacts(o)'
  <2>1. run'[o] = run[o] /\ RequestFacts(o)
    BY <1>1, <1>2 DEF Onward, Runners, RequestsAccounted
  <2> QED
    BY <1>1, <2>1, OthersAccounted
<1>3. ASSUME r \in Occurrences
      PROVE  RequestFacts(r)'
  <2>1. RequestFacts(r) /\ r # Operator
    BY <1>3, BreakingAssumption DEF RequestsAccounted
  <2>2. result[r] = None /\ requested[r] = DraftsAsked(run[r].decision)
    BY <1>1, <2>1 DEF RequestFacts, Inside
  <2>3. CASE run'[r].pc \in Inside /\ run'[r].decision = run[r].decision
    BY <1>1, <2>2, <2>3 DEF RequestFacts, Inside
  <2>4. ASSUME run'[r].pc = "emit", NEW d, NEW s, Asks(d, s, run[r].decision),
               run'[r].outcome = SetOutcome(d, s)
        PROVE  RequestFacts(r)'
    <3>1. Accounted(r, run[r].outcome)'
      BY <1>1, <2>2, <2>4, SuccessIsWhole DEF Accounted
    <3> QED
      BY <1>1, <2>2, <2>4, <3>1 DEF RequestFacts, Inside
  <2> QED
    BY <1>1, <2>1, <2>3, <2>4 DEF Onward
<1> QED
  BY <1>1, <1>2, <1>3 DEF RequestsAccounted

LEMMA InitAccounted == Init => RequestsAccounted
  BY DEF Init, RequestsAccounted, RequestFacts, IdleRun, Inside, Runners

LEMMA IdentifyAccounted ==
    ASSUME Coherent, RequestsAccounted, NEW o \in Occurrences, Identify(o)
    PROVE  RequestsAccounted'
<1>1. /\ run[o].pc = "idle" /\ result[o] = None /\ result' = result
      /\ requested' = requested /\ killed' = killed
  BY DEF Identify, past
<1>2. run'[o].pc = "route" /\ \A q \in Runners \ {o} : run'[q] = run[q]
  BY DEF Identify, Coherent, TypeOK, Runners, IdleRun
<1>3. RequestFacts(o)'
  BY <1>1, <1>2 DEF RequestFacts, RequestsAccounted, Inside
<1>4. ASSUME NEW x \in Occurrences \ {o}
      PROVE  RequestFacts(x)'
  BY <1>1, <1>2, OthersAccounted DEF Runners, RequestsAccounted
<1> QED
  BY <1>1, <1>3, <1>4 DEF RequestsAccounted

\* The routing records what it asks for, or gives an outcome that asks for nothing.
LEMMA RouteAccounted ==
    ASSUME Coherent, RequestsAccounted, NEW o \in Occurrences, Route(o), Coherent'
    PROVE  RequestsAccounted'
<1> DEFINE a == assess[o]
           route == EvaluateRouting(a, run[o].id, StoryCapacity, MainCapacity)
           decision == [a |-> a, id |-> run[o].id, route |-> route]
           outcome == [domain |-> UndispatchedOutcome(route), artifacts |-> {}]
           x == run[o]
<1>1. run[o].pc = "route" /\ result' = result /\ killed' = killed
  BY DEF Route
<1>2. /\ o \in Runners /\ Shaped(x) /\ TypeOK /\ RequestFacts(o) /\ result[o] = None
      /\ requested \in [Occurrences -> SUBSET Keys]
  BY <1>1, RunShape DEF Coherent, Runners, RequestsAccounted, RequestFacts
<1>3. CASE route.decision \in Accelerated
  <2> DEFINE p == [x EXCEPT !.pc = "reserve", !.decision = decision]
  <2>1. run' = Assign(run, o, p) /\ requested' = [requested EXCEPT ![o] = DraftsAsked(decision)]
    BY <1>3 DEF Route, Assign
  <2> HIDE DEF x, decision
  <2>20. Shaped(x) /\ p = [x EXCEPT !.pc = "reserve", !.decision = decision]
    BY <1>2
  <2> HIDE DEF p
  <2>21. p = [pc |-> "reserve", id |-> x.id, decision |-> decision, target |-> x.target, outcome |-> x.outcome]
    BY <2>20 DEF Shaped
  <2>2. Shaped(p) /\ p.pc = "reserve" /\ p.decision = decision
    BY <2>21 DEF Shaped
  <2>3. run'[o] = p /\ \A q \in Runners \ {o} : run'[q] = run[q]
    BY <1>2, <2>1, <2>2, RunMoves
  <2>4. decision \in Decision
    BY <1>2, <2>2, <2>3 DEF Coherent, RunFacts, Inside
  <2>5. DraftsAsked(decision) \in SUBSET Keys
    BY <2>4 DEF DraftsAsked, Decision, Keys, Candidates, Developments
  <2>6. requested' \in [Occurrences -> SUBSET Keys] /\ requested'[o] = DraftsAsked(decision)
    BY <1>2, <2>1, <2>5
  <2>7. RequestFacts(o)'
    BY <1>1, <1>2, <2>2, <2>3, <2>6 DEF RequestFacts
  <2>8. ASSUME NEW q \in Occurrences \ {o}
        PROVE  RequestFacts(q)'
    BY <1>1, <1>2, <2>1, <2>3, OthersAccounted DEF Runners, RequestsAccounted
  <2> QED
    BY <2>6, <2>7, <2>8 DEF RequestsAccounted
<1>4. CASE route.decision \notin Accelerated
  <2> DEFINE p == [x EXCEPT !.pc = "emit", !.outcome = outcome]
  <2>1. run' = Assign(run, o, p) /\ requested' = requested
    BY <1>4 DEF Route, Assign
  <2>2. outcome.artifacts = {}
    OBVIOUS
  <2> HIDE DEF x, outcome
  <2>30. Shaped(x) /\ p = [x EXCEPT !.pc = "emit", !.outcome = outcome]
    BY <1>2
  <2> HIDE DEF p
  <2>31. p = [pc |-> "emit", id |-> x.id, decision |-> x.decision, target |-> x.target, outcome |-> outcome]
    BY <2>30 DEF Shaped
  <2>3. Shaped(p) /\ p.pc = "emit" /\ p.outcome = outcome
    BY <2>31 DEF Shaped
  <2>4. run'[o] = p /\ \A q \in Runners \ {o} : run'[q] = run[q]
    BY <1>2, <2>1, <2>3, RunMoves
  <2>5. o \notin killed => requested[o] = {}
    BY <1>1, <1>2 DEF RequestFacts
  <2>6. Accounted(o, run[o].outcome)'
    BY <1>1, <2>1, <2>2, <2>3, <2>4, <2>5 DEF Accounted
  <2>7. RequestFacts(o)'
    BY <1>1, <1>2, <2>3, <2>4, <2>6 DEF RequestFacts, Inside
  <2>8. ASSUME NEW q \in Occurrences \ {o}
        PROVE  RequestFacts(q)'
    BY <1>1, <2>1, <2>4, OthersAccounted DEF Runners, RequestsAccounted
  <2> QED
    BY <1>2, <2>1, <2>7, <2>8 DEF RequestsAccounted
<1> QED
  BY <1>3, <1>4

\* A reservation enters a set with the drafts asked for, or leaves with the
\* outcome of that set or of a conflict.
LEMMA ReserveAccounted ==
    ASSUME Coherent, RequestsAccounted, NEW o \in Occurrences, Reserve(o)
    PROVE  RequestsAccounted'
<1> DEFINE d == Dev(o)
           decision == run[o].decision
           s == IF set[d] = None THEN NewSet(decision) ELSE set[d]
           x == run[o]
<1>1. /\ run[o].pc = "reserve" /\ result' = result
      /\ requested' = requested /\ killed' = killed
  BY DEF Reserve, past
<1>2. /\ o \in Runners /\ o # Operator /\ Shaped(x) /\ TypeOK /\ RequestFacts(o)
      /\ result[o] = None /\ requested[o] = DraftsAsked(decision)
  BY <1>1, RunShape, BreakingAssumption DEF Coherent, Runners, RequestsAccounted, RequestFacts
<1>3. /\ decision \in Decision /\ Licensed(decision.a, decision.id, decision.route)
      /\ DevelopmentOf(decision.a) = d /\ d \in Developments
  <2>1. decision \in Decision /\ Licensed(decision.a, decision.id, decision.route)
    BY <1>1, <1>2 DEF Coherent, RunFacts, Inside
  <2>2. decision.a \in Assessments
    BY <2>1 DEF Decision
  <2> QED
    BY <2>1, <2>2 DEF Dev, Developments
<1>4. /\ \A q \in Runners \ {o} : run'[q] = run[q]
      /\ \/ run'[o].pc = "emit" /\ run'[o].outcome = [domain |-> "UNKNOWN", artifacts |-> {}]
         \/ run'[o].pc \in Inside /\ run'[o].decision = decision
         \/ run'[o].pc = "emit" /\ \E z : Asks(d, z, decision) /\ run'[o].outcome = SetOutcome(d, z)
  <2>1. CASE s.decision # decision
    <3> DEFINE out == [domain |-> "UNKNOWN", artifacts |-> {}]
               p == [x EXCEPT !.pc = "emit", !.outcome = out]
    <3>1. run' = Assign(run, o, p)
      BY <2>1 DEF Reserve, Assign
    <3> HIDE DEF x, out
    <3>20. Shaped(x) /\ p = [x EXCEPT !.pc = "emit", !.outcome = out]
      BY <1>2
    <3> HIDE DEF p
    <3>21. p = [pc |-> "emit", id |-> x.id, decision |-> x.decision, target |-> x.target, outcome |-> out]
      BY <3>20 DEF Shaped
    <3>2. Shaped(p) /\ p.pc = "emit" /\ p.outcome = out
      BY <3>21 DEF Shaped
    <3> QED
      BY <1>2, <3>1, <3>2, RunMoves DEF out
  <2>2. CASE s.decision = decision /\ NextTarget(s) = None
    <3> DEFINE z == MarkInFlight(s)
    <3>1. Leave(o, d, z)
      BY <2>2 DEF Reserve
    <3>2. SetFacts(d, s)
      <4> HIDE DEF d, decision
      <4>1. CASE set[d] = None
        BY <1>3, <4>1, NewSetIsSound
      <4>2. CASE set[d] # None
        BY <1>3, <4>2 DEF Coherent
      <4> QED
        BY <4>1, <4>2
    <3>3. Asks(d, z, decision)
      <4> HIDE DEF s, d, decision
      <4>1. /\ s = [decision |-> s.decision, recon |-> s.recon, status |-> s.status]
            /\ Asks(d, s, decision)
        BY <2>2, <3>2, RecordShape, SoundRecordAsks
      <4>2. z.decision = s.decision /\ z.status = s.status
        BY <4>1 DEF MarkInFlight
      <4> QED
        BY <4>1, <4>2 DEF Asks
    <3> HIDE DEF z
    <3>4. Onward(o)
      BY <1>2, <3>1, <3>3, LeaveMoves
    <3> DEFINE p == [x EXCEPT !.pc = "emit", !.outcome = SetOutcome(d, z)]
    <3>5. run' = Assign(run, o, p)
      BY <1>2, <3>1 DEF Leave, Assign
    <3> HIDE DEF x
    <3>60. Shaped(x) /\ p = [x EXCEPT !.pc = "emit", !.outcome = SetOutcome(d, z)]
      BY <1>2
    <3> HIDE DEF p
    <3>61. p = [pc |-> "emit", id |-> x.id, decision |-> x.decision, target |-> x.target, outcome |-> SetOutcome(d, z)]
      BY <3>60 DEF Shaped
    <3>6. Shaped(p) /\ p.pc = "emit" /\ p.outcome = SetOutcome(d, z)
      BY <3>61 DEF Shaped
    <3>7. run'[o] = p /\ \A q \in Runners \ {o} : run'[q] = run[q]
      BY <1>2, <3>5, <3>6, RunMoves
    <3> QED
      BY <3>3, <3>6, <3>7
  <2>3. CASE s.decision = decision /\ NextTarget(s) # None
    <3> DEFINE t == NextTarget(s)
               p == [x EXCEPT !.pc = "recheck", !.target = t]
    <3>1. run' = Assign(run, o, p)
      BY <2>3 DEF Reserve, Assign
    <3> HIDE DEF x, t
    <3>20. Shaped(x) /\ p = [x EXCEPT !.pc = "recheck", !.target = t]
      BY <1>2
    <3> HIDE DEF p
    <3>21. p = [pc |-> "recheck", id |-> x.id, decision |-> x.decision, target |-> t, outcome |-> x.outcome]
      BY <3>20 DEF Shaped
    <3>2. Shaped(p) /\ p.pc = "recheck" /\ p.decision = x.decision
      BY <3>21 DEF Shaped
    <3>3. run'[o] = p /\ \A q \in Runners \ {o} : run'[q] = run[q]
      BY <1>2, <3>1, <3>2, RunMoves
    <3> QED
      BY <3>2, <3>3 DEF Inside, x
  <2> QED
    BY <2>1, <2>2, <2>3
<1> HIDE DEF d, decision, s, x
<1>5. RequestFacts(o)'
  <2>1. CASE run'[o].pc = "emit" /\ run'[o].outcome = [domain |-> "UNKNOWN", artifacts |-> {}]
    BY <1>1, <1>2, <2>1 DEF RequestFacts, Accounted, Inside
  <2>2. CASE run'[o].pc \in Inside /\ run'[o].decision = decision
    BY <1>1, <1>2, <2>2 DEF RequestFacts, Inside
  <2>3. ASSUME run'[o].pc = "emit", NEW z, Asks(d, z, decision), run'[o].outcome = SetOutcome(d, z)
        PROVE  RequestFacts(o)'
    <3>1. Accounted(o, run[o].outcome)'
      BY <1>1, <1>2, <2>3, SuccessIsWhole DEF Accounted
    <3> QED
      BY <1>1, <1>2, <2>3, <3>1 DEF RequestFacts, Inside
  <2> QED
    BY <1>4, <2>1, <2>2, <2>3
<1>6. ASSUME NEW q \in Occurrences \ {o}
      PROVE  RequestFacts(q)'
  BY <1>1, <1>4, OthersAccounted DEF Runners, RequestsAccounted
<1> QED
  BY <1>1, <1>5, <1>6 DEF RequestsAccounted

\* An outcome becomes the result that accounts for what was asked for.
LEMMA EmitAccounted ==
    ASSUME Coherent, RequestsAccounted, NEW o \in Occurrences, Emit(o)
    PROVE  RequestsAccounted'
<1>1. /\ run[o].pc = "emit" /\ requested' = requested /\ killed' = killed
      /\ run' = Assign(run, o, IdleRun) /\ result' = [result EXCEPT ![o] = run[o].outcome]
  BY DEF Emit, past, Assign
<1>2. TypeOK /\ o \in Runners /\ Accounted(o, run[o].outcome)
  BY <1>1 DEF Coherent, Runners, RequestsAccounted, RequestFacts
<1>3. /\ run'[o] = IdleRun /\ \A q \in Runners \ {o} : run'[q] = run[q]
      /\ result'[o] = run[o].outcome /\ \A q \in Occurrences \ {o} : result'[q] = result[q]
  BY <1>1, <1>2, IdleShape, RunMoves DEF TypeOK
<1>4. RequestFacts(o)'
  <2>1. run[o].outcome # None
    BY <1>1, <1>2, NoneAssumption DEF Coherent, RunFacts, Inside, Backed
  <2>2. Accounted(o, result[o])'
    BY <1>1, <1>2, <1>3 DEF Accounted
  <2> QED
    BY <1>3, <2>1, <2>2, IdleShape DEF RequestFacts, Inside
<1>5. ASSUME NEW q \in Occurrences \ {o}
      PROVE  RequestFacts(q)'
  BY <1>1, <1>3, OthersAccounted DEF Runners, RequestsAccounted
<1> QED
  BY <1>1, <1>4, <1>5 DEF RequestsAccounted

\* The operator's continuation asks for nothing.
LEMMA ContinueAccounted ==
    ASSUME Coherent, RequestsAccounted, Continue
    PROVE  RequestsAccounted'
<1>1. /\ result' = result /\ requested' = requested /\ killed' = killed
      /\ \E p : run' = [run EXCEPT ![Operator] = p]
  BY DEF Continue
<1>2. ASSUME NEW o \in Occurrences
      PROVE  run'[o] = run[o]
  BY <1>1, BreakingAssumption DEF Coherent, TypeOK, Runners
<1>3. ASSUME NEW o \in Occurrences
      PROVE  RequestFacts(o)'
  BY <1>1, <1>2, OthersAccounted DEF RequestsAccounted
<1> QED
  BY <1>1, <1>3 DEF RequestsAccounted

\* A killed run is remembered as one whose replay may name no draft.
LEMMA CrashAccounted ==
    ASSUME Coherent, RequestsAccounted, NEW r \in Runners, Crash(r)
    PROVE  RequestsAccounted'
<1>1. /\ run' = Assign(run, r, IdleRun) /\ killed' = killed \cup {r} /\ run[r].pc # "idle"
      /\ result' = result /\ requested' = requested
  BY DEF Crash, Assign
<1>2. run'[r] = IdleRun /\ \A q \in Runners \ {r} : run'[q] = run[q]
  BY <1>1, IdleShape, RunMoves DEF Coherent
<1>3. ASSUME NEW o \in Occurrences, o # r
      PROVE  RequestFacts(o)'
  BY <1>1, <1>2, <1>3, OthersAccounted DEF Runners, RequestsAccounted
<1>4. ASSUME r \in Occurrences
      PROVE  RequestFacts(r)'
  <2>1. result[r] = None
    BY <1>1, <1>4 DEF RequestsAccounted, RequestFacts
  <2> QED
    BY <1>1, <1>2, <2>1, IdleShape DEF RequestFacts, Inside
<1> QED
  BY <1>1, <1>3, <1>4 DEF RequestsAccounted

\* Every step accounts for what was asked for.
LEMMA NextAccounted ==
    ASSUME Coherent, RequestsAccounted, [Next]_vars, Coherent'
    PROVE  RequestsAccounted'
<1>1. ASSUME NEW o \in Occurrences, OccurrenceStep(o)
      PROVE  RequestsAccounted'
  <2>1. o \in Runners
    BY DEF Runners
  <2> QED
    BY <1>1, <2>1, IdentifyAccounted, RouteAccounted, ReserveAccounted,
       TargetAccounted, EmitAccounted DEF OccurrenceStep
<1>2. CASE TargetStep(Operator)
  <2>1. Operator \in Runners
    BY DEF Runners
  <2> QED
    BY <1>2, <2>1, TargetAccounted
<1>3. ASSUME UNCHANGED <<run, result, requested, killed>>
      PROVE  RequestsAccounted'
  <2>1. ASSUME NEW o \in Occurrences
        PROVE  RequestFacts(o)'
    BY <1>3, OthersAccounted DEF RequestsAccounted
  <2> QED
    BY <1>3, <2>1 DEF RequestsAccounted
<1>4. ASSUME NEW k \in Keys, Owner(k) \/ BridgeStep(k)
      PROVE  RequestsAccounted'
  BY <1>3, <1>4 DEF Owner, BridgeStep, Attempt, Answer, Killed, past
<1>5. CASE Fill \/ UNCHANGED vars
  BY <1>3, <1>5 DEF Fill, vars, past
<1>6. child \subseteq Keys
  BY TypesOf
<1> QED
  BY <1>1, <1>2, <1>4, <1>5, <1>6, ContinueAccounted, CrashAccounted DEF Next, Progress

\* The inductive invariant of the breaking-news dispatch: locks, draft sets,
\* manifests and processes agree, whoever is killed, continues or overlaps, and
\* so do the results with what their runs asked for.
THEOREM Invariance == Spec => []IInv
<1>1. Init => IInv
  BY InitInv, InitAccounted DEF IInv
<1>2. IInv /\ [Next]_vars => IInv'
  BY NextInv, NextAccounted DEF IInv
<1> QED
  BY <1>1, <1>2, PTL DEF Spec

\* reserve_draft_set under its lock: Zernio holds at most one Story and one main
\* draft of a development, for any occurrences, scans and histories.
THEOREM OneDraft == Spec => []OneDraftPerTarget
<1>1. IInv => OneDraftPerTarget
  BY InvGivesOneDraft DEF IInv
<1> QED
  BY <1>1, Invariance, PTL

\* Step by step, the dispatch keeps the promise of a single review draft for a
\* development's Story and for its main post: whatever candidates, re-scans and
\* continuations name them, whoever is killed and whatever its child still does.
THEOREM KeepsThePromise == Spec => ImplementsPromise
<1>1. Init => Promise!Init
  <2> SUFFICES ASSUME Init PROVE Promise!Init
    OBVIOUS
  <2>1. Viewed
    BY InitInv, Views
  <2>2. ASSUME NEW x \in Works
        PROVE  ReviewOf(x) = "NOT_CREATED" /\ DraftsOf(x) = 0
    <3>1. PICK k \in RequestsOf(x) : ReviewOf(x) = Says(k) /\ DraftsOf(x) = drafts[k]
      BY <2>1 DEF Viewed
    <3>2. k \in Keys
      BY RequestsAreKeys
    <3>3. work[k] = None /\ drafts[k] = 0
      BY <3>2 DEF Init
    <3> QED
      BY <3>1, <3>3 DEF Says, IsManifest
  <2> QED
    BY <2>2 DEF Promise!Init
<1>2. IInv /\ [Next]_vars => [Promise!Next]_(Promise!vars)
  BY PromiseStep DEF IInv
<1> QED
  BY <1>1, <1>2, Invariance, PTL DEF Spec, ImplementsPromise, Promise!Spec

\* classify_target and emit_result_once: a target recorded as succeeded is a draft
\* the owner was shown, a main draft is begun only after its Story's success, and
\* a run's success names every draft it asked for, all of them shown; a killed
\* run's replay may succeed without naming any.
THEOREM SuccessesWereSeen == Spec => []SucceededWasSeen
<1>1. IInv => SucceededWasSeen
  BY InvGivesSeen
<1> QED
  BY <1>1, Invariance, PTL

\* The durable in-flight mark: a consumed create attempt, or a child that may
\* still consume one, is never offered to another dispatch or continuation.
THEOREM AttemptsStayVisible == Spec => []UnsettledIsVisible
<1>1. IInv => UnsettledIsVisible
  BY InvGivesVisible DEF IInv
<1> QED
  BY <1>1, Invariance, PTL
=============================================================================
