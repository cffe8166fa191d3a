--------------------------- MODULE BreakingDispatch ---------------------------
(***************************************************************************)
(* Breaking news from a committed assessment to review drafts.  Every      *)
(* occurrence runs one assessment: identity against the repository, load,  *)
(* routing, one durable draft set per development under its lock, then the *)
(* Story pipeline and, once the owner has seen the Story, the main one.    *)
(* Occurrences of one development or candidate overlap, a run may be       *)
(* killed at any step and is run again until its result exists, and an     *)
(* operator may continue a target that was never attempted.  The review    *)
(* draft bridge is a child process, which outlives a killed run.           *)
(***************************************************************************)
EXTENDS BreakingPolicy, Sequences

CONSTANTS
    Occurrences, Operator,
    Scans,              \* a set of [Occurrences -> the assessment committed for it]
    Histories,          \* what the stores may hold of earlier work
    StoryMax, MainMax,  \* configured maxima of a day
    MaxFills, MaxCrashes, MaxContinues,  \* bounds
    Finalized           \* a text is persisted, its manifest not yet built

Assessments == UNION {{f[o] : o \in Occurrences} : f \in Scans}
Candidates == {a.cand : a \in Assessments}
Developments == {DevelopmentOf(a) : a \in Assessments}
Keys == Candidates \X Developments \X Targets      \* one production request each
Runners == Occurrences \cup {Operator}

ASSUME BreakingAssumption ==
    /\ Operator \notin Occurrences
    /\ Scans \subseteq [Occurrences -> Assessments]
    /\ \A a \in Assessments : a.severity \in Severities
    /\ {StoryMax, MainMax, MaxFills, MaxCrashes, MaxContinues} \subseteq Nat
    /\ None \notin Runners /\ Finalized # None

Statuses == {"PENDING", "DISPATCH_IN_FLIGHT", "SUCCEEDED", "PREVIEW_DELIVERY_FAILED",
             "BLOCKED_BEFORE_ATTEMPT", "AMBIGUOUS"}
Outcomes == {"SUCCEEDED", "FAILED", "BLOCKED", "UNKNOWN"}

Manifest == [review : {"NOT_CREATED", "CREATE_IN_FLIGHT", "REVIEW_UNKNOWN", "DRAFT_CREATED"},
             creates : 0..1, pub : {"NOT_REQUESTED", "PUBLISHED", "FAILED"},
             attempts : 0..1, first : BOOLEAN, final : BOOLEAN]
Identity == [decision : {"DISTINCT_EVENT", "MATERIAL_FOLLOW_UP"},
             reason : {"NO_MATCH", "VERIFIED_FOLLOW_UP"}, recon : {FALSE}]
Decision == [a : Assessments, id : Identity,
             route : [decision : Accelerated, targets : SUBSET Targets, recon : {FALSE}]]
SetRecord(decision) == [decision : {decision}, recon : BOOLEAN,
                        status : [decision.route.targets -> Statuses]]
Outcome == [domain : Outcomes, artifacts : SUBSET Keys]

\* What is absent, and what is only a text, is told apart from every value.
ASSUME NoneAssumption ==
    /\ None \notin Targets \cup {"SENT", "UNSENT"}
    /\ None \notin Manifest /\ Finalized \notin Manifest
    /\ None \notin Decision /\ None \notin Outcome
    /\ \A decision \in Decision : None \notin SetRecord(decision)

VARIABLES
    assess,     \* [Occurrences -> the committed assessment]
    history,    \* earlier rows of the ledger, the queue and the topic ledger
    filled,     \* formats in which another producer took a slot of the day
    set,        \* [Developments -> draft set record or None]
    holder,     \* [Developments -> runner inside its set lock, or None]
    work,       \* [Keys -> None, Finalized or a manifest]
    child,      \* keys whose draft bridge is running
    drafts,     \* [Keys -> create calls made to Zernio]
    sent,       \* [Keys -> what is known of the preview: None, SENT, UNSENT]
    run,        \* [Runners -> the process]
    result,     \* [Occurrences -> run result or None]
    requested,  \* [Occurrences -> review drafts its routing asked for], a history
    killed,     \* runners that were killed, a history
    crashes, continued

inputs == <<assess, history>>
zernio == <<child, drafts>>
past == <<requested, killed, crashes, continued>>
vars == <<inputs, filled, set, holder, work, zernio, sent, run, result, past>>

IsManifest(w) == w \notin {None, Finalized}
NewManifest == [review |-> "NOT_CREATED", creates |-> 0, pub |-> "NOT_REQUESTED",
                attempts |-> 0, first |-> FALSE, final |-> FALSE]
IdleRun == [pc |-> "idle", id |-> None, decision |-> None,
            target |-> None, outcome |-> None]

Init ==
    /\ assess \in Scans
    /\ history \in Histories
    /\ filled = {}
    /\ set = [d \in Developments |-> None] /\ holder = [d \in Developments |-> None]
    /\ work = [k \in Keys |-> None] /\ child = {}
    /\ drafts = [k \in Keys |-> 0] /\ sent = [k \in Keys |-> None]
    /\ run = [r \in Runners |-> IdleRun]
    /\ result = [o \in Occurrences |-> None]
    /\ requested = [o \in Occurrences |-> {}] /\ killed = {}
    /\ crashes = 0 /\ continued = 0
-----------------------------------------------------------------------------
(* Repository state, as each run reads it.                                 *)

ManifestKeys(c) == {k \in Keys : k[1] = c /\ IsManifest(work[k])}

View(c) ==
    [manifests |-> {work[k] : k \in ManifestKeys(c)},
     ledger |-> IF \E k \in ManifestKeys(c) : work[k].pub = "PUBLISHED"
                THEN "PUBLISHED" ELSE history.ledger[c],
     queue |-> history.queue[c], topics |-> history.topics, proven |-> history.proven]

\* A format's load of the one day modelled: published, or pending, or another's.
Load(format, targets) ==
    Cardinality({k \in Keys : /\ k[3] \in targets /\ IsManifest(work[k])
                              /\ work[k].pub = "PUBLISHED" \/ IsPending(work[k])})
    + Cardinality(filled \cap {format})
StoryCapacity == Load("STORY", {"STORY"}) < StoryMax
MainCapacity == Load("MAIN", MainFormats) < MainMax

MainTarget(targets) == IF targets \subseteq {"STORY"} THEN None
                       ELSE CHOOSE t \in targets : t # "STORY"

Dev(r) == DevelopmentOf(run[r].decision.a)
Key(r) == <<run[r].decision.a.cand, Dev(r), run[r].target>>
Goto(r, pc) == run' = [run EXCEPT ![r].pc = pc]
-----------------------------------------------------------------------------
(* One occurrence: identity, routing, reservation.                         *)

\* The occurrence lock admits one process; a persisted result is only replayed.
\* The run fixes its date and reads identity before it reads any load.
Identify(o) ==
    /\ run[o].pc = "idle" /\ result[o] = None
    /\ run' = [run EXCEPT ![o] = [IdleRun EXCEPT !.pc = "route", !.id = EvaluateIdentity(assess[o], View(assess[o].cand))]]
    /\ UNCHANGED <<inputs, filled, set, holder, work, zernio, sent, result, past>>

\* A decision that is not accelerated is the outcome.
UndispatchedOutcome(route) ==
    IF route.recon THEN "BLOCKED"
    ELSE IF route.decision \in {"SUPPRESS_DUPLICATE", "SUPPRESS_RECENT_COVERAGE",
                                "NORMAL_QUEUE"} THEN "SUCCEEDED"
    ELSE "BLOCKED"

\* The review drafts a decision asks for.
DraftsAsked(decision) ==
    {<<decision.a.cand, DevelopmentOf(decision.a), t>> : t \in decision.route.targets}

Route(o) ==
    /\ run[o].pc = "route"
    /\ LET a == assess[o]
           route == EvaluateRouting(a, run[o].id, StoryCapacity, MainCapacity)
           decision == [a |-> a, id |-> run[o].id, route |-> route]
       IN  IF route.decision \in Accelerated
           THEN /\ run' = [run EXCEPT ![o] = [@ EXCEPT !.pc = "reserve", !.decision = decision]]
                /\ requested' = [requested EXCEPT ![o] = DraftsAsked(decision)]
           ELSE /\ run' = [run EXCEPT ![o] =
                             [@ EXCEPT !.pc = "emit",
                                       !.outcome = [domain |-> UndispatchedOutcome(route),
                                                    artifacts |-> {}]]]
                /\ UNCHANGED requested
    /\ UNCHANGED <<inputs, filled, set, holder, work, zernio, sent, result, killed, crashes, continued>>

\* Mutant: a target for every format.
NewSetAllFormats(decision) ==
    [decision |-> decision, recon |-> FALSE, status |-> [t \in Targets |-> "PENDING"]]
NewSet(decision) ==
    [decision |-> decision, recon |-> FALSE,
     status |-> [t \in decision.route.targets |-> "PENDING"]]

\* dispatch_domain_outcome: reconciliation first, then the first target in
\* order that did not succeed.
SetOutcome(d, s) ==
    LET first == IF s.status["STORY"] # "SUCCEEDED" THEN "STORY"
                 ELSE MainTarget(DOMAIN s.status)
        st == IF first = None THEN "SUCCEEDED" ELSE s.status[first]
        domain == IF s.recon \/ st \in {"AMBIGUOUS", "DISPATCH_IN_FLIGHT"} THEN "UNKNOWN"
                  ELSE IF st = "SUCCEEDED" THEN "SUCCEEDED"
                  ELSE IF st = "BLOCKED_BEFORE_ATTEMPT" THEN "BLOCKED"
                  ELSE "FAILED"
    IN  [domain |-> domain,
         artifacts |-> {<<s.decision.a.cand, d, t>> :
                            t \in {u \in DOMAIN s.status : s.status[u] = "SUCCEEDED"}}]

\* Mutant: the lock is not released.
LeaveLocked(r, d, s) ==
    /\ set' = [set EXCEPT ![d] = s]
    /\ run' = [run EXCEPT ![r] = IF r = Operator THEN IdleRun
                                 ELSE [@ EXCEPT !.pc = "emit", !.outcome = SetOutcome(d, s)]]
    /\ UNCHANGED holder
\* The runner leaves the set lock with the record as it stands.
Leave(r, d, s) ==
    /\ set' = [set EXCEPT ![d] = s]
    /\ holder' = [holder EXCEPT ![d] = None]
    /\ run' = [run EXCEPT ![r] = IF r = Operator THEN IdleRun
                                 ELSE [@ EXCEPT !.pc = "emit", !.outcome = SetOutcome(d, s)]]

\* What is left of a set an ordinary dispatch may run: the first target that
\* is PENDING, once every target before it succeeded.
NextTarget(s) ==
    LET main == MainTarget(DOMAIN s.status)
    IN  IF s.status["STORY"] = "PENDING" THEN "STORY"
        ELSE IF s.status["STORY"] = "SUCCEEDED" /\ main # None /\ s.status[main] = "PENDING"
        THEN main ELSE None

\* A target found in flight is marked for reconciliation and left alone.
MarkInFlight(s) ==
    LET main == MainTarget(DOMAIN s.status)
        halting == IF s.status["STORY"] # "SUCCEEDED" \/ main = None THEN "STORY" ELSE main
    IN  [s EXCEPT !.recon = s.recon \/ s.status[halting] = "DISPATCH_IN_FLIGHT"]

\* Mutant: a later decision takes the development's set over.
ReserveHijack(o) ==
    /\ run[o].pc = "reserve" /\ holder[Dev(o)] = None
    /\ LET s == NewSet(run[o].decision)
       IN  /\ set' = [set EXCEPT ![Dev(o)] = s]
           /\ holder' = [holder EXCEPT ![Dev(o)] = o]
           /\ run' = [run EXCEPT ![o] = [@ EXCEPT !.pc = "recheck", !.target = NextTarget(s)]]
    /\ UNCHANGED <<inputs, filled, work, zernio, sent, result, past>>

\* An exact replay reuses the set; another decision about the same
\* development is a conflict and changes nothing.
Reserve(o) ==
    /\ run[o].pc = "reserve" /\ holder[Dev(o)] = None
    /\ LET d == Dev(o)
           s == IF set[d] = None THEN NewSet(run[o].decision) ELSE set[d]
       IN  IF s.decision # run[o].decision
           THEN /\ run' = [run EXCEPT ![o] = [@ EXCEPT !.pc = "emit",
                                                 !.outcome = [domain |-> "UNKNOWN",
                                                              artifacts |-> {}]]]
                /\ UNCHANGED <<set, holder>>
           ELSE IF NextTarget(s) = None THEN Leave(o, d, MarkInFlight(s))
           ELSE /\ set' = [set EXCEPT ![d] = s]
                /\ holder' = [holder EXCEPT ![d] = o]
                /\ run' = [run EXCEPT ![o] = [@ EXCEPT !.pc = "recheck", !.target = NextTarget(s)]]
    /\ UNCHANGED <<inputs, filled, work, zernio, sent, result, past>>

\* continue_unattempted_target: the same decision, a target blocked before
\* any attempt, a main target only after its Story.  An operator who was told
\* of a blocked occurrence calls it.
Continue ==
    /\ run[Operator].pc = "idle" /\ continued < MaxContinues
    /\ \E o \in Occurrences : result[o] # None /\ result[o].domain = "BLOCKED"
    /\ \E d \in Developments :
         /\ set[d] # None /\ holder[d] = None
         /\ \E t \in DOMAIN set[d].status :
              /\ set[d].status[t] = "BLOCKED_BEFORE_ATTEMPT"
              /\ t # "STORY" => set[d].status["STORY"] = "SUCCEEDED"
              /\ run' = [run EXCEPT ![Operator] =
                            [IdleRun EXCEPT !.pc = "recheck",
                                            !.decision = set[d].decision, !.target = t]]
              /\ holder' = [holder EXCEPT ![d] = Operator]
    /\ continued' = continued + 1
    /\ UNCHANGED <<inputs, filled, set, work, zernio, sent, result, requested, killed, crashes>>
-----------------------------------------------------------------------------
(* One target, under the set lock.                                         *)

SetStatus(s, t, status) ==
    [s EXCEPT !.status = [s.status EXCEPT ![t] = status],
              !.recon = s.recon \/ status = "AMBIGUOUS"]

\* After STORY an ordinary dispatch goes on to the main target, a continuation does not.
AfterTarget(r, s) ==
    LET d == Dev(r) IN
    IF r # Operator /\ run[r].target = "STORY" /\ NextTarget(s) # None
    THEN /\ set' = [set EXCEPT ![d] = s]
         /\ run' = [run EXCEPT ![r] = [@ EXCEPT !.pc = "recheck", !.target = NextTarget(s)]]
         /\ UNCHANGED holder
    ELSE Leave(r, d, s)

\* Suppression by nothing but this set's own Story is expected before main.
OnlyOwnStory(r) ==
    LET a == run[r].decision.a
        view == View(a.cand)
    IN  /\ run[r].target # "STORY"
        /\ ManifestKeys(a.cand) = {<<a.cand, Dev(r), "STORY">>}
        /\ view.ledger = None /\ view.queue = None /\ RelatedTopics(a, view) = {}

\* The authoritative recheck: fresh identity, then the format's load; "RECON"
\* blocks and asks for reconciliation.
Recheck(r) ==
    LET a == run[r].decision.a
        fresh == EvaluateIdentity(a, View(a.cand))
        capacity == IF run[r].target = "STORY" THEN StoryCapacity ELSE MainCapacity
    IN  IF run[r].target # "STORY" /\ ~capacity THEN "BLOCKED"
        ELSE IF fresh.recon \/ fresh.reason \in AmbiguousCodes THEN "RECON"
        ELSE IF fresh.reason \in SuppressCodes /\ ~OnlyOwnStory(r) THEN "BLOCKED"
        ELSE IF ~capacity THEN "BLOCKED"
        ELSE "PERMITTED"

\* The dependency answers yes, no, or not at all; IN_FLIGHT is durable before the pipeline runs.
Permit(r) ==
    /\ run[r].pc = "recheck"
    /\ LET s == set[Dev(r)]
           blocked == SetStatus(s, run[r].target, "BLOCKED_BEFORE_ATTEMPT")
           verdict == Recheck(r)
       IN  \/ /\ verdict = "PERMITTED"
              /\ set' = [set EXCEPT ![Dev(r)] = SetStatus(s, run[r].target, "DISPATCH_IN_FLIGHT")]
              /\ Goto(r, "spec") /\ UNCHANGED holder
           \/ verdict \in {"PERMITTED", "BLOCKED"} /\ AfterTarget(r, blocked)
           \/ verdict \in {"PERMITTED", "RECON"} /\ AfterTarget(r, [blocked EXCEPT !.recon = TRUE])
    /\ UNCHANGED <<inputs, filled, work, zernio, sent, result, past>>

\* Mutant: a draft without a delivered preview counts as done.
StatusOfDraft(end) ==
    IF end \in {"SENT", "UNSENT"} THEN "SUCCEEDED"
    ELSE IF end = "BLOCKED" THEN "BLOCKED_BEFORE_ATTEMPT" ELSE "AMBIGUOUS"
\* Mutant: an uncertain attempt counts as never made.
StatusOfUncertain(end) ==
    IF end = "SENT" THEN "SUCCEEDED"
    ELSE IF end = "UNSENT" THEN "PREVIEW_DELIVERY_FAILED" ELSE "BLOCKED_BEFORE_ATTEMPT"
StatusOf(end) ==
    CASE end = "SENT" -> "SUCCEEDED"
      [] end = "UNSENT" -> "PREVIEW_DELIVERY_FAILED"
      [] end = "BLOCKED" -> "BLOCKED_BEFORE_ATTEMPT"
      [] OTHER -> "AMBIGUOUS"

\* The pipeline's end is classified and recorded.
EndsWith(r, end) == AfterTarget(r, SetStatus(set[Dev(r)], run[r].target, StatusOf(end)))

\* A finalized text is written once per request, validated and reused.
SpecText(w) == IF w = None THEN Finalized ELSE w
\* Writer, shape check or verifier refuse, or the runner raises.
Refusals == {"BLOCKED", "AMBIGUOUS"}

\* Admission may refuse as well (for main: no candidate).
Finalize(r) ==
    /\ run[r].pc = "spec"
    /\ \/ /\ Goto(r, "build")
          /\ work' = [work EXCEPT ![Key(r)] = SpecText(@)]
          /\ UNCHANGED <<set, holder>>
       \/ \E end \in Refusals : EndsWith(r, end) /\ UNCHANGED work
    /\ UNCHANGED <<inputs, filled, zernio, sent, result, past>>

\* Render and build the manifest, or reuse one that is untouched, and start the
\* draft bridge on it.
Build(r) ==
    LET k == Key(r)
        Connect == child' = child \cup {k} /\ Goto(r, "wait") /\ UNCHANGED <<set, holder>>
        End(end) == EndsWith(r, end) /\ UNCHANGED <<work, child>>
    IN  /\ run[r].pc = "build"
        /\ IF IsManifest(work[k])
           THEN IF work[k].creates = 0 THEN Connect /\ UNCHANGED work ELSE End("AMBIGUOUS")
           ELSE \/ Connect /\ work' = [work EXCEPT ![k] = NewManifest]
                \/ End("BLOCKED")
        /\ UNCHANGED <<inputs, filled, drafts, sent, result, past>>

\* The bridge consumes the one attempt and calls Zernio, or refuses.  A call
\* counts as a draft: it may have made one whatever is heard of it.
Attempt(k) ==
    /\ work[k].creates = 0
    /\ \/ /\ work' = [work EXCEPT ![k] = [@ EXCEPT !.review = "CREATE_IN_FLIGHT", !.creates = 1]]
          /\ drafts' = [drafts EXCEPT ![k] = @ + 1]
          /\ UNCHANGED child
       \/ child' = child \ {k} /\ UNCHANGED <<work, drafts>>
    /\ UNCHANGED <<inputs, filled, set, holder, sent, run, result, past>>

Answer(k) ==
    /\ work[k].creates = 1
    /\ \E review \in {"DRAFT_CREATED", "REVIEW_UNKNOWN"} :
         work' = [work EXCEPT ![k] = [@ EXCEPT !.review = review]]
    /\ child' = child \ {k}
    /\ UNCHANGED <<inputs, filled, set, holder, drafts, sent, run, result, past>>

\* The bridge is killed at its deadline, or dies.
Killed(k) ==
    /\ child' = child \ {k}
    /\ UNCHANGED <<inputs, filled, set, holder, work, drafts, sent, run, result, past>>

\* The manifest is the truth whatever the connector said.
Connected(r) ==
    /\ run[r].pc = "wait" /\ Key(r) \notin child
    /\ LET m == work[Key(r)]
       IN  IF m.review = "DRAFT_CREATED" THEN Goto(r, "preview") /\ UNCHANGED <<set, holder>>
           ELSE EndsWith(r, IF m.creates = 0 THEN "BLOCKED" ELSE "AMBIGUOUS")
    /\ UNCHANGED <<inputs, filled, work, zernio, sent, result, past>>

\* One preview is sent; without a proof of delivery it may have arrived all the same.
Preview(r) ==
    /\ run[r].pc = "preview"
    /\ \E end \in {"SENT", "UNSENT"} : sent' = [sent EXCEPT ![Key(r)] = end]
    /\ Goto(r, "classify")
    /\ UNCHANGED <<inputs, filled, set, holder, work, zernio, result, past>>

Classify(r) ==
    /\ run[r].pc = "classify"
    /\ EndsWith(r, sent[Key(r)])
    /\ UNCHANGED <<inputs, filled, work, zernio, sent, result, past>>

\* assess_run and emit_result_once: the first result stands.
Emit(o) ==
    /\ run[o].pc = "emit"
    /\ result' = [result EXCEPT ![o] = run[o].outcome]
    /\ run' = [run EXCEPT ![o] = IdleRun]
    /\ UNCHANGED <<inputs, filled, set, holder, work, zernio, sent, past>>
-----------------------------------------------------------------------------
(* The environment.                                                        *)

\* The process dies or its run raises: its locks are gone, its child is not.
\* A run that has written nothing dies as if it had not begun.
Crash(r) ==
    /\ run[r].pc \notin {"idle", "route", "reserve"} /\ crashes < MaxCrashes
    /\ run' = [run EXCEPT ![r] = IdleRun]
    /\ holder' = [d \in Developments |-> IF holder[d] = r THEN None ELSE holder[d]]
    /\ killed' = killed \cup {r} /\ crashes' = crashes + 1
    /\ UNCHANGED <<inputs, filled, set, work, zernio, sent, result, requested, continued>>

\* The owner approves a draft and it is published, or its publication fails.
Owner(k) ==
    /\ IsManifest(work[k])
    /\ work[k].review = "DRAFT_CREATED" /\ work[k].pub = "NOT_REQUESTED" /\ sent[k] # None
    /\ \E pub \in {"PUBLISHED", "FAILED"} :
         work' = [work EXCEPT ![k] = [@ EXCEPT !.pub = pub, !.attempts = 1,
                                               !.first = TRUE, !.final = TRUE]]
    /\ UNCHANGED <<inputs, filled, set, holder, zernio, sent, run, result, past>>

\* Another producer drafts a post between two reads of the load.
Fill ==
    /\ Cardinality(filled) < MaxFills
    /\ \E r \in Runners : run[r].pc \in {"route", "recheck"}
    /\ \E format \in {"STORY", "MAIN"} : filled' = filled \cup {format} /\ filled' # filled
    /\ UNCHANGED <<inputs, set, holder, work, zernio, sent, run, result, past>>

TargetStep(r) == \/ Permit(r) \/ Finalize(r) \/ Build(r)
                 \/ Connected(r) \/ Preview(r) \/ Classify(r)
OccurrenceStep(o) == \/ Identify(o) \/ Route(o) \/ Reserve(o)
                     \/ TargetStep(o) \/ Emit(o)
BridgeStep(k) == Attempt(k) \/ Answer(k) \/ Killed(k)

Progress ==
    \/ \E o \in Occurrences : OccurrenceStep(o)
    \/ TargetStep(Operator)
    \/ \E k \in child : BridgeStep(k)

Next ==
    \/ Progress
    \/ Continue
    \/ \E k \in Keys : Owner(k)
    \/ \E r \in Runners : Crash(r)
    \/ Fill

Spec == Init /\ [][Next]_vars

\* The sweep runs every listed occurrence again until its result exists, a
\* process that is not killed goes on, a bridge has a deadline: some of them moves.
FairSpec == Spec /\ WF_vars(Progress)
-----------------------------------------------------------------------------
(* Properties.                                                             *)

Drafted(d, formats) ==
    {q \in (Candidates \X {d} \X formats) \X (1..2) : q[2] <= drafts[q[1]]}

\* "At most one set is ever reserved for one development": whatever occurrences,
\* candidates and re-scans overlap, whoever is killed or continues, Zernio holds
\* at most one Story and one main draft of a development.
OneDraftPerTarget ==
    \A d \in Developments : /\ Cardinality(Drafted(d, {"STORY"})) <= 1
                            /\ Cardinality(Drafted(d, MainFormats)) <= 1

\* The promise of a single review draft, for a development and a kind of post.
Kinds == {"STORY", "MAIN"}
Formats(kind) == IF kind = "STORY" THEN {"STORY"} ELSE MainFormats
RequestsOf(x) == Candidates \X {x[1]} \X Formats(x[2])
ReviewOf(x) == IF \A k \in RequestsOf(x) : ~IsManifest(work[k]) THEN "NOT_CREATED"
               ELSE work[CHOOSE k \in RequestsOf(x) : IsManifest(work[k])].review
DraftsOf(x) == Cardinality(Drafted(x[1], Formats(x[2])))
Works == Developments \X Kinds
Promise == INSTANCE OneReviewDraft WITH
    review <- [x \in Works |-> ReviewOf(x)], drafts <- [x \in Works |-> DraftsOf(x)]
ImplementsPromise == Promise!Spec

\* A success names every draft that was asked for, but for a killed run's replay.
Accounted(o, outcome) == outcome.domain = "SUCCEEDED" =>
    requested[o] \subseteq outcome.artifacts \/ (o \in killed /\ outcome.artifacts = {})

\* The request of a set's target.
KeyOf(s, d, t) == <<s.decision.a.cand, d, t>>

\* A main draft is never begun before the owner was shown its Story, and a target
\* that succeeded is a draft the owner was shown.  "`SUCCEEDED` on an accelerated
\* route means only that every requested review draft exists and every required
\* human-review preview reports exact `SENT`": so it is of an occurrence's result,
\* unless its run was killed after it had asked for drafts and is then replayed as
\* something not to be dispatched (the duplicate of its own draft): that replay
\* succeeds, names no draft, and the owner may never have seen the one it made.
SucceededWasSeen ==
    /\ \A d \in Developments : set[d] # None => \A t \in DOMAIN set[d].status :
          LET k == KeyOf(set[d], d, t) IN
          /\ set[d].status[t] = "SUCCEEDED" =>
                work[k].review = "DRAFT_CREATED" /\ drafts[k] = 1 /\ sent[k] = "SENT"
          /\ t # "STORY" /\ work[k] # None => set[d].status["STORY"] = "SUCCEEDED"
    /\ \A o \in Occurrences : result[o] # None =>
          /\ \A k \in result[o].artifacts :
                work[k].review = "DRAFT_CREATED" /\ drafts[k] = 1 /\ sent[k] = "SENT"
          /\ Accounted(o, result[o])

\* A create attempt that was consumed, or may be at any moment, is never offered
\* again: its target stands as succeeded, undelivered, in flight or ambiguous, and
\* an ambiguous target asks for reconciliation.
UnsettledIsVisible ==
    \A d \in Developments :
        /\ \A k \in Keys : k[2] = d /\ (k \in child \/ (IsManifest(work[k]) /\ work[k].creates > 0)) =>
              /\ set[d] # None /\ set[d].decision.a.cand = k[1]
              /\ set[d].status[k[3]] \notin {"PENDING", "BLOCKED_BEFORE_ATTEMPT"}
        /\ set[d] # None /\ (\E t \in DOMAIN set[d].status : set[d].status[t] = "AMBIGUOUS")
              => set[d].recon

\* Every occurrence gets its one result, whoever holds the lock of its development.
EveryOccurrenceIsSettled == <>(\A o \in Occurrences : result[o] # None)
-----------------------------------------------------------------------------
(* The inductive invariant.                                                *)

\* Where a runner is when it works on a target, inside its set's lock.
Inside == {"recheck", "spec", "build", "wait", "preview", "classify"}

\* Every store and every process has its shape, and a set's targets are those
\* its decision licenses.
TypeOK ==
    /\ assess \in Scans /\ history \in Histories /\ filled \subseteq {"STORY", "MAIN"}
    /\ set = [d \in Developments |-> set[d]]
    /\ holder \in [Developments -> Runners \cup {None}]
    /\ work \in [Keys -> Manifest \cup {None, Finalized}]
    /\ child \subseteq Keys /\ drafts \in [Keys -> 0..1]
    /\ sent \in [Keys -> {None, "SENT", "UNSENT"}]
    /\ run = [r \in Runners |-> run[r]]
    /\ \A r \in Runners : run[r] = [pc |-> run[r].pc, id |-> run[r].id,
                                    decision |-> run[r].decision, target |-> run[r].target,
                                    outcome |-> run[r].outcome]
    /\ result \in [Occurrences -> Outcome \cup {None}]

\* No attempt was made for the request, and none can be without another dispatch.
Fresh(k) == k \notin child /\ (IsManifest(work[k]) => work[k].creates = 0)

\* An answer of the identity evaluation: what is neither suppressed nor ambiguous
\* is one of the two decisions that may be accelerated.
Resolved(a, id) ==
    id.reason \in SuppressCodes \/ id.decision = "AMBIGUOUS_IDENTITY"
    \/ (id \in Identity /\ IdentityBasis(a) # "UNRESOLVED")

\* What a development's set record says of its requests.
SetFacts(d, s) ==
    /\ s.decision \in Decision /\ s \in SetRecord(s.decision)
    /\ DevelopmentOf(s.decision.a) = d
    /\ Licensed(s.decision.a, s.decision.id, s.decision.route)
    /\ \A t \in DOMAIN s.status :
         /\ s.status[t] = "AMBIGUOUS" => s.recon
         /\ s.status[t] = "SUCCEEDED" => sent[KeyOf(s, d, t)] = "SENT"
         /\ s.status[t] \in {"PENDING", "BLOCKED_BEFORE_ATTEMPT"} => Fresh(KeyOf(s, d, t))
         /\ t # "STORY" /\ work[KeyOf(s, d, t)] # None => s.status["STORY"] = "SUCCEEDED"

\* A request belongs to its development's set; its manifest counts its create
\* calls, and a child that has called has not yet heard.
KeyFacts(k) ==
    /\ work[k] # None => /\ set[k[2]] # None /\ set[k[2]].decision.a.cand = k[1]
                         /\ k[3] \in DOMAIN set[k[2]].status
    /\ ~IsManifest(work[k]) => k \notin child /\ drafts[k] = 0 /\ sent[k] = None
    /\ IsManifest(work[k]) =>
         /\ drafts[k] = work[k].creates
         /\ work[k].creates = 0 => work[k].review = "NOT_CREATED"
         /\ k \in child /\ work[k].creates = 1 => work[k].review = "CREATE_IN_FLIGHT"
         /\ sent[k] # None => work[k].review = "DRAFT_CREATED"

\* The set of k's development records k as succeeded: it stays so.
Achieved(k) ==
    /\ set[k[2]] # None /\ set[k[2]].decision.a.cand = k[1]
    /\ k[3] \in DOMAIN set[k[2]].status /\ set[k[2]].status[k[3]] = "SUCCEEDED"
Backed(outcome) == outcome \in Outcome /\ \A k \in outcome.artifacts : Achieved(k)

\* What a runner may rely on inside its set's lock.
InsideFacts(r) ==
    /\ run[r].decision \in Decision
    /\ holder[Dev(r)] = r /\ set[Dev(r)] # None /\ set[Dev(r)].decision = run[r].decision
    /\ LET status == set[Dev(r)].status
           t == run[r].target
       IN  /\ t \in DOMAIN status /\ (t # "STORY" => status["STORY"] = "SUCCEEDED")
           /\ status[t] \in IF run[r].pc = "recheck" THEN {"PENDING", "BLOCKED_BEFORE_ATTEMPT"}
                            ELSE {"DISPATCH_IN_FLIGHT"}
    /\ run[r].pc \in {"spec", "build"} => Fresh(Key(r))
    /\ run[r].pc = "build" => work[Key(r)] # None
    /\ run[r].pc \in {"wait", "preview", "classify"} => IsManifest(work[Key(r)])
    /\ run[r].pc = "preview" => work[Key(r)].review = "DRAFT_CREATED"
    /\ run[r].pc = "classify" => sent[Key(r)] # None

RunFacts(r) ==
    \/ run[r].pc = "idle"
    \/ r \in Occurrences /\ run[r].pc = "route" /\ Resolved(assess[r], run[r].id)
    \/ /\ r \in Occurrences /\ run[r].pc = "reserve" /\ run[r].decision \in Decision
       /\ Licensed(run[r].decision.a, run[r].decision.id, run[r].decision.route)
    \/ run[r].pc \in Inside /\ InsideFacts(r)
    \/ r \in Occurrences /\ run[r].pc = "emit" /\ Backed(run[r].outcome)

\* What an occurrence has asked for: nothing before its first routing, and what its
\* decision asks for until its outcome is known, which accounts for it.
RequestFacts(o) ==
    LET pc == run[o].pc
    IN  /\ pc \in {"idle", "route"} /\ result[o] = None /\ o \notin killed => requested[o] = {}
        /\ pc # "idle" => result[o] = None
        /\ pc \in {"reserve"} \cup Inside => requested[o] = DraftsAsked(run[o].decision)
        /\ pc = "emit" => Accounted(o, run[o].outcome)
        /\ result[o] # None => Accounted(o, result[o])

\* Who holds a set's lock works on a target of that set.
HolderFacts(d) == holder[d] # None => run[holder[d]].pc \in Inside /\ Dev(holder[d]) = d

\* The locks, the sets, the manifests and the processes agree, whoever was
\* killed, and a persisted result names only what stands as succeeded.
Coherent ==
    /\ TypeOK
    /\ \A d \in Developments : (set[d] # None => SetFacts(d, set[d])) /\ HolderFacts(d)
    /\ \A k \in Keys : KeyFacts(k)
    /\ \A r \in Runners : RunFacts(r)
    /\ \A o \in Occurrences : result[o] # None => Backed(result[o])

\* The histories, typed, agree with the processes and the results.
RequestsAccounted ==
    /\ requested \in [Occurrences -> SUBSET Keys]
    /\ \A o \in Occurrences : RequestFacts(o)

IInv == Coherent /\ RequestsAccounted
=============================================================================
