---------------------------- MODULE ScheduledRuns ----------------------------
(***************************************************************************)
(* Scheduled workflows: Morning Editorial, Story and Daily Analytics.  A   *)
(* wake-up resolves to the slot that is due and so to one occurrence; it   *)
(* may be delivered twice, late, or to a process that dies.  Every         *)
(* occurrence has a lock, one result that is never overwritten and, when   *)
(* the result is a failure, one alert to the operator.  Morning's agent    *)
(* writes the day's board and handoff, Morning persists them to the queue  *)
(* and the topic ledger, and Story drafts from the handoff of a Morning    *)
(* that succeeded.  Agents and draft bridges are child processes, which    *)
(* outlive a killed parent.                                                *)
(***************************************************************************)
EXTENDS Integers, FiniteSets, Sequences

CONSTANTS
    Wakers,             \* processes a wake-up may start
    Stray,              \* owner of an agent whose parent is dead
    Candidates,
    Handoffs,           \* rankings an agent may hand over: sequences of entries
    Slots, DayLength,   \* the registry: local times of each workflow's daily slots
    Agendas,            \* wake-ups delivered: sequences of [job, at]
    StoryTarget,        \* Stories a day should have
    MaxAttempts, MaxCrashes,
    None, Invalid

Jobs == DOMAIN Slots
Day(t) == t \div DayLength
AgendaTimes == UNION {{a[i].at : i \in DOMAIN a} : a \in Agendas}
Days == {Day(t) : t \in AgendaTimes}
Occurrences == UNION {{<<job, d * DayLength + s>> : d \in Days, s \in Slots[job]} : job \in Jobs}
Agents == Wakers \cup {Stray}

\* A candidate of a handoff, with the editor's status and whether Story may have it.
Entry == [cand : Candidates, story : BOOLEAN,
          status : {"READY", "NEW", "RESEARCHING", "DEFERRED", "REJECTED"}]
QueuedStatuses == {"READY", "NEW", "RESEARCHING"}

\* validate_handoff: no candidate twice, and only a ready one is for Story.  A
\* handoff may be empty: a truthful day without a candidate.
ValidHandoff(h) == \A i, j \in DOMAIN h :
    (h[i].cand = h[j].cand => i = j) /\ (h[i].story => h[i].status = "READY")

ASSUME ScheduleAssumption ==
    /\ DayLength \in Nat \ {0} /\ Jobs = {"morning", "story", "analytics"}
    /\ \A j \in Jobs : Slots[j] # {} /\ Slots[j] \subseteq 0..(DayLength - 1)
    /\ Cardinality(Slots["morning"]) = 1 /\ Cardinality(Slots["analytics"]) = 1
    /\ \A a \in Agendas : a \in Seq([job : Jobs, at : Nat])
    /\ Handoffs \subseteq Seq(Entry) /\ \A h \in Handoffs : ValidHandoff(h)
    /\ Stray \notin Wakers /\ None \notin Wakers \cup Candidates \cup Handoffs
    /\ {StoryTarget, MaxAttempts, MaxCrashes} \subseteq Nat

\* What stands in the stores.
Manifest == [review : {"NOT_CREATED", "CREATE_IN_FLIGHT", "REVIEW_UNKNOWN", "DRAFT_CREATED"},
             creates : 0..1, pub : {"NOT_REQUESTED", "PUBLISHED", "FAILED"},
             made : Days, pubday : Days \cup {None}]
Artifacts == {"board", "handoff", "raw", "report"} \cup Candidates
Outcome == [domain : {"SUCCEEDED", "BLOCKED", "FAILED"}, artifacts : SUBSET Artifacts]
NoteStates == {"PENDING", "SENT", "UNKNOWN", "FAILED"}
AgentWork == [day : Days, todo : SUBSET {"board", "handoff"}]

\* Candidates are no file names, and None is none of the values it stands beside.
ASSUME NoneAssumption ==
    /\ Candidates \cap {"board", "handoff", "raw", "report"} = {}
    /\ None \notin {Invalid, "SENT", "UNSENT"} \cup NoteStates
    /\ None \notin Manifest /\ None \notin Outcome /\ None \notin AgentWork
    /\ \A S \in SUBSET Candidates : S # None

VARIABLES
    agenda, now,    \* wake-ups to come; the time of the last one
    run,            \* [Wakers -> the process]
    holder,         \* [Occurrences -> process inside the run lock, or None]
    result,         \* [Occurrences -> persisted result or None]
    note,           \* [Occurrences -> notification record's state or None]
    alerts,         \* [Occurrences -> alerts that left]
    agent,          \* [Agents -> None or the files it may still write]
    board, handoff, \* [Days -> the day's artifacts]
    queue, topics,  \* [Days -> queue section or None]; ledger rows <<day, candidate, queued>>
    pair,           \* [Days -> editions of the analytics raw file and report]
    request,        \* [Candidates -> process inside the Story request lock, or None]
    work,           \* [Candidates -> Story manifest or None]
    child,          \* candidates whose draft bridge is running
    drafts, sent,   \* [Candidates -> create calls made], [... -> preview seen as]
    crashes

occurrences == <<holder, result>>
notices == <<note, alerts>>
desk == <<agent, board, handoff, queue, topics>>
stories == <<request, work, child, drafts, sent>>
vars == <<agenda, now, run, occurrences, notices, desk, pair, stories, crashes>>

IdleRun == [pc |-> "idle", occ |-> None, tries |-> 0, bound |-> None, kept |-> None, outcome |-> None]
NewManifest == [review |-> "NOT_CREATED", creates |-> 0, pub |-> "NOT_REQUESTED",
                made |-> Day(now), pubday |-> None]

Init ==
    /\ agenda \in Agendas /\ now = 0
    /\ run = [w \in Wakers |-> IdleRun]
    /\ holder = [o \in Occurrences |-> None] /\ result = [o \in Occurrences |-> None]
    /\ note = [o \in Occurrences |-> None] /\ alerts = [o \in Occurrences |-> 0]
    /\ agent = [a \in Agents |-> None]
    /\ board = [d \in Days |-> FALSE] /\ handoff = [d \in Days |-> None]
    /\ queue = [d \in Days |-> None] /\ topics = {}
    /\ pair = [d \in Days |-> [raw |-> 0, report |-> 0]]
    /\ request = [c \in Candidates |-> None] /\ work = [c \in Candidates |-> None]
    /\ child = {} /\ drafts = [c \in Candidates |-> 0] /\ sent = [c \in Candidates |-> None]
    /\ crashes = 0
-----------------------------------------------------------------------------
(* One wake-up, one occurrence, one result.                                *)

\* The latest slot of the observation's own day: missed slots coalesce and
\* nothing is due before the day's first.
Due(job, t) == {s \in Slots[job] : Day(t) * DayLength + s <= t}
Resolve(job, t) == <<job, Day(t) * DayLength + CHOOSE s \in Due(job, t) : \A u \in Due(job, t) : u <= s>>

Job(w) == run[w].occ[1]
DayOf(w) == Day(run[w].occ[2])
Goto(w, pc) == run' = [run EXCEPT ![w].pc = pc]

\* A slot is due, or the wake-up came too early and does nothing.
WakeUp(w) ==
    /\ agenda # <<>> /\ run[w].pc = "idle"
    /\ LET call == Head(agenda)
       IN  run' = IF Due(call.job, call.at) = {} THEN run
                  ELSE [run EXCEPT ![w] = [IdleRun EXCEPT !.pc = "lock",
                                              !.occ = Resolve(call.job, call.at)]]
    /\ agenda' = Tail(agenda) /\ now' = Head(agenda).at
    /\ UNCHANGED <<occurrences, notices, desk, pair, stories, crashes>>

FirstStep(job) == CASE job = "morning" -> "attempt" [] job = "story" -> "prove" [] OTHER -> "collect"

\* Mutant: the lock is not waited for, and no result is looked for.
AcquireShared(w) ==
    /\ run[w].pc = "lock"
    /\ holder' = [holder EXCEPT ![run[w].occ] = w]
    /\ Goto(w, FirstStep(Job(w)))
    /\ UNCHANGED <<agenda, now, result, notices, desk, pair, stories, crashes>>

\* The flock admits one process, which finds the persisted result or runs the
\* workflow.  Story keeps the lock until its alert is out, the others do not.
Acquire(w) ==
    LET o == run[w].occ
    IN  /\ run[w].pc = "lock" /\ holder[o] = None
        /\ IF result[o] = None
           THEN holder' = [holder EXCEPT ![o] = w] /\ Goto(w, FirstStep(Job(w)))
           ELSE /\ holder' = [holder EXCEPT ![o] = IF Job(w) = "story" THEN w ELSE None]
                /\ Goto(w, "notify")
        /\ UNCHANGED <<agenda, now, result, notices, desk, pair, stories, crashes>>

Succeeded(artifacts) == [domain |-> "SUCCEEDED", artifacts |-> artifacts]
Unhealthy(domain) == [domain |-> domain, artifacts |-> {}]
Conclude(w, outcome) == run' = [run EXCEPT ![w] = [@ EXCEPT !.pc = "emit", !.outcome = outcome]]

\* emit_result_once: the first result of a run stands.
Emit(w) ==
    LET o == run[w].occ
    IN  /\ run[w].pc = "emit"
        /\ result' = [result EXCEPT ![o] = IF @ = None THEN run[w].outcome ELSE @]
        /\ holder' = [holder EXCEPT ![o] = IF Job(w) = "story" THEN @ ELSE None]
        /\ Goto(w, "notify")
        /\ UNCHANGED <<agenda, now, notices, desk, pair, stories, crashes>>

\* The process ends and gives up the run lock, if it has it.
Leave(w) ==
    /\ run' = [run EXCEPT ![w] = IdleRun]
    /\ holder' = [o \in Occurrences |-> IF holder[o] = w THEN None ELSE holder[o]]

\* BLOCKED, FAILED and UNKNOWN are actionable, success in any form is not.
Actionable(o) == result[o].domain # "SUCCEEDED"

\* Mutant: the attempt is recorded once its end is known.
ReserveLater(w) ==
    /\ run[w].pc = "notify"
    /\ IF Actionable(run[w].occ) /\ note[run[w].occ] = None
       THEN Goto(w, "send") /\ UNCHANGED <<holder, note>>
       ELSE Leave(w) /\ UNCHANGED note
    /\ UNCHANGED <<agenda, now, result, alerts, desk, pair, stories, crashes>>

\* notify_if_required: one attempt for a failure identity, reserved before the
\* send; a record in any state forbids another.  (A second caller waits for
\* the identity's lock and then finds the record, or finds it at once.)
Reserve(w) ==
    LET o == run[w].occ
    IN  /\ run[w].pc = "notify"
        /\ IF Actionable(o) /\ note[o] = None
           THEN note' = [note EXCEPT ![o] = "PENDING"] /\ Goto(w, "send") /\ UNCHANGED holder
           ELSE Leave(w) /\ UNCHANGED note
        /\ UNCHANGED <<agenda, now, result, alerts, desk, pair, stories, crashes>>

\* The command sends, or fails before it could.
Send(w) ==
    LET o == run[w].occ
    IN  /\ run[w].pc = "send"
        /\ \/ alerts' = [alerts EXCEPT ![o] = @ + 1]
           \/ UNCHANGED alerts
        /\ Goto(w, "record")
        /\ UNCHANGED <<agenda, now, occurrences, note, desk, pair, stories, crashes>>

\* A timeout leaves UNKNOWN: the message may have gone out.
Record(w) ==
    /\ run[w].pc = "record"
    /\ \E state \in {"SENT", "UNKNOWN", "FAILED"} : note' = [note EXCEPT ![run[w].occ] = state]
    /\ Leave(w)
    /\ UNCHANGED <<agenda, now, result, alerts, desk, pair, stories, crashes>>
-----------------------------------------------------------------------------
(* Morning Editorial.                                                      *)

HandoffReady(d) == handoff[d] # None
Valid(d) == handoff[d] \in Handoffs

\* No provider call once both artifacts are there.
Attempt(w) ==
    /\ run[w].pc = "attempt"
    /\ IF board[DayOf(w)] /\ HandoffReady(DayOf(w))
       THEN Goto(w, "persist") /\ UNCHANGED agent
       ELSE /\ run' = [run EXCEPT ![w] = [@ EXCEPT !.pc = "agent", !.tries = run[w].tries + 1]]
            /\ agent' = [agent EXCEPT ![w] = [day |-> DayOf(w), todo |-> {"board", "handoff"}]]
    /\ UNCHANGED <<agenda, now, occurrences, notices, board, handoff, queue, topics, pair, stories, crashes>>

\* An agent, its parent alive or not, writes an artifact: in part, wrong or well.
AgentWrites(a) ==
    /\ agent[a] # None
    /\ LET d == agent[a].day
       IN  \/ /\ "board" \in agent[a].todo
              /\ board' = [board EXCEPT ![d] = TRUE] /\ UNCHANGED handoff
              /\ agent' = [agent EXCEPT ![a].todo = @ \ {"board"}]
           \/ /\ "handoff" \in agent[a].todo
              /\ \E h \in Handoffs \cup {Invalid} : handoff' = [handoff EXCEPT ![d] = h]
              /\ UNCHANGED board
              /\ agent' = [agent EXCEPT ![a].todo = @ \ {"handoff"}]
    /\ UNCHANGED <<agenda, now, run, occurrences, notices, queue, topics, pair, stories, crashes>>

\* The call returns, or fails: a failure after any artifact exists is judged by
\* the artifacts, an unreachable provider that left none is called again, any
\* other failure is the result.
AgentEnds(w) ==
    LET d == DayOf(w)
        progress == board[d] \/ HandoffReady(d)
    IN  /\ run[w].pc = "agent"
        /\ \E verdict \in {"returned", "unreachable", "failed"} :
             IF verdict = "returned" \/ progress THEN Goto(w, "persist")
             ELSE IF verdict = "unreachable" /\ run[w].tries < MaxAttempts THEN Goto(w, "attempt")
             ELSE Conclude(w, Unhealthy("FAILED"))
        /\ agent' = [agent EXCEPT ![w] = None]
        /\ UNCHANGED <<agenda, now, occurrences, notices, board, handoff, queue, topics, pair, stories, crashes>>

StrayEnds ==
    /\ agent[Stray] # None
    /\ agent' = [agent EXCEPT ![Stray] = None]
    /\ UNCHANGED <<agenda, now, run, occurrences, notices, board, handoff, queue, topics, pair, stories, crashes>>

\* The candidates a handoff has for the queue, and its rows for the ledger.
Queueable(h) == {h[i].cand : i \in {j \in DOMAIN h : h[j].status \in QueuedStatuses}}
RowsOf(d, h) == {<<d, h[i].cand, h[i].status \in QueuedStatuses>> : i \in DOMAIN h}
Queued == UNION {queue[d] : d \in {e \in Days : queue[e] # None}}

\* An incomplete or invalid set of artifacts fails; otherwise the day's section
\* is appended, unless it is there or there is nothing to queue, with the
\* queueable candidates not yet in the queue.
PersistQueue(w) ==
    LET d == DayOf(w)
    IN  /\ run[w].pc = "persist"
        /\ IF ~board[d] \/ ~Valid(d) THEN Conclude(w, Unhealthy("FAILED")) /\ UNCHANGED queue
           ELSE /\ run' = [run EXCEPT ![w] = [@ EXCEPT !.pc = "rows", !.bound = handoff[d]]]
                /\ queue' = IF queue[d] # None \/ Queueable(handoff[d]) = {} THEN queue
                            ELSE [queue EXCEPT ![d] = Queueable(handoff[d]) \ Queued]
        /\ UNCHANGED <<agenda, now, occurrences, notices, agent, board, handoff, topics, pair, stories, crashes>>

\* Then a topic row for each candidate of the same snapshot, queued or not: the
\* first row of a date and a candidate stands.
PersistRows(w) ==
    /\ run[w].pc = "rows"
    /\ topics' = topics \cup {row \in RowsOf(DayOf(w), run[w].bound) :
                                 \A q \in BOOLEAN : <<row[1], row[2], q>> \notin topics}
    /\ Conclude(w, Succeeded({"board", "handoff"}))
    /\ UNCHANGED <<agenda, now, occurrences, notices, agent, board, handoff, queue, pair, stories, crashes>>
-----------------------------------------------------------------------------
(* Story.                                                                  *)

MorningOf(d) == <<"morning", d * DayLength + CHOOSE s \in Slots["morning"] : TRUE>>
MorningProven(d) ==
    /\ result[MorningOf(d)] # None
    /\ result[MorningOf(d)].domain = "SUCCEEDED"
    /\ {"board", "handoff"} \subseteq result[MorningOf(d)].artifacts

IsConsumed(c) == work[c] # None /\ work[c].creates > 0

\* The best ranked candidate for Story whose one draft attempt is not consumed.
FirstLeft(h) ==
    LET left == {i \in DOMAIN h : /\ h[i].story /\ h[i].status = "READY"
                                  /\ ~IsConsumed(h[i].cand)}
    IN  IF left = {} THEN None ELSE h[CHOOSE i \in left : \A j \in left : i <= j].cand

\* Mutant: a handoff on disk is proof enough.
ProveByFile(w) ==
    LET d == DayOf(w)
    IN  /\ run[w].pc = "prove"
        /\ IF Valid(d)
           THEN /\ run' = [run EXCEPT ![w] = [@ EXCEPT !.pc = "cadence", !.bound = FirstLeft(handoff[d])]]
                /\ UNCHANGED holder
           ELSE Leave(w)
        /\ UNCHANGED <<agenda, now, result, notices, desk, pair, stories, crashes>>

\* Without that day's successful Morning, or its handoff, the run ends and
\* leaves no result: a later wake-up of the slot tries again.
Prove(w) ==
    LET d == DayOf(w)
    IN  /\ run[w].pc = "prove"
        /\ IF MorningProven(d) /\ Valid(d)
           THEN /\ run' = [run EXCEPT ![w] = [@ EXCEPT !.pc = "cadence", !.bound = FirstLeft(handoff[d])]]
                /\ UNCHANGED holder
           ELSE Leave(w)
        /\ UNCHANGED <<agenda, now, result, notices, desk, pair, stories, crashes>>

\* A stored draft that waits for a decision blocks on the day it was made.
IsPending(c, today) ==
    work[c] # None /\ work[c].review = "DRAFT_CREATED" /\ work[c].pub = "NOT_REQUESTED"
    /\ work[c].made = today
PublishedOn(c, today) == work[c] # None /\ work[c].pub = "PUBLISHED" /\ work[c].pubday = today

\* evaluate_cadence for a caller without main candidates: a gap in today's
\* Stories and none pending.
StoryGap(today) ==
    /\ {c \in Candidates : IsPending(c, today)} = {}
    /\ Cardinality({c \in Candidates : PublishedOn(c, today)}) < StoryTarget

\* Spacing and quiet hours may say no as well; unreadable state ends the run.
Cadence(w) ==
    /\ run[w].pc = "cadence"
    /\ \/ /\ run[w].bound # None /\ StoryGap(Day(now))
          /\ Goto(w, "request") /\ UNCHANGED holder
       \/ Conclude(w, Succeeded({})) /\ UNCHANGED holder
       \/ Leave(w)
    /\ UNCHANGED <<agenda, now, result, notices, desk, pair, stories, crashes>>

\* Under the request lock: a consumed manifest blocks, an untouched one is used
\* again, otherwise text, picture and manifest are made, or refused; the bridge
\* is started, or is busy with an earlier call for the same manifest.
Request(w) ==
    LET c == run[w].bound
    IN  /\ run[w].pc = "request" /\ request[c] = None
        /\ IF IsConsumed(c)
           THEN Conclude(w, Unhealthy("BLOCKED")) /\ UNCHANGED <<request, work, child>>
           ELSE \/ /\ request' = [request EXCEPT ![c] = w]
                   /\ work' = [work EXCEPT ![c] = IF @ = None THEN NewManifest ELSE @]
                   /\ child' = child \cup {c}
                   /\ Goto(w, IF c \in child THEN "look" ELSE "bridge")
                \/ /\ work[c] = None
                   /\ Conclude(w, Unhealthy("FAILED")) /\ UNCHANGED <<request, work, child>>
        /\ UNCHANGED <<agenda, now, occurrences, notices, desk, pair, drafts, sent, crashes>>

\* The bridge consumes the attempt and calls Zernio, or ends; its answer is
\* recorded, or it dies with the attempt in flight.
BridgeCalls(c) ==
    /\ c \in child /\ work[c].creates = 0
    /\ work' = [work EXCEPT ![c] = [@ EXCEPT !.review = "CREATE_IN_FLIGHT", !.creates = 1]]
    /\ drafts' = [drafts EXCEPT ![c] = @ + 1]
    /\ UNCHANGED <<agenda, now, run, occurrences, notices, desk, pair, request, child, sent, crashes>>

\* Mutant: the bridge has no deadline and ends with an answer only.
BridgeAnswers(c) ==
    /\ c \in child /\ work[c].creates = 1
    /\ child' = child \ {c}
    /\ \E review \in {"DRAFT_CREATED", "REVIEW_UNKNOWN"} : work' = [work EXCEPT ![c].review = review]
    /\ UNCHANGED <<agenda, now, run, occurrences, notices, desk, pair, request, drafts, sent, crashes>>
BridgeEnds(c) ==
    /\ c \in child
    /\ child' = child \ {c}
    /\ \/ UNCHANGED work
       \/ /\ work[c].creates = 1
          /\ \E review \in {"DRAFT_CREATED", "REVIEW_UNKNOWN"} :
                work' = [work EXCEPT ![c].review = review]
    /\ UNCHANGED <<agenda, now, run, occurrences, notices, desk, pair, request, drafts, sent, crashes>>
Connected(w) ==
    /\ run[w].pc = "bridge" /\ run[w].bound \notin child
    /\ Goto(w, "look")
    /\ UNCHANGED <<agenda, now, occurrences, notices, desk, pair, stories, crashes>>

\* The manifest is the truth whatever the bridge said.
Look(w) ==
    LET c == run[w].bound
    IN  /\ run[w].pc = "look"
        /\ IF work[c].review = "DRAFT_CREATED" THEN Goto(w, "preview") /\ UNCHANGED request
           ELSE Conclude(w, Unhealthy("FAILED")) /\ request' = [request EXCEPT ![c] = None]
        /\ UNCHANGED <<agenda, now, occurrences, notices, desk, pair, work, child, drafts, sent, crashes>>

\* Mutant: a preview without proof of delivery counts as shown.
PreviewOptimist(w) ==
    LET c == run[w].bound
    IN  /\ run[w].pc = "preview"
        /\ \E proof \in {"SENT", "UNSENT"} : sent' = [sent EXCEPT ![c] = proof]
        /\ Conclude(w, Succeeded({c}))
        /\ request' = [request EXCEPT ![c] = None]
        /\ UNCHANGED <<agenda, now, occurrences, notices, desk, pair, work, child, drafts, crashes>>

\* One preview; a draft counts as success only with proof that it was shown.
Preview(w) ==
    LET c == run[w].bound
    IN  /\ run[w].pc = "preview"
        /\ \E proof \in {"SENT", "UNSENT"} :
              /\ sent' = [sent EXCEPT ![c] = proof]
              /\ Conclude(w, IF proof = "SENT" THEN Succeeded({c}) ELSE Unhealthy("FAILED"))
        /\ request' = [request EXCEPT ![c] = None]
        /\ UNCHANGED <<agenda, now, occurrences, notices, desk, pair, work, child, drafts, crashes>>

\* The owner's decision on a draft: published today, or failed.
Owner(c) ==
    /\ sent[c] # None /\ work[c].pub = "NOT_REQUESTED"
    /\ \E pub \in {"PUBLISHED", "FAILED"} :
          work' = [work EXCEPT ![c] = [@ EXCEPT !.pub = pub, !.pubday = Day(now)]]
    /\ UNCHANGED <<agenda, now, run, occurrences, notices, desk, pair, request, child, drafts, sent, crashes>>
-----------------------------------------------------------------------------
(* Daily Analytics.                                                        *)

\* The read-only connector refuses, answers nonsense, has nothing, or answers.
Collect(w) ==
    /\ run[w].pc = "collect"
    /\ \/ \E domain \in {"BLOCKED", "FAILED"} : Conclude(w, Unhealthy(domain))
       \/ Conclude(w, Succeeded({}))
       \/ run' = [run EXCEPT ![w] = [@ EXCEPT !.pc = "raw", !.kept = pair[DayOf(w)]]]
    /\ UNCHANGED <<agenda, now, occurrences, notices, desk, pair, stories, crashes>>

\* Both files are staged; each is then replaced atomically.  A failed second
\* replacement restores the first.
Edition(w) == 1 + run[w].kept.raw
CommitRaw(w) ==
    /\ run[w].pc = "raw"
    /\ \/ pair' = [pair EXCEPT ![DayOf(w)].raw = Edition(w)] /\ Goto(w, "report")
       \/ Conclude(w, Unhealthy("FAILED")) /\ UNCHANGED pair
    /\ UNCHANGED <<agenda, now, occurrences, notices, desk, stories, crashes>>
CommitReport(w) ==
    /\ run[w].pc = "report"
    /\ \/ /\ pair' = [pair EXCEPT ![DayOf(w)].report = Edition(w)]
          /\ Conclude(w, Succeeded({"raw", "report"}))
       \/ /\ pair' = [pair EXCEPT ![DayOf(w)] = run[w].kept]
          /\ Conclude(w, Unhealthy("FAILED"))
    /\ UNCHANGED <<agenda, now, occurrences, notices, desk, stories, crashes>>
-----------------------------------------------------------------------------
(* The environment and the specification.                                  *)

\* The process is killed, or an exception ends it without a result: its locks
\* are gone, its agent and its bridge are not.
Crash(w) ==
    /\ run[w].pc \notin {"idle", "lock"} /\ crashes < MaxCrashes
    /\ agent[w] = None \/ agent[Stray] = None
    /\ Leave(w)
    /\ request' = [c \in Candidates |-> IF request[c] = w THEN None ELSE request[c]]
    /\ agent' = IF agent[w] = None THEN agent
                ELSE [agent EXCEPT ![Stray] = agent[w], ![w] = None]
    /\ crashes' = crashes + 1
    /\ UNCHANGED <<agenda, now, result, notices, board, handoff, queue, topics, pair,
                   work, child, drafts, sent>>

RunStep(w) == Acquire(w) \/ Emit(w) \/ Reserve(w) \/ Send(w) \/ Record(w)
MorningStep(w) == Attempt(w) \/ AgentEnds(w) \/ PersistQueue(w) \/ PersistRows(w)
StoryStep(w) == \/ Prove(w) \/ Cadence(w) \/ Request(w)
                \/ Connected(w) \/ Look(w) \/ Preview(w)
AnalyticsStep(w) == Collect(w) \/ CommitRaw(w) \/ CommitReport(w)

Progress ==
    \/ \E w \in Wakers : RunStep(w) \/ MorningStep(w) \/ StoryStep(w) \/ AnalyticsStep(w)
    \/ \E c \in Candidates : BridgeEnds(c)

Next ==
    \/ Progress
    \/ \E w \in Wakers : WakeUp(w) \/ Crash(w)
    \/ \E c \in Candidates : BridgeCalls(c) \/ Owner(c)
    \/ \E a \in Agents : AgentWrites(a)
    \/ StrayEnds

Spec == Init /\ [][Next]_vars

\* Every call a run waits for has a deadline: while some run is under way, one
\* of the processes moves.
FairSpec == Spec /\ WF_vars(Progress)
-----------------------------------------------------------------------------
(* Properties.                                                             *)

\* The operator hears of a failure at most once, however often its occurrence is
\* woken and whoever dies in between, and never of a run that has not failed.
ToldOnce ==
    \A o \in Occurrences : alerts[o] > 0 =>
        alerts[o] = 1 /\ result[o] # None /\ Actionable(o) /\ note[o] # None

\* The day's handoff is recorded: its queueable candidates are in the queue, and
\* each of its candidates has the ledger row that says whether it is.
Recorded(d) == Queueable(handoff[d]) \subseteq Queued /\ RowsOf(d, handoff[d]) \subseteq topics

\* A row that says of a candidate of the day that it is queued has its section.
SectionWritten(d) == (\E c \in Candidates : <<d, c, TRUE>> \in topics) => queue[d] # None

\* A success stands for its artifacts: Morning's board and handoff are there and
\* the handoff is recorded, Story's draft was made and shown, and the analytics
\* files are of one edition.  (A Morning without anything to queue succeeds and
\* writes no section.  An agent that outlived a killed Morning may replace the
\* handoff after it was recorded: then the section of the rows is what is left.)
SucceededIsBacked ==
    \A o \in Occurrences : result[o] # None /\ result[o].domain = "SUCCEEDED" =>
        LET d == Day(o[2])
            art == result[o].artifacts
        IN  /\ "board" \in art => /\ board[d] /\ HandoffReady(d) /\ SectionWritten(d)
                                  /\ crashes = 0 => Recorded(d)
            /\ "raw" \in art => pair[d].raw = pair[d].report
            /\ \A c \in art \cap Candidates : drafts[c] = 1 /\ sent[c] = "SENT"

\* A Story is drafted at most once, and only for a day whose Morning succeeded,
\* queued it and said so on the ledger.  (An agent that outlived a killed Morning
\* may replace the handoff afterwards; apart from such days every draft was queued.)
DraftsAreProven ==
    \A c \in Candidates :
        /\ drafts[c] <= 1
        /\ drafts[c] = 1 => \E d \in Days :
             /\ MorningProven(d)
             /\ crashes = 0 => c \in Queued /\ <<d, c, TRUE>> \in topics

\* A Story's review draft is promised once, and so are an occurrence's outcome
\* and its alert: every step, of whichever process, keeps both promises.
ReviewOf(c) == IF work[c] = None THEN "NOT_CREATED" ELSE work[c].review
Failure == [domain : {"BLOCKED", "FAILED"}, artifacts : SUBSET Artifacts]

Drafting == INSTANCE OneReviewDraft WITH
    Works <- Candidates, review <- [c \in Candidates |-> ReviewOf(c)]
Telling == INSTANCE OneOutcome WITH
    Runs <- Occurrences, Outcomes <- Outcome, Failures <- Failure,
    outcome <- result, reserved <- {o \in Occurrences : note[o] # None}
ImplementsPromises == Drafting!Spec /\ Telling!Spec

\* Every run comes to its end, and with it the waiting for its locks.
EveryRunEnds == \A w \in Wakers : []<>(run[w].pc = "idle")

(***************************************************************************)
(* The inductive invariant: the types of the stores, what a process knows  *)
(* by its place in the code, and what each store says of the others.       *)
(***************************************************************************)
MorningAt == {"attempt", "agent", "persist", "rows"}
StoryAt == {"prove", "cadence", "request", "bridge", "look", "preview"}
AnalyticsAt == {"collect", "raw", "report"}
Locked == MorningAt \cup StoryAt \cup AnalyticsAt \cup {"emit"}
Connecting == {"bridge", "look", "preview"}

Pair == [raw : Nat, report : Nat]
RunRecord == [pc : Locked \cup {"idle", "lock", "notify", "send", "record"},
              occ : Occurrences \cup {None}, tries : Nat,
              bound : Handoffs \cup Candidates \cup {None}, kept : Pair \cup {None},
              outcome : Outcome \cup {None}]

\* The types of the stores and of the processes.
TypeOK ==
    /\ agenda \in Seq([job : Jobs, at : AgendaTimes]) /\ now \in Nat /\ crashes \in Nat
    /\ run \in [Wakers -> RunRecord]
    /\ holder \in [Occurrences -> Wakers \cup {None}]
    /\ result \in [Occurrences -> Outcome \cup {None}]
    /\ note \in [Occurrences -> NoteStates \cup {None}] /\ alerts \in [Occurrences -> Nat]
    /\ agent \in [Agents -> AgentWork \cup {None}]
    /\ board \in [Days -> BOOLEAN] /\ handoff \in [Days -> Handoffs \cup {None, Invalid}]
    /\ queue \in [Days -> (SUBSET Candidates) \cup {None}] /\ topics \subseteq Days \X Candidates \X BOOLEAN
    /\ pair \in [Days -> Pair]
    /\ request \in [Candidates -> Wakers \cup {None}]
    /\ work \in [Candidates -> Manifest \cup {None}] /\ child \subseteq Candidates
    /\ drafts \in [Candidates -> Nat]
    /\ sent \in [Candidates -> {None, "SENT", "UNSENT"}]

\* What a successful outcome of an occurrence stands for.
Backed(o, outcome) == outcome.domain = "SUCCEEDED" =>
    LET d == Day(o[2])
        art == outcome.artifacts
    IN  /\ "board" \in art => /\ o[1] = "morning" /\ board[d] /\ HandoffReady(d)
                              /\ crashes = 0 => Recorded(d)
        /\ "raw" \in art => o[1] = "analytics" /\ pair[d].raw = pair[d].report
        /\ \A c \in art \cap Candidates : drafts[c] = 1 /\ sent[c] = "SENT"

\* A candidate that may be drafted: a Morning proved it.
Proven(c) == \E d \in Days :
    /\ MorningProven(d)
    /\ crashes = 0 => c \in Queued /\ <<d, c, TRUE>> \in topics

\* A process under way works on an occurrence; inside the run lock it is the
\* holder, there is no result yet and the step is one of the occurrence's job;
\* behind the lock there is one, and its alert is reserved before it is sent.
RunFacts(w) ==
    LET pc == run[w].pc
        o == run[w].occ
    IN  pc # "idle" =>
        /\ o \in Occurrences /\ Day(now) \in Days
        /\ pc \in Locked => holder[o] = w /\ result[o] = None
        /\ pc \in MorningAt => o[1] = "morning"
        /\ pc \in StoryAt => o[1] = "story"
        /\ pc \in AnalyticsAt => o[1] = "analytics"
        /\ pc \in {"notify", "send", "record"} => result[o] # None
        /\ pc \in {"send", "record"} => note[o] # None
        /\ pc = "emit" => run[w].outcome \in Outcome /\ Backed(o, run[w].outcome)

\* The alert of an occurrence is reserved by the one process about to send it.
SendFacts(w) ==
    LET o == run[w].occ
    IN  run[w].pc = "send" =>
        /\ result[o] # None /\ Actionable(o) /\ note[o] # None /\ alerts[o] = 0
        /\ \A v \in Wakers \ {w} : run[v].pc = "send" => run[v].occ # o

\* An agent of a live Morning writes for its parent's day while the parent
\* waits for it; without a crash no other agent is left.
AgentFacts ==
    /\ \A w \in Wakers : agent[w] # None => run[w].pc = "agent" /\ agent[w].day = DayOf(w)
    /\ crashes = 0 => agent[Stray] = None

MorningFacts(w) ==
    LET d == DayOf(w)
    IN  run[w].pc = "rows" =>
        /\ board[d] /\ run[w].bound \in Handoffs /\ HandoffReady(d)
        /\ Queueable(run[w].bound) # {} => queue[d] # None
        /\ crashes = 0 => /\ run[w].bound = handoff[d] /\ Queueable(handoff[d]) \subseteq Queued
                          /\ \A row \in topics : row[1] # d

\* A row of a queued candidate has its section.  Without a crash the day's
\* section and rows are written by the run whose result stands.
QueueFacts(d) ==
    /\ SectionWritten(d)
    /\ crashes = 0 /\ (queue[d] # None \/ \E row \in topics : row[1] = d) =>
         \/ result[MorningOf(d)] # None
         \/ \E w \in Wakers : run[w].pc \in {"rows", "emit"} /\ run[w].occ = MorningOf(d)

StoryFacts(w) ==
    LET pc == run[w].pc
        c == run[w].bound
    IN  /\ pc \in {"cadence", "request"} => c \in Candidates \cup {None}
        /\ pc \in {"cadence", "request"} /\ c # None => Proven(c)
        /\ pc = "request" => c # None
        /\ pc \in Connecting => c \in Candidates /\ request[c] = w /\ work[c] # None
        /\ pc = "preview" => work[c].creates = 1

\* One process at most is between a request's lock and its release; a draft is
\* made once, and nobody previews it a second time.
WorkFacts(c) ==
    /\ request[c] # None => run[request[c]].pc \in Connecting /\ run[request[c]].bound = c
    /\ work[c] = None => drafts[c] = 0 /\ c \notin child /\ sent[c] = None
    /\ work[c] # None => /\ drafts[c] = work[c].creates /\ Day(now) \in Days /\ Proven(c)
                         /\ work[c].creates = 0 => work[c].review = "NOT_CREATED"
                         /\ c \in child /\ work[c].creates = 1 => work[c].review = "CREATE_IN_FLIGHT"
    /\ sent[c] # None => work[c].creates = 1 /\ request[c] = None

AnalyticsFacts(w) ==
    /\ run[w].pc \in {"raw", "report"} => run[w].kept \in Pair
    /\ run[w].pc = "report" => pair[DayOf(w)].raw = Edition(w)

\* What holds in every state: each part is needed to keep another one.
IInv ==
    /\ TypeOK /\ AgentFacts
    /\ \A w \in Wakers : /\ RunFacts(w) /\ SendFacts(w) /\ MorningFacts(w)
                         /\ StoryFacts(w) /\ AnalyticsFacts(w)
    /\ \A c \in Candidates : WorkFacts(c)
    /\ \A d \in Days : QueueFacts(d)
    /\ \A o \in Occurrences : result[o] # None => Backed(o, result[o])
    /\ ToldOnce
=============================================================================
