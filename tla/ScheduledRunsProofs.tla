-------------------------- MODULE ScheduledRunsProofs --------------------------
(***************************************************************************)
(* One alert for a failure, a success that stands for its artifacts and a  *)
(* Story drafted once, from a Morning that succeeded: proved of Spec for   *)
(* any wake-ups, processes, slots and candidates.                          *)
(***************************************************************************)
EXTENDS ScheduledRuns, FiniteSetTheorems, WellFoundedInduction, TLAPS

(***************************************************************************)
(* Slots, days and rankings.                                               *)
(***************************************************************************)

\* A set of naturals has a least element,
LEMMA Least ==
    ASSUME NEW S \in SUBSET Nat, S # {}
    PROVE \E n \in S : \A m \in S : n <= m
<1> DEFINE R == {ss \in Nat \X Nat : ss[1] < ss[2]}
<1>1. IsWellFoundedOn(R, Nat)
  BY NatLessThanWellFounded DEF OpToRel
<1>2. PICK n \in S : \A m \in S : ~ (<<m, n>> \in R)
  <2> HIDE DEF R
  <2> QED BY <1>1, WFMin
<1>3. ASSUME NEW m \in S PROVE n <= m
  <2>1. ~ (m < n)
    BY <1>2
  <2> QED BY <2>1
<1> QED BY <1>3

\* and a bounded one a greatest.
LEMMA Greatest ==
    ASSUME NEW n \in Nat, NEW S \in SUBSET (0..n), S # {}
    PROVE \E x \in S : \A y \in S : y <= x
<1> DEFINE T == {n - x : x \in S}
<1>1. \A x \in S : x \in 0..n /\ n - x \in Nat
  OBVIOUS
<1>2. T \in SUBSET Nat /\ T # {}
  BY <1>1
<1>3. PICK k \in T : \A m \in T : k <= m
  <2> HIDE DEF T
  <2> QED BY <1>2, Least
<1>4. PICK x \in S : k = n - x
  OBVIOUS
<1>5. ASSUME NEW y \in S PROVE y <= x
  <2>1. n - x <= n - y
    BY <1>3, <1>4
  <2> QED BY <1>1, <2>1
<1> QED BY <1>5

LEMMA SlotIsInDay ==
    ASSUME NEW job \in Jobs
    PROVE Slots[job] \in SUBSET (0..(DayLength - 1)) /\ DayLength \in Nat \ {0}
BY ScheduleAssumption

LEMMA ElementOf ==
    ASSUME NEW S, NEW a \in Seq(S), NEW i \in DOMAIN a
    PROVE a[i] \in S
<1>1. i \in 1..Len(a)
  OBVIOUS
<1> QED BY <1>1

LEMMA TimesAreNatural == AgendaTimes \subseteq Nat
<1>1. ASSUME NEW a \in Agendas, NEW i \in DOMAIN a PROVE a[i].at \in Nat
  <2>1. a \in Seq([job : Jobs, at : Nat])
    BY ScheduleAssumption
  <2>2. a[i] \in [job : Jobs, at : Nat]
    BY <2>1, ElementOf
  <2> QED BY <2>2
<1> QED BY <1>1 DEF AgendaTimes

\* A slot of a day is a time of that day.
LEMMA DayOfSlot ==
    ASSUME NEW job \in Jobs, NEW d \in Nat, NEW s \in Slots[job]
    PROVE Day(d * DayLength + s) = d
<1>1. DayLength \in Nat \ {0} /\ s \in 0..(DayLength - 1)
  BY SlotIsInDay
<1> QED BY <1>1 DEF Day

LEMMA DaysAreNatural == Days \subseteq Nat
<1>1. DayLength \in Nat \ {0}
  BY ScheduleAssumption
<1> QED BY <1>1, TimesAreNatural DEF Days, Day

\* What an occurrence is made of.
LEMMA OccurrenceHasSlot ==
    ASSUME NEW o \in Occurrences
    PROVE /\ \E job \in Jobs, d \in Days : \E s \in Slots[job] : o = <<job, d * DayLength + s>>
          /\ o[1] \in Jobs /\ Day(o[2]) \in Days
<1>1. PICK job \in Jobs, d \in Days : \E s \in Slots[job] : o = <<job, d * DayLength + s>>
  BY DEF Occurrences
<1>2. \A s \in Slots[job] : Day(d * DayLength + s) = d
  BY DayOfSlot, DaysAreNatural
<1> QED BY <1>1, <1>2

LEMMA SlotIsOccurrence ==
    ASSUME NEW job \in Jobs, NEW d \in Days, NEW s \in Slots[job]
    PROVE <<job, d * DayLength + s>> \in Occurrences
BY DEF Occurrences

LEMMA OneSlot ==
    ASSUME NEW job \in {"morning", "analytics"}
    PROVE \E s : Slots[job] = {s}
<1>1. job \in Jobs /\ Cardinality(Slots[job]) = 1
  BY ScheduleAssumption
<1>2. Slots[job] \in SUBSET (0..(DayLength - 1)) /\ DayLength - 1 \in Int
  BY <1>1, SlotIsInDay
<1> QED BY <1>1, <1>2, FS_Interval, FS_Subset, FS_Singleton, 0 \in Int

\* Morning and Analytics have one occurrence a day.
LEMMA OneADay ==
    ASSUME NEW o \in Occurrences, NEW p \in Occurrences, o[1] = p[1],
           o[1] \in {"morning", "analytics"}, Day(o[2]) = Day(p[2])
    PROVE o = p
<1>1. PICK d \in Days : \E s \in Slots[o[1]] : o = <<o[1], d * DayLength + s>>
  BY OccurrenceHasSlot
<1>2. PICK e \in Days : \E s \in Slots[o[1]] : p = <<o[1], e * DayLength + s>>
  BY OccurrenceHasSlot
<1>3. o[1] \in Jobs
  BY OccurrenceHasSlot
<1>4. d = Day(o[2]) /\ e = Day(p[2])
  BY <1>1, <1>2, <1>3, DayOfSlot, DaysAreNatural
<1> QED BY <1>1, <1>2, <1>4, OneSlot

LEMMA MorningIsOccurrence ==
    ASSUME NEW d \in Days
    PROVE /\ MorningOf(d) \in Occurrences /\ MorningOf(d)[1] = "morning"
          /\ Day(MorningOf(d)[2]) = d
<1> DEFINE s == CHOOSE s \in Slots["morning"] : TRUE
<1>1. "morning" \in Jobs /\ s \in Slots["morning"]
  BY OneSlot, ScheduleAssumption
<1>2. MorningOf(d) = <<"morning", d * DayLength + s>>
  BY DEF MorningOf
<1> HIDE DEF s
<1> QED BY <1>1, <1>2, SlotIsOccurrence, DayOfSlot, DaysAreNatural

\* The slot a wake-up resolves to is one of its day.
LEMMA ResolvedIsOccurrence ==
    ASSUME NEW job \in Jobs, NEW t, Day(t) \in Days, Due(job, t) # {}
    PROVE Resolve(job, t) \in Occurrences
<1>1. DayLength - 1 \in Nat /\ Due(job, t) \in SUBSET (0..(DayLength - 1))
  BY SlotIsInDay DEF Due
<1>2. \E s \in Due(job, t) : \A u \in Due(job, t) : u <= s
  BY <1>1, Greatest
<1>3. (CHOOSE s \in Due(job, t) : \A u \in Due(job, t) : u <= s) \in Slots[job]
  BY <1>2 DEF Due
<1> QED BY <1>3, SlotIsOccurrence DEF Resolve

LEMMA RankedAreCandidates ==
    ASSUME NEW h \in Handoffs
    PROVE /\ DOMAIN h \in SUBSET Nat /\ \A i \in DOMAIN h : h[i] \in Entry
          /\ Queueable(h) \in SUBSET Candidates
<1>1. h \in Seq(Entry)
  BY ScheduleAssumption
<1>2. \A i \in DOMAIN h : h[i] \in Entry
  BY <1>1, ElementOf
<1>3. \A i \in DOMAIN h : h[i].cand \in Candidates
  BY <1>2 DEF Entry
<1> QED BY <1>1, <1>2, <1>3 DEF Queueable

\* A handoff's rows are of its day, and say of the queueable ones that they are.
LEMMA RowsAreOfTheDay ==
    ASSUME NEW h \in Handoffs, NEW d \in Days
    PROVE /\ RowsOf(d, h) \subseteq Days \X Candidates \X BOOLEAN
          /\ \A row \in RowsOf(d, h) : row[1] = d
          /\ \A e \in Days, c \in Candidates : <<e, c, TRUE>> \in RowsOf(d, h) => e = d /\ Queueable(h) # {}
<1>1. ASSUME NEW i \in DOMAIN h
      PROVE <<d, h[i].cand, h[i].status \in QueuedStatuses>> \in Days \X Candidates \X BOOLEAN
  <2> DEFINE q == h[i].status \in QueuedStatuses
  <2>1. h[i].cand \in Candidates /\ q \in BOOLEAN
    BY RankedAreCandidates DEF Entry
  <2> HIDE DEF q
  <2>2. <<d, h[i].cand, q>> \in Days \X Candidates \X BOOLEAN
    BY <2>1
  <2> QED BY <2>2 DEF q
<1>2. RowsOf(d, h) \subseteq Days \X Candidates \X BOOLEAN
  BY <1>1, Zenon DEF RowsOf
<1>3. \A row \in RowsOf(d, h) : row[1] = d
  BY DEF RowsOf
<1>4. ASSUME NEW e \in Days, NEW c \in Candidates, <<e, c, TRUE>> \in RowsOf(d, h)
      PROVE e = d /\ Queueable(h) # {}
  <2>1. PICK i \in DOMAIN h : <<e, c, TRUE>> = <<d, h[i].cand, h[i].status \in QueuedStatuses>>
    BY <1>4 DEF RowsOf
  <2>2. e = d /\ h[i].status \in QueuedStatuses
    BY <2>1
  <2>3. h[i].cand \in Queueable(h)
    BY <2>2 DEF Queueable
  <2> QED BY <2>2, <2>3
<1> QED BY <1>2, <1>3, <1>4

\* The candidate a Story takes is one of the ranking's, and a ready one.
LEMMA FirstIsRanked ==
    ASSUME NEW h \in Handoffs
    PROVE \/ FirstLeft(h) = None
          \/ /\ FirstLeft(h) \in Candidates /\ FirstLeft(h) \in Queueable(h)
             /\ \A d : <<d, FirstLeft(h), TRUE>> \in RowsOf(d, h)
<1> DEFINE left == {i \in DOMAIN h : /\ h[i].story /\ h[i].status = "READY"
                                     /\ ~IsConsumed(h[i].cand)}
           first == CHOOSE i \in left : \A j \in left : i <= j
<1>1. left \in SUBSET Nat
  BY RankedAreCandidates
<1>2. CASE left # {}
  <2>1. \E i \in left : \A j \in left : i <= j
    <3> HIDE DEF left
    <3> QED BY <1>1, <1>2, Least
  <2>2. first \in left
    <3> HIDE DEF left
    <3> QED BY <2>1
  <2>3. FirstLeft(h) = h[first].cand
    BY <1>2 DEF FirstLeft
  <2>4. first \in DOMAIN h /\ h[first].status \in QueuedStatuses
    <3>1. first \in DOMAIN h /\ h[first].status = "READY"
      <4> HIDE DEF first
      <4> QED BY <2>2
    <3> QED BY <3>1 DEF QueuedStatuses
  <2> HIDE DEF left, first
  <2>5. h[first].cand \in Candidates /\ h[first].cand \in Queueable(h)
    BY <2>4, RankedAreCandidates DEF Entry, Queueable
  <2>6. ASSUME NEW d PROVE <<d, h[first].cand, TRUE>> \in RowsOf(d, h)
    <3>1. <<d, h[first].cand, h[first].status \in QueuedStatuses>> \in RowsOf(d, h)
      BY <2>4 DEF RowsOf
    <3>2. (h[first].status \in QueuedStatuses) = TRUE
      BY <2>4
    <3> QED BY <3>1, <3>2
  <2> QED BY <2>3, <2>5, <2>6
<1> QED BY <1>2 DEF FirstLeft

(***************************************************************************)
(* The types.                                                              *)
(***************************************************************************)

\* A process that becomes a record of the right form leaves all of them so.
LEMMA RunUpdate ==
    ASSUME run \in [Wakers -> RunRecord], NEW w \in Wakers, NEW r \in RunRecord,
           run' = [run EXCEPT ![w] = r]
    PROVE /\ run' \in [Wakers -> RunRecord] /\ run'[w] = r
          /\ \A v \in Wakers \ {w} : run'[v] = run[v]
OBVIOUS

Pcs == Locked \cup {"idle", "lock", "notify", "send", "record"}

LEMMA GotoMoves ==
    ASSUME run \in [Wakers -> RunRecord], NEW w \in Wakers, NEW pc \in Pcs, Goto(w, pc)
    PROVE /\ run' \in [Wakers -> RunRecord] /\ run'[w] = [run[w] EXCEPT !.pc = pc]
          /\ \A v \in Wakers \ {w} : run'[v] = run[v]
<1>1. run' = [run EXCEPT ![w] = [run[w] EXCEPT !.pc = pc]]
  BY DEF Goto
<1>2. [run[w] EXCEPT !.pc = pc] \in RunRecord
  BY DEF RunRecord, Pcs
<1> QED BY <1>1, <1>2, RunUpdate

LEMMA ConcludeMoves ==
    ASSUME run \in [Wakers -> RunRecord], NEW w \in Wakers, NEW outcome \in Outcome,
           Conclude(w, outcome)
    PROVE /\ run' \in [Wakers -> RunRecord]
          /\ run'[w] = [run[w] EXCEPT !.pc = "emit", !.outcome = outcome]
          /\ \A v \in Wakers \ {w} : run'[v] = run[v]
<1>1. run' = [run EXCEPT ![w] = [run[w] EXCEPT !.pc = "emit", !.outcome = outcome]]
  BY DEF Conclude
<1>2. [run[w] EXCEPT !.pc = "emit", !.outcome = outcome] \in RunRecord
  BY DEF RunRecord, Locked
<1> QED BY <1>1, <1>2, RunUpdate

LEMMA LeaveMoves ==
    ASSUME TypeOK, NEW w \in Wakers, Leave(w)
    PROVE /\ run' \in [Wakers -> RunRecord] /\ run'[w] = IdleRun
          /\ \A v \in Wakers \ {w} : run'[v] = run[v]
          /\ holder' \in [Occurrences -> Wakers \cup {None}]
          /\ \A o \in Occurrences : holder[o] # w => holder'[o] = holder[o]
<1>1. IdleRun \in RunRecord
  BY DEF IdleRun, RunRecord
<1>2. run \in [Wakers -> RunRecord] /\ run' = [run EXCEPT ![w] = IdleRun]
  BY DEF TypeOK, Leave
<1> QED BY <1>1, <1>2, RunUpdate DEF TypeOK, Leave

LEMMA OutcomesAreTyped ==
    /\ Succeeded({}) \in Outcome /\ Succeeded({"board", "handoff"}) \in Outcome
    /\ Succeeded({"raw", "report"}) \in Outcome
    /\ \A c \in Candidates : Succeeded({c}) \in Outcome
    /\ Unhealthy("FAILED") \in Outcome /\ Unhealthy("BLOCKED") \in Outcome
BY DEF Succeeded, Unhealthy, Outcome, Artifacts

(***************************************************************************)
(* What a step of a process makes of it.                                   *)
(***************************************************************************)
ProcessStep(w) ==
    WakeUp(w) \/ RunStep(w) \/ MorningStep(w) \/ StoryStep(w) \/ AnalyticsStep(w) \/ Crash(w)
World ==
    \/ \E c \in Candidates : BridgeEnds(c) \/ BridgeCalls(c) \/ Owner(c)
    \/ \E a \in Agents : AgentWrites(a)
    \/ StrayEnds

LEMMA NextSplit == Next => World \/ \E w \in Wakers : ProcessStep(w)
BY DEF Next, Progress, World, ProcessStep

LEMMA WorldFrame ==
    World => UNCHANGED <<agenda, now, run, holder, result, note, alerts, queue, topics,
                         pair, request, sent, crashes>>
BY DEF World, BridgeEnds, BridgeCalls, Owner, AgentWrites, StrayEnds, occurrences, notices,
       desk, stories

\* Only w moves, and stays well formed.
Moves(w) == run' \in [Wakers -> RunRecord] /\ \A v \in Wakers \ {w} : run'[v] = run[v]

LEMMA WakeUpMoves ==
    ASSUME TypeOK, NEW w \in Wakers, WakeUp(w)
    PROVE /\ Moves(w) /\ run[w].pc = "idle"
          /\ \/ run'[w] = run[w]
             \/ /\ run'[w].pc = "lock" /\ run'[w].occ \in Occurrences
                /\ run'[w].bound = None /\ run'[w].outcome = None
          /\ agenda' \in Seq([job : Jobs, at : AgendaTimes]) /\ now' \in AgendaTimes
<1> DEFINE S == [job : Jobs, at : AgendaTimes]
           call == Head(agenda)
<1>1. agenda \in Seq(S) /\ agenda # <<>>
  BY DEF TypeOK, WakeUp
<1>2. call \in S /\ Tail(agenda) \in Seq(S)
  <2> HIDE DEF S
  <2> QED BY <1>1
<1>3. agenda' = Tail(agenda) /\ now' = call.at
  BY DEF WakeUp
<1>4. CASE Due(call.job, call.at) = {}
  BY <1>2, <1>3, <1>4 DEF WakeUp, TypeOK, Moves
<1>5. CASE Due(call.job, call.at) # {}
  <2> DEFINE r == [IdleRun EXCEPT !.pc = "lock", !.occ = Resolve(call.job, call.at)]
  <2>1. call.job \in Jobs /\ Day(call.at) \in Days
    BY <1>2 DEF Days
  <2>2. Resolve(call.job, call.at) \in Occurrences
    BY <1>5, <2>1, ResolvedIsOccurrence
  <2>3. r \in RunRecord
    BY <2>2 DEF IdleRun, RunRecord
  <2>4. run' = [run EXCEPT ![w] = r] /\ run \in [Wakers -> RunRecord]
    BY <1>5 DEF WakeUp, TypeOK
  <2>5. /\ r.pc = "lock" /\ r.occ \in Occurrences /\ r.bound = None /\ r.outcome = None
    BY <2>2 DEF IdleRun
  <2> HIDE DEF r
  <2>6. Moves(w) /\ run'[w] = r
    BY <2>3, <2>4, RunUpdate DEF Moves
  <2> QED BY <1>2, <1>3, <2>5, <2>6 DEF WakeUp
<1> QED BY <1>4, <1>5

\* A step of the run protocol.
LEMMA ProtocolMoves ==
    ASSUME TypeOK, NEW w \in Wakers, RunStep(w)
    PROVE /\ Moves(w)
          /\ \/ run'[w] = IdleRun
             \/ /\ run'[w].occ = run[w].occ /\ run'[w].bound = run[w].bound
                /\ run'[w].outcome = run[w].outcome
                /\ \/ Acquire(w) /\ run'[w].pc \in {FirstStep(Job(w)), "notify"}
                   \/ Emit(w) /\ run'[w].pc = "notify"
                   \/ Reserve(w) /\ run'[w].pc = "send"
                   \/ Send(w) /\ run'[w].pc = "record"
<1>0. run \in [Wakers -> RunRecord]
  BY DEF TypeOK
<1>1. CASE Leave(w)
  BY <1>1, LeaveMoves DEF Moves
<1>2. ASSUME NEW pc \in Pcs, Goto(w, pc)
      PROVE /\ Moves(w) /\ run'[w].pc = pc
            /\ run'[w].occ = run[w].occ /\ run'[w].bound = run[w].bound
            /\ run'[w].outcome = run[w].outcome
  <2>1. Moves(w) /\ run'[w] = [run[w] EXCEPT !.pc = pc] /\ run[w] \in RunRecord
    BY <1>0, <1>2, GotoMoves DEF Moves
  <2> QED BY <2>1 DEF RunRecord
<1>3. FirstStep(Job(w)) \in Pcs /\ {"notify", "send", "record"} \subseteq Pcs
  BY DEF FirstStep, Pcs, Locked, MorningAt, StoryAt, AnalyticsAt
<1>4. CASE Acquire(w)
  BY <1>2, <1>3, <1>4 DEF Acquire
<1>5. CASE Emit(w) \/ Reserve(w) \/ Send(w)
  BY <1>1, <1>2, <1>3, <1>5, LeaveMoves DEF Emit, Reserve, Send
<1>6. CASE Record(w)
  BY <1>1, <1>6, LeaveMoves DEF Record
<1> QED BY <1>4, <1>5, <1>6 DEF RunStep

\* A step of a job: the process goes on in its job, keeping the lock, or has
\* an outcome, or leaves; it touches no result, no note and no agenda.
LEMMA JobMoves ==
    ASSUME TypeOK, NEW w \in Wakers, RunFacts(w), StoryFacts(w), NEW At \in {MorningAt, StoryAt, AnalyticsAt},
           \/ At = MorningAt /\ MorningStep(w)
           \/ At = StoryAt /\ StoryStep(w)
           \/ At = AnalyticsAt /\ AnalyticsStep(w)
    PROVE /\ Moves(w) /\ run[w].pc \in At
          /\ UNCHANGED <<agenda, now, result, note, alerts, crashes>>
          /\ \/ Leave(w) /\ run'[w] = IdleRun
             \/ /\ UNCHANGED holder /\ run'[w].occ = run[w].occ
                /\ \/ run'[w].pc \in At
                   \/ run'[w].pc = "emit" /\ run'[w].outcome \in Outcome
<1>0. run \in [Wakers -> RunRecord] /\ run[w] \in RunRecord
  BY DEF TypeOK
<1>1. UNCHANGED <<agenda, now, result, note, alerts, crashes>>
  BY DEF MorningStep, StoryStep, AnalyticsStep, Attempt, AgentEnds, PersistQueue, PersistRows,
         Prove, Cadence, Request, Connected, Look, Preview, Collect, CommitRaw, CommitReport,
         occurrences, notices
<1>2. run[w].pc \in At
  BY DEF MorningStep, StoryStep, AnalyticsStep, Attempt, AgentEnds, PersistQueue, PersistRows,
         Prove, Cadence, Request, Connected, Look, Preview, Collect, CommitRaw, CommitReport,
         MorningAt, StoryAt, AnalyticsAt
<1>3. CASE Leave(w)
  BY <1>1, <1>2, <1>3, LeaveMoves DEF Moves
<1>4. ASSUME UNCHANGED holder, NEW pc \in At, Goto(w, pc)
      PROVE Moves(w) /\ run'[w].occ = run[w].occ /\ run'[w].pc \in At
  <2>1. pc \in Pcs
    BY <1>4 DEF Pcs, Locked
  <2>2. Moves(w) /\ run'[w] = [run[w] EXCEPT !.pc = pc]
    BY <1>0, <1>4, <2>1, GotoMoves DEF Moves
  <2> QED BY <1>0, <1>4, <2>2 DEF RunRecord
<1>5. ASSUME UNCHANGED holder, NEW outcome \in Outcome, Conclude(w, outcome)
      PROVE /\ Moves(w) /\ run'[w].occ = run[w].occ
            /\ run'[w].pc = "emit" /\ run'[w].outcome \in Outcome
  <2>1. Moves(w) /\ run'[w] = [run[w] EXCEPT !.pc = "emit", !.outcome = outcome]
    BY <1>0, <1>5, ConcludeMoves DEF Moves
  <2> QED BY <1>0, <1>5, <2>1 DEF RunRecord
<1>6. ASSUME UNCHANGED holder, NEW pc \in At, NEW bound \in Handoffs \cup Candidates \cup {None},
             run' = [run EXCEPT ![w] = [run[w] EXCEPT !.pc = pc, !.bound = bound]]
      PROVE Moves(w) /\ run'[w].occ = run[w].occ /\ run'[w].pc \in At
  <2>1. [run[w] EXCEPT !.pc = pc, !.bound = bound] \in RunRecord
    BY <1>0, <1>6 DEF RunRecord, Locked
  <2>2. Moves(w) /\ run'[w] = [run[w] EXCEPT !.pc = pc, !.bound = bound]
    BY <1>0, <1>6, <2>1, RunUpdate DEF Moves
  <2> QED BY <1>0, <1>6, <2>2 DEF RunRecord
<1>7. ASSUME At = MorningAt, UNCHANGED holder,
             run' = [run EXCEPT ![w] = [run[w] EXCEPT !.pc = "agent", !.tries = run[w].tries + 1]]
      PROVE Moves(w) /\ run'[w].occ = run[w].occ /\ run'[w].pc \in At
  <2> DEFINE tries == run[w].tries + 1
  <2>0. tries \in Nat
    BY <1>0 DEF RunRecord
  <2>1. [run[w] EXCEPT !.pc = "agent", !.tries = tries] \in RunRecord
    <3> HIDE DEF tries
    <3> QED BY <1>0, <2>0 DEF RunRecord, Locked, MorningAt
  <2>2. Moves(w) /\ run'[w] = [run[w] EXCEPT !.pc = "agent", !.tries = run[w].tries + 1]
    BY <1>0, <1>7, <2>1, RunUpdate DEF Moves
  <2> QED BY <1>0, <1>7, <2>2 DEF RunRecord, MorningAt
<1>8. ASSUME At = AnalyticsAt, UNCHANGED holder,
             NEW kept \in Pair \cup {None},
             run' = [run EXCEPT ![w] = [run[w] EXCEPT !.pc = "raw", !.kept = kept]]
      PROVE Moves(w) /\ run'[w].occ = run[w].occ /\ run'[w].pc \in At
  <2>1. [run[w] EXCEPT !.pc = "raw", !.kept = kept] \in RunRecord
    BY <1>0, <1>8 DEF RunRecord, Locked, AnalyticsAt
  <2>2. Moves(w) /\ run'[w] = [run[w] EXCEPT !.pc = "raw", !.kept = kept]
    BY <1>0, <1>8, <2>1, RunUpdate DEF Moves
  <2> QED BY <1>0, <1>8, <2>2 DEF RunRecord, AnalyticsAt
<1>9. ASSUME At = MorningAt, MorningStep(w)
      PROVE /\ UNCHANGED holder
            /\ \/ \E pc \in At : Goto(w, pc)
               \/ \E outcome \in Outcome : Conclude(w, outcome)
               \/ \E pc \in At : \E bound \in Handoffs \cup Candidates \cup {None} :
                    run' = [run EXCEPT ![w] = [run[w] EXCEPT !.pc = pc, !.bound = bound]]
               \/ run' = [run EXCEPT ![w] = [run[w] EXCEPT !.pc = "agent", !.tries = run[w].tries + 1]]
  <2>1. CASE Attempt(w)
    <3>1. CASE Goto(w, "persist")
      BY <1>9, <2>1, <3>1 DEF Attempt, MorningAt, occurrences
    <3>2. CASE run' = [run EXCEPT ![w] = [@ EXCEPT !.pc = "agent", !.tries = run[w].tries + 1]]
      BY <2>1, <3>2 DEF Attempt, occurrences
    <3> QED BY <2>1, <3>1, <3>2 DEF Attempt
  <2>2. CASE AgentEnds(w)
    BY <1>9, <2>2, OutcomesAreTyped DEF AgentEnds, MorningAt, occurrences
  <2>3. CASE PersistQueue(w)
    BY <1>9, <2>3, OutcomesAreTyped DEF PersistQueue, MorningAt, occurrences, Valid
  <2>4. CASE PersistRows(w)
    BY <1>9, <2>4, OutcomesAreTyped DEF PersistRows, MorningAt, occurrences
  <2> QED BY <1>9, <2>1, <2>2, <2>3, <2>4 DEF MorningStep
<1>10. ASSUME At = StoryAt, StoryStep(w), ~ Leave(w)
       PROVE /\ UNCHANGED holder
             /\ \/ \E pc \in At : Goto(w, pc)
                \/ \E outcome \in Outcome : Conclude(w, outcome)
                \/ \E pc \in At : \E bound \in Handoffs \cup Candidates \cup {None} :
                     run' = [run EXCEPT ![w] = [run[w] EXCEPT !.pc = pc, !.bound = bound]]
  <2>1. CASE Prove(w)
    <3>1. Valid(DayOf(w)) => FirstLeft(handoff[DayOf(w)]) \in Handoffs \cup Candidates \cup {None}
      BY FirstIsRanked, RankedAreCandidates DEF Valid
    <3> QED BY <1>10, <2>1, <3>1 DEF Prove, StoryAt
  <2>2. CASE Cadence(w)
    BY <1>10, <2>2, OutcomesAreTyped DEF Cadence, StoryAt
  <2>3. CASE Request(w)
    BY <1>10, <2>3, OutcomesAreTyped DEF Request, StoryAt, occurrences
  <2>4. CASE Connected(w) \/ Look(w)
    BY <1>10, <2>4, OutcomesAreTyped DEF Connected, Look, StoryAt, occurrences
  <2>5. CASE Preview(w)
    <3>1. run[w].bound \in Candidates
      BY <2>5 DEF Preview, StoryFacts, Connecting
    <3> QED BY <1>10, <2>5, <3>1, OutcomesAreTyped DEF Preview, StoryAt, occurrences
  <2> QED BY <1>10, <2>1, <2>2, <2>3, <2>4, <2>5 DEF StoryStep
<1>11. ASSUME At = AnalyticsAt, AnalyticsStep(w)
       PROVE /\ UNCHANGED holder
             /\ \/ \E pc \in At : Goto(w, pc)
                \/ \E outcome \in Outcome : Conclude(w, outcome)
                \/ \E kept \in Pair \cup {None} :
                     run' = [run EXCEPT ![w] = [run[w] EXCEPT !.pc = "raw", !.kept = kept]]
  <2>1. CASE Collect(w)
    <3>1. DayOf(w) \in Days
      BY <2>1, OccurrenceHasSlot DEF Collect, RunFacts, DayOf
    <3>2. pair[DayOf(w)] \in Pair
      BY <3>1 DEF TypeOK
    <3> QED BY <1>11, <2>1, <3>2, OutcomesAreTyped DEF Collect, AnalyticsAt, occurrences
  <2>2. CASE CommitRaw(w) \/ CommitReport(w)
    BY <1>11, <2>2, OutcomesAreTyped DEF CommitRaw, CommitReport, AnalyticsAt, occurrences
  <2> QED BY <1>11, <2>1, <2>2 DEF AnalyticsStep
<1> QED BY <1>1, <1>2, <1>3, <1>4, <1>5, <1>6, <1>7, <1>8, <1>9, <1>10, <1>11

\* Whoever moves, the others do not.
LEMMA ProcessMoves ==
    ASSUME IInv, NEW w \in Wakers, ProcessStep(w)
    PROVE Moves(w)
<1>1. CASE MorningStep(w)
  BY <1>1, JobMoves DEF IInv
<1>2. CASE StoryStep(w)
  BY <1>2, JobMoves DEF IInv
<1>3. CASE AnalyticsStep(w)
  BY <1>3, JobMoves DEF IInv
<1>4. CASE Crash(w)
  BY <1>4, LeaveMoves DEF IInv, Crash, Moves
<1> QED BY <1>1, <1>2, <1>3, <1>4, WakeUpMoves, ProtocolMoves DEF ProcessStep, IInv

LEMMA RunTypeStep == IInv /\ Next => run' \in [Wakers -> RunRecord]
BY NextSplit, WorldFrame, ProcessMoves DEF Moves, IInv, TypeOK

\* The occurrence stores.
LEMMA OccurrenceTypeStep ==
    IInv /\ Next =>
      /\ agenda' \in Seq([job : Jobs, at : AgendaTimes]) /\ now' \in Nat /\ crashes' \in Nat
      /\ holder' \in [Occurrences -> Wakers \cup {None}]
      /\ result' \in [Occurrences -> Outcome \cup {None}]
      /\ note' \in [Occurrences -> NoteStates \cup {None}] /\ alerts' \in [Occurrences -> Nat]
<1> DEFINE T == /\ agenda \in Seq([job : Jobs, at : AgendaTimes]) /\ now \in Nat /\ crashes \in Nat
                /\ holder \in [Occurrences -> Wakers \cup {None}]
                /\ result \in [Occurrences -> Outcome \cup {None}]
                /\ note \in [Occurrences -> NoteStates \cup {None}] /\ alerts \in [Occurrences -> Nat]
<1> SUFFICES ASSUME IInv, Next PROVE T'
  OBVIOUS
<1>0. TypeOK /\ T
  BY DEF IInv, TypeOK
<1>1. CASE World
  BY <1>0, <1>1, WorldFrame
<1>2. ASSUME NEW w \in Wakers, WakeUp(w) PROVE T'
  BY <1>0, <1>2, WakeUpMoves, TimesAreNatural DEF WakeUp, occurrences, notices
<1>3. ASSUME NEW w \in Wakers, RunStep(w) PROVE T'
  <2>0. run[w].outcome \in Outcome \cup {None}
    BY <1>0 DEF TypeOK, RunRecord
  <2>1. CASE Acquire(w)
    BY <1>0, <2>1 DEF Acquire, notices
  <2>2. CASE Emit(w)
    BY <1>0, <2>0, <2>2 DEF Emit, notices
  <2>3. CASE Reserve(w)
    BY <1>0, <2>3, LeaveMoves DEF Reserve, NoteStates
  <2>4. CASE Send(w)
    BY <1>0, <2>4 DEF Send, occurrences
  <2>5. CASE Record(w)
    BY <1>0, <2>5, LeaveMoves DEF Record, NoteStates
  <2> QED BY <1>3, <2>1, <2>2, <2>3, <2>4, <2>5 DEF RunStep
<1>4. ASSUME NEW w \in Wakers, MorningStep(w) \/ StoryStep(w) \/ AnalyticsStep(w) PROVE T'
  <2>1. /\ UNCHANGED <<agenda, now, result, note, alerts, crashes>>
        /\ UNCHANGED holder \/ Leave(w)
    BY <1>0, <1>4, JobMoves DEF IInv
  <2> QED BY <1>0, <2>1, LeaveMoves
<1>5. ASSUME NEW w \in Wakers, Crash(w) PROVE T'
  BY <1>0, <1>5, LeaveMoves DEF Crash, notices
<1> QED BY <1>1, <1>2, <1>3, <1>4, <1>5, NextSplit DEF ProcessStep

\* Where a job is done, its day is one of the calendar's.
LEMMA DayIsKnown ==
    ASSUME IInv, NEW w \in Wakers, run[w].pc # "idle"
    PROVE DayOf(w) \in Days /\ Day(now) \in Days /\ run[w].occ \in Occurrences
BY OccurrenceHasSlot DEF IInv, RunFacts, DayOf

\* What the stores of one kind are left alone by.
LEMMA DeskFrame ==
    ASSUME NEW w \in Wakers, ProcessStep(w), ~ MorningStep(w), ~ Crash(w)
    PROVE UNCHANGED <<agent, board, handoff, queue, topics>>
BY DEF ProcessStep, WakeUp, RunStep, Acquire, Emit, Reserve, Send, Record, StoryStep, Prove,
       Cadence, Request, Connected, Look, Preview, AnalyticsStep, Collect, CommitRaw, CommitReport,
       desk

LEMMA StoriesFrame ==
    ASSUME NEW w \in Wakers, ProcessStep(w), ~ StoryStep(w), ~ Crash(w)
    PROVE UNCHANGED <<request, work, child, drafts, sent>>
BY DEF ProcessStep, WakeUp, RunStep, Acquire, Emit, Reserve, Send, Record, MorningStep, Attempt,
       AgentEnds, PersistQueue, PersistRows, AnalyticsStep, Collect, CommitRaw, CommitReport, stories

LEMMA PairFrame ==
    ASSUME NEW w \in Wakers, ProcessStep(w), ~ AnalyticsStep(w)
    PROVE UNCHANGED pair
BY DEF ProcessStep, WakeUp, RunStep, Acquire, Emit, Reserve, Send, Record, MorningStep, Attempt,
       AgentEnds, PersistQueue, PersistRows, StoryStep, Prove, Cadence, Request, Connected, Look,
       Preview, Crash

DeskTypes ==
    /\ agent \in [Agents -> AgentWork \cup {None}]
    /\ board \in [Days -> BOOLEAN] /\ handoff \in [Days -> Handoffs \cup {None, Invalid}]
    /\ queue \in [Days -> (SUBSET Candidates) \cup {None}] /\ topics \subseteq Days \X Candidates \X BOOLEAN

LEMMA DeskTypeStep == IInv /\ Next => DeskTypes'
<1> SUFFICES ASSUME IInv, Next PROVE DeskTypes'
  OBVIOUS
<1> USE DEF DeskTypes
<1>0. DeskTypes
  BY DEF IInv, TypeOK
<1>1. ASSUME NEW c \in Candidates, BridgeEnds(c) \/ BridgeCalls(c) \/ Owner(c) PROVE DeskTypes'
  BY <1>0, <1>1 DEF BridgeEnds, BridgeCalls, Owner, desk
<1>2. ASSUME NEW a \in Agents, AgentWrites(a) PROVE DeskTypes'
  <2>1. agent[a] \in AgentWork
    BY <1>0, <1>2 DEF AgentWrites
  <2>2. ASSUME NEW file \in {"board", "handoff"},
               agent' = [agent EXCEPT ![a].todo = @ \ {file}]
        PROVE agent' \in [Agents -> AgentWork \cup {None}]
    <3>1. agent' = [agent EXCEPT ![a] = [agent[a] EXCEPT !.todo = agent[a].todo \ {file}]]
      BY <2>2
    <3>2. [agent[a] EXCEPT !.todo = agent[a].todo \ {file}] \in AgentWork
      BY <2>1 DEF AgentWork
    <3> HIDE DEF DeskTypes
    <3> QED BY <1>0, <3>1, <3>2 DEF DeskTypes
  <2>3. agent[a].day \in Days
    BY <2>1 DEF AgentWork
  <2> QED BY <1>0, <1>2, <2>2, <2>3 DEF AgentWrites
<1>3. CASE StrayEnds
  BY <1>0, <1>3 DEF StrayEnds
<1>4. ASSUME NEW w \in Wakers, MorningStep(w) PROVE DeskTypes'
  <2>0. DayOf(w) \in Days
    BY <1>4, DayIsKnown, JobMoves DEF IInv, MorningAt
  <2>1. CASE Attempt(w)
    <3>1. [day |-> DayOf(w), todo |-> {"board", "handoff"}] \in AgentWork
      BY <2>0 DEF AgentWork
    <3> QED BY <1>0, <2>1, <3>1 DEF Attempt
  <2>2. CASE AgentEnds(w)
    BY <1>0, <2>2 DEF AgentEnds
  <2>3. CASE PersistQueue(w)
    <3>1. Valid(DayOf(w)) => Queueable(handoff[DayOf(w)]) \ Queued \in SUBSET Candidates
      BY RankedAreCandidates DEF Valid
    <3> QED BY <1>0, <2>0, <2>3, <3>1 DEF PersistQueue
  <2>4. CASE PersistRows(w)
    <3>1. RowsOf(DayOf(w), run[w].bound) \subseteq Days \X Candidates \X BOOLEAN
      BY <2>0, <2>4, RowsAreOfTheDay DEF IInv, MorningFacts, PersistRows
    <3> QED BY <1>0, <2>0, <2>4, <3>1 DEF PersistRows
  <2> QED BY <1>4, <2>1, <2>2, <2>3, <2>4 DEF MorningStep
<1>5. ASSUME NEW w \in Wakers, Crash(w) PROVE DeskTypes'
  BY <1>0, <1>5 DEF Crash, Agents
<1>6. ASSUME NEW w \in Wakers, ProcessStep(w), ~ MorningStep(w), ~ Crash(w) PROVE DeskTypes'
  BY <1>0, <1>6, DeskFrame
<1> QED BY <1>1, <1>2, <1>3, <1>4, <1>5, <1>6, NextSplit DEF World

StoryTypes ==
    /\ request \in [Candidates -> Wakers \cup {None}]
    /\ work \in [Candidates -> Manifest \cup {None}] /\ child \subseteq Candidates
    /\ drafts \in [Candidates -> Nat]
    /\ sent \in [Candidates -> {None, "SENT", "UNSENT"}]

LEMMA StoryTypeStep == IInv /\ Next => StoryTypes'
<1> SUFFICES ASSUME IInv, Next PROVE StoryTypes'
  OBVIOUS
<1> USE DEF StoryTypes
<1>0. StoryTypes
  BY DEF IInv, TypeOK
<1>1. ASSUME NEW c \in Candidates, BridgeEnds(c) PROVE StoryTypes'
  <2>1. work[c] \in Manifest
    BY <1>0, <1>1 DEF BridgeEnds, IInv, WorkFacts
  <2>2. \A review \in {"DRAFT_CREATED", "REVIEW_UNKNOWN"} :
          [work[c] EXCEPT !.review = review] \in Manifest
    BY <2>1 DEF Manifest
  <2>3. \/ UNCHANGED work
        \/ \E review \in {"DRAFT_CREATED", "REVIEW_UNKNOWN"} :
             work' = [work EXCEPT ![c] = [work[c] EXCEPT !.review = review]]
    BY <1>1 DEF BridgeEnds
  <2> QED BY <1>0, <1>1, <2>2, <2>3 DEF BridgeEnds
<1>2. ASSUME NEW c \in Candidates, BridgeCalls(c) PROVE StoryTypes'
  <2>1. work[c] \in Manifest
    BY <1>0, <1>2 DEF BridgeCalls, IInv, WorkFacts
  <2>2. [work[c] EXCEPT !.review = "CREATE_IN_FLIGHT", !.creates = 1] \in Manifest
    <3>1. \A n \in 0..1 : [work[c] EXCEPT !.review = "CREATE_IN_FLIGHT", !.creates = n] \in Manifest
      BY <2>1 DEF Manifest
    <3> QED BY <3>1, 1 \in 0..1
  <2> QED BY <1>0, <1>2, <2>2 DEF BridgeCalls
<1>3. ASSUME NEW c \in Candidates, Owner(c) PROVE StoryTypes'
  <2>1. work[c] \in Manifest /\ Day(now) \in Days
    BY <1>0, <1>3 DEF Owner, IInv, WorkFacts
  <2>2. \A pub \in {"PUBLISHED", "FAILED"} :
          [work[c] EXCEPT !.pub = pub, !.pubday = Day(now)] \in Manifest
    BY <2>1 DEF Manifest
  <2> QED BY <1>0, <1>3, <2>2 DEF Owner
<1>4. ASSUME NEW a \in Agents, AgentWrites(a) PROVE StoryTypes'
  BY <1>0, <1>4 DEF AgentWrites, stories
<1>5. CASE StrayEnds
  BY <1>0, <1>5 DEF StrayEnds, stories
<1>6. ASSUME NEW w \in Wakers, StoryStep(w) PROVE StoryTypes'
  <2>0. run[w].pc \in StoryAt
    BY <1>6, JobMoves DEF IInv
  <2>1. CASE Request(w)
    <3>1. NewManifest \in Manifest
      BY <2>0, DayIsKnown DEF NewManifest, Manifest, StoryAt
    <3>2. run[w].bound \in Candidates
      BY <2>1 DEF Request, IInv, StoryFacts
    <3> QED BY <1>0, <2>1, <3>1, <3>2 DEF Request
  <2>2. CASE Prove(w) \/ Cadence(w) \/ Connected(w)
    BY <1>0, <2>2 DEF Prove, Cadence, Connected, stories
  <2>3. CASE Look(w) \/ Preview(w)
    BY <1>0, <2>3 DEF Look, Preview
  <2> QED BY <1>6, <2>1, <2>2, <2>3 DEF StoryStep
<1>7. ASSUME NEW w \in Wakers, Crash(w) PROVE StoryTypes'
  BY <1>0, <1>7 DEF Crash
<1>8. ASSUME NEW w \in Wakers, ProcessStep(w), ~ StoryStep(w), ~ Crash(w) PROVE StoryTypes'
  BY <1>0, <1>8, StoriesFrame
<1> QED BY <1>1, <1>2, <1>3, <1>4, <1>5, <1>6, <1>7, <1>8, NextSplit DEF World

LEMMA PairTypeStep == IInv /\ Next => pair' \in [Days -> Pair]
<1> SUFFICES ASSUME IInv, Next PROVE pair' \in [Days -> Pair]
  OBVIOUS
<1>0. pair \in [Days -> Pair]
  BY DEF IInv, TypeOK
<1>1. ASSUME NEW w \in Wakers, AnalyticsStep(w) PROVE pair' \in [Days -> Pair]
  <2>1. CASE Collect(w)
    BY <1>0, <2>1 DEF Collect
  <2>2. CASE CommitRaw(w) \/ CommitReport(w)
    <3>1. run[w].kept \in Pair /\ DayOf(w) \in Days
      BY <2>2, DayIsKnown DEF CommitRaw, CommitReport, IInv, AnalyticsFacts
    <3>2. Edition(w) \in Nat
      BY <3>1 DEF Edition, Pair
    <3>3. /\ [pair[DayOf(w)] EXCEPT !.raw = Edition(w)] \in Pair
          /\ [pair[DayOf(w)] EXCEPT !.report = Edition(w)] \in Pair
      BY <1>0, <3>1, <3>2 DEF Pair
    <3>4. \/ UNCHANGED pair
          \/ pair' = [pair EXCEPT ![DayOf(w)] = [pair[DayOf(w)] EXCEPT !.raw = Edition(w)]]
          \/ pair' = [pair EXCEPT ![DayOf(w)] = [pair[DayOf(w)] EXCEPT !.report = Edition(w)]]
          \/ pair' = [pair EXCEPT ![DayOf(w)] = run[w].kept]
      BY <2>2 DEF CommitRaw, CommitReport
    <3> QED BY <1>0, <3>1, <3>3, <3>4
  <2> QED BY <1>1, <2>1, <2>2 DEF AnalyticsStep
<1> QED BY <1>0, <1>1, NextSplit, WorldFrame, PairFrame

LEMMA TypeStep == IInv /\ Next => TypeOK'
BY RunTypeStep, OccurrenceTypeStep, DeskTypeStep, StoryTypeStep, PairTypeStep
   DEF TypeOK, DeskTypes, StoryTypes

(***************************************************************************)
(* What a step may do to one store.                                        *)
(***************************************************************************)

\* The step is not a step of v.
Bystander(v) == World \/ \E w \in Wakers \ {v} : ProcessStep(w)

LEMMA OwnOrNot ==
    ASSUME Next, NEW v \in Wakers
    PROVE Bystander(v) \/ ProcessStep(v)
BY NextSplit DEF Bystander

LEMMA BystanderStays ==
    ASSUME IInv, NEW v \in Wakers, Bystander(v)
    PROVE run'[v] = run[v]
BY WorldFrame, ProcessMoves DEF Bystander, Moves

\* The first result of an occurrence stands, and is what a run emits.
LEMMA ResultMoves ==
    ASSUME IInv, Next, NEW o \in Occurrences
    PROVE \/ result'[o] = result[o]
          \/ /\ result[o] = None
             /\ \E w \in Wakers : Emit(w) /\ run[w].occ = o /\ result'[o] = run[w].outcome
<1>0. result \in [Occurrences -> Outcome \cup {None}]
  BY DEF IInv, TypeOK
<1>1. ASSUME NEW w \in Wakers, Emit(w)
      PROVE result'[o] = result[o] \/ (result[o] = None /\ run[w].occ = o /\ result'[o] = run[w].outcome)
  BY <1>0, <1>1 DEF Emit
<1>2. ASSUME NEW w \in Wakers, ProcessStep(w), ~ Emit(w) PROVE result' = result
  <2>1. CASE MorningStep(w) \/ StoryStep(w) \/ AnalyticsStep(w)
    BY <2>1, JobMoves DEF IInv
  <2> QED BY <1>2, <2>1 DEF ProcessStep, WakeUp, RunStep, Acquire, Reserve, Send, Record, Crash,
                            occurrences
<1> QED BY <1>1, <1>2, NextSplit, WorldFrame

LEMMA ResultStays ==
    ASSUME IInv, Next, NEW o \in Occurrences, result[o] # None
    PROVE result'[o] = result[o]
BY ResultMoves

\* A process keeps its run lock whatever the others do, and has no rival in it.
LEMMA LockIsExclusive ==
    ASSUME IInv, NEW v \in Wakers, NEW w \in Wakers, run[v].pc \in Locked, run[w].pc \in Locked,
           run[v].occ = run[w].occ
    PROVE v = w
<1>1. run[v].pc # "idle" /\ run[w].pc # "idle"
  BY DEF Locked, MorningAt, StoryAt, AnalyticsAt
<1> QED BY <1>1 DEF IInv, RunFacts

LEMMA LockStays ==
    ASSUME IInv, Next, NEW v \in Wakers, Bystander(v), run[v].pc \in Locked
    PROVE holder'[run[v].occ] = v /\ result'[run[v].occ] = None
<1> DEFINE o == run[v].occ
<1>0. /\ o \in Occurrences /\ holder[o] = v /\ result[o] = None /\ v # None
      /\ holder \in [Occurrences -> Wakers \cup {None}]
  <2>1. RunFacts(v) /\ v # None /\ holder \in [Occurrences -> Wakers \cup {None}]
    BY ScheduleAssumption DEF IInv, TypeOK
  <2>2. "idle" \notin Locked
    BY DEF Locked, MorningAt, StoryAt, AnalyticsAt
  <2> QED BY <2>1, <2>2 DEF RunFacts
<1>1. result'[o] = None
  <2>1. ASSUME NEW w \in Wakers, Emit(w), run[w].occ = o PROVE FALSE
    <3>1. w = v
      BY <2>1, LockIsExclusive DEF Emit, Locked
    <3>2. run \in [Wakers -> RunRecord] /\ "notify" \in Pcs
      BY DEF IInv, TypeOK, Pcs
    <3>3. run'[v] = [run[v] EXCEPT !.pc = "notify"] /\ run[v].pc = "emit"
      BY <2>1, <3>1, <3>2, GotoMoves DEF Emit
    <3>4. run'[v].pc = "notify"
      BY <3>2, <3>3 DEF RunRecord
    <3> QED BY <3>3, <3>4, BystanderStays
  <2> QED BY <1>0, <2>1, ResultMoves
<1>2. ASSUME NEW w \in Wakers \ {v}, ProcessStep(w) PROVE holder'[o] = v
  <2>1. CASE Leave(w)
    BY <1>0, <2>1, LeaveMoves DEF IInv
  <2>2. CASE Acquire(w)
    BY <1>0, <2>2 DEF Acquire
  <2>3. CASE Emit(w)
    <3>1. run[w].occ # o
      BY <1>2, <2>3, LockIsExclusive DEF Emit, Locked
    <3> QED BY <1>0, <2>3, <3>1 DEF Emit, IInv, TypeOK
  <2>4. CASE MorningStep(w) \/ StoryStep(w) \/ AnalyticsStep(w)
    BY <1>0, <2>1, <2>4, JobMoves DEF IInv
  <2>5. CASE WakeUp(w) \/ Send(w)
    BY <1>0, <2>5 DEF WakeUp, Send, occurrences
  <2>6. CASE Reserve(w) \/ Record(w) \/ Crash(w)
    BY <1>0, <2>1, <2>6 DEF Reserve, Record, Crash
  <2> QED BY <1>2, <2>2, <2>3, <2>4, <2>5, <2>6 DEF ProcessStep, RunStep
<1> QED BY <1>0, <1>1, <1>2, WorldFrame DEF Bystander

LEMMA TimePasses ==
    ASSUME IInv, Next
    PROVE Day(now') = Day(now) \/ Day(now') \in Days
<1>1. ASSUME NEW w \in Wakers, ProcessStep(w) PROVE now' = now \/ now' \in AgendaTimes
  <2>1. CASE MorningStep(w) \/ StoryStep(w) \/ AnalyticsStep(w)
    BY <2>1, JobMoves DEF IInv
  <2> QED BY <1>1, <2>1, WakeUpMoves DEF IInv, ProcessStep, RunStep, Acquire, Emit, Reserve, Send,
                                         Record, Crash
<1> QED BY <1>1, NextSplit, WorldFrame DEF Days

\* Only a crash counts, and it counts up.
LEMMA CrashesCount ==
    ASSUME IInv, Next
    PROVE /\ crashes' = 0 => crashes = 0
          /\ (\A w \in Wakers : ~ Crash(w)) => crashes' = crashes
<1>1. ASSUME NEW w \in Wakers, Crash(w) PROVE crashes' = crashes + 1
  BY <1>1 DEF Crash
<1>2. ASSUME NEW w \in Wakers, ProcessStep(w), ~ Crash(w) PROVE crashes' = crashes
  <2>1. CASE MorningStep(w) \/ StoryStep(w) \/ AnalyticsStep(w)
    BY <2>1, JobMoves DEF IInv
  <2> QED BY <1>2, <2>1 DEF ProcessStep, WakeUp, RunStep, Acquire, Emit, Reserve, Send, Record
<1> QED BY <1>1, <1>2, NextSplit, WorldFrame DEF IInv, TypeOK

\* The queue and the topic ledger only grow: the queue by a run that then writes
\* the rows, the ledger by the rows of a Morning's snapshot.
LEMMA QueueMoves ==
    ASSUME IInv, Next
    PROVE /\ \A d \in Days : queue[d] # None => queue'[d] = queue[d]
          /\ Queued \subseteq Queued' /\ topics \subseteq topics'
          /\ \A d \in Days : queue'[d] # queue[d] =>
               \E w \in Wakers : PersistQueue(w) /\ DayOf(w) = d /\ run'[w].pc = "rows"
          /\ \A row \in topics' \ topics :
               \E w \in Wakers : PersistRows(w) /\ row \in RowsOf(DayOf(w), run[w].bound)
<1>0. queue \in [Days -> (SUBSET Candidates) \cup {None}] /\ run \in [Wakers -> RunRecord]
  BY DEF IInv, TypeOK
<1>1. ASSUME NEW w \in Wakers, PersistQueue(w)
      PROVE /\ \A d \in Days : queue[d] # None => queue'[d] = queue[d]
            /\ \A d \in Days : queue'[d] # queue[d] => DayOf(w) = d /\ run'[w].pc = "rows"
  <2>1. CASE UNCHANGED queue
    BY <2>1
  <2>2. CASE ~ UNCHANGED queue
    <3>1. /\ run' = [run EXCEPT ![w] = [run[w] EXCEPT !.pc = "rows", !.bound = handoff[DayOf(w)]]]
          /\ queue' = [queue EXCEPT ![DayOf(w)] = Queueable(handoff[DayOf(w)]) \ Queued]
          /\ queue[DayOf(w)] = None
      BY <1>1, <2>2 DEF PersistQueue
    <3>2. run'[w].pc = "rows"
      BY <1>0, <3>1 DEF RunRecord
    <3> QED BY <1>0, <3>1, <3>2
  <2> QED BY <2>1, <2>2
<1>2. ASSUME \A w \in Wakers : ~ PersistQueue(w) PROVE queue' = queue
  BY <1>2, NextSplit, WorldFrame, DeskFrame DEF MorningStep, Attempt, AgentEnds, PersistRows, Crash
<1>3. /\ \A d \in Days : queue[d] # None => queue'[d] = queue[d]
      /\ \A d \in Days : queue'[d] # queue[d] =>
               \E w \in Wakers : PersistQueue(w) /\ DayOf(w) = d /\ run'[w].pc = "rows"
  BY <1>1, <1>2
<1>4. Queued \subseteq Queued'
  BY <1>3 DEF Queued
<1>5. ASSUME NEW w \in Wakers, PersistRows(w)
      PROVE /\ topics \subseteq topics'
            /\ \A row \in topics' \ topics : row \in RowsOf(DayOf(w), run[w].bound)
  BY <1>5 DEF PersistRows
<1>6. ASSUME \A w \in Wakers : ~ PersistRows(w) PROVE topics' = topics
  BY <1>6, NextSplit, WorldFrame, DeskFrame DEF MorningStep, Attempt, AgentEnds, PersistQueue, Crash
<1> QED BY <1>3, <1>4, <1>5, <1>6

\* An artifact that is there stays there; without a crash only the agent of a
\* live Morning of the day writes one.
LEMMA ArtifactsMove ==
    ASSUME IInv, Next, NEW d \in Days
    PROVE /\ board[d] => board'[d]
          /\ HandoffReady(d) => HandoffReady(d)'
          /\ crashes = 0 /\ handoff'[d] # handoff[d] =>
               \E w \in Wakers : run[w].pc = "agent" /\ DayOf(w) = d
<1>0. /\ board \in [Days -> BOOLEAN] /\ handoff \in [Days -> Handoffs \cup {None, Invalid}]
      /\ agent \in [Agents -> AgentWork \cup {None}]
  BY DEF IInv, TypeOK
<1>1. ASSUME NEW a \in Agents, AgentWrites(a)
      PROVE /\ board[d] => board'[d]
            /\ HandoffReady(d) => HandoffReady(d)'
            /\ handoff'[d] # handoff[d] => agent[a] # None /\ agent[a].day = d
  <2>1. agent[a] # None /\ agent[a].day \in Days
    BY <1>0, <1>1 DEF AgentWrites, AgentWork
  <2>2. \A h \in Handoffs \cup {Invalid} : h # None
    BY ScheduleAssumption, NoneAssumption
  <2> QED BY <1>0, <1>1, <2>1, <2>2 DEF AgentWrites, HandoffReady
<1>2. ASSUME \A a \in Agents : ~ AgentWrites(a) PROVE UNCHANGED <<board, handoff>>
  BY <1>2, NextSplit, DeskFrame DEF World, BridgeEnds, BridgeCalls, Owner, StrayEnds, desk,
       MorningStep, Attempt, AgentEnds, PersistQueue, PersistRows, Crash
<1>3. ASSUME NEW a \in Agents, AgentWrites(a), crashes = 0, handoff'[d] # handoff[d]
      PROVE \E w \in Wakers : run[w].pc = "agent" /\ DayOf(w) = d
  <2>1. agent[a] # None /\ agent[a].day = d
    BY <1>1, <1>3
  <2>2. a \in Wakers
    BY <1>3, <2>1 DEF IInv, AgentFacts, Agents
  <2> QED BY <1>3, <2>1, <2>2 DEF IInv, AgentFacts
<1> QED BY <1>1, <1>2, <1>3 DEF HandoffReady

\* The analytics files of a day move under the lock of its occurrence.
LEMMA PairMoves ==
    ASSUME IInv, Next, NEW d \in Days, pair'[d] # pair[d]
    PROVE \E w \in Wakers : /\ CommitRaw(w) \/ CommitReport(w)
                            /\ DayOf(w) = d /\ run'[w].pc # run[w].pc
<1>0. pair \in [Days -> Pair]
  BY DEF IInv, TypeOK
<1>1. PICK w \in Wakers : AnalyticsStep(w)
  BY NextSplit, WorldFrame, PairFrame
<1>2. CommitRaw(w) \/ CommitReport(w)
  BY <1>1 DEF AnalyticsStep, Collect
<1>3. pair' = [pair EXCEPT ![DayOf(w)] = pair'[DayOf(w)]]
  BY <1>0, <1>2 DEF CommitRaw, CommitReport
<1>4. run \in [Wakers -> RunRecord] /\ "report" \in Pcs
  BY DEF IInv, TypeOK, Pcs, Locked, AnalyticsAt
<1>5. CASE Goto(w, "report") /\ run[w].pc = "raw"
  <2>1. run'[w] = [run[w] EXCEPT !.pc = "report"]
    BY <1>4, <1>5, GotoMoves
  <2> QED BY <1>0, <1>2, <1>3, <1>4, <1>5, <2>1 DEF RunRecord
<1>6. ASSUME NEW outcome \in Outcome, Conclude(w, outcome), run[w].pc # "emit"
      PROVE run'[w].pc # run[w].pc
  <2>1. run'[w] = [run[w] EXCEPT !.pc = "emit", !.outcome = outcome]
    BY <1>4, <1>6, ConcludeMoves
  <2> QED BY <1>4, <1>6, <2>1 DEF RunRecord
<1> QED BY <1>0, <1>2, <1>3, <1>5, <1>6, OutcomesAreTyped DEF CommitRaw, CommitReport

LEMMA NoteStays ==
    ASSUME IInv, Next, NEW o \in Occurrences, note[o] # None
    PROVE note'[o] # None
<1>0. note \in [Occurrences -> NoteStates \cup {None}] /\ \A n \in NoteStates : n # None
  BY NoneAssumption DEF IInv, TypeOK
<1>1. ASSUME NEW w \in Wakers, Reserve(w) \/ Record(w) PROVE note'[o] # None
  BY <1>0, <1>1 DEF Reserve, Record, NoteStates
<1>2. ASSUME NEW w \in Wakers, ProcessStep(w), ~ Reserve(w), ~ Record(w) PROVE note' = note
  <2>1. CASE MorningStep(w) \/ StoryStep(w) \/ AnalyticsStep(w)
    BY <2>1, JobMoves DEF IInv
  <2> QED BY <1>2, <2>1 DEF ProcessStep, WakeUp, RunStep, Acquire, Emit, Send, Crash, notices
<1> QED BY <1>1, <1>2, NextSplit, WorldFrame

LEMMA AlertMoves ==
    ASSUME IInv, Next, NEW o \in Occurrences
    PROVE \/ alerts'[o] = alerts[o]
          \/ \E w \in Wakers : Send(w) /\ run[w].occ = o /\ alerts'[o] = alerts[o] + 1
<1>0. alerts \in [Occurrences -> Nat]
  BY DEF IInv, TypeOK
<1>1. ASSUME NEW w \in Wakers, Send(w)
      PROVE alerts'[o] = alerts[o] \/ (run[w].occ = o /\ alerts'[o] = alerts[o] + 1)
  BY <1>0, <1>1 DEF Send
<1>2. ASSUME NEW w \in Wakers, ProcessStep(w), ~ Send(w) PROVE alerts' = alerts
  <2>1. CASE MorningStep(w) \/ StoryStep(w) \/ AnalyticsStep(w)
    BY <2>1, JobMoves DEF IInv
  <2> QED BY <1>2, <2>1 DEF ProcessStep, WakeUp, RunStep, Acquire, Emit, Reserve, Record, Crash,
                            notices
<1> QED BY <1>1, <1>2, NextSplit, WorldFrame

(***************************************************************************)
(* The stores of the Story.                                                *)
(***************************************************************************)

\* A step of the world leaves a candidate's stores alone or is a step of its
\* bridge or of the owner.
LEMMA WorldOnStories ==
    ASSUME World, NEW c \in Candidates, ~ BridgeEnds(c), ~ BridgeCalls(c), ~ Owner(c), IInv
    PROVE /\ work'[c] = work[c] /\ drafts'[c] = drafts[c] /\ (c \in child' <=> c \in child)
<1>0. work \in [Candidates -> Manifest \cup {None}] /\ drafts \in [Candidates -> Nat]
  BY DEF IInv, TypeOK
<1>1. ASSUME NEW d \in Candidates \ {c}, BridgeEnds(d) \/ BridgeCalls(d) \/ Owner(d)
      PROVE /\ work'[c] = work[c] /\ drafts'[c] = drafts[c] /\ (c \in child' <=> c \in child)
  BY <1>0, <1>1 DEF BridgeEnds, BridgeCalls, Owner
<1>2. ASSUME NEW a \in Agents, AgentWrites(a) PROVE UNCHANGED <<work, drafts, child>>
  BY <1>2 DEF AgentWrites, stories
<1>3. CASE StrayEnds
  BY <1>3 DEF StrayEnds, stories
<1> QED BY <1>1, <1>2, <1>3 DEF World

\* A process changes the stores of its own candidate only.
LEMMA ProcessOnStories ==
    ASSUME IInv, NEW w \in Wakers, ProcessStep(w), NEW c \in Candidates
    PROVE \/ /\ work'[c] = work[c] /\ (c \in child' <=> c \in child) /\ sent'[c] = sent[c]
             /\ request'[c] = request[c]
          \/ Request(w) /\ run[w].bound = c
          \/ (Look(w) \/ Preview(w)) /\ run[w].bound = c
          \/ /\ Crash(w) /\ request[c] = w /\ request'[c] = None
             /\ work'[c] = work[c] /\ (c \in child' <=> c \in child) /\ sent'[c] = sent[c]
<1>0. /\ work \in [Candidates -> Manifest \cup {None}] /\ sent \in [Candidates -> {None, "SENT", "UNSENT"}]
      /\ request \in [Candidates -> Wakers \cup {None}]
  BY DEF IInv, TypeOK
<1>1. CASE Request(w)
  BY <1>0, <1>1 DEF Request
<1>2. CASE Look(w) \/ Preview(w)
  BY <1>0, <1>2 DEF Look, Preview
<1>3. CASE Crash(w)
  BY <1>0, <1>3 DEF Crash
<1>4. CASE Prove(w) \/ Cadence(w) \/ Connected(w)
  BY <1>4 DEF Prove, Cadence, Connected, stories
<1> QED BY <1>1, <1>2, <1>3, <1>4, StoriesFrame DEF StoryStep

LEMMA ProcessOnDrafts ==
    ASSUME IInv, NEW w \in Wakers, ProcessStep(w)
    PROVE drafts' = drafts
BY StoriesFrame DEF StoryStep, Prove, Cadence, Request, Connected, Look, Preview, Crash,
   stories

\* A manifest stays, and a consumed attempt stays consumed.
LEMMA WorkStays ==
    ASSUME IInv, Next, NEW c \in Candidates, work[c] # None
    PROVE work'[c] # None /\ (work[c].creates = 1 => work'[c].creates = 1)
<1>0. work \in [Candidates -> Manifest \cup {None}] /\ work[c] \in Manifest
  BY DEF IInv, TypeOK
<1>1. ASSUME NEW m \in Manifest PROVE m # None
  BY <1>1, NoneAssumption
<1>2. work' \in [Candidates -> Manifest \cup {None}]
  BY TypeStep DEF TypeOK
<1>3. CASE BridgeEnds(c)
  <2>1. \/ work'[c] = work[c]
        \/ \E review \in {"DRAFT_CREATED", "REVIEW_UNKNOWN"} : work'[c] = [work[c] EXCEPT !.review = review]
    BY <1>0, <1>3 DEF BridgeEnds
  <2>2. \A review \in {"DRAFT_CREATED", "REVIEW_UNKNOWN"} :
          LET m == [work[c] EXCEPT !.review = review] IN m \in Manifest /\ m.creates = work[c].creates
    BY <1>0 DEF Manifest
  <2> QED BY <1>0, <1>1, <2>1, <2>2
<1>4. CASE BridgeCalls(c)
  <2>1. work'[c] = [work[c] EXCEPT !.review = "CREATE_IN_FLIGHT", !.creates = 1]
    BY <1>0, <1>4 DEF BridgeCalls
  <2>2. \A n \in 0..1 : LET m == [work[c] EXCEPT !.review = "CREATE_IN_FLIGHT", !.creates = n]
                        IN m \in Manifest /\ m.creates = n
    BY <1>0 DEF Manifest
  <2> QED BY <1>1, <2>1, <2>2, 1 \in 0..1
<1>5. CASE Owner(c)
  <2>1. \E pub \in {"PUBLISHED", "FAILED"} : work'[c] = [work[c] EXCEPT !.pub = pub, !.pubday = Day(now)]
    BY <1>0, <1>5 DEF Owner
  <2>2. Day(now) \in Days
    BY DEF IInv, WorkFacts
  <2>3. \A pub \in {"PUBLISHED", "FAILED"} :
          LET m == [work[c] EXCEPT !.pub = pub, !.pubday = Day(now)]
          IN m \in Manifest /\ m.creates = work[c].creates
    BY <1>0, <2>2 DEF Manifest
  <2> QED BY <1>1, <2>1, <2>3
<1>6. CASE World /\ ~ BridgeEnds(c) /\ ~ BridgeCalls(c) /\ ~ Owner(c)
  BY <1>6, WorldOnStories
<1>7. ASSUME NEW w \in Wakers, ProcessStep(w) PROVE work'[c] = work[c]
  <2>1. CASE Request(w)
    BY <1>0, <2>1 DEF Request
  <2>2. CASE Look(w) \/ Preview(w)
    BY <2>2 DEF Look, Preview
  <2> QED BY <1>7, <2>1, <2>2, ProcessOnStories
<1> QED BY <1>3, <1>4, <1>5, <1>6, <1>7, NextSplit

\* Who holds a request's lock is connecting and alone in it; others leave it.
LEMMA RequestStays ==
    ASSUME IInv, Next, NEW v \in Wakers, Bystander(v), NEW c \in Candidates, request[c] = v
    PROVE request'[c] = v
<1>0. v # None
  BY ScheduleAssumption
<1>1. ASSUME NEW w \in Wakers \ {v}, ProcessStep(w) PROVE request'[c] = v
  <2>1. ~ (Request(w) /\ run[w].bound = c)
    \/ request'[c] = v
    BY <1>0 DEF Request, Conclude
  <2>2. ~ ((Look(w) \/ Preview(w)) /\ run[w].bound = c)
    BY <1>0 DEF Look, Preview, IInv, StoryFacts, Connecting
  <2>3. ~ (Crash(w) /\ request[c] = w)
    OBVIOUS
  <2> QED BY <1>1, <2>1, <2>2, <2>3, ProcessOnStories
<1> QED BY <1>1, WorldFrame DEF Bystander

\* A draft that was shown is not made or shown again.
LEMMA ShownStays ==
    ASSUME IInv, Next, NEW c \in Candidates, sent[c] # None
    PROVE sent'[c] = sent[c] /\ drafts'[c] = drafts[c] /\ request'[c] = None
<1>0. /\ work[c] # None /\ work[c].creates = 1 /\ request[c] = None
      /\ drafts \in [Candidates -> Nat]
  BY DEF IInv, WorkFacts, TypeOK
<1>1. ASSUME NEW w \in Wakers, ProcessStep(w)
      PROVE sent'[c] = sent[c] /\ request'[c] = None
  <2>1. CASE Request(w) /\ run[w].bound = c
    BY <1>0, <2>1 DEF Request, IsConsumed
  <2>2. ~ ((Look(w) \/ Preview(w)) /\ run[w].bound = c)
    <3>1. w # None
      BY ScheduleAssumption
    <3> QED BY <1>0, <3>1 DEF Look, Preview, IInv, StoryFacts, Connecting
  <2> QED BY <1>0, <1>1, <2>1, <2>2, ProcessOnStories
<1>2. CASE World
  <2>1. ~ BridgeCalls(c)
    BY <1>0 DEF BridgeCalls
  <2>2. drafts'[c] = drafts[c]
    BY <1>2, <2>1, WorldOnStories DEF BridgeEnds, Owner
  <2> QED BY <1>0, <1>2, <2>2, WorldFrame
<1> QED BY <1>1, <1>2, NextSplit, ProcessOnDrafts

(***************************************************************************)
(* What is proven and what is backed stays so.                             *)
(***************************************************************************)
LEMMA ProvenStays ==
    ASSUME IInv, Next, NEW c \in Candidates, Proven(c)
    PROVE Proven(c)'
<1>1. PICK d \in Days : MorningProven(d) /\ (crashes = 0 => c \in Queued /\ <<d, c, TRUE>> \in topics)
  BY DEF Proven
<1>2. result'[MorningOf(d)] = result[MorningOf(d)]
  BY <1>1, MorningIsOccurrence, ResultStays DEF MorningProven
<1>3. MorningProven(d)'
  BY <1>1, <1>2 DEF MorningProven, MorningOf
<1>4. crashes' = 0 => c \in Queued' /\ <<d, c, TRUE>> \in topics'
  BY <1>1, CrashesCount, QueueMoves
<1> QED BY <1>3, <1>4 DEF Proven

\* The one Morning of a day, and the one Analytics, that holds its lock.
LEMMA OneOfTheDay ==
    ASSUME IInv, NEW v \in Wakers, NEW o \in Occurrences, run[v].pc # "idle",
           run[v].occ[1] = o[1], o[1] \in {"morning", "analytics"}, DayOf(v) = Day(o[2])
    PROVE run[v].occ = o
BY DayIsKnown, OneADay DEF DayOf

\* An outcome stays backed while nobody is writing what it stands for.
LEMMA BackedStays ==
    ASSUME IInv, Next, NEW o \in Occurrences, NEW out \in Outcome, Backed(o, out),
           \A w \in Wakers : run[w].pc \in {"agent", "raw", "report"} => run[w].occ # o
    PROVE Backed(o, out)'
<1> SUFFICES ASSUME out.domain = "SUCCEEDED"
             PROVE Backed(o, out)'
  BY DEF Backed
<1> DEFINE d == Day(o[2])
           art == out.artifacts
<1>0. d \in Days
  BY OccurrenceHasSlot
<1>1. ASSUME "board" \in art
      PROVE /\ o[1] = "morning" /\ board'[d] /\ HandoffReady(d)'
            /\ crashes' = 0 => Recorded(d)'
  <2>1. o[1] = "morning" /\ board[d] /\ HandoffReady(d) /\ (crashes = 0 => Recorded(d))
    BY <1>1 DEF Backed
  <2>2. ASSUME NEW w \in Wakers, run[w].pc = "agent", DayOf(w) = d PROVE FALSE
    BY <2>1, <2>2, OneOfTheDay DEF IInv, RunFacts, MorningAt
  <2>3. crashes = 0 => handoff'[d] = handoff[d]
    BY <1>0, <2>2, ArtifactsMove
  <2>4. crashes' = 0 => Recorded(d)'
    BY <2>1, <2>3, CrashesCount, QueueMoves DEF Recorded
  <2> QED BY <1>0, <2>1, <2>4, ArtifactsMove, QueueMoves
<1>2. ASSUME "raw" \in art PROVE o[1] = "analytics" /\ pair'[d].raw = pair'[d].report
  <2>1. o[1] = "analytics" /\ pair[d].raw = pair[d].report
    BY <1>2 DEF Backed
  <2>2. ASSUME NEW w \in Wakers, run[w].pc \in {"raw", "report"}, DayOf(w) = d PROVE FALSE
    BY <2>1, <2>2, OneOfTheDay DEF IInv, RunFacts, AnalyticsAt
  <2>3. pair'[d] = pair[d]
    BY <1>0, <2>2, PairMoves DEF CommitRaw, CommitReport
  <2> QED BY <2>1, <2>3
<1>3. ASSUME NEW c \in art \cap Candidates PROVE drafts'[c] = 1 /\ sent'[c] = "SENT"
  <2>1. drafts[c] = 1 /\ sent[c] = "SENT"
    BY <1>3 DEF Backed
  <2> QED BY <2>1, NoneAssumption, ShownStays
<1> QED BY <1>1, <1>2, <1>3 DEF Backed

\* An outcome without artifacts stands for nothing.
LEMMA PlainOutcomes ==
    ASSUME NEW o
    PROVE /\ Backed(o, Succeeded({}))' /\ Backed(o, Unhealthy("FAILED"))'
          /\ Backed(o, Unhealthy("BLOCKED"))'
BY DEF Backed, Succeeded, Unhealthy

\* What each way of moving one process makes of it.
LEMMA WaysToMove ==
    ASSUME IInv, NEW w \in Wakers
    PROVE /\ \A pc \in Pcs : Goto(w, pc) =>
               /\ run'[w].pc = pc /\ run'[w].occ = run[w].occ /\ run'[w].bound = run[w].bound
               /\ run'[w].kept = run[w].kept
          /\ \A outcome \in Outcome : Conclude(w, outcome) =>
               run'[w].pc = "emit" /\ run'[w].outcome = outcome /\ run'[w].occ = run[w].occ
          /\ Leave(w) => run'[w].pc = "idle"
<1>0. run \in [Wakers -> RunRecord]
  BY DEF IInv, TypeOK
<1>1. ASSUME NEW pc \in Pcs, Goto(w, pc)
      PROVE /\ run'[w].pc = pc /\ run'[w].occ = run[w].occ /\ run'[w].bound = run[w].bound
            /\ run'[w].kept = run[w].kept
  <2>1. run'[w] = [run[w] EXCEPT !.pc = pc]
    BY <1>0, <1>1, GotoMoves
  <2> QED BY <1>0, <2>1 DEF RunRecord
<1>2. ASSUME NEW outcome \in Outcome, Conclude(w, outcome)
      PROVE run'[w].pc = "emit" /\ run'[w].outcome = outcome /\ run'[w].occ = run[w].occ
  <2>1. run'[w] = [run[w] EXCEPT !.pc = "emit", !.outcome = outcome]
    BY <1>0, <1>2, ConcludeMoves
  <2> QED BY <1>0, <2>1 DEF RunRecord
<1>3. Leave(w) => run'[w].pc = "idle"
  BY LeaveMoves DEF IInv, IdleRun
<1> QED BY <1>1, <1>2, <1>3

LEMMA KnownPcs ==
    {"attempt", "agent", "persist", "rows", "prove", "cadence", "request", "bridge", "look",
     "preview", "collect", "raw", "report", "emit", "idle", "lock", "notify", "send",
     "record"} \subseteq Pcs
BY DEF Pcs, Locked, MorningAt, StoryAt, AnalyticsAt

\* The outcome a Morning concludes with is backed,
LEMMA MorningOutcome ==
    ASSUME IInv, Next, NEW w \in Wakers, MorningStep(w), run'[w].pc = "emit", NEW o, o = run[w].occ,
           NEW out, out = run'[w].outcome
    PROVE Backed(o, out)'
<1>0. run \in [Wakers -> RunRecord]
  BY DEF IInv, TypeOK
<1>1. CASE Attempt(w)
  <2>1. CASE Goto(w, "persist")
    BY <2>1, WaysToMove, KnownPcs
  <2>2. CASE run' = [run EXCEPT ![w] = [@ EXCEPT !.pc = "agent", !.tries = run[w].tries + 1]]
    BY <1>0, <2>2 DEF RunRecord
  <2> QED BY <1>1, <2>1, <2>2 DEF Attempt
<1>2. CASE AgentEnds(w)
  BY <1>2, WaysToMove, KnownPcs, PlainOutcomes, OutcomesAreTyped DEF AgentEnds
<1>3. CASE PersistQueue(w)
  <2>1. CASE run' = [run EXCEPT ![w] = [@ EXCEPT !.pc = "rows", !.bound = handoff[DayOf(w)]]]
    BY <1>0, <2>1 DEF RunRecord
  <2>2. CASE Conclude(w, Unhealthy("FAILED"))
    BY <2>2, WaysToMove, PlainOutcomes, OutcomesAreTyped
  <2> QED BY <1>3, <2>1, <2>2 DEF PersistQueue
<1>4. CASE PersistRows(w)
  <2> DEFINE d == Day(o[2])
  <2>1. out = Succeeded({"board", "handoff"})
    BY <1>4, WaysToMove, OutcomesAreTyped DEF PersistRows
  <2>2. /\ o[1] = "morning" /\ board[d] /\ HandoffReady(d) /\ run[w].bound \in Handoffs
        /\ crashes = 0 => /\ run[w].bound = handoff[d] /\ Queueable(handoff[d]) \subseteq Queued
                          /\ \A row \in topics : row[1] # d
    BY <1>4 DEF PersistRows, IInv, RunFacts, MorningFacts, MorningAt, DayOf
  <2>3. UNCHANGED <<board, handoff, queue, crashes>>
    BY <1>4 DEF PersistRows
  <2>4. topics' = topics \cup {row \in RowsOf(d, run[w].bound) :
                                 \A q \in BOOLEAN : <<row[1], row[2], q>> \notin topics}
    BY <1>4 DEF PersistRows, DayOf
  <2>5. crashes' = 0 => Recorded(d)'
    <3>1. ASSUME crashes = 0, NEW row \in RowsOf(d, run[w].bound), NEW q \in BOOLEAN
          PROVE <<row[1], row[2], q>> \notin topics
      <4>1. row[1] = d
        BY <3>1 DEF RowsOf
      <4> QED BY <2>2, <3>1, <4>1
    <3>2. crashes = 0 => RowsOf(d, handoff[d]) \subseteq topics'
      BY <2>2, <2>4, <3>1
    <3>3. Queued' = Queued /\ handoff'[d] = handoff[d]
      BY <2>3 DEF Queued
    <3> QED BY <2>2, <2>3, <3>2, <3>3 DEF Recorded
  <2>6. {"board", "handoff"} \cap Candidates = {}
    BY NoneAssumption
  <2> QED BY <2>1, <2>2, <2>3, <2>5, <2>6 DEF Backed, Succeeded, HandoffReady
<1> QED BY <1>1, <1>2, <1>3, <1>4 DEF MorningStep

\* so is that of a Story
LEMMA StoryOutcome ==
    ASSUME IInv, Next, NEW w \in Wakers, StoryStep(w), run'[w].pc = "emit", NEW o, o = run[w].occ,
           NEW out, out = run'[w].outcome
    PROVE Backed(o, out)'
<1>0. run \in [Wakers -> RunRecord]
  BY DEF IInv, TypeOK
<1>1. CASE Prove(w)
  <2>1. CASE run' = [run EXCEPT ![w] = [@ EXCEPT !.pc = "cadence", !.bound = FirstLeft(handoff[DayOf(w)])]]
    BY <1>0, <2>1 DEF RunRecord
  <2> QED BY <1>1, <2>1, WaysToMove DEF Prove
<1>2. CASE Cadence(w)
  BY <1>2, WaysToMove, KnownPcs, PlainOutcomes, OutcomesAreTyped DEF Cadence
<1>3. CASE Request(w)
  BY <1>3, WaysToMove, KnownPcs, PlainOutcomes, OutcomesAreTyped DEF Request
<1>4. CASE Connected(w) \/ Look(w)
  BY <1>4, WaysToMove, KnownPcs, PlainOutcomes, OutcomesAreTyped DEF Connected, Look
<1>5. CASE Preview(w)
  <2> DEFINE c == run[w].bound
  <2>1. c \in Candidates /\ work[c].creates = 1 /\ work[c] # None
    BY <1>5 DEF Preview, IInv, StoryFacts, Connecting
  <2>2. drafts'[c] = 1
    BY <1>5, <2>1 DEF Preview, IInv, WorkFacts
  <2>3. PICK proof \in {"SENT", "UNSENT"} :
          /\ sent' = [sent EXCEPT ![c] = proof]
          /\ Conclude(w, IF proof = "SENT" THEN Succeeded({c}) ELSE Unhealthy("FAILED"))
    BY <1>5 DEF Preview
  <2>4. CASE proof = "SENT"
    <3>1. out = Succeeded({c})
      BY <2>1, <2>3, <2>4, WaysToMove, OutcomesAreTyped
    <3>2. sent'[c] = "SENT"
      BY <2>1, <2>3, <2>4 DEF IInv, TypeOK
    <3>3. c # "board" /\ c # "raw"
      BY <2>1, NoneAssumption
    <3> QED BY <2>2, <3>1, <3>2, <3>3 DEF Backed, Succeeded
  <2>5. CASE proof # "SENT"
    BY <2>3, <2>5, WaysToMove, PlainOutcomes, OutcomesAreTyped
  <2> QED BY <2>4, <2>5
<1> QED BY <1>1, <1>2, <1>3, <1>4, <1>5 DEF StoryStep

\* and that of Analytics.
LEMMA AnalyticsOutcome ==
    ASSUME IInv, Next, NEW w \in Wakers, AnalyticsStep(w), run'[w].pc = "emit", NEW o, o = run[w].occ,
           NEW out, out = run'[w].outcome
    PROVE Backed(o, out)'
<1>0. run \in [Wakers -> RunRecord]
  BY DEF IInv, TypeOK
<1>1. CASE Collect(w)
  <2>1. CASE run' = [run EXCEPT ![w] = [@ EXCEPT !.pc = "raw", !.kept = pair[DayOf(w)]]]
    BY <1>0, <2>1 DEF RunRecord
  <2> QED BY <1>1, <2>1, WaysToMove, PlainOutcomes, OutcomesAreTyped DEF Collect
<1>2. CASE CommitRaw(w)
  BY <1>2, WaysToMove, KnownPcs, PlainOutcomes, OutcomesAreTyped DEF CommitRaw
<1>3. CASE CommitReport(w) /\ ~ Conclude(w, Unhealthy("FAILED"))
  <2> DEFINE d == Day(o[2])
  <2>1. /\ pair' = [pair EXCEPT ![d].report = Edition(w)]
        /\ Conclude(w, Succeeded({"raw", "report"})) /\ run[w].pc = "report"
    BY <1>3 DEF CommitReport, DayOf
  <2>2. out = Succeeded({"raw", "report"})
    BY <2>1, WaysToMove, OutcomesAreTyped
  <2>3. pair[d].raw = Edition(w) /\ pair[d] \in Pair /\ d \in Days /\ o[1] = "analytics"
    BY <2>1, DayIsKnown DEF IInv, AnalyticsFacts, RunFacts, AnalyticsAt, TypeOK, DayOf
  <2>4. pair'[d] = [pair[d] EXCEPT !.report = Edition(w)]
    BY <2>1, <2>3 DEF IInv, TypeOK
  <2>5. pair'[d].raw = pair'[d].report
    BY <2>3, <2>4 DEF Pair
  <2>6. {"raw", "report"} \cap Candidates = {}
    BY NoneAssumption
  <2> QED BY <2>2, <2>3, <2>5, <2>6 DEF Backed, Succeeded
<1>4. CASE CommitReport(w) /\ Conclude(w, Unhealthy("FAILED"))
  BY <1>4, WaysToMove, PlainOutcomes, OutcomesAreTyped
<1> QED BY <1>1, <1>2, <1>3, <1>4 DEF AnalyticsStep

(***************************************************************************)
(* The parts of the invariant, one by one.                                 *)
(***************************************************************************)

\* What a process is about to emit stays backed while others move.
LEMMA EmittedStays ==
    ASSUME IInv, Next, NEW w \in Wakers, run[w].pc = "emit", NEW o, o = run[w].occ,
           NEW out, out = run[w].outcome
    PROVE Backed(o, out)'
<1>1. o \in Occurrences /\ out \in Outcome /\ Backed(o, out)
  BY DEF IInv, RunFacts
<1>2. ASSUME NEW v \in Wakers, run[v].pc \in {"agent", "raw", "report"} PROVE run[v].occ # o
  <2>1. run[v].pc \in Locked /\ run[w].pc \in Locked /\ v # w
    BY <1>2 DEF Locked, MorningAt, AnalyticsAt
  <2> QED BY <2>1, LockIsExclusive
<1> QED BY <1>1, <1>2, BackedStays

LEMMA ResultsStep ==
    ASSUME IInv, Next, NEW o \in Occurrences, result'[o] # None, NEW out, out = result'[o]
    PROVE Backed(o, out)'
<1>1. CASE result[o] # None
  <2>1. out = result[o] /\ out \in Outcome /\ Backed(o, out)
    BY <1>1, ResultStays DEF IInv, TypeOK
  <2>2. ASSUME NEW v \in Wakers, run[v].pc \in {"agent", "raw", "report"} PROVE run[v].occ # o
    BY <1>1, <2>2 DEF IInv, RunFacts, Locked, MorningAt, AnalyticsAt
  <2> QED BY <2>1, <2>2, BackedStays
<1>2. CASE result[o] = None
  <2>1. PICK w \in Wakers : Emit(w) /\ run[w].occ = o /\ out = run[w].outcome
    BY <1>2, ResultMoves
  <2> QED BY <2>1, EmittedStays DEF Emit
<1> QED BY <1>1, <1>2

LEMMA RunFactsStep ==
    ASSUME IInv, Next, NEW v \in Wakers
    PROVE RunFacts(v)'
<1> DEFINE pc == run[v].pc
           o == run[v].occ
<1> SUFFICES ASSUME run'[v].pc # "idle" PROVE RunFacts(v)'
  BY DEF RunFacts
<1>0. RunFacts(v) /\ StoryFacts(v) /\ TypeOK
  BY DEF IInv
<1>1. CASE run'[v] = run[v] /\ Bystander(v)
  <2>1. o \in Occurrences /\ Day(now)' \in Days
    BY <1>0, <1>1, TimePasses DEF RunFacts
  <2>2. pc \in Locked => holder'[o] = v /\ result'[o] = None
    BY <1>1, LockStays
  <2>3. pc \in {"notify", "send", "record"} => result'[o] # None
    BY <1>0, <1>1, <2>1, ResultStays DEF RunFacts
  <2>4. ASSUME pc = "emit", NEW p, p = run[v].occ, NEW out, out = run[v].outcome
        PROVE out \in Outcome /\ Backed(p, out)'
    BY <1>0, <2>4, EmittedStays DEF RunFacts
  <2>5. pc = "emit" => run'[v].outcome \in Outcome /\ Backed(run[v].occ, run[v].outcome)'
    BY <1>1, <2>4
  <2>6. pc \in {"send", "record"} => note'[o] # None
    BY <1>0, <1>1, <2>1, NoteStays DEF RunFacts
  <2> QED BY <1>0, <1>1, <2>1, <2>2, <2>3, <2>5, <2>6 DEF RunFacts
<1>2. CASE WakeUp(v)
  <2>1. run'[v].pc = "lock" /\ run'[v].occ \in Occurrences /\ Day(now') \in Days
    BY <1>0, <1>2, WakeUpMoves DEF Days
  <2> QED BY <2>1 DEF RunFacts, Locked, MorningAt, StoryAt, AnalyticsAt
<1>3. CASE Acquire(v)
  <2>0. o \in Occurrences /\ Day(now) \in Days /\ now' = now /\ o[1] \in Jobs
    BY <1>0, <1>3, OccurrenceHasSlot DEF RunFacts, Acquire
  <2>1. CASE result[o] = None
    <3>1. /\ holder' = [holder EXCEPT ![o] = v] /\ Goto(v, FirstStep(Job(v))) /\ result' = result
      BY <1>3, <2>1 DEF Acquire
    <3>2. holder'[o] = v /\ result'[o] = None
      BY <1>0, <2>0, <2>1, <3>1 DEF TypeOK
    <3>3. /\ FirstStep(Job(v)) \in Pcs /\ Job(v) = o[1]
          /\ o[1] \in {"morning", "story", "analytics"}
      BY <2>0, ScheduleAssumption DEF FirstStep, Pcs, Locked, MorningAt, StoryAt, AnalyticsAt, Job
    <3>4. run'[v].pc = FirstStep(o[1]) /\ run'[v].occ = o
      BY <3>1, <3>3, WaysToMove
    <3> QED BY <2>0, <3>2, <3>3, <3>4 DEF RunFacts, FirstStep, MorningAt, StoryAt, AnalyticsAt
  <2>2. CASE result[o] # None
    <3>1. run'[v].pc = "notify" /\ run'[v].occ = o /\ result' = result
      BY <1>3, <2>2, WaysToMove, KnownPcs DEF Acquire
    <3> QED BY <2>0, <2>2, <3>1 DEF RunFacts, Locked, MorningAt, StoryAt, AnalyticsAt
  <2> QED BY <2>1, <2>2
<1>4. CASE Emit(v)
  <2>0. o \in Occurrences /\ Day(now) \in Days /\ now' = now /\ run[v].outcome \in Outcome
    BY <1>0, <1>4 DEF RunFacts, Emit
  <2>1. run'[v].pc = "notify" /\ run'[v].occ = o
    BY <1>4, WaysToMove, KnownPcs DEF Emit
  <2>2. result'[o] # None
    BY <1>0, <1>4, <2>0, NoneAssumption DEF Emit, TypeOK
  <2> QED BY <2>0, <2>1, <2>2 DEF RunFacts, Locked, MorningAt, StoryAt, AnalyticsAt
<1>5. CASE Reserve(v) \/ Send(v) \/ Record(v)
  <2>1. /\ o \in Occurrences /\ Day(now) \in Days /\ now' = now /\ result[o] # None /\ result' = result
    BY <1>0, <1>5 DEF RunFacts, Reserve, Send, Record, occurrences
  <2>2. run'[v].pc \in {"send", "record"} /\ run'[v].occ = o
    BY <1>5, WaysToMove, KnownPcs DEF Reserve, Send, Record
  <2>3. note'[o] # None
    <3>1. CASE Reserve(v)
      <4>1. note' = [note EXCEPT ![o] = "PENDING"]
        BY <2>2, <3>1, WaysToMove DEF Reserve
      <4> QED BY <1>0, <2>1, <4>1, NoneAssumption DEF TypeOK, NoteStates
    <3>2. CASE Send(v)
      BY <1>0, <3>2 DEF Send, RunFacts
    <3>3. ~ Record(v)
      BY <2>2, WaysToMove DEF Record
    <3> QED BY <1>5, <3>1, <3>2, <3>3
  <2> QED BY <2>1, <2>2, <2>3 DEF RunFacts, Locked, MorningAt, StoryAt, AnalyticsAt
<1>6. ASSUME MorningStep(v) \/ StoryStep(v) \/ AnalyticsStep(v) PROVE RunFacts(v)'
  <2>1. PICK At \in {MorningAt, StoryAt, AnalyticsAt} :
          \/ At = MorningAt /\ MorningStep(v)
          \/ At = StoryAt /\ StoryStep(v)
          \/ At = AnalyticsAt /\ AnalyticsStep(v)
    BY <1>6
  <2>2. /\ pc \in At /\ UNCHANGED <<now, result, holder>> /\ run'[v].occ = o
        /\ run'[v].pc \in At \/ (run'[v].pc = "emit" /\ run'[v].outcome \in Outcome)
    <3>1. IdleRun.pc = "idle"
      BY DEF IdleRun
    <3> QED BY <1>0, <2>1, <3>1, JobMoves
  <2>3. /\ o \in Occurrences /\ Day(now) \in Days /\ holder[o] = v /\ result[o] = None
        /\ At = MorningAt => o[1] = "morning"
        /\ At = StoryAt => o[1] = "story"
        /\ At = AnalyticsAt => o[1] = "analytics"
    BY <1>0, <2>2 DEF RunFacts, Locked, MorningAt, StoryAt, AnalyticsAt
  <2>4. CASE run'[v].pc \in At
    BY <2>2, <2>3, <2>4 DEF RunFacts, Locked, MorningAt, StoryAt, AnalyticsAt
  <2>5. CASE run'[v].pc = "emit"
    <3>1. ASSUME NEW p, p = run[v].occ, NEW out, out = run'[v].outcome PROVE Backed(p, out)'
      BY <1>6, <2>5, <3>1, MorningOutcome, StoryOutcome, AnalyticsOutcome
    <3>2. Backed(run[v].occ, run[v].outcome)'
      BY <2>2, <3>1
    <3>3. run'[v].outcome \in Outcome
      BY <2>2, <2>5 DEF MorningAt, StoryAt, AnalyticsAt
    <3> QED BY <2>2, <2>3, <2>5, <3>2, <3>3 DEF RunFacts, Locked, MorningAt, StoryAt, AnalyticsAt
  <2> QED BY <2>2, <2>4, <2>5
<1>7. CASE Crash(v)
  BY <1>7, WaysToMove DEF Crash
<1> QED BY <1>1, <1>2, <1>3, <1>4, <1>5, <1>6, <1>7, OwnOrNot, BystanderStays DEF ProcessStep, RunStep

(***************************************************************************)
(* The alerts.                                                             *)
(***************************************************************************)

\* A process is about to send because it was, or because it has reserved.
LEMMA SendingMoves ==
    ASSUME IInv, Next, NEW v \in Wakers, run'[v].pc = "send"
    PROVE \/ run'[v] = run[v] /\ Bystander(v)
          \/ /\ Reserve(v) /\ run'[v].occ = run[v].occ /\ Moves(v)
             /\ Actionable(run[v].occ) /\ note[run[v].occ] = None
             /\ note' = [note EXCEPT ![run[v].occ] = "PENDING"]
<1>1. CASE WakeUp(v)
  BY <1>1, WakeUpMoves DEF IInv
<1>2. CASE RunStep(v)
  <2>1. ~ (Acquire(v) /\ run'[v].pc \in {FirstStep(Job(v)), "notify"})
    BY DEF FirstStep
  <2>2. Reserve(v) /\ run'[v].occ = run[v].occ /\ Moves(v)
    BY <1>2, <2>1, ProtocolMoves DEF IInv, IdleRun
  <2> QED BY <2>2, WaysToMove DEF Reserve
<1>3. CASE MorningStep(v) \/ StoryStep(v) \/ AnalyticsStep(v)
  BY <1>3, JobMoves DEF IInv, IdleRun, MorningAt, StoryAt, AnalyticsAt
<1>4. CASE Crash(v)
  BY <1>4, WaysToMove DEF Crash
<1> QED BY <1>1, <1>2, <1>3, <1>4, OwnOrNot, BystanderStays DEF ProcessStep

LEMMA SendFactsStep ==
    ASSUME IInv, Next, NEW v \in Wakers
    PROVE SendFacts(v)'
<1> SUFFICES ASSUME run'[v].pc = "send" PROVE SendFacts(v)'
  BY DEF SendFacts
<1> DEFINE o == run[v].occ
<1>0. /\ result \in [Occurrences -> Outcome \cup {None}]
      /\ note \in [Occurrences -> NoteStates \cup {None}] /\ None \notin NoteStates
  BY NoneAssumption DEF IInv, TypeOK
<1>1. CASE run'[v] = run[v] /\ Bystander(v)
  <2>1. /\ o \in Occurrences /\ result[o] # None /\ Actionable(o) /\ note[o] # None /\ alerts[o] = 0
        /\ \A u \in Wakers \ {v} : run[u].pc = "send" => run[u].occ # o
    BY <1>1 DEF IInv, RunFacts, SendFacts
  <2>2. result'[o] = result[o] /\ note'[o] # None
    BY <2>1, ResultStays, NoteStays
  <2>3. alerts'[o] = 0
    <3>1. ASSUME NEW w \in Wakers, Send(w), run[w].occ = o PROVE FALSE
      <4>1. run[w].pc = "send" /\ run'[w].pc = "record"
        BY <3>1, WaysToMove, KnownPcs DEF Send
      <4> QED BY <1>1, <2>1, <3>1, <4>1
    <3> QED BY <2>1, <3>1, AlertMoves
  <2>4. ASSUME NEW u \in Wakers \ {v}, run'[u].pc = "send" PROVE run'[u].occ # o
    BY <2>1, <2>4, SendingMoves
  <2> QED BY <1>1, <2>1, <2>2, <2>3, <2>4 DEF SendFacts, Actionable
<1>2. CASE ~ (run'[v] = run[v] /\ Bystander(v))
  <2>1. /\ Reserve(v) /\ run'[v].occ = o /\ Moves(v) /\ Actionable(o) /\ note[o] = None
        /\ note' = [note EXCEPT ![o] = "PENDING"]
    BY <1>2, SendingMoves
  <2>2. o \in Occurrences /\ result[o] # None /\ UNCHANGED <<result, alerts>>
    BY <2>1 DEF Reserve, IInv, RunFacts
  <2>3. note'[o] # None
    BY <1>0, <2>1, <2>2, NoneAssumption DEF NoteStates
  <2>4. alerts[o] = 0
    BY <2>1, <2>2 DEF IInv, ToldOnce, TypeOK
  <2>5. ASSUME NEW u \in Wakers \ {v}, run'[u].pc = "send" PROVE run'[u].occ # o
    BY <2>1, <2>5 DEF Moves, IInv, SendFacts
  <2> QED BY <2>1, <2>2, <2>3, <2>4, <2>5 DEF SendFacts, Actionable
<1> QED BY <1>1, <1>2

LEMMA ToldOnceStep ==
    ASSUME IInv, Next
    PROVE ToldOnce'
<1> SUFFICES ASSUME NEW o \in Occurrences, alerts'[o] > 0
             PROVE alerts'[o] = 1 /\ result'[o] # None /\ Actionable(o)' /\ note'[o] # None
  BY DEF ToldOnce
<1>1. /\ alerts'[o] = 1 /\ result[o] # None /\ Actionable(o) /\ note[o] # None
  <2>1. CASE alerts'[o] = alerts[o]
    BY <2>1 DEF IInv, ToldOnce
  <2>2. CASE alerts'[o] # alerts[o]
    <3>1. PICK w \in Wakers : Send(w) /\ run[w].occ = o /\ alerts'[o] = alerts[o] + 1
      BY <2>2, AlertMoves
    <3> QED BY <3>1 DEF Send, IInv, SendFacts
  <2> QED BY <2>1, <2>2
<1> QED BY <1>1, ResultStays, NoteStays DEF Actionable

(***************************************************************************)
(* Morning.                                                                *)
(***************************************************************************)

\* The agent of a live process is the one it had, or one it has just called.
LEMMA AgentMoves ==
    ASSUME IInv, Next, NEW v \in Wakers, agent'[v] # None
    PROVE \/ /\ agent[v] # None /\ run'[v] = run[v] /\ agent'[v].day = agent[v].day
          \/ /\ Attempt(v) /\ run'[v].pc = "agent" /\ run'[v].occ = run[v].occ
             /\ agent'[v].day = DayOf(v)
<1>0. /\ agent \in [Agents -> AgentWork \cup {None}] /\ v \in Agents /\ Stray \notin Wakers
      /\ run \in [Wakers -> RunRecord]
  BY ScheduleAssumption DEF IInv, TypeOK, Agents
<1>1. CASE World
  <2>1. ASSUME NEW a \in Agents, AgentWrites(a)
        PROVE agent[v] # None /\ agent'[v].day = agent[v].day
    <3>1. \E file \in {"board", "handoff"} : agent' = [agent EXCEPT ![a] = [agent[a] EXCEPT !.todo = agent[a].todo \ {file}]]
      BY <2>1 DEF AgentWrites
    <3>2. agent[a] # None /\ agent[a] \in AgentWork
      BY <1>0, <2>1 DEF AgentWrites
    <3> QED BY <1>0, <3>1, <3>2 DEF AgentWork
  <2>2. CASE StrayEnds
    BY <1>0, <2>2 DEF StrayEnds
  <2>3. ASSUME NEW c \in Candidates, BridgeEnds(c) \/ BridgeCalls(c) \/ Owner(c) PROVE UNCHANGED agent
    BY <2>3 DEF BridgeEnds, BridgeCalls, Owner, desk
  <2> QED BY <1>1, <2>1, <2>2, <2>3, WorldFrame DEF World
<1>2. ASSUME NEW w \in Wakers \ {v}, ProcessStep(w)
      PROVE agent'[v] = agent[v] /\ run'[v] = run[v]
  <2>1. CASE Attempt(w) \/ AgentEnds(w) \/ Crash(w)
    BY <1>0, <1>2, <2>1, ProcessMoves DEF Attempt, AgentEnds, Crash, Moves
  <2>2. CASE PersistQueue(w) \/ PersistRows(w)
    BY <1>2, <2>2, ProcessMoves DEF PersistQueue, PersistRows, Moves
  <2> QED BY <1>2, <2>1, <2>2, DeskFrame, ProcessMoves DEF MorningStep, Moves
<1>3. CASE Attempt(v)
  <2>1. CASE Goto(v, "persist") /\ UNCHANGED agent
    BY <1>3, <2>1 DEF IInv, AgentFacts, Attempt
  <2>2. CASE /\ run' = [run EXCEPT ![v] = [@ EXCEPT !.pc = "agent", !.tries = run[v].tries + 1]]
             /\ agent' = [agent EXCEPT ![v] = [day |-> DayOf(v), todo |-> {"board", "handoff"}]]
    BY <1>0, <1>3, <2>2 DEF RunRecord
  <2> QED BY <1>3, <2>1, <2>2 DEF Attempt
<1>4. CASE AgentEnds(v) \/ Crash(v)
  BY <1>0, <1>4 DEF AgentEnds, Crash
<1>5. CASE ProcessStep(v) /\ ~ Attempt(v) /\ ~ AgentEnds(v) /\ ~ Crash(v)
  <2>1. UNCHANGED agent
    BY <1>5, DeskFrame DEF MorningStep, PersistQueue, PersistRows
  <2>2. run[v].pc # "agent"
    BY <1>5 DEF ProcessStep, WakeUp, RunStep, Acquire, Emit, Reserve, Send, Record, MorningStep,
         PersistQueue, PersistRows, StoryStep, Prove, Cadence, Request, Connected, Look, Preview,
         AnalyticsStep, Collect, CommitRaw, CommitReport
  <2> QED BY <2>1, <2>2 DEF IInv, AgentFacts
<1> QED BY <1>1, <1>2, <1>3, <1>4, <1>5, NextSplit DEF IInv, AgentFacts

LEMMA AgentFactsStep ==
    ASSUME IInv, Next
    PROVE AgentFacts'
<1>1. ASSUME NEW v \in Wakers, agent'[v] # None PROVE run'[v].pc = "agent" /\ agent'[v].day = DayOf(v)'
  BY <1>1, AgentMoves DEF IInv, AgentFacts, DayOf
<1>2. ASSUME crashes' = 0 PROVE agent'[Stray] = None
  <2>0. crashes = 0 /\ agent[Stray] = None /\ Stray \in Agents \ Wakers /\ crashes \in Nat
        /\ agent \in [Agents -> AgentWork \cup {None}]
    BY <1>2, CrashesCount, ScheduleAssumption DEF IInv, AgentFacts, TypeOK, Agents
  <2>1. ASSUME NEW a \in Agents, AgentWrites(a) PROVE agent'[Stray] = agent[Stray]
    BY <2>0, <2>1 DEF AgentWrites
  <2>2. ASSUME NEW w \in Wakers, Attempt(w) \/ AgentEnds(w) PROVE agent'[Stray] = agent[Stray]
    BY <2>0, <2>2 DEF Attempt, AgentEnds
  <2>3. ~ StrayEnds /\ \A w \in Wakers : ~ Crash(w)
    BY <1>2, <2>0 DEF StrayEnds, Crash
  <2>4. ASSUME NEW c \in Candidates, BridgeEnds(c) \/ BridgeCalls(c) \/ Owner(c) PROVE UNCHANGED agent
    BY <2>4 DEF BridgeEnds, BridgeCalls, Owner, desk
  <2>5. ASSUME NEW w \in Wakers, PersistQueue(w) \/ PersistRows(w) PROVE UNCHANGED agent
    BY <2>5 DEF PersistQueue, PersistRows
  <2> QED BY <2>0, <2>1, <2>2, <2>3, <2>4, <2>5, NextSplit, DeskFrame DEF World, MorningStep
<1> QED BY <1>1, <1>2 DEF AgentFacts

\* A process is at the rows because it was, or has queued a valid handoff.
LEMMA RowsMoves ==
    ASSUME IInv, Next, NEW v \in Wakers, run'[v].pc = "rows"
    PROVE \/ run'[v] = run[v] /\ Bystander(v)
          \/ /\ PersistQueue(v) /\ run'[v].occ = run[v].occ /\ run'[v].bound = handoff[DayOf(v)]
             /\ board[DayOf(v)] /\ Valid(DayOf(v))
             /\ queue' = IF queue[DayOf(v)] # None \/ Queueable(handoff[DayOf(v)]) = {} THEN queue
                         ELSE [queue EXCEPT ![DayOf(v)] = Queueable(handoff[DayOf(v)]) \ Queued]
<1>0. run \in [Wakers -> RunRecord]
  BY DEF IInv, TypeOK
<1>1. CASE WakeUp(v)
  BY <1>1, WakeUpMoves DEF IInv
<1>2. CASE RunStep(v)
  BY <1>2, ProtocolMoves DEF IInv, IdleRun, FirstStep
<1>3. CASE StoryStep(v)
  BY <1>3, JobMoves DEF IInv, IdleRun, StoryAt
<1>4. CASE AnalyticsStep(v)
  BY <1>4, JobMoves DEF IInv, IdleRun, AnalyticsAt
<1>5. CASE Crash(v)
  BY <1>5, WaysToMove DEF Crash
<1>6. CASE Attempt(v)
  <2>1. CASE Goto(v, "persist")
    BY <2>1, WaysToMove, KnownPcs
  <2>2. CASE run' = [run EXCEPT ![v] = [@ EXCEPT !.pc = "agent", !.tries = run[v].tries + 1]]
    BY <1>0, <2>2 DEF RunRecord
  <2> QED BY <1>6, <2>1, <2>2 DEF Attempt
<1>7. CASE AgentEnds(v)
  BY <1>7, WaysToMove, KnownPcs, OutcomesAreTyped DEF AgentEnds
<1>8. CASE PersistRows(v)
  BY <1>8, WaysToMove, OutcomesAreTyped DEF PersistRows
<1>9. CASE PersistQueue(v)
  <2>1. ~ Conclude(v, Unhealthy("FAILED"))
    BY WaysToMove, OutcomesAreTyped
  <2>2. /\ board[DayOf(v)] /\ Valid(DayOf(v))
        /\ run' = [run EXCEPT ![v] = [run[v] EXCEPT !.pc = "rows", !.bound = handoff[DayOf(v)]]]
        /\ queue' = IF queue[DayOf(v)] # None \/ Queueable(handoff[DayOf(v)]) = {} THEN queue
                    ELSE [queue EXCEPT ![DayOf(v)] = Queueable(handoff[DayOf(v)]) \ Queued]
    BY <1>9, <2>1 DEF PersistQueue
  <2>3. run'[v].occ = run[v].occ /\ run'[v].bound = handoff[DayOf(v)]
    BY <1>0, <2>2 DEF RunRecord
  <2> QED BY <1>9, <2>2, <2>3
<1> QED BY <1>1, <1>2, <1>3, <1>4, <1>5, <1>6, <1>7, <1>8, <1>9, OwnOrNot, BystanderStays
        DEF ProcessStep, MorningStep

LEMMA MorningFactsStep ==
    ASSUME IInv, Next, NEW v \in Wakers
    PROVE MorningFacts(v)'
<1> SUFFICES ASSUME run'[v].pc = "rows" PROVE MorningFacts(v)'
  BY DEF MorningFacts
<1> DEFINE d == DayOf(v)
<1>1. CASE run'[v] = run[v] /\ Bystander(v)
  <2>1. /\ d \in Days /\ run[v].occ[1] = "morning" /\ run[v].occ \in Occurrences
        /\ board[d] /\ run[v].bound \in Handoffs /\ HandoffReady(d)
        /\ Queueable(run[v].bound) # {} => queue[d] # None
        /\ crashes = 0 => /\ run[v].bound = handoff[d] /\ Queueable(handoff[d]) \subseteq Queued
                          /\ \A row \in topics : row[1] # d
    BY <1>1, DayIsKnown DEF IInv, RunFacts, MorningFacts, MorningAt
  <2>2. ASSUME NEW w \in Wakers, run[w].pc = "agent", DayOf(w) = d PROVE FALSE
    <3>1. run[w].occ = run[v].occ
      BY <2>1, <2>2, OneOfTheDay DEF IInv, RunFacts, MorningAt, DayOf
    <3> QED BY <1>1, <2>2, <3>1, LockIsExclusive DEF Locked, MorningAt
  <2>3. crashes = 0 => handoff'[d] = handoff[d]
    BY <2>1, <2>2, ArtifactsMove
  <2>4. \A e \in Days : e = d =>
          board'[e] /\ HandoffReady(e)' /\ (queue[e] # None => queue'[e] # None)
    BY <2>1, ArtifactsMove, QueueMoves
  \* Another process at the rows of this day would be in the same lock.
  <2>5. ASSUME NEW row \in topics' \ topics PROVE row[1] # d
    <3>1. PICK w \in Wakers : PersistRows(w) /\ row \in RowsOf(DayOf(w), run[w].bound)
      BY QueueMoves
    <3>2. run[w].pc = "rows" /\ row[1] = DayOf(w)
      BY <3>1 DEF PersistRows, RowsOf
    <3>3. ASSUME DayOf(w) = d PROVE FALSE
      <4>1. run[w].occ = run[v].occ
        BY <2>1, <3>2, <3>3, OneOfTheDay DEF IInv, RunFacts, MorningAt, DayOf
      <4>2. w = v
        BY <1>1, <3>2, <4>1, LockIsExclusive DEF Locked, MorningAt
      <4>3. run'[v].pc = "emit"
        BY <3>1, <4>2, WaysToMove, OutcomesAreTyped DEF PersistRows
      <4> QED BY <4>3
    <3> QED BY <3>2, <3>3
  <2>6. DayOf(v)' = d
    BY <1>1 DEF DayOf
  <2> QED BY <1>1, <2>1, <2>3, <2>4, <2>5, <2>6, CrashesCount, QueueMoves DEF MorningFacts, HandoffReady
<1>2. CASE ~ (run'[v] = run[v] /\ Bystander(v))
  <2>1. /\ PersistQueue(v) /\ run'[v].occ = run[v].occ /\ run'[v].bound = handoff[d]
        /\ board[d] /\ Valid(d)
        /\ queue' = IF queue[d] # None \/ Queueable(handoff[d]) = {} THEN queue
                    ELSE [queue EXCEPT ![d] = Queueable(handoff[d]) \ Queued]
    BY <1>2, RowsMoves
  <2>2. /\ d \in Days /\ run[v].pc = "persist" /\ run[v].occ \in Occurrences
        /\ run[v].occ[1] = "morning" /\ result[run[v].occ] = None
        /\ UNCHANGED <<board, handoff, topics, crashes>>
    BY <2>1, DayIsKnown DEF PersistQueue, IInv, RunFacts, Locked, MorningAt
  <2>3. handoff[d] \in Handoffs /\ Queueable(handoff[d]) \in SUBSET Candidates /\ handoff[d] # None
    BY <2>1, RankedAreCandidates, ScheduleAssumption DEF Valid
  <2>4. queue \in [Days -> (SUBSET Candidates) \cup {None}]
    BY DEF IInv, TypeOK
  <2>5. Queueable(handoff[d]) \ Queued # None
    BY <2>3, NoneAssumption
  <2>6. Queueable(handoff[d]) # {} => queue'[d] # None
    BY <2>1, <2>2, <2>4, <2>5
  <2>7. ASSUME crashes = 0 PROVE queue[d] = None /\ \A row \in topics : row[1] # d
    <3>1. run[v].occ = MorningOf(d)
      BY <2>2, MorningIsOccurrence, OneADay DEF DayOf
    <3>2. ASSUME NEW w \in Wakers, run[w].pc \in {"rows", "emit"}, run[w].occ = MorningOf(d)
          PROVE FALSE
      BY <2>2, <3>1, <3>2, LockIsExclusive DEF Locked, MorningAt
    <3> QED BY <2>2, <2>7, <3>1, <3>2 DEF IInv, QueueFacts
  <2>8. ASSUME crashes = 0, Queueable(handoff[d]) # {} PROVE Queueable(handoff[d]) \subseteq Queued'
    <3>1. queue'[d] = Queueable(handoff[d]) \ Queued
      BY <2>1, <2>2, <2>4, <2>7, <2>8
    <3>2. queue'[d] \subseteq Queued'
      BY <2>2, <2>6, <2>8 DEF Queued
    <3> QED BY <3>1, <3>2, QueueMoves
  <2>9. DayOf(v)' = d
    BY <2>1 DEF DayOf
  <2> QED BY <2>1, <2>2, <2>3, <2>6, <2>7, <2>8, <2>9 DEF MorningFacts, HandoffReady
<1> QED BY <1>1, <1>2

LEMMA QueueFactsStep ==
    ASSUME IInv, Next, NEW d \in Days
    PROVE QueueFacts(d)'
<1>s. SectionWritten(d)'
  <2> SUFFICES ASSUME NEW c \in Candidates, <<d, c, TRUE>> \in topics' PROVE queue'[d] # None
    BY DEF SectionWritten
  <2>1. CASE <<d, c, TRUE>> \in topics
    <3>1. queue[d] # None
      BY <2>1 DEF IInv, QueueFacts, SectionWritten
    <3> QED BY <3>1, QueueMoves
  <2>2. CASE <<d, c, TRUE>> \notin topics
    <3>1. PICK w \in Wakers : PersistRows(w) /\ <<d, c, TRUE>> \in RowsOf(DayOf(w), run[w].bound)
      BY <2>2, QueueMoves
    <3>2. /\ DayOf(w) \in Days /\ run[w].bound \in Handoffs
          /\ Queueable(run[w].bound) # {} => queue[DayOf(w)] # None
      BY <3>1, DayIsKnown DEF PersistRows, IInv, MorningFacts
    <3>3. d = DayOf(w) /\ Queueable(run[w].bound) # {}
      BY <3>1, <3>2, RowsAreOfTheDay, Zenon
    <3> QED BY <3>2, <3>3, QueueMoves
  <2> QED BY <2>1, <2>2
<1> SUFFICES ASSUME crashes' = 0, queue'[d] # None \/ \E row \in topics' : row[1] = d
             PROVE \/ result'[MorningOf(d)] # None
                   \/ \E w \in Wakers : run'[w].pc \in {"rows", "emit"} /\ run'[w].occ = MorningOf(d)
  BY <1>s DEF QueueFacts, MorningOf
<1> DEFINE m == MorningOf(d)
<1>0. crashes = 0 /\ m \in Occurrences /\ m[1] = "morning" /\ Day(m[2]) = d
  BY CrashesCount, MorningIsOccurrence
<1>1. CASE queue[d] = None /\ queue'[d] # None
  <2>1. PICK w \in Wakers : PersistQueue(w) /\ DayOf(w) = d /\ run'[w].pc = "rows"
    BY <1>1, QueueMoves
  <2>2. run'[w].occ = run[w].occ
    BY <2>1, RowsMoves DEF PersistQueue
  <2>3. run[w].occ[1] = "morning"
    BY <2>1 DEF PersistQueue, IInv, RunFacts, MorningAt
  <2>4. run[w].occ = m
    BY <1>0, <2>1, <2>3, OneOfTheDay DEF PersistQueue
  <2> QED BY <2>1, <2>2, <2>4
<1>2. CASE result[m] # None
  BY <1>0, <1>2, ResultStays
<1>3. ASSUME NEW w \in Wakers, run[w].pc \in {"rows", "emit"}, run[w].occ = m
      PROVE \/ result'[m] # None
            \/ run'[w].pc \in {"rows", "emit"} /\ run'[w].occ = m
  <2>1. CASE PersistRows(w)
    BY <1>3, <2>1, WaysToMove, OutcomesAreTyped DEF PersistRows
  <2>2. CASE Emit(w)
    <3>1. run[w].outcome \in Outcome
      BY <2>2 DEF Emit, IInv, RunFacts
    <3> QED BY <1>0, <1>3, <2>2, <3>1, NoneAssumption DEF Emit, IInv, TypeOK
  <2>3. ~ Crash(w)
    BY <1>0 DEF Crash
  <2>4. CASE ProcessStep(w) /\ ~ PersistRows(w) /\ ~ Emit(w)
    BY <1>3, <2>3, <2>4 DEF ProcessStep, WakeUp, RunStep, Acquire, Reserve, Send, Record, MorningStep,
         Attempt, AgentEnds, PersistQueue, StoryStep, Prove, Cadence, Request, Connected, Look,
         Preview, AnalyticsStep, Collect, CommitRaw, CommitReport
  <2> QED BY <1>3, <2>1, <2>2, <2>4, OwnOrNot, BystanderStays
<1>4. ASSUME NEW row \in topics' \ topics, row[1] = d
      PROVE \E w \in Wakers : run[w].pc \in {"rows", "emit"} /\ run[w].occ = m
  <2>1. PICK w \in Wakers : PersistRows(w) /\ row \in RowsOf(DayOf(w), run[w].bound)
    BY <1>4, QueueMoves
  <2>2. run[w].pc = "rows" /\ DayOf(w) = d
    BY <1>4, <2>1 DEF PersistRows, RowsOf
  <2>3. run[w].occ[1] = "morning"
    BY <2>2 DEF IInv, RunFacts, MorningAt
  <2> QED BY <1>0, <2>2, <2>3, OneOfTheDay
<1>5. CASE queue[d] # None \/ \E row \in topics : row[1] = d
  BY <1>0, <1>2, <1>3, <1>5 DEF IInv, QueueFacts
<1> QED BY <1>1, <1>3, <1>4, <1>5

(***************************************************************************)
(* Story and Analytics.                                                    *)
(***************************************************************************)

\* The candidate a Story takes from the handoff of a proven Morning is proven.
LEMMA TakenIsProven ==
    ASSUME IInv, NEW d \in Days, MorningProven(d), Valid(d)
    PROVE /\ FirstLeft(handoff[d]) \in Candidates \cup {None}
          /\ FirstLeft(handoff[d]) # None => Proven(FirstLeft(handoff[d]))
<1>0. handoff[d] \in Handoffs
  BY DEF Valid
<1>1. \/ FirstLeft(handoff[d]) = None
      \/ /\ FirstLeft(handoff[d]) \in Candidates /\ FirstLeft(handoff[d]) \in Queueable(handoff[d])
         /\ <<d, FirstLeft(handoff[d]), TRUE>> \in RowsOf(d, handoff[d])
  BY <1>0, FirstIsRanked
<1>2. Backed(MorningOf(d), result[MorningOf(d)]) /\ Day(MorningOf(d)[2]) = d
  BY MorningIsOccurrence DEF MorningProven, IInv
<1>3. crashes = 0 => Recorded(d)
  BY <1>2 DEF Backed, MorningProven
<1> QED BY <1>1, <1>3 DEF Recorded, Proven

\* A step of a Story that leaves it at a candidate.
LEMMA StoryMoves ==
    ASSUME IInv, Next, NEW v \in Wakers, run'[v].pc \in StoryAt
    PROVE \/ run'[v] = run[v] /\ Bystander(v)
          \/ Acquire(v) /\ run'[v].pc = "prove"
          \/ /\ Prove(v) /\ run'[v].pc = "cadence" /\ MorningProven(DayOf(v)) /\ Valid(DayOf(v))
             /\ run'[v].bound = FirstLeft(handoff[DayOf(v)])
          \/ /\ Cadence(v) /\ run'[v].pc = "request" /\ run[v].bound # None
             /\ run'[v].bound = run[v].bound
          \/ /\ Request(v) /\ run'[v].pc \in {"look", "bridge"} /\ run'[v].bound = run[v].bound
             /\ request' = [request EXCEPT ![run[v].bound] = v]
             /\ work' = [work EXCEPT ![run[v].bound] = IF @ = None THEN NewManifest ELSE @]
          \/ Connected(v) /\ run'[v].pc = "look" /\ run'[v].bound = run[v].bound
          \/ /\ Look(v) /\ run'[v].pc = "preview" /\ run'[v].bound = run[v].bound
             /\ work[run[v].bound].review = "DRAFT_CREATED" /\ UNCHANGED request
<1> USE DEF StoryAt
<1>0. run \in [Wakers -> RunRecord]
  BY DEF IInv, TypeOK
<1>1. CASE WakeUp(v)
  BY <1>1, WakeUpMoves DEF IInv
<1>2. CASE RunStep(v)
  BY <1>2, ProtocolMoves DEF IInv, IdleRun, FirstStep
<1>3. CASE MorningStep(v)
  BY <1>3, JobMoves DEF IInv, IdleRun, MorningAt
<1>4. CASE AnalyticsStep(v)
  BY <1>4, JobMoves DEF IInv, IdleRun, AnalyticsAt
<1>5. CASE Crash(v)
  BY <1>5, WaysToMove DEF Crash
<1>6. CASE Prove(v)
  <2>1. /\ run' = [run EXCEPT ![v] = [run[v] EXCEPT !.pc = "cadence", !.bound = FirstLeft(handoff[DayOf(v)])]]
        /\ MorningProven(DayOf(v)) /\ Valid(DayOf(v))
    BY <1>6, WaysToMove DEF Prove
  <2> QED BY <1>0, <1>6, <2>1 DEF RunRecord
<1>7. CASE Cadence(v)
  <2>1. ~ Leave(v) /\ ~ Conclude(v, Succeeded({}))
    BY WaysToMove, OutcomesAreTyped
  <2> QED BY <1>7, <2>1, WaysToMove, KnownPcs DEF Cadence
<1>8. CASE Request(v)
  <2>1. ~ Conclude(v, Unhealthy("FAILED")) /\ ~ Conclude(v, Unhealthy("BLOCKED"))
    BY WaysToMove, OutcomesAreTyped
  <2>2. /\ request' = [request EXCEPT ![run[v].bound] = v]
        /\ work' = [work EXCEPT ![run[v].bound] = IF @ = None THEN NewManifest ELSE @]
        /\ Goto(v, IF run[v].bound \in child THEN "look" ELSE "bridge")
    BY <1>8, <2>1 DEF Request
  <2> QED BY <1>8, <2>2, WaysToMove, KnownPcs
<1>9. CASE Connected(v)
  BY <1>9, WaysToMove, KnownPcs DEF Connected
<1>10. CASE Look(v)
  <2>1. ~ Conclude(v, Unhealthy("FAILED"))
    BY WaysToMove, OutcomesAreTyped
  <2> QED BY <1>10, <2>1, WaysToMove, KnownPcs DEF Look
<1>11. CASE Preview(v)
  <2>1. run[v].bound \in Candidates
    BY <1>11 DEF Preview, IInv, StoryFacts, Connecting
  <2> QED BY <1>11, <2>1, WaysToMove, OutcomesAreTyped DEF Preview
<1> QED BY <1>1, <1>2, <1>3, <1>4, <1>5, <1>6, <1>7, <1>8, <1>9, <1>10, <1>11, OwnOrNot,
           BystanderStays DEF ProcessStep, StoryStep

LEMMA StoryFactsStep ==
    ASSUME IInv, Next, NEW v \in Wakers
    PROVE StoryFacts(v)'
<1> SUFFICES ASSUME run'[v].pc \in StoryAt PROVE StoryFacts(v)'
  BY DEF StoryFacts, StoryAt, Connecting
<1> DEFINE c == run[v].bound
<1>0. /\ request \in [Candidates -> Wakers \cup {None}]
      /\ work \in [Candidates -> Manifest \cup {None}] /\ StoryFacts(v)
  BY DEF IInv, TypeOK
<1>1. CASE run'[v] = run[v] /\ Bystander(v)
  <2>1. ASSUME run[v].pc \in {"cadence", "request"}, NEW x, x = run[v].bound, x # None PROVE Proven(x)'
    BY <1>0, <2>1, ProvenStays DEF StoryFacts
  <2>2. run[v].pc \in {"cadence", "request"} /\ c # None => Proven(run[v].bound)'
    BY <1>1, <2>1
  <2>3. ASSUME run[v].pc \in Connecting PROVE request'[c] = v /\ work'[c] # None
    BY <1>0, <1>1, <2>3, RequestStays, WorkStays DEF StoryFacts
  <2>4. run[v].pc = "preview" => work'[c].creates = 1
    BY <1>0, WorkStays DEF StoryFacts, Connecting
  <2> QED BY <1>0, <1>1, <2>2, <2>3, <2>4 DEF StoryFacts
<1>2. CASE Acquire(v) /\ run'[v].pc = "prove"
  BY <1>2 DEF StoryFacts, Connecting
<1>3. CASE /\ Prove(v) /\ run'[v].pc = "cadence" /\ MorningProven(DayOf(v)) /\ Valid(DayOf(v))
           /\ run'[v].bound = FirstLeft(handoff[DayOf(v)])
  <2>1. DayOf(v) \in Days
    BY <1>3, DayIsKnown DEF Prove
  <2>2. ASSUME NEW x, x = run'[v].bound PROVE x \in Candidates \cup {None} /\ (x # None => Proven(x)')
    BY <1>3, <2>1, <2>2, TakenIsProven, ProvenStays
  <2>3. run'[v].bound \in Candidates \cup {None} /\ (run'[v].bound # None => Proven(run[v].bound)')
    BY <2>2
  <2> QED BY <1>3, <2>3 DEF StoryFacts, Connecting
<1>4. CASE Cadence(v) /\ run'[v].pc = "request" /\ c # None /\ run'[v].bound = c
  <2>1. ASSUME NEW x, x = run[v].bound PROVE x \in Candidates /\ Proven(x)'
    BY <1>0, <1>4, <2>1, ProvenStays DEF StoryFacts, Cadence
  <2>2. run'[v].bound \in Candidates /\ Proven(run[v].bound)'
    BY <1>4, <2>1
  <2> QED BY <1>4, <2>2 DEF StoryFacts, Connecting
<1>5. CASE /\ Request(v) /\ run'[v].pc \in {"look", "bridge"} /\ run'[v].bound = c
           /\ request' = [request EXCEPT ![c] = v]
           /\ work' = [work EXCEPT ![c] = IF @ = None THEN NewManifest ELSE @]
  <2>1. c \in Candidates
    BY <1>0, <1>5 DEF Request, StoryFacts
  <2>2. NewManifest \in Manifest /\ NewManifest # None
    BY <1>5, DayIsKnown, NoneAssumption DEF NewManifest, Manifest, Request
  <2> QED BY <1>0, <1>5, <2>1, <2>2 DEF StoryFacts
<1>6. CASE Connected(v) /\ run'[v].pc = "look" /\ run'[v].bound = c
  BY <1>0, <1>6 DEF StoryFacts, Connected, Connecting, stories
<1>7. CASE /\ Look(v) /\ run'[v].pc = "preview" /\ run'[v].bound = c
           /\ work[c].review = "DRAFT_CREATED" /\ UNCHANGED request
  <2>1. c \in Candidates /\ request[c] = v /\ work[c] # None /\ work' = work
    BY <1>0, <1>7 DEF StoryFacts, Look, Connecting
  <2>2. work[c].creates = 1
    BY <1>0, <1>7, <2>1 DEF IInv, WorkFacts, Manifest
  <2> QED BY <1>7, <2>1, <2>2 DEF StoryFacts
<1> QED BY <1>1, <1>2, <1>3, <1>4, <1>5, <1>6, <1>7, StoryMoves

\* A request's lock is where it was, its holder still connecting, or just taken.
LEMMA RequestHeld ==
    ASSUME IInv, Next, NEW c \in Candidates, request'[c] # None
    PROVE run'[request'[c]].pc \in Connecting /\ run'[request'[c]].bound = c
<1> DEFINE v == request'[c]
<1>0. /\ v \in Wakers /\ request \in [Candidates -> Wakers \cup {None}]
      /\ \A u \in Wakers : u # None
  <2>1. TypeOK' /\ TypeOK
    BY TypeStep DEF IInv
  <2>2. \A u \in Wakers : u # None
    BY ScheduleAssumption
  <2>3. request'[c] \in Wakers \cup {None}
    BY <2>1 DEF TypeOK
  <2> QED BY <2>1, <2>2, <2>3 DEF TypeOK
<1>1. CASE request[c] # v
  <2>1. PICK w \in Wakers : ProcessStep(w)
    BY <1>1, NextSplit, WorldFrame
  <2>2. Request(w) /\ c = run[w].bound
    BY <1>0, <1>1, <2>1, ProcessOnStories DEF Look, Preview
  <2>3. request' = [request EXCEPT ![c] = w] /\ Goto(w, IF c \in child THEN "look" ELSE "bridge")
    BY <1>1, <2>2 DEF Request
  <2>4. v = w
    BY <1>0, <2>3
  <2>5. run'[w].pc \in {"look", "bridge"} /\ run'[w].bound = c
    BY <2>2, <2>3, WaysToMove, KnownPcs
  <2> QED BY <2>4, <2>5 DEF Connecting
<1>2. CASE request[c] = v
  <2>1. run[v].pc \in Connecting /\ run[v].bound = c
    BY <1>0, <1>2 DEF IInv, WorkFacts
  <2>2. CASE run'[v] = run[v]
    BY <2>1, <2>2
  <2>3. CASE ProcessStep(v)
    <3>1. CASE Connected(v)
      BY <1>0, <2>1, <3>1, WaysToMove, KnownPcs DEF Connected, Connecting
    <3>2. CASE Look(v)
      BY <1>0, <2>1, <3>2, WaysToMove, KnownPcs DEF Look, Connecting
    <3>3. ~ Preview(v) /\ ~ Crash(v)
      BY <1>0, <1>2, <2>1 DEF Preview, Crash
    <3> QED BY <2>1, <2>3, <3>1, <3>2, <3>3 DEF ProcessStep, WakeUp, RunStep, Acquire, Emit, Reserve,
          Send, Record, MorningStep, Attempt, AgentEnds, PersistQueue, PersistRows, StoryStep, Prove,
          Cadence, Request, AnalyticsStep, Collect, CommitRaw, CommitReport, Connecting
  <2> QED BY <1>0, <2>2, <2>3, OwnOrNot, BystanderStays
<1> QED BY <1>1, <1>2

LEMMA WorkFactsStep ==
    ASSUME IInv, Next, NEW c \in Candidates
    PROVE WorkFacts(c)'
<1>0. /\ work \in [Candidates -> Manifest \cup {None}] /\ drafts \in [Candidates -> Nat]
      /\ sent \in [Candidates -> {None, "SENT", "UNSENT"}] /\ WorkFacts(c)
      /\ \A m \in Manifest : m # None
  BY NoneAssumption DEF IInv, TypeOK
<1>1. request'[c] # None => run'[request'[c]].pc \in Connecting /\ run'[request'[c]].bound = c
  BY RequestHeld
\* Without a manifest nothing was done.
<1>2. ASSUME work'[c] = None PROVE drafts'[c] = 0 /\ c \notin child' /\ sent'[c] = None
  <2>0. work[c] = None /\ drafts[c] = 0 /\ c \notin child /\ sent[c] = None
    BY <1>0, <1>2, WorkStays DEF WorkFacts
  <2>1. CASE World
    <3>1. ~ BridgeEnds(c) /\ ~ BridgeCalls(c) /\ ~ Owner(c)
      BY <2>0 DEF BridgeEnds, BridgeCalls, Owner
    <3> QED BY <2>0, <2>1, <3>1, WorldOnStories, WorldFrame
  <2>2. ASSUME NEW w \in Wakers, ProcessStep(w) PROVE c \notin child' /\ sent'[c] = None
    <3>1. CASE Request(w) /\ run[w].bound = c
      <4>1. ~ (work' = [work EXCEPT ![c] = IF @ = None THEN NewManifest ELSE @])
        <5>1. NewManifest \in Manifest
          BY <3>1, DayIsKnown DEF NewManifest, Manifest, Request
        <5> QED BY <1>0, <1>2, <5>1
      <4> QED BY <2>0, <3>1, <4>1 DEF Request
    <3>2. ~ ((Look(w) \/ Preview(w)) /\ run[w].bound = c)
      BY <2>0 DEF Look, Preview, IInv, StoryFacts, Connecting
    <3> QED BY <2>0, <2>2, <3>1, <3>2, ProcessOnStories
  <2> QED BY <2>0, <2>1, <2>2, NextSplit, ProcessOnDrafts
\* A manifest counts its create calls.
<1>3. ASSUME work'[c] # None
      PROVE /\ drafts'[c] = work'[c].creates /\ Day(now)' \in Days /\ Proven(c)'
            /\ work'[c].creates = 0 => work'[c].review = "NOT_CREATED"
            /\ c \in child' /\ work'[c].creates = 1 => work'[c].review = "CREATE_IN_FLIGHT"
  <2>1. CASE work[c] # None
    <3>0. /\ drafts[c] = work[c].creates /\ Day(now) \in Days /\ Proven(c) /\ work[c] \in Manifest
          /\ work[c].creates = 0 => work[c].review = "NOT_CREATED"
          /\ c \in child /\ work[c].creates = 1 => work[c].review = "CREATE_IN_FLIGHT"
      BY <1>0, <2>1 DEF WorkFacts
    <3>1. Day(now)' \in Days /\ Proven(c)'
      BY <3>0, TimePasses, ProvenStays
    <3>2. CASE BridgeEnds(c)
      <4>1. drafts' = drafts /\ c \notin child'
        BY <3>2 DEF BridgeEnds
      <4>2. \/ work'[c] = work[c]
            \/ /\ work[c].creates = 1
               /\ \E review \in {"DRAFT_CREATED", "REVIEW_UNKNOWN"} :
                    work'[c] = [work[c] EXCEPT !.review = review]
        BY <1>0, <3>2 DEF BridgeEnds
      <4>3. \A review : [work[c] EXCEPT !.review = review].creates = work[c].creates
        BY <3>0 DEF Manifest
      <4>4. /\ work'[c].creates = work[c].creates
            /\ work'[c].creates = 0 => work'[c].review = "NOT_CREATED"
        <5>1. CASE work'[c] = work[c]
          BY <3>0, <5>1
        <5>2. CASE work'[c] # work[c]
          <6>1. work[c].creates = 1 /\ work'[c].creates = work[c].creates
            BY <4>2, <4>3, <5>2
          <6> QED BY <6>1
        <5> QED BY <5>1, <5>2
      <4> QED BY <3>0, <3>1, <4>1, <4>4
    <3>3. CASE BridgeCalls(c)
      <4>1. /\ work'[c] = [work[c] EXCEPT !.review = "CREATE_IN_FLIGHT", !.creates = 1]
            /\ drafts'[c] = drafts[c] + 1 /\ work[c].creates = 0
        BY <1>0, <3>3 DEF BridgeCalls
      <4>2. work'[c].creates = 1 /\ work'[c].review = "CREATE_IN_FLIGHT"
        BY <3>0, <4>1 DEF Manifest
      <4> QED BY <3>0, <3>1, <4>1, <4>2
    <3>4. CASE Owner(c)
      <4>1. /\ \E pub \in {"PUBLISHED", "FAILED"} :
                 work'[c] = [work[c] EXCEPT !.pub = pub, !.pubday = Day(now)]
            /\ drafts' = drafts /\ child' = child
        BY <1>0, <3>4 DEF Owner
      <4>2. work'[c].creates = work[c].creates /\ work'[c].review = work[c].review
        BY <3>0, <4>1 DEF Manifest
      <4> QED BY <3>0, <3>1, <4>1, <4>2
    <3>5. CASE World /\ ~ BridgeEnds(c) /\ ~ BridgeCalls(c) /\ ~ Owner(c)
      BY <3>0, <3>1, <3>5, WorldOnStories
    <3>6. ASSUME NEW w \in Wakers, ProcessStep(w)
          PROVE /\ work'[c] = work[c] /\ drafts' = drafts
                /\ c \in child' => c \in child \/ work[c].creates = 0
      <4>1. CASE Request(w) /\ run[w].bound = c
        <5>1. work[c].creates = 0 \/ IsConsumed(c)
          BY <2>1, <3>0 DEF IsConsumed, Manifest
        <5>2. c \in child' => c \in child \/ work[c].creates = 0
          BY <4>1, <5>1 DEF Request
        <5>3. work'[c] = work[c]
          BY <1>0, <2>1, <4>1 DEF Request
        <5> QED BY <3>6, <5>2, <5>3, ProcessOnDrafts
      <4>2. CASE Look(w) \/ Preview(w)
        BY <4>2 DEF Look, Preview
      <4> QED BY <3>6, <4>1, <4>2, ProcessOnStories, ProcessOnDrafts
    <3> QED BY <3>0, <3>1, <3>2, <3>3, <3>4, <3>5, <3>6, NextSplit
  <2>2. CASE work[c] = None
    <3>0. drafts[c] = 0 /\ c \notin child /\ sent[c] = None
      BY <1>0, <2>2 DEF WorkFacts
    <3>1. ~ World
      <4>1. ~ BridgeEnds(c) /\ ~ BridgeCalls(c) /\ ~ Owner(c)
        BY <3>0 DEF BridgeEnds, BridgeCalls, Owner
      <4> QED BY <1>3, <2>2, <4>1, WorldOnStories
    <3>2. PICK w \in Wakers : ProcessStep(w)
      BY <3>1, NextSplit
    <3>3. Request(w) /\ run[w].bound = c
      BY <1>3, <2>2, <3>2, ProcessOnStories DEF Look, Preview
    <3>4. work' = [work EXCEPT ![c] = IF @ = None THEN NewManifest ELSE @] /\ now' = now
      BY <1>3, <2>2, <3>3 DEF Request
    <3>5. work'[c] = NewManifest /\ NewManifest.creates = 0 /\ NewManifest.review = "NOT_CREATED"
      BY <1>0, <2>2, <3>4 DEF NewManifest
    <3>6. Day(now) \in Days /\ Proven(c)
      BY <3>3, DayIsKnown DEF Request, IInv, StoryFacts
    <3>7. drafts' = drafts
      BY <3>2, ProcessOnDrafts
    <3> QED BY <3>0, <3>4, <3>5, <3>6, <3>7, ProvenStays DEF NewManifest
  <2> QED BY <2>1, <2>2
\* Who was shown a draft was shown one that was made.
<1>4. ASSUME sent'[c] # None PROVE work'[c].creates = 1 /\ request'[c] = None
  <2>1. CASE sent[c] # None
    BY <1>0, <2>1, WorkStays, ShownStays DEF WorkFacts
  <2>2. CASE sent[c] = None
    <3>1. PICK w \in Wakers : ProcessStep(w)
      BY <1>4, <2>2, NextSplit, WorldFrame
    <3>2. Preview(w) /\ run[w].bound = c
      BY <1>4, <2>2, <3>1, ProcessOnStories DEF Request, Look
    <3>3. work[c].creates = 1 /\ work' = work /\ request' = [request EXCEPT ![c] = None]
      BY <3>2 DEF Preview, IInv, StoryFacts
    <3> QED BY <3>3 DEF IInv, TypeOK
  <2> QED BY <2>1, <2>2
<1> QED BY <1>1, <1>2, <1>3, <1>4 DEF WorkFacts

\* A process is at the files of a day because it was, or has just read them.
LEMMA AnalyticsMoves ==
    ASSUME IInv, Next, NEW v \in Wakers, run'[v].pc \in {"raw", "report"}
    PROVE \/ run'[v] = run[v] /\ Bystander(v)
          \/ Collect(v) /\ run'[v].pc = "raw" /\ run'[v].kept = pair[DayOf(v)]
          \/ /\ CommitRaw(v) /\ run'[v].pc = "report" /\ run'[v].occ = run[v].occ
             /\ run'[v].kept = run[v].kept
             /\ pair' = [pair EXCEPT ![DayOf(v)].raw = Edition(v)]
<1>0. run \in [Wakers -> RunRecord]
  BY DEF IInv, TypeOK
<1>1. CASE WakeUp(v)
  BY <1>1, WakeUpMoves DEF IInv
<1>2. CASE RunStep(v)
  BY <1>2, ProtocolMoves DEF IInv, IdleRun, FirstStep
<1>3. CASE MorningStep(v)
  BY <1>3, JobMoves DEF IInv, IdleRun, MorningAt
<1>4. CASE StoryStep(v)
  BY <1>4, JobMoves DEF IInv, IdleRun, StoryAt
<1>5. CASE Crash(v)
  BY <1>5, WaysToMove DEF Crash
<1>6. CASE Collect(v)
  <2>1. run' = [run EXCEPT ![v] = [run[v] EXCEPT !.pc = "raw", !.kept = pair[DayOf(v)]]]
    BY <1>6, WaysToMove, OutcomesAreTyped DEF Collect
  <2> QED BY <1>0, <1>6, <2>1 DEF RunRecord
<1>7. CASE CommitRaw(v)
  <2>1. Goto(v, "report") /\ pair' = [pair EXCEPT ![DayOf(v)].raw = Edition(v)]
    BY <1>7, WaysToMove, OutcomesAreTyped DEF CommitRaw
  <2> QED BY <1>7, <2>1, WaysToMove, KnownPcs
<1>8. CASE CommitReport(v)
  BY <1>8, WaysToMove, OutcomesAreTyped DEF CommitReport
<1> QED BY <1>1, <1>2, <1>3, <1>4, <1>5, <1>6, <1>7, <1>8, OwnOrNot, BystanderStays
        DEF ProcessStep, AnalyticsStep

LEMMA AnalyticsFactsStep ==
    ASSUME IInv, Next, NEW v \in Wakers
    PROVE AnalyticsFacts(v)'
<1> SUFFICES ASSUME run'[v].pc \in {"raw", "report"} PROVE AnalyticsFacts(v)'
  BY DEF AnalyticsFacts
<1> DEFINE d == DayOf(v)
<1>0. pair \in [Days -> Pair] /\ run \in [Wakers -> RunRecord]
  BY DEF IInv, TypeOK
<1>1. CASE run'[v] = run[v] /\ Bystander(v)
  <2>1. /\ d \in Days /\ run[v].occ[1] = "analytics" /\ run[v].occ \in Occurrences
        /\ run[v].kept \in Pair /\ (run[v].pc = "report" => pair[d].raw = Edition(v))
    <3>1. RunFacts(v) /\ AnalyticsFacts(v) /\ run[v].pc \in AnalyticsAt /\ run[v].pc # "idle"
      BY <1>1 DEF IInv, AnalyticsAt
    <3> QED BY <1>1, <3>1, DayIsKnown DEF RunFacts, AnalyticsFacts
  <2>2. ASSUME NEW w \in Wakers, CommitRaw(w) \/ CommitReport(w), DayOf(w) = d, run'[w].pc # run[w].pc
        PROVE FALSE
    <3>1. run[w].occ = run[v].occ
      <4>1. run[w].pc \in AnalyticsAt /\ run[w].pc # "idle" /\ RunFacts(w)
        BY <2>2 DEF IInv, AnalyticsAt, CommitRaw, CommitReport
      <4>2. run[w].occ[1] = "analytics" /\ DayOf(w) = Day(run[v].occ[2])
        BY <2>2, <4>1 DEF RunFacts, DayOf
      <4> QED BY <2>1, <4>1, <4>2, OneOfTheDay
    <3> QED BY <1>1, <2>2, <3>1, LockIsExclusive DEF Locked, AnalyticsAt, CommitRaw, CommitReport
  <2>3. pair'[d] = pair[d]
    BY <2>1, <2>2, PairMoves
  <2> QED BY <1>1, <2>1, <2>3 DEF AnalyticsFacts, Edition, DayOf
<1>2. CASE Collect(v) /\ run'[v].pc = "raw" /\ run'[v].kept = pair[d]
  <2>1. d \in Days
    BY <1>2, DayIsKnown DEF Collect
  <2> QED BY <1>0, <1>2, <2>1 DEF AnalyticsFacts
<1>3. CASE /\ CommitRaw(v) /\ run'[v].pc = "report" /\ run'[v].occ = run[v].occ
           /\ run'[v].kept = run[v].kept
           /\ pair' = [pair EXCEPT ![d].raw = Edition(v)]
  <2>1. d \in Days /\ run[v].kept \in Pair
    BY <1>3, DayIsKnown DEF CommitRaw, IInv, AnalyticsFacts
  <2>2. pair'[d] = [pair[d] EXCEPT !.raw = Edition(v)] /\ pair[d] \in Pair
    BY <1>0, <1>3, <2>1
  <2>3. pair'[d].raw = Edition(v)
    BY <2>2 DEF Pair
  <2> QED BY <1>3, <2>1, <2>3 DEF AnalyticsFacts, Edition, DayOf
<1> QED BY <1>1, <1>2, <1>3, AnalyticsMoves

(***************************************************************************)
(* The invariant and what follows from it.                                 *)
(***************************************************************************)
LEMMA InitInv == Init => IInv
<1> SUFFICES ASSUME Init PROVE IInv
  OBVIOUS
<1>1. agenda \in Seq([job : Jobs, at : AgendaTimes])
  <2>1. agenda \in Agendas /\ agenda \in Seq([job : Jobs, at : Nat])
    BY ScheduleAssumption DEF Init
  <2>2. ASSUME NEW i \in DOMAIN agenda PROVE agenda[i] \in [job : Jobs, at : AgendaTimes]
    <3>1. agenda[i] \in [job : Jobs, at : Nat]
      BY <2>1, ElementOf
    <3>2. agenda[i].at \in AgendaTimes
      BY <2>1 DEF AgendaTimes
    <3> QED BY <3>1, <3>2
  <2>3. Len(agenda) \in Nat /\ agenda = [i \in 1..Len(agenda) |-> agenda[i]]
        /\ DOMAIN agenda = 1..Len(agenda)
    BY <2>1
  <2> DEFINE S == [job : Jobs, at : AgendaTimes]
  <2> HIDE DEF S
  <2>4. agenda \in [1..Len(agenda) -> S]
    BY <2>2, <2>3 DEF S
  <2>5. agenda \in Seq(S)
    BY <2>3, <2>4
  <2> QED BY <2>5 DEF S
<1>2. IdleRun \in RunRecord /\ IdleRun.pc = "idle"
  BY DEF IdleRun, RunRecord
<1>3. [raw |-> 0, report |-> 0] \in Pair
  BY DEF Pair
<1>4. TypeOK
  BY <1>1, <1>2, <1>3 DEF Init, TypeOK
<1>5. \A w \in Wakers : run[w].pc = "idle" /\ w \in Agents
  BY <1>2 DEF Init, Agents
<1>6. /\ \A a \in Agents : agent[a] = None
      /\ Stray \in Agents
      /\ topics = {} /\ \A d \in Days : queue[d] = None
      /\ \A o \in Occurrences : result[o] = None /\ alerts[o] = 0
      /\ \A c \in Candidates : /\ request[c] = None /\ work[c] = None /\ drafts[c] = 0
                               /\ c \notin child /\ sent[c] = None
  BY DEF Init, Agents
<1>7. ASSUME NEW w \in Wakers
      PROVE RunFacts(w) /\ SendFacts(w) /\ MorningFacts(w) /\ StoryFacts(w) /\ AnalyticsFacts(w)
  BY <1>5 DEF RunFacts, SendFacts, MorningFacts, StoryFacts, AnalyticsFacts, Connecting
<1>8. AgentFacts /\ \A c \in Candidates : WorkFacts(c)
  BY <1>5, <1>6 DEF AgentFacts, WorkFacts
<1>9. (\A d \in Days : QueueFacts(d)) /\ ToldOnce
  BY <1>6 DEF QueueFacts, SectionWritten, ToldOnce
<1> QED BY <1>4, <1>6, <1>7, <1>8, <1>9 DEF IInv

LEMMA Inductive == IInv /\ [Next]_vars => IInv'
<1> SUFFICES ASSUME IInv, [Next]_vars PROVE IInv'
  OBVIOUS
<1>1. CASE Next
  <2>1. ASSUME NEW o \in Occurrences PROVE result'[o] # None => Backed(o, result[o])'
    <3>1. ASSUME NEW out, out = result'[o], result'[o] # None PROVE Backed(o, out)'
      BY <1>1, <3>1, ResultsStep
    <3> QED BY <3>1
  <2>2. TypeOK' /\ AgentFacts' /\ ToldOnce'
    BY <1>1, TypeStep, AgentFactsStep, ToldOnceStep
  <2>3. ASSUME NEW w \in Wakers
        PROVE /\ RunFacts(w)' /\ SendFacts(w)' /\ MorningFacts(w)'
              /\ StoryFacts(w)' /\ AnalyticsFacts(w)'
    BY <1>1, RunFactsStep, SendFactsStep, MorningFactsStep, StoryFactsStep, AnalyticsFactsStep
  <2>4. (\A c \in Candidates : WorkFacts(c)') /\ (\A d \in Days : QueueFacts(d)')
    BY <1>1, WorkFactsStep, QueueFactsStep
  <2> QED BY <2>1, <2>2, <2>3, <2>4 DEF IInv
<1>2. CASE UNCHANGED vars
  <2> USE <1>2 DEF vars, occurrences, notices, desk, stories
  <2>1. TypeOK' /\ AgentFacts' /\ ToldOnce'
    BY DEF IInv, TypeOK, AgentFacts, DayOf, ToldOnce, Actionable
  <2>2. ASSUME NEW w \in Wakers PROVE RunFacts(w)' /\ SendFacts(w)'
    <3>1. RunFacts(w)'
      BY DEF IInv, RunFacts, Backed, Recorded, HandoffReady, Queued
    <3>2. SendFacts(w)'
      BY DEF IInv, SendFacts, Actionable
    <3> QED BY <3>1, <3>2
  <2>3. ASSUME NEW w \in Wakers PROVE MorningFacts(w)' /\ AnalyticsFacts(w)'
    BY DEF IInv, MorningFacts, DayOf, HandoffReady, Queued, AnalyticsFacts, Edition
  <2>4. ASSUME NEW c PROVE Proven(c) => Proven(c)'
    BY DEF Proven, MorningProven, MorningOf, Queued
  <2>5. ASSUME NEW w \in Wakers PROVE StoryFacts(w)'
    <3>1. ASSUME NEW c, c = run[w].bound PROVE Proven(c) => Proven(c)'
      BY <2>4
    <3>2. Proven(run[w].bound) => Proven(run[w].bound)'
      BY <3>1
    <3> QED BY <3>2 DEF IInv, StoryFacts
  <2>6. ASSUME NEW c \in Candidates PROVE WorkFacts(c)'
    BY <2>4 DEF IInv, WorkFacts
  <2>7. ASSUME NEW d \in Days PROVE QueueFacts(d)'
    BY DEF IInv, QueueFacts, SectionWritten, MorningOf
  <2>8. ASSUME NEW o \in Occurrences PROVE result'[o] # None => Backed(o, result[o])'
    BY DEF IInv, Backed, Recorded, HandoffReady, Queued
  <2> QED BY <2>1, <2>2, <2>3, <2>5, <2>6, <2>7, <2>8 DEF IInv
<1> QED BY <1>1, <1>2

\* In every state the stores and the processes agree: who is inside a run lock
\* holds it alone, what was emitted is backed, what is drafted is proven.
THEOREM Invariance == Spec => []IInv
BY InitInv, Inductive, PTL DEF Spec

\* The operator hears of a failure at most once, and never of a run that has
\* not failed: notify_if_required reserves the attempt before it sends.
THEOREM ToldAtMostOnce == Spec => []ToldOnce
<1>1. IInv => ToldOnce
  BY DEF IInv
<1> QED BY <1>1, Invariance, PTL

\* A success stands for its artifacts as long as the result stands.  Whoever is
\* killed or woken again, the files stay, Story's draft was made and shown and a
\* row of a queued candidate has its section; unless a process died, the day's
\* handoff is recorded: its queueable candidates queued, all of them on the ledger.
THEOREM SuccessIsBacked == Spec => []SucceededIsBacked
<1>1. ASSUME IInv, NEW o \in Occurrences PROVE SectionWritten(Day(o[2]))
  BY <1>1, OccurrenceHasSlot DEF IInv, QueueFacts
<1>2. IInv => SucceededIsBacked
  BY <1>1 DEF IInv, SucceededIsBacked, Backed
<1> QED BY <1>2, Invariance, PTL

\* A Story is drafted at most once, for a day whose Morning succeeded and,
\* unless a process died, queued it and gave it its topic row.
THEOREM StoriesAreProven == Spec => []DraftsAreProven
<1>1. ASSUME IInv, NEW c \in Candidates
      PROVE /\ drafts[c] <= 1
            /\ drafts[c] = 1 => \E d \in Days :
                 /\ MorningProven(d)
                 /\ crashes = 0 => c \in Queued /\ <<d, c, TRUE>> \in topics
  <2>1. work[c] # None => work[c].creates \in 0..1
    BY <1>1 DEF IInv, TypeOK, Manifest
  <2>2. drafts[c] \in 0..1 /\ (drafts[c] = 1 => Proven(c))
    BY <1>1, <2>1 DEF IInv, WorkFacts
  <2>3. drafts[c] <= 1
    BY <2>2
  <2> QED BY <2>2, <2>3, Zenon DEF Proven
<1>2. IInv => DraftsAreProven
  BY <1>1 DEF DraftsAreProven
<1> QED BY <1>2, Invariance, PTL

(***************************************************************************)
(* The promises of a single draft and of a single outcome.                 *)
(***************************************************************************)

\* A bridge that comes further with a candidate, and no other step, is one of
\* the abstract draft's.
LEMMA BridgeIsPromised ==
    ASSUME NEW c \in Candidates,
           ReviewOf(c) \in {"NOT_CREATED", "CREATE_IN_FLIGHT"},
           ReviewOf(c)' \in {"CREATE_IN_FLIGHT", "REVIEW_UNKNOWN", "DRAFT_CREATED"},
           drafts'[c] \in drafts[c]..1, ReviewOf(c)' = "DRAFT_CREATED" => drafts'[c] = 1,
           \A d \in Candidates \ {c} : ReviewOf(d)' = ReviewOf(d),
           drafts' = [drafts EXCEPT ![c] = drafts'[c]]
    PROVE Drafting!Next
<1>1. Drafting!Bridge(c)
  BY DEF Drafting!Bridge
<1> QED BY <1>1 DEF Drafting!Next

LEMMA DraftingStep ==
    ASSUME IInv, Next
    PROVE [Drafting!Next]_(Drafting!vars)
<1>0. /\ work \in [Candidates -> Manifest \cup {None}] /\ drafts \in [Candidates -> Nat]
      /\ \A m \in Manifest : m # None
  BY NoneAssumption DEF IInv, TypeOK
<1>1. ASSUME NEW c \in Candidates, c \in child
      PROVE /\ work[c] \in Manifest /\ drafts[c] = work[c].creates
            /\ ReviewOf(c) = IF work[c].creates = 0 THEN "NOT_CREATED" ELSE "CREATE_IN_FLIGHT"
  BY <1>0, <1>1 DEF IInv, WorkFacts, ReviewOf, Manifest
<1>2. ASSUME NEW c \in Candidates, BridgeCalls(c) PROVE Drafting!Next
  <2>1. /\ work' = [work EXCEPT ![c] = [work[c] EXCEPT !.review = "CREATE_IN_FLIGHT", !.creates = 1]]
        /\ drafts' = [drafts EXCEPT ![c] = drafts[c] + 1] /\ c \in child /\ work[c].creates = 0
    BY <1>2 DEF BridgeCalls
  <2>2. /\ ReviewOf(c) = "NOT_CREATED" /\ ReviewOf(c)' = "CREATE_IN_FLIGHT"
        /\ drafts[c] = 0 /\ drafts'[c] = 1
    <3>1. work'[c].review = "CREATE_IN_FLIGHT" /\ work'[c] \in Manifest
      <4>1. work'[c] = [work[c] EXCEPT !.review = "CREATE_IN_FLIGHT", !.creates = 1]
        BY <1>0, <2>1
      <4>2. work[c] \in Manifest
        BY <1>1, <2>1
      <4>3. \A n \in 0..1 : LET m == [work[c] EXCEPT !.review = "CREATE_IN_FLIGHT", !.creates = n]
                            IN m \in Manifest /\ m.review = "CREATE_IN_FLIGHT"
        BY <4>2 DEF Manifest
      <4> QED BY <4>1, <4>3, 1 \in 0..1
    <3> QED BY <1>0, <1>1, <2>1, <3>1 DEF ReviewOf
  <2>3. ASSUME NEW d \in Candidates \ {c} PROVE ReviewOf(d)' = ReviewOf(d)
    <3>1. work'[d] = work[d]
      BY <1>0, <2>1
    <3> QED BY <3>1 DEF ReviewOf
  <2>4. drafts' = [drafts EXCEPT ![c] = drafts'[c]] /\ drafts'[c] \in drafts[c]..1
    BY <1>0, <2>1, <2>2
  <2> QED BY <2>2, <2>3, <2>4, BridgeIsPromised
<1>3. ASSUME NEW c \in Candidates, BridgeEnds(c) PROVE [Drafting!Next]_(Drafting!vars)
  <2>1. CASE work' = work
    BY <1>3, <2>1 DEF BridgeEnds, Drafting!vars, ReviewOf
  <2>2. CASE work' # work
    <3>1. PICK review \in {"DRAFT_CREATED", "REVIEW_UNKNOWN"} :
            /\ work' = [work EXCEPT ![c].review = review] /\ drafts' = drafts
            /\ c \in child /\ work[c].creates = 1
      BY <1>3, <2>2 DEF BridgeEnds
    <3>2. /\ ReviewOf(c) = "CREATE_IN_FLIGHT" /\ ReviewOf(c)' = review /\ drafts[c] = 1
      <4>1. work'[c].review = review /\ work'[c] \in Manifest
        BY <1>0, <1>1, <3>1 DEF Manifest
      <4> QED BY <1>0, <1>1, <3>1, <4>1 DEF ReviewOf
    <3>3. \A d \in Candidates \ {c} : ReviewOf(d)' = ReviewOf(d)
      BY <1>0, <3>1 DEF ReviewOf
    <3> QED BY <1>0, <3>1, <3>2, <3>3, BridgeIsPromised
  <2> QED BY <2>1, <2>2
\* The other steps make a manifest, or decide on a draft.
<1>4. ASSUME \A c \in Candidates : ~ BridgeCalls(c) /\ ~ BridgeEnds(c)
      PROVE UNCHANGED Drafting!vars
  <2>1. drafts' = drafts
    <3>1. CASE World
      BY <1>4, <3>1 DEF World, Owner, AgentWrites, StrayEnds, stories
    <3> QED BY <3>1, NextSplit, ProcessOnDrafts
  <2>2. ASSUME NEW c \in Candidates PROVE ReviewOf(c)' = ReviewOf(c)
    <3>1. CASE Owner(c)
      <4>1. \E pub \in {"PUBLISHED", "FAILED"} :
               work'[c] = [work[c] EXCEPT !.pub = pub, !.pubday = Day(now)]
        BY <1>0, <3>1 DEF Owner
      <4>2. work[c] \in Manifest /\ work[c] # None
        BY <1>0, <3>1 DEF Owner, IInv, WorkFacts
      <4>3. work'[c].review = work[c].review /\ work'[c] # None
        BY <4>1, <4>2, WorkStays DEF Manifest
      <4> QED BY <4>2, <4>3 DEF ReviewOf
    <3>2. CASE World /\ ~ Owner(c)
      BY <1>4, <3>2, WorldOnStories DEF ReviewOf
    <3>3. ASSUME NEW w \in Wakers, ProcessStep(w) PROVE ReviewOf(c)' = ReviewOf(c)
      <4>1. CASE Request(w) /\ run[w].bound = c
        <5>1. NewManifest \in Manifest /\ NewManifest.review = "NOT_CREATED"
          BY <4>1, DayIsKnown DEF NewManifest, Manifest, Request
        <5>2. work' = work \/ work' = [work EXCEPT ![c] = IF work[c] = None THEN NewManifest ELSE work[c]]
          BY <4>1 DEF Request
        <5> QED BY <1>0, <5>1, <5>2 DEF ReviewOf
      <4>2. CASE Look(w) \/ Preview(w)
        BY <4>2 DEF Look, Preview, ReviewOf
      <4> QED BY <3>3, <4>1, <4>2, ProcessOnStories DEF ReviewOf
    <3> QED BY <3>1, <3>2, <3>3, NextSplit
  <2> QED BY <2>1, <2>2 DEF Drafting!vars
<1> QED BY <1>2, <1>3, <1>4

LEMMA ReserveIsPromised ==
    ASSUME NEW r \in Occurrences, result[r] \in Failure, UNCHANGED <<result, alerts>>,
           r \notin {o \in Occurrences : note[o] # None},
           {o \in Occurrences : note[o] # None}' = {o \in Occurrences : note[o] # None} \cup {r}
    PROVE Telling!Next
<1>1. Telling!Reserve(r)
  BY DEF Telling!Reserve
<1> QED BY <1>1 DEF Telling!Next

LEMMA TellingStep ==
    ASSUME IInv, Next
    PROVE [Telling!Next]_(Telling!vars)
<1> DEFINE Reserved == {o \in Occurrences : note[o] # None}
<1>0. /\ result \in [Occurrences -> Outcome \cup {None}] /\ alerts \in [Occurrences -> Nat]
      /\ note \in [Occurrences -> NoteStates \cup {None}] /\ None \notin NoteStates
      /\ \A w \in Wakers : run[w].pc # "idle" => run[w].occ \in Occurrences
  BY NoneAssumption DEF IInv, TypeOK, RunFacts
<1>1. ASSUME NEW w \in Wakers, Emit(w) PROVE [Telling!Next]_(Telling!vars)
  <2> DEFINE o == run[w].occ
  <2>1. /\ result[o] = None /\ o \in Occurrences /\ run[w].outcome \in Outcome
        /\ result' = [result EXCEPT ![o] = run[w].outcome] /\ UNCHANGED <<note, alerts>>
    <3>1. run[w].pc = "emit" /\ RunFacts(w)
      BY <1>1 DEF Emit, IInv
    <3>2. result[o] = None
      BY <3>1 DEF RunFacts, Locked
    <3> QED BY <1>1, <3>1, <3>2 DEF Emit, RunFacts, notices
  <2>2. result'[o] \in Outcome
    BY <1>0, <2>1
  <2>3. Telling!Conclude(o)
    BY <2>1, <2>2 DEF Telling!Conclude
  <2> QED BY <2>1, <2>3 DEF Telling!Next
<1>2. ASSUME NEW w \in Wakers, Reserve(w) PROVE [Telling!Next]_(Telling!vars)
  <2> DEFINE o == run[w].occ
  <2>1. CASE note' = note
    BY <1>2, <2>1 DEF Reserve, Telling!vars
  <2>2. CASE note' # note
    <3>1. /\ Actionable(o) /\ note[o] = None /\ note' = [note EXCEPT ![o] = "PENDING"]
          /\ UNCHANGED <<result, alerts>> /\ o \in Occurrences /\ result[o] # None
      BY <1>2, <2>2 DEF Reserve, IInv, RunFacts
    <3>2. result[o] \in Failure
      BY <1>0, <3>1 DEF Actionable, Failure, Outcome
    <3>3. Reserved' = Reserved \cup {o} /\ o \notin Reserved
      BY <1>0, <3>1, NoneAssumption DEF NoteStates
    <3> QED BY <3>1, <3>2, <3>3, ReserveIsPromised
  <2> QED BY <2>1, <2>2
<1>3. ASSUME NEW w \in Wakers, Send(w) PROVE [Telling!Next]_(Telling!vars)
  <2> DEFINE o == run[w].occ
  <2>1. note[o] # None /\ alerts[o] = 0 /\ UNCHANGED <<result, note>> /\ o \in Occurrences
    BY <1>0, <1>3 DEF Send, IInv, SendFacts, occurrences
  <2>2. CASE alerts' = alerts
    BY <2>1, <2>2 DEF Telling!vars
  <2>3. CASE alerts' = [alerts EXCEPT ![o] = alerts[o] + 1]
    <3>1. Telling!Alert(o)
      BY <2>1, <2>3 DEF Telling!Alert
    <3> QED BY <2>1, <3>1 DEF Telling!Next
  <2> QED BY <1>3, <2>2, <2>3 DEF Send
<1>4. ASSUME NEW w \in Wakers, Record(w) PROVE UNCHANGED Telling!vars
  <2> DEFINE o == run[w].occ
  <2>1. /\ \E state \in {"SENT", "UNKNOWN", "FAILED"} : note' = [note EXCEPT ![o] = state]
        /\ UNCHANGED <<result, alerts>> /\ note[o] # None /\ o \in Occurrences
    BY <1>0, <1>4 DEF Record, IInv, RunFacts
  <2>2. Reserved' = Reserved
    BY <1>0, <2>1 DEF NoteStates
  <2> QED BY <2>1, <2>2 DEF Telling!vars
<1>5. ASSUME NEW w \in Wakers, ProcessStep(w), ~ Emit(w), ~ Reserve(w), ~ Send(w), ~ Record(w)
      PROVE UNCHANGED Telling!vars
  <2>1. UNCHANGED <<result, note, alerts>>
    <3>1. CASE MorningStep(w) \/ StoryStep(w) \/ AnalyticsStep(w)
      BY <3>1, JobMoves DEF IInv
    <3> QED BY <1>5, <3>1 DEF ProcessStep, WakeUp, RunStep, Acquire, Crash, occurrences, notices
  <2> QED BY <2>1 DEF Telling!vars
<1>6. CASE World
  BY <1>6, WorldFrame DEF Telling!vars
<1> QED BY <1>1, <1>2, <1>3, <1>4, <1>5, <1>6, NextSplit

\* Every behaviour of the scheduled workflows is one of a system that attempts a
\* Story's review draft once, and concludes each occurrence and tells its
\* failure once: whoever wakes it again, waits, dies or is woken by mistake.
THEOREM KeepsPromises == Spec => ImplementsPromises
<1>1. Init => Drafting!Init /\ Telling!Init
  BY DEF Init, Drafting!Init, Telling!Init, ReviewOf
<1>2. IInv /\ [Next]_vars => [Drafting!Next]_(Drafting!vars) /\ [Telling!Next]_(Telling!vars)
  <2>1. CASE UNCHANGED vars
    BY <2>1 DEF vars, occurrences, notices, stories, Drafting!vars, Telling!vars, ReviewOf
  <2> QED BY <2>1, DraftingStep, TellingStep
<1> QED BY <1>1, <1>2, Invariance, PTL DEF Spec, ImplementsPromises, Drafting!Spec, Telling!Spec
=============================================================================
