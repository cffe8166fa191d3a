-------------------------- MODULE BreakingSpoolProofs --------------------------
(***************************************************************************)
(* What the sweep of the Breaking spool hands over was committed and stays *)
(* so, for any slots, developments, answers and number of radar processes. *)
(* A handoff file is written once and never replaced, a receipt only grows *)
(* and lists a candidate after its file is there.                          *)
(***************************************************************************)
EXTENDS BreakingSpool, TLAPS

\* A step of the radar touches neither the sweep nor what it ran.
LEMMA RadarFrame ==
    ASSUME NEW y \in Cycles,
           Answer(y) \/ Stage(y) \/ Read(y) \/ Enter(y) \/ Write(y) \/ List(y)
             \/ RecordEmpty(y) \/ Kill(y)
    PROVE UNCHANGED <<scan, sweep, ran>>
BY DEF Answer, Stage, Read, Enter, Write, List, RecordEmpty, Kill, spool

\* A step of the sweep touches nothing of the radar.
LEMMA SweepFrame ==
    ASSUME SweepStarts \/ SweepReads \/ SweepRuns \/ SweepEnds
    PROVE UNCHANGED <<scan, cycle, cycles, kills, staged, dirs, scanlock, committed, receipt>>
BY DEF SweepStarts, SweepReads, SweepRuns, SweepEnds, radar, spool

\* An answer has the contents its developments are staged with.
LEMMA AnswerIsTyped ==
    ASSUME SpoolAssumption, NEW answer \in Answers
    PROVE /\ answer.items \in SUBSET Found
          /\ answer.version \in Versions
          /\ answer.items # {} => answer.version # Absent
BY DEF SpoolAssumption, Versions

LEMMA InitSpool == SpoolAssumption /\ SpoolInit => SpoolInv
<1> SUFFICES ASSUME SpoolAssumption, SpoolInit PROVE SpoolInv
  OBVIOUS
<1>1. SpoolType
  BY DEF SpoolAssumption, SpoolInit, SpoolType, CycleRecord, IdleCycle
<1>2. \A y \in Cycles : CycleFacts(y)
  BY DEF SpoolInit, CycleFacts, IdleCycle
<1>3. SweepFacts
  BY DEF SpoolInit, SweepFacts, IdleSweep
<1>4. ConsumedIsCommitted
  BY DEF SpoolInit, ConsumedIsCommitted, Listed, Files
<1> QED BY <1>1, <1>2, <1>3, <1>4 DEF SpoolInv

\* A cycle that becomes a process of the right form leaves all of them so.
LEMMA CycleUpdate ==
    ASSUME cycle \in [Cycles -> CycleRecord], NEW y \in Cycles, NEW r \in CycleRecord,
           cycle' = [cycle EXCEPT ![y] = r]
    PROVE cycle' \in [Cycles -> CycleRecord]
OBVIOUS

\* What a step of a radar process makes of it.
LEMMA CycleTypeStep ==
    ASSUME SpoolAssumption, SpoolInv, NEW y \in Cycles,
           Answer(y) \/ Stage(y) \/ Read(y) \/ Enter(y) \/ Write(y) \/ List(y)
             \/ RecordEmpty(y) \/ Kill(y)
    PROVE cycle' \in [Cycles -> CycleRecord]
<1>0. /\ cycle \in [Cycles -> CycleRecord] /\ cycle[y] \in CycleRecord
      /\ staged \in [Found -> Versions \cup {Absent}] /\ scan \in Scans
  BY DEF SpoolInv, SpoolType
<1>1. CASE Answer(y)
  <2>1. PICK answer \in Answers :
          cycle' = [cycle EXCEPT ![y] =
              [IdleCycle EXCEPT !.pc = IF answer.items = {} THEN "empty" ELSE "stage",
                                !.scan = scan, !.left = answer.items, !.version = answer.version]]
    BY <1>1 DEF Answer
  <2>2. answer.items \in SUBSET Found /\ answer.version \in Versions
    BY AnswerIsTyped
  <2>3. [IdleCycle EXCEPT !.pc = IF answer.items = {} THEN "empty" ELSE "stage",
                          !.scan = scan, !.left = answer.items, !.version = answer.version]
          \in CycleRecord
    BY <1>0, <2>2 DEF IdleCycle, CycleRecord
  <2> QED BY <1>0, <2>1, <2>3, CycleUpdate
<1>2. CASE Stage(y)
  <2>1. [cycle[y] EXCEPT !.pc = "read", !.version = Absent] \in CycleRecord
    BY <1>0 DEF CycleRecord
  <2>2. cycle' = [cycle EXCEPT ![y] = [cycle[y] EXCEPT !.pc = "read", !.version = Absent]]
    BY <1>2 DEF Stage
  <2> QED BY <1>0, <2>1, <2>2, CycleUpdate
<1>3. CASE Read(y)
  <2>1. PICK c \in cycle[y].left :
          cycle' = [cycle EXCEPT ![y] = [cycle[y] EXCEPT !.pc = "enter", !.item = c, !.version = staged[c]]]
    BY <1>3 DEF Read
  <2>2. c \in Found /\ staged[c] \in Versions \cup {Absent}
    BY <1>0 DEF CycleRecord
  <2>3. [cycle[y] EXCEPT !.pc = "enter", !.item = c, !.version = staged[c]] \in CycleRecord
    BY <1>0, <2>2 DEF CycleRecord
  <2> QED BY <1>0, <2>1, <2>3, CycleUpdate
<1>4. CASE Enter(y)
  BY <1>0, <1>4 DEF Enter, CycleRecord
<1>5. CASE cycle' = [cycle EXCEPT ![y] = IdleCycle]
  <2>1. IdleCycle \in CycleRecord
    BY DEF IdleCycle, CycleRecord
  <2> QED BY <1>0, <1>5, <2>1, CycleUpdate
<1>6. CASE cycle' = [cycle EXCEPT ![y] = [cycle[y] EXCEPT !.pc = "list", !.version = Absent]]
  <2>1. [cycle[y] EXCEPT !.pc = "list", !.version = Absent] \in CycleRecord
    BY <1>0 DEF CycleRecord
  <2> QED BY <1>0, <1>6, <2>1, CycleUpdate
<1>7. CASE List(y)
  <2> DEFINE left == cycle[y].left \ {cycle[y].item}
             r == [cycle[y] EXCEPT !.pc = "read", !.left = left, !.item = Absent]
  <2>1. r \in CycleRecord
    BY <1>0 DEF CycleRecord
  <2>2. CASE cycle' = [cycle EXCEPT ![y] = r]
    <3> HIDE DEF r
    <3> QED BY <1>0, <2>1, <2>2, CycleUpdate
  <2> QED BY <1>5, <1>7, <2>2 DEF List, EndCycle
<1> QED BY <1>1, <1>2, <1>3, <1>4, <1>5, <1>6, <1>7 DEF Write, RecordEmpty, Kill, EndCycle

\* The rest of the types, which only a few steps touch.
LEMMA TypeStep == SpoolAssumption /\ SpoolInv /\ SpoolNext => SpoolType'
<1> SUFFICES ASSUME SpoolAssumption, SpoolInv, SpoolNext PROVE SpoolType'
  OBVIOUS
<1>0. SpoolType
  BY DEF SpoolInv
<1>1. cycle' \in [Cycles -> CycleRecord]
  <2>1. CASE NextScan
    BY <1>0, <2>1 DEF NextScan, SpoolType
  <2>2. CASE SweepStarts \/ SweepReads \/ SweepRuns \/ SweepEnds
    BY <1>0, <2>2, SweepFrame DEF SpoolType
  <2> QED BY <2>1, <2>2, CycleTypeStep DEF SpoolNext
<1>2. ASSUME NEW y \in Cycles
      PROVE /\ cycle[y] \in CycleRecord
            /\ cycle[y].pc # "idle" => cycle[y].scan \in Scans
            /\ cycle[y].pc = "list" => cycle[y].item \in Found
  BY DEF SpoolInv, SpoolType, CycleRecord, CycleFacts
<1>3. staged' \in [Found -> Versions \cup {Absent}]
  <2>1. ASSUME NEW y \in Cycles, Stage(y) PROVE staged' \in [Found -> Versions \cup {Absent}]
    BY <1>0, <1>2, <2>1 DEF Stage, SpoolType, CycleRecord
  <2>2. CASE \A y \in Cycles : ~ Stage(y)
    BY <1>0, <2>2, SweepFrame DEF SpoolNext, SpoolType, NextScan, Answer, Read, Enter, Write, List,
                                  RecordEmpty, Kill, spool
  <2> QED BY <2>1, <2>2
<1>4. committed' \in [Scans \X Found -> Versions \cup {Absent}]
  <2>1. ASSUME NEW y \in Cycles, Write(y)
        PROVE committed' \in [Scans \X Found -> Versions \cup {Absent}]
    BY <1>0, <1>2, <2>1 DEF Write, SpoolType, CycleRecord
  <2>2. CASE \A y \in Cycles : ~ Write(y)
    BY <1>0, <2>2, SweepFrame DEF SpoolNext, SpoolType, NextScan, Answer, Stage, Read, Enter, List,
                                  RecordEmpty, Kill, spool
  <2> QED BY <2>1, <2>2
<1>5. ran' \in [Scans \X Found -> Versions \cup {Absent}]
  <2>1. CASE SweepRuns
    BY <1>0, <2>1 DEF SweepRuns, SpoolType
  <2>2. CASE ~ SweepRuns
    BY <1>0, <2>2, RadarFrame DEF SpoolNext, SpoolType, NextScan, SweepStarts, SweepReads, SweepEnds
  <2> QED BY <2>1, <2>2
<1>6. receipt' \in [Scans -> (SUBSET Found) \cup {Absent}]
  <2>1. ASSUME NEW y \in Cycles, List(y) PROVE receipt' \in [Scans -> (SUBSET Found) \cup {Absent}]
    <3>1. cycle[y].scan \in Scans /\ cycle[y].item \in Found
      BY <1>2, <2>1 DEF List
    <3>2. Listed(cycle[y].scan) \subseteq Found
      BY <1>0, <3>1 DEF SpoolType, Listed
    <3> QED BY <1>0, <2>1, <3>1, <3>2 DEF List, SpoolType
  <2>2. ASSUME NEW y \in Cycles, RecordEmpty(y)
        PROVE receipt' \in [Scans -> (SUBSET Found) \cup {Absent}]
    BY <1>0, <2>2 DEF RecordEmpty, SpoolType, Empty
  <2>3. CASE \A y \in Cycles : ~ List(y) /\ ~ RecordEmpty(y)
    BY <1>0, <2>3, SweepFrame DEF SpoolNext, SpoolType, NextScan, Answer, Stage, Read, Enter, Write,
                                  Kill, spool
  <2> QED BY <2>1, <2>2, <2>3
<1>7. scanlock' \in [Scans -> Cycles \cup {Absent}]
  <2>1. ASSUME NEW y \in Cycles, Enter(y) \/ EndCycle(y) \/ Kill(y) \/ UNCHANGED scanlock
                 \/ scanlock' = [scanlock EXCEPT ![cycle[y].scan] = Absent]
        PROVE scanlock' \in [Scans -> Cycles \cup {Absent}]
    BY <1>0, <2>1 DEF Enter, EndCycle, Kill, SpoolType
  <2> QED BY <1>0, <2>1, SweepFrame DEF SpoolNext, SpoolType, NextScan, Answer, Stage, Read, Write,
                                        List, RecordEmpty, spool
<1>8. scan' \in Scans /\ dirs' \subseteq Scans
  <2>1. scan' \in Scans
    BY <1>0, SweepFrame, RadarFrame DEF SpoolNext, NextScan, SpoolType
  <2>2. ASSUME NEW y \in Cycles, Enter(y) PROVE dirs' \subseteq Scans
    <3>1. cycle[y].scan \in Scans
      BY <1>2, <2>2 DEF Enter
    <3> QED BY <1>0, <2>2, <3>1 DEF Enter, SpoolType
  <2>3. CASE \A y \in Cycles : ~ Enter(y)
    BY <1>0, <2>3, SweepFrame DEF SpoolNext, SpoolType, NextScan, Answer, Stage, Read, Write, List,
                                  RecordEmpty, Kill, spool
  <2> QED BY <2>1, <2>2, <2>3
<1> QED BY <1>1, <1>3, <1>4, <1>5, <1>6, <1>7, <1>8 DEF SpoolType

(***************************************************************************)
(* What no step may do to the files.                                       *)
(***************************************************************************)

\* A handoff file that is there stays as it is.
LEMMA CommittedStays ==
    ASSUME SpoolAssumption, SpoolInv, SpoolNext,
           NEW s \in Scans, NEW c \in Found, committed[<<s, c>>] # Absent
    PROVE committed'[<<s, c>>] = committed[<<s, c>>]
<1>1. ASSUME NEW y \in Cycles, Write(y) PROVE committed'[<<s, c>>] = committed[<<s, c>>]
  <2>1. \/ UNCHANGED committed
        \/ /\ committed[<<cycle[y].scan, cycle[y].item>>] \in {Absent, cycle[y].version}
           /\ committed' = [committed EXCEPT ![<<cycle[y].scan, cycle[y].item>>] = cycle[y].version]
    BY <1>1 DEF Write
  <2> QED BY <2>1 DEF SpoolInv, SpoolType
<1>2. CASE \A y \in Cycles : ~ Write(y)
  BY <1>2 DEF SpoolNext, NextScan, Answer, Stage, Read, Enter, List, RecordEmpty, Kill,
              SweepStarts, SweepReads, SweepRuns, SweepEnds, radar, spool
<1> QED BY <1>1, <1>2

\* A listed candidate stays listed, and a receipt lists what a cycle about to
\* list has written.
LEMMA ReceiptGrows ==
    ASSUME SpoolAssumption, SpoolInv, SpoolNext, NEW s \in Scans
    PROVE /\ Listed(s) \subseteq Listed(s)'
          /\ \A c \in Listed(s)' \ Listed(s) : c \in Found /\ committed[<<s, c>>] # Absent
          /\ receipt[s] # Absent => receipt'[s] # Absent
<1>0. SpoolType
  BY DEF SpoolInv
<1>1. ASSUME NEW y \in Cycles, List(y)
      PROVE /\ Listed(s) \subseteq Listed(s)'
            /\ \A c \in Listed(s)' \ Listed(s) : c \in Found /\ committed[<<s, c>>] # Absent
            /\ receipt[s] # Absent => receipt'[s] # Absent
  <2>1. /\ cycle[y].scan \in Scans /\ cycle[y].item \in Found
        /\ committed[<<cycle[y].scan, cycle[y].item>>] # Absent
    BY <1>0, <1>1 DEF List, SpoolInv, CycleFacts, SpoolType, CycleRecord
  <2>2. Listed(cycle[y].scan) \cup {cycle[y].item} \in SUBSET Found
    BY <1>0, <2>1 DEF Listed, SpoolType, CycleRecord
  <2>3. Listed(cycle[y].scan) \cup {cycle[y].item} # Absent
    BY <2>2 DEF SpoolAssumption
  <2>4. receipt' = [receipt EXCEPT ![cycle[y].scan] = Listed(cycle[y].scan) \cup {cycle[y].item}]
    BY <1>1 DEF List
  <2>5. CASE s = cycle[y].scan
    <3>1. receipt'[s] = Listed(s) \cup {cycle[y].item}
      BY <1>0, <2>1, <2>4, <2>5 DEF SpoolType, CycleRecord
    <3>2. Listed(s)' = Listed(s) \cup {cycle[y].item}
      BY <2>3, <2>5, <3>1 DEF Listed
    <3> QED BY <2>1, <2>3, <2>5, <3>1, <3>2
  <2>6. CASE s # cycle[y].scan
    <3>1. receipt'[s] = receipt[s]
      BY <1>0, <2>4, <2>6 DEF SpoolType, CycleRecord
    <3> QED BY <3>1 DEF Listed
  <2> QED BY <2>5, <2>6
<1>2. ASSUME NEW y \in Cycles, RecordEmpty(y)
      PROVE /\ Listed(s)' = Listed(s)
            /\ receipt[s] # Absent => receipt'[s] # Absent
  <2>1. receipt'[s] \in {receipt[s], Empty} /\ (receipt[s] # Absent => receipt'[s] = receipt[s])
    BY <1>0, <1>2 DEF RecordEmpty, SpoolType, CycleRecord
  <2> QED BY <2>1 DEF Listed, Empty
<1>3. CASE \A y \in Cycles : ~ List(y) /\ ~ RecordEmpty(y)
  <2>1. receipt' = receipt
    BY <1>3 DEF SpoolNext, NextScan, Answer, Stage, Read, Enter, Write, Kill,
                SweepStarts, SweepReads, SweepRuns, SweepEnds, radar, spool
  <2>2. Listed(s)' = Listed(s)
    BY <2>1 DEF Listed
  <2> QED BY <2>1, <2>2
<1> QED BY <1>1, <1>2, <1>3

(***************************************************************************)
(* The parts of the invariant.                                             *)
(***************************************************************************)

\* One radar step leaves what is known of every cycle true.
LEMMA CycleStep ==
    ASSUME SpoolAssumption, SpoolInv, SpoolNext, NEW z \in Cycles
    PROVE CycleFacts(z)'
<1>0. SpoolType /\ CycleFacts(z)
  BY DEF SpoolInv
<1>1. ASSUME cycle'[z] = cycle[z],
             \A c \in Found : staged[c] # Absent => staged'[c] # Absent,
             cycle[z].pc \in {"write", "list", "record"} =>
               scanlock'[cycle[z].scan] = scanlock[cycle[z].scan]
      PROVE CycleFacts(z)'
  <2>1. \A c \in cycle[z].left : c \in Found
    BY <1>0 DEF SpoolType, CycleRecord
  <2>2. cycle[z].pc = "list" =>
          committed'[<<cycle[z].scan, cycle[z].item>>] = committed[<<cycle[z].scan, cycle[z].item>>]
    BY <1>0, <2>1, CommittedStays DEF CycleFacts
  <2> QED BY <1>0, <1>1, <2>1, <2>2 DEF CycleFacts
<1>2. ASSUME NEW y \in Cycles, y # z,
             Answer(y) \/ Stage(y) \/ Read(y) \/ Enter(y) \/ Write(y) \/ List(y)
               \/ RecordEmpty(y) \/ Kill(y)
      PROVE CycleFacts(z)'
  <2>1. cycle'[z] = cycle[z]
    BY <1>0, <1>2 DEF SpoolType, CycleRecord, Answer, Stage, Read, Enter, Write, EndCycle, List, RecordEmpty, Kill
  <2>2. ASSUME NEW c \in Found, staged[c] # Absent PROVE staged'[c] # Absent
    <3>1. CASE Stage(y)
      <4>1. cycle[y].version # Absent
        BY <3>1 DEF Stage, SpoolInv, CycleFacts
      <4> QED BY <2>2, <3>1, <4>1 DEF Stage
    <3>2. CASE ~ Stage(y)
      BY <1>2, <2>2, <3>2 DEF Answer, Read, Enter, Write, List, RecordEmpty, Kill, spool
    <3> QED BY <3>1, <3>2
  <2>3. ASSUME cycle[z].pc \in {"write", "list", "record"}
        PROVE scanlock'[cycle[z].scan] = scanlock[cycle[z].scan]
    <3>1. /\ cycle[z].scan \in Scans /\ scanlock[cycle[z].scan] = z
      BY <1>0, <2>3 DEF CycleFacts
    <3>2. CASE Enter(y)
      <4>1. scanlock[cycle[y].scan] = Absent /\ scanlock' = [scanlock EXCEPT ![cycle[y].scan] = y]
        BY <3>2 DEF Enter
      <4>2. cycle[y].scan # cycle[z].scan
        BY <3>1, <4>1 DEF SpoolAssumption
      <4> QED BY <1>0, <3>1, <4>1, <4>2 DEF SpoolType, CycleRecord
    <3>3. CASE Write(y) \/ List(y) \/ RecordEmpty(y)
      <4>1. cycle[y].pc \in {"write", "list", "record"}
        BY <3>3 DEF Write, List, RecordEmpty
      <4>2. scanlock[cycle[y].scan] = y
        BY <4>1 DEF SpoolInv, CycleFacts
      <4>3. cycle[y].scan # cycle[z].scan
        BY <1>2, <3>1, <4>2
      <4>4. scanlock' = scanlock \/ scanlock' = [scanlock EXCEPT ![cycle[y].scan] = Absent]
        BY <3>3 DEF Write, List, RecordEmpty, EndCycle
      <4> QED BY <1>0, <3>1, <4>3, <4>4 DEF SpoolType, CycleRecord
    <3>4. CASE Kill(y)
      BY <1>0, <1>2, <3>1, <3>4 DEF Kill, SpoolType, CycleRecord
    <3>5. CASE Answer(y) \/ Stage(y) \/ Read(y)
      BY <3>5 DEF Answer, Stage, Read, spool
    <3> QED BY <1>2, <3>2, <3>3, <3>4, <3>5
  <2> QED BY <1>1, <2>1, <2>2, <2>3
<1>3. CASE Answer(z)
  <2>1. PICK answer \in Answers :
          cycle' = [cycle EXCEPT ![z] =
              [IdleCycle EXCEPT !.pc = IF answer.items = {} THEN "empty" ELSE "stage",
                                !.scan = scan, !.left = answer.items, !.version = answer.version]]
    BY <1>3 DEF Answer
  <2>2. answer.items # {} => answer.version # Absent
    BY AnswerIsTyped
  <2>3. /\ cycle'[z].pc = IF answer.items = {} THEN "empty" ELSE "stage"
        /\ cycle'[z].scan = scan /\ cycle'[z].version = answer.version
    BY <1>0, <2>1 DEF SpoolType, CycleRecord, IdleCycle
  <2> QED BY <1>0, <2>2, <2>3 DEF SpoolType, CycleRecord, CycleFacts
<1>4. CASE Stage(z)
  BY <1>0, <1>4 DEF Stage, SpoolType, CycleRecord, CycleFacts
<1>5. CASE Read(z)
  <2>1. PICK c \in cycle[z].left :
          cycle' = [cycle EXCEPT ![z] = [@ EXCEPT !.pc = "enter", !.item = c, !.version = staged[c]]]
    BY <1>5 DEF Read
  <2>2. staged[c] # Absent /\ staged' = staged
    BY <1>0, <1>5 DEF Read, CycleFacts, spool
  <2>3. /\ cycle'[z].pc = "enter" /\ cycle'[z].item = c /\ cycle'[z].version = staged[c]
        /\ cycle'[z].scan = cycle[z].scan /\ cycle'[z].left = cycle[z].left
    BY <1>0, <2>1 DEF SpoolType, CycleRecord
  <2> QED BY <1>0, <1>5, <2>2, <2>3 DEF CycleFacts, Read
<1>6. CASE Enter(z)
  <2>1. /\ cycle'[z] = [cycle[z] EXCEPT !.pc = IF @ = "enter" THEN "write" ELSE "record"]
        /\ staged' = staged /\ scanlock' = [scanlock EXCEPT ![cycle[z].scan] = z]
        /\ cycle[z].pc \in {"enter", "empty"}
    BY <1>0, <1>6 DEF Enter, SpoolType, CycleRecord
  <2>2. scanlock'[cycle[z].scan] = z
    BY <1>0, <2>1 DEF SpoolType, CycleRecord, CycleFacts
  <2> QED BY <1>0, <2>1, <2>2 DEF SpoolType, CycleRecord, CycleFacts
<1>7. CASE Write(z)
  <2>1. CASE cycle' = [cycle EXCEPT ![z] = IdleCycle]
    BY <1>0, <2>1 DEF SpoolType, CycleRecord, CycleFacts, IdleCycle
  <2>2. CASE /\ committed' = [committed EXCEPT ![<<cycle[z].scan, cycle[z].item>>] = cycle[z].version]
             /\ cycle' = [cycle EXCEPT ![z] = [@ EXCEPT !.pc = "list", !.version = Absent]]
             /\ UNCHANGED scanlock
    <3>1. /\ cycle[z].scan \in Scans /\ cycle[z].item \in Found /\ cycle[z].version # Absent
          /\ cycle[z].item \in cycle[z].left
      BY <1>0, <1>7 DEF Write, CycleFacts, SpoolType, CycleRecord
    <3>2. committed'[<<cycle[z].scan, cycle[z].item>>] = cycle[z].version
      BY <1>0, <2>2, <3>1 DEF SpoolType, CycleRecord
    <3>3. cycle'[z] = [cycle[z] EXCEPT !.pc = "list", !.version = Absent]
      BY <1>0, <2>2 DEF SpoolType, CycleRecord
    <3>4. staged' = staged /\ cycle[z].pc = "write"
      BY <1>7 DEF Write
    <3> QED BY <1>0, <2>2, <3>1, <3>2, <3>3, <3>4 DEF CycleFacts, SpoolType, CycleRecord
  <2> QED BY <1>7, <2>1, <2>2 DEF Write, EndCycle
<1>8. CASE List(z)
  <2> DEFINE left == cycle[z].left \ {cycle[z].item}
  <2>1. CASE cycle' = [cycle EXCEPT ![z] = IdleCycle]
    BY <1>0, <2>1 DEF SpoolType, CycleFacts, IdleCycle
  <2>2. CASE cycle' = [cycle EXCEPT ![z] = [@ EXCEPT !.pc = "read", !.left = left, !.item = Absent]]
    <3>1. /\ cycle'[z].pc = "read" /\ cycle'[z].left = left
          /\ cycle'[z].scan = cycle[z].scan
      BY <1>0, <2>2 DEF SpoolType, CycleRecord
    <3>2. staged' = staged /\ cycle[z].pc = "list"
      BY <1>8 DEF List
    <3> QED BY <1>0, <3>1, <3>2 DEF CycleFacts
  <2> QED BY <1>8, <2>1, <2>2 DEF List, EndCycle
<1>9. CASE RecordEmpty(z) \/ Kill(z)
  BY <1>0, <1>9 DEF RecordEmpty, Kill, EndCycle, SpoolType, CycleRecord, CycleFacts, IdleCycle
<1>10. CASE NextScan
  BY <1>1, <1>10 DEF NextScan, spool
<1>11. CASE SweepStarts \/ SweepReads \/ SweepRuns \/ SweepEnds
  BY <1>1, <1>11, SweepFrame
<1> QED BY <1>2, <1>3, <1>4, <1>5, <1>6, <1>7, <1>8, <1>9, <1>10, <1>11 DEF SpoolNext

\* The sweep takes its list from a receipt, and receipts only grow.
LEMMA SweepStep == SpoolAssumption /\ SpoolInv /\ SpoolNext => SweepFacts'
<1> SUFFICES ASSUME SpoolAssumption, SpoolInv, SpoolNext, NEW at \in Scans, sweep'.at = at
             PROVE sweep'.left \subseteq Listed(at)'
  BY DEF SweepFacts, Listed
<1>0. SweepFacts
  BY DEF SpoolInv
<1>1. CASE sweep' = IdleSweep
  BY <1>1 DEF IdleSweep
<1>2. CASE sweep'.at = sweep.at /\ sweep'.left \subseteq sweep.left
  <2>1. sweep.left \subseteq Listed(at)
    BY <1>0, <1>2 DEF SweepFacts
  <2> QED BY <1>2, <2>1, ReceiptGrows
<1>3. CASE SweepStarts
  BY <1>3 DEF SweepStarts, IdleSweep
<1>4. CASE SweepReads
  <2> DEFINE s == CHOOSE t \in sweep.todo : \A u \in sweep.todo : t <= u
  <2>1. CASE receipt[s] # Absent /\ sweep' = [todo |-> sweep.todo \ {s}, at |-> s, left |-> receipt[s]]
    <3>1. s = at /\ sweep'.left = receipt[s]
      BY <2>1
    <3>2. receipt' = receipt
      BY <1>4, SweepFrame
    <3> QED BY <2>1, <3>1, <3>2 DEF Listed
  <2> QED BY <1>1, <1>4, <2>1 DEF SweepReads
<1>5. CASE SweepRuns
  <2>1. CASE \E c \in sweep.left : sweep' = [sweep EXCEPT !.left = @ \ {c}]
    BY <1>2, <2>1
  <2> QED BY <1>1, <1>5, <2>1 DEF SweepRuns
<1>6. CASE ~ SweepStarts /\ ~ SweepReads /\ ~ SweepRuns
  BY <1>1, <1>2, <1>6, RadarFrame DEF SpoolNext, NextScan, SweepEnds
<1> QED BY <1>3, <1>4, <1>5, <1>6

\* What the sweep ran stays listed and committed with the contents it ran with.
LEMMA ConsumedStep == SpoolAssumption /\ SpoolInv /\ SpoolNext => ConsumedIsCommitted'
<1> SUFFICES ASSUME SpoolAssumption, SpoolInv, SpoolNext PROVE ConsumedIsCommitted'
  OBVIOUS
<1>0. SpoolType /\ ConsumedIsCommitted /\ SweepFacts
  BY DEF SpoolInv
<1>1. ASSUME NEW s \in Scans, NEW c \in Listed(s)' PROVE c \in Files(s)'
  <2>1. c \in Found /\ committed[<<s, c>>] # Absent
    BY <1>0, ReceiptGrows DEF ConsumedIsCommitted, Files
  <2> QED BY <2>1, CommittedStays DEF Files
<1>2. ASSUME NEW s \in Scans, NEW c \in Found, ran'[<<s, c>>] # Absent
      PROVE c \in Listed(s)' /\ committed'[<<s, c>>] = ran'[<<s, c>>]
  <2>1. CASE ran'[<<s, c>>] = ran[<<s, c>>]
    <3>1. c \in Listed(s) /\ committed[<<s, c>>] = ran[<<s, c>>]
      BY <1>0, <1>2, <2>1 DEF ConsumedIsCommitted
    <3> QED BY <1>2, <2>1, <3>1, ReceiptGrows, CommittedStays
  <2>2. CASE ran'[<<s, c>>] # ran[<<s, c>>]
    <3>1. SweepRuns
      BY <2>2, RadarFrame DEF SpoolNext, NextScan, SweepStarts, SweepReads, SweepEnds
    <3>2. PICK d \in sweep.left :
            /\ committed[<<sweep.at, d>>] # Absent
            /\ ran' = [ran EXCEPT ![<<sweep.at, d>>] = IF @ = Absent THEN committed[<<sweep.at, d>>] ELSE @]
      BY <2>2, <3>1 DEF SweepRuns
    <3>3. sweep.at = s /\ d = c /\ ran'[<<s, c>>] = committed[<<s, c>>]
      BY <1>0, <2>2, <3>2 DEF SpoolType, CycleRecord
    <3>4. c \in Listed(s)
      BY <1>0, <3>2, <3>3 DEF SweepFacts
    <3>5. committed' = committed
      BY <3>1, SweepFrame
    <3> QED BY <3>3, <3>4, <3>5, ReceiptGrows
  <2> QED BY <2>1, <2>2
<1> QED BY <1>1, <1>2 DEF ConsumedIsCommitted

\* The invariant of the spool: it holds in every reachable state, whatever
\* cycles overlap, repeat or die and whenever the sweep runs.
THEOREM SpoolInvariance == ASSUME SpoolAssumption PROVE SpoolSpec => []SpoolInv
<1>1. SpoolInit => SpoolInv
  BY InitSpool
<1>2. SpoolInv /\ [SpoolNext]_spoolvars => SpoolInv'
  <2>1. CASE SpoolNext
    BY <2>1, TypeStep, CycleStep, SweepStep, ConsumedStep DEF SpoolInv
  <2>2. CASE UNCHANGED spoolvars
    BY <2>2 DEF spoolvars, radar, spool, SpoolInv, SpoolType, CycleRecord, CycleFacts, SweepFacts,
                ConsumedIsCommitted, Listed, Files
  <2> QED BY <2>1, <2>2
<1> QED BY <1>1, <1>2, PTL DEF SpoolSpec

\* What the sweep of nullone-breaking-consume.py hands over was committed by a
\* radar cycle, is listed, and keeps the contents it was handed over with.
THEOREM HandoversAreCommitted == ASSUME SpoolAssumption PROVE SpoolSpec => []ConsumedIsCommitted
<1>1. SpoolInv => ConsumedIsCommitted
  BY DEF SpoolInv
<1> QED BY <1>1, SpoolInvariance, PTL
=============================================================================
