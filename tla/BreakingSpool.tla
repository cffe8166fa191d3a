---------------------------- MODULE BreakingSpool ----------------------------
(***************************************************************************)
(* The spool between the Breaking radar and the consumer.  A radar cycle   *)
(* commits the developments it assessed, one handoff file each, to the     *)
(* directory of the scan slot it is bound to; the slot's receipt is the    *)
(* commit record.  The sweep runs what a receipt lists and stops at the    *)
(* first directory whose receipt and files disagree.                       *)
(***************************************************************************)
EXTENDS Integers, FiniteSets

CONSTANTS
    Scans,          \* slots of the radar's day, numbered from 1
    Cycles,         \* radar processes
    Found,          \* developments (candidate ids)
    Answers,        \* what the model may answer: [items, version] of the contents
    MaxCycles, MaxKills,
    Absent

Empty == {}     \* NO_MATERIAL_DEVELOPMENT lists nothing, CANDIDATES_EMITTED something
VARIABLES
    scan,           \* the slot that is due
    cycle,          \* [Cycles -> the process]
    staged,         \* [Found -> staging file's version or Absent]: one for all slots
    dirs,           \* slots that have a directory
    scanlock,       \* [Scans -> cycle inside the slot's lock, or Absent]
    committed,      \* [Scans \X Found -> handoff file's version or Absent]
    receipt,        \* [Scans -> the set of listed candidates or Absent]
    sweep,          \* the consumer's sweep: slots and candidates to go
    ran,            \* [Scans \X Found -> version handed to the workflow or Absent]
    cycles, kills

spool == <<staged, dirs, scanlock, committed, receipt>>
radar == <<scan, cycle, cycles, kills>>
spoolvars == <<radar, spool, sweep, ran>>

IdleCycle == [pc |-> "idle", scan |-> Absent, left |-> {}, item |-> Absent, version |-> Absent]
IdleSweep == [todo |-> {}, at |-> Absent, left |-> {}]

SpoolInit ==
    /\ scan = 1 /\ cycle = [y \in Cycles |-> IdleCycle]
    /\ staged = [c \in Found |-> Absent] /\ dirs = {}
    /\ scanlock = [s \in Scans |-> Absent]
    /\ committed = [k \in Scans \X Found |-> Absent] /\ receipt = [s \in Scans |-> Absent]
    /\ sweep = IdleSweep /\ ran = [k \in Scans \X Found |-> Absent]
    /\ cycles \in {0, MaxCycles} /\ kills = 0

Listed(s) == IF receipt[s] = Absent THEN {} ELSE receipt[s]
Files(s) == {c \in Found : committed[<<s, c>>] # Absent}
-----------------------------------------------------------------------------
(* A radar cycle.                                                          *)

NextScan ==
    /\ cycles > 0 /\ scan + 1 \in Scans /\ scan' = scan + 1
    /\ UNCHANGED <<cycle, cycles, kills, spool, sweep, ran>>

\* The answer is validated whole; the cycle is bound to the slot due by then.
\* (A refused answer ends the cycle and leaves nothing.)
Answer(y) ==
    /\ cycles > 0 /\ cycle[y].pc = "idle"
    /\ \E answer \in Answers :
          cycle' = [cycle EXCEPT ![y] =
              [IdleCycle EXCEPT !.pc = IF answer.items = {} THEN "empty" ELSE "stage",
                                !.scan = scan, !.left = answer.items, !.version = answer.version]]
    /\ cycles' = cycles - 1
    /\ UNCHANGED <<scan, kills, spool, sweep, ran>>

\* The staging file's name is the candidate's alone.
Stage(y) ==
    /\ cycle[y].pc = "stage"
    /\ staged' = [c \in Found |-> IF c \in cycle[y].left THEN cycle[y].version ELSE staged[c]]
    /\ cycle' = [cycle EXCEPT ![y] = [@ EXCEPT !.pc = "read", !.version = Absent]]
    /\ UNCHANGED <<scan, cycles, kills, dirs, scanlock, committed, receipt, sweep, ran>>

\* commit_assessment, one item after the other: the staged file is read first.
Read(y) ==
    /\ cycle[y].pc = "read"
    /\ \E c \in cycle[y].left :
          cycle' = [cycle EXCEPT ![y] = [@ EXCEPT !.pc = "enter", !.item = c, !.version = staged[c]]]
    /\ UNCHANGED <<scan, cycles, kills, spool, sweep, ran>>

\* The directory is made for the sake of the lock in it.
Enter(y) ==
    LET s == cycle[y].scan
    IN  /\ cycle[y].pc \in {"enter", "empty"} /\ scanlock[s] = Absent
        /\ dirs' = dirs \cup {s}
        /\ scanlock' = [scanlock EXCEPT ![s] = y]
        /\ cycle' = [cycle EXCEPT ![y].pc = IF @ = "enter" THEN "write" ELSE "record"]
        /\ UNCHANGED <<scan, cycles, kills, staged, committed, receipt, sweep, ran>>

EndCycle(y) ==
    /\ cycle' = [cycle EXCEPT ![y] = IdleCycle]
    /\ scanlock' = [scanlock EXCEPT ![cycle[y].scan] = Absent]

\* Mutant: the last assessment wins.
WriteOver(y) ==
    LET s == cycle[y].scan c == cycle[y].item
    IN  /\ cycle[y].pc = "write"
        /\ IF receipt[s] = Empty THEN EndCycle(y) /\ UNCHANGED committed
           ELSE /\ committed' = [committed EXCEPT ![<<s, c>>] = cycle[y].version]
                /\ cycle' = [cycle EXCEPT ![y] = [@ EXCEPT !.pc = "list", !.version = Absent]] /\ UNCHANGED scanlock
        /\ UNCHANGED <<scan, cycles, kills, staged, dirs, receipt, sweep, ran>>

\* COMMIT_CONFLICT with an empty receipt, or with another assessment at this
\* candidate's path; the same assessment is kept as it is.
Write(y) ==
    LET s == cycle[y].scan c == cycle[y].item
    IN  /\ cycle[y].pc = "write"
        /\ IF receipt[s] = Empty \/ committed[<<s, c>>] \notin {Absent, cycle[y].version}
           THEN EndCycle(y) /\ UNCHANGED committed
           ELSE /\ committed' = [committed EXCEPT ![<<s, c>>] = cycle[y].version]
                /\ cycle' = [cycle EXCEPT ![y] = [@ EXCEPT !.pc = "list", !.version = Absent]] /\ UNCHANGED scanlock
        /\ UNCHANGED <<scan, cycles, kills, staged, dirs, receipt, sweep, ran>>

\* The receipt lists the candidate: committed.
List(y) ==
    LET s == cycle[y].scan
        left == cycle[y].left \ {cycle[y].item}
    IN  /\ cycle[y].pc = "list"
        /\ receipt' = [receipt EXCEPT ![s] = Listed(s) \cup {cycle[y].item}]
        /\ IF left = {} THEN EndCycle(y)
           ELSE /\ cycle' = [cycle EXCEPT ![y] = [@ EXCEPT !.pc = "read", !.left = left, !.item = Absent]]
                /\ scanlock' = [scanlock EXCEPT ![s] = Absent]
        /\ UNCHANGED <<scan, cycles, kills, staged, dirs, committed, sweep, ran>>

\* record_empty_scan: refused once candidates are listed.  Files no receipt
\* lists are not looked at.
RecordEmpty(y) ==
    LET s == cycle[y].scan
    IN  /\ cycle[y].pc = "record"
        /\ receipt' = [receipt EXCEPT ![s] = IF @ = Absent THEN Empty ELSE @]
        /\ EndCycle(y)
        /\ UNCHANGED <<scan, cycles, kills, staged, dirs, committed, sweep, ran>>

Kill(y) ==
    /\ cycle[y].pc # "idle" /\ kills < MaxKills
    /\ cycle' = [cycle EXCEPT ![y] = IdleCycle]
    /\ scanlock' = [s \in Scans |-> IF scanlock[s] = y THEN Absent ELSE scanlock[s]]
    /\ kills' = kills + 1
    /\ UNCHANGED <<scan, cycles, staged, dirs, committed, receipt, sweep, ran>>
-----------------------------------------------------------------------------
(* The sweep.                                                              *)

SweepStarts ==
    /\ sweep = IdleSweep /\ dirs # {}
    /\ sweep' = [IdleSweep EXCEPT !.todo = dirs]
    /\ UNCHANGED <<radar, spool, ran>>

\* The oldest directory first.  No receipt, an empty one beside handoffs: the
\* whole sweep ends.
SweepReads ==
    /\ sweep.left = {} /\ sweep.todo # {}
    /\ LET s == CHOOSE t \in sweep.todo : \A u \in sweep.todo : t <= u
       IN  sweep' = IF receipt[s] = Absent \/ (receipt[s] = Empty /\ Files(s) # {}) THEN IdleSweep
                    ELSE [todo |-> sweep.todo \ {s}, at |-> s, left |-> receipt[s]]
    /\ UNCHANGED <<radar, spool, ran>>

\* A listed candidate is run, or found to have run before and replayed; a
\* missing file, a refused handoff or a failing workflow ends the sweep.
SweepRuns ==
    /\ \E c \in sweep.left :
         LET k == <<sweep.at, c>>
         IN  \/ /\ committed[k] # Absent
                /\ ran' = [ran EXCEPT ![k] = IF @ = Absent THEN committed[k] ELSE @]
                /\ sweep' = [sweep EXCEPT !.left = @ \ {c}]
             \/ sweep' = IdleSweep /\ UNCHANGED ran
    /\ UNCHANGED <<radar, spool>>

SweepEnds ==
    /\ sweep # IdleSweep /\ sweep.todo = {} /\ sweep.left = {}
    /\ sweep' = IdleSweep
    /\ UNCHANGED <<radar, spool, ran>>

SpoolNext ==
    \/ NextScan
    \/ \E y \in Cycles : \/ Answer(y) \/ Stage(y) \/ Read(y) \/ Enter(y) \/ Write(y)
                         \/ List(y) \/ RecordEmpty(y) \/ Kill(y)
    \/ SweepStarts \/ SweepReads \/ SweepRuns \/ SweepEnds

SpoolSpec == SpoolInit /\ [][SpoolNext]_spoolvars

Versions == {answer.version : answer \in Answers}

\* What the proofs take from the constants: an answer that names developments
\* carries contents, and Absent is none of the values it stands beside.
SpoolAssumption ==
    /\ Scans \subseteq Nat /\ 1 \in Scans /\ MaxCycles \in Nat /\ MaxKills \in Nat
    /\ \A answer \in Answers : /\ answer.items \subseteq Found
                               /\ answer.items # {} => answer.version # Absent
    /\ Absent \notin Cycles /\ \A S \in SUBSET Found : S # Absent
-----------------------------------------------------------------------------
\* What the sweep hands over was committed and still is, with the contents it
\* was handed over with, whatever radar cycles of the slot follow, overlap or
\* die; and every listed candidate has its file.
ConsumedIsCommitted ==
    /\ \A s \in Scans : Listed(s) \subseteq Files(s)
    /\ \A s \in Scans, c \in Found : ran[<<s, c>>] # Absent =>
          c \in Listed(s) /\ committed[<<s, c>>] = ran[<<s, c>>]

(***************************************************************************)
(* The inductive invariant behind it.                                      *)
(***************************************************************************)
CycleRecord ==
    [pc : {"idle", "stage", "read", "enter", "write", "list", "empty", "record"},
     scan : Scans \cup {Absent}, left : SUBSET Found,
     item : Found \cup {Absent}, version : Versions \cup {Absent}]

SpoolType ==
    /\ cycle \in [Cycles -> CycleRecord]
    /\ staged \in [Found -> Versions \cup {Absent}]
    /\ committed \in [Scans \X Found -> Versions \cup {Absent}]
    /\ ran \in [Scans \X Found -> Versions \cup {Absent}]
    /\ receipt \in [Scans -> (SUBSET Found) \cup {Absent}]
    /\ scanlock \in [Scans -> Cycles \cup {Absent}]
    /\ scan \in Scans /\ dirs \subseteq Scans

\* What a radar cycle still has to commit is staged, what it has read has
\* contents, and what it is about to list has its file.
CycleFacts(y) ==
    LET at == cycle[y]
    IN  /\ at.pc # "idle" => at.scan \in Scans
        /\ at.pc = "stage" => at.version # Absent
        /\ at.pc \in {"read", "enter", "write", "list"} => \A c \in at.left : staged[c] # Absent
        /\ at.pc \in {"enter", "write", "list"} => at.item \in at.left
        /\ at.pc \in {"enter", "write"} => at.version # Absent
        /\ at.pc = "list" => committed[<<at.scan, at.item>>] # Absent
        /\ at.pc \in {"write", "list", "record"} => scanlock[at.scan] = y

\* The sweep runs what the receipt of its directory lists.
SweepFacts == sweep.at \in Scans => sweep.left \subseteq Listed(sweep.at)

SpoolInv == SpoolType /\ (\A y \in Cycles : CycleFacts(y)) /\ SweepFacts /\ ConsumedIsCommitted
=============================================================================
