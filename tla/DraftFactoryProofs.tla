------------------------ MODULE DraftFactoryProofs ------------------------
(***************************************************************************)
(* Proofs about DraftFactory: IInv is an inductive invariant, for any       *)
(* candidates, offers, days and cycles, and the four safety properties of   *)
(* the Draft Factory follow from it.                                        *)
(*                                                                         *)
(* The argument.  A cycle works on one candidate at a time, the first of    *)
(* its ranking that no attempt names, and that candidate stays the same     *)
(* from the request to the report.  Three files are written once: the       *)
(* dated asset, the receipt of the candidate and its render record.  A      *)
(* manifest is only built of a request that is the receipt's and of the     *)
(* render record of its own day, so two days of one candidate cannot both   *)
(* have a manifest; the one create request is spent from NOT_CREATED.       *)
(* After it, drafts and the card of a manifest only appear, so what the     *)
(* queue, the receipts, the ledger and the reports say of them stays true.  *)
(***************************************************************************)
EXTENDS DraftFactory, FiniteSetTheorems, WellFoundedInduction, TLAPS

-----------------------------------------------------------------------------
(* The candidate in hand.                                                  *)

\* A set of natural numbers has a least element.
LEMMA Least ==
  ASSUME NEW T \in SUBSET Nat, T # {}
  PROVE  \E x \in T : \A y \in T : x <= y
<1>1. \E x \in T : \A y \in T : ~(<<y, x>> \in OpToRel(<, Nat))
  BY NatLessThanWellFounded, WFMin
<1>2. PICK x \in T : \A y \in T : ~(<<y, x>> \in OpToRel(<, Nat))
  BY <1>1
<1>3. ASSUME NEW y \in T PROVE x <= y
  <2>1. ~(<<y, x>> \in OpToRel(<, Nat))
    BY <1>2
  <2> QED BY <2>1 DEF OpToRel
<1> QED BY <1>3

\* A cycle that has not tried its whole ranking has a candidate in hand.
LEMMA InHand ==
  ASSUME cyc \in Cycle, Untried # {}
  PROVE  /\ Current \in Candidates /\ Key \in Keys
         /\ Key[1] = cyc.today /\ Key[2] = Current
<1> DEFINE T == Untried
<1>1. cyc.ranked \in Seq(Candidates) /\ cyc.today \in Days
  BY DEF Cycle
<1>2. T \in SUBSET Nat /\ T \subseteq DOMAIN cyc.ranked
  BY <1>1 DEF Untried, UntriedOf
<1>3. \E i \in T : \A j \in T : i <= j
  BY <1>2, Least
<1> DEFINE i == CHOOSE i \in T : \A j \in T : i <= j
<1>4. i \in T
  BY <1>3
<1>5. Current = cyc.ranked[i]
  BY DEF Current, FirstOf, Untried
<1>6. Current \in Candidates
  <2> HIDE DEF i, T
  <2> QED BY <1>1, <1>2, <1>4, <1>5
<1> QED BY <1>1, <1>6 DEF Key, Keys

\* Where the candidate comes from: the ranking, what was tried, the date.
LEMMA SameCandidate ==
  ASSUME cyc'.ranked = cyc.ranked, cyc'.tried = cyc.tried, cyc'.today = cyc.today
  PROVE  Current' = Current /\ Untried' = Untried /\ Key' = Key
<1>1. Current' = Current
  BY DEF Current
<1>2. Untried' = Untried
  BY DEF Untried
<1>3. Key' = Key
  BY <1>1 DEF Key
<1> QED BY <1>1, <1>2, <1>3

-----------------------------------------------------------------------------
(* How the cycle's record moves.                                           *)

\* Going to another step changes nothing else.
LEMMA Going ==
  ASSUME cyc \in Cycle, NEW pc \in CyclePcs, cyc' = [cyc EXCEPT !.pc = pc]
  PROVE  /\ cyc' \in Cycle /\ cyc'.pc = pc /\ cyc'.n = cyc.n /\ cyc'.today = cyc.today
         /\ cyc'.copy = cyc.copy /\ cyc'.proof = cyc.proof /\ cyc'.snap = cyc.snap
         /\ Current' = Current /\ Untried' = Untried /\ Key' = Key
<1>1. /\ cyc' \in Cycle /\ cyc'.pc = pc /\ cyc'.n = cyc.n /\ cyc'.today = cyc.today
      /\ cyc'.copy = cyc.copy /\ cyc'.proof = cyc.proof /\ cyc'.snap = cyc.snap
      /\ cyc'.ranked = cyc.ranked /\ cyc'.tried = cyc.tried
  BY DEF Cycle
<1> QED BY <1>1, SameCandidate

\* A cycle that ends keeps only its number.
LEMMA Ending ==
  ASSUME cyc \in Cycle, EndCycle \/ ToBackstop, cyc.n >= 1
  PROVE  cyc' \in Cycle /\ cyc'.pc \in {"idle", "backstop"} /\ CycleFacts'
<1>1. cyc' \in Cycle /\ cyc'.pc \in {"idle", "backstop"} /\ cyc'.n = cyc.n
  <2>1. cyc.n \in 0..MaxCycles /\ 1 \in Days
    BY DraftAssumption DEF Cycle, Days
  <2>2. CASE EndCycle
    <3>1. cyc' = [pc |-> "idle", n |-> cyc.n, today |-> 1, base |-> None, snap |-> None,
                  ranked |-> <<>>, tried |-> {}, copy |-> None,
                  recovered |-> FALSE, proof |-> FALSE]
      BY <2>2 DEF EndCycle, IdleCycle
    <3> QED BY <2>1, <3>1 DEF Cycle, CyclePcs, OrNone
  <2>3. CASE ToBackstop
    <3>1. cyc' = [pc |-> "backstop", n |-> cyc.n, today |-> 1, base |-> None, snap |-> None,
                  ranked |-> <<>>, tried |-> {}, copy |-> None,
                  recovered |-> FALSE, proof |-> FALSE]
      BY <2>3 DEF ToBackstop, IdleCycle
    <3> QED BY <2>1, <3>1 DEF Cycle, CyclePcs, OrNone
  <2> QED BY <2>2, <2>3
<1> QED BY <1>1 DEF CycleFacts, Walking, HasAsset, HasReceipt, HasCopy, HasDraft

\* A disposition is noted of a candidate in hand; the walk goes on.
LEMMA Recording ==
  ASSUME cyc \in Cycle, Untried # {}, cyc.n >= 1, NEW d \in Dispositions, Record(d)
  PROVE  cyc' \in Cycle /\ CycleFacts'
<1>1. Current \in Candidates
  BY InHand
<1> DEFINE p == <<Current, d>>
<1>2. cyc' = [cyc EXCEPT !.pc = "next", !.recovered = FALSE, !.tried = @ \cup {p}]
  BY DEF Record
<1>3. p \in Candidates \X Dispositions
  BY <1>1
<1>4. /\ cyc' \in Cycle /\ cyc'.pc = "next" /\ cyc'.n = cyc.n
  <2> HIDE DEF p
  <2> QED BY <1>2, <1>3 DEF Cycle, CyclePcs
<1> QED BY <1>4 DEF CycleFacts, Walking, HasAsset, HasReceipt, HasCopy, HasDraft

-----------------------------------------------------------------------------
(* What a step leaves alone.                                               *)

LEMMA InputsKept ==
  ASSUME UNCHANGED <<request, asset>>, NEW k \in Keys, Inputs(k)
  PROVE  Inputs(k)'
BY DEF Inputs

LEMMA ProducedKept ==
  ASSUME UNCHANGED <<request, asset, receipt, record, manifest>>, NEW k \in Keys, Produced(k)
  PROVE  Produced(k)'
BY DEF Produced

LEMMA SpentKept ==
  ASSUME UNCHANGED zernio, NEW k \in Keys, Spent(k)
  PROVE  Spent(k)'
BY DEF Spent, zernio, Created, NotCreated

LEMMA DeliveredKept ==
  ASSUME UNCHANGED <<manifest, notices, audit>>, NEW k \in Keys, Delivered(k)
  PROVE  Delivered(k)'
BY DEF Delivered, notices, audit, Created

LEMMA FlagsKept ==
  ASSUME UNCHANGED <<entry, drafts>>, FlagsAreTrue(entry)
  PROVE  FlagsAreTrue(entry)'
BY DEF FlagsAreTrue

\* All the world but the cycle, and what follows of the invariant.
World == <<day, entry, inputs, products, zernio, notices, audit>>

LEMMA WorldKept ==
  ASSUME IInv, UNCHANGED World, cyc' \in Cycle, CycleFacts'
  PROVE  IInv'
<1>1. TypeOK'
  BY DEF IInv, TypeOK, World, inputs, products, zernio, notices, audit
<1>2. FlagsAreTrue(entry)'
  BY FlagsKept DEF IInv, World, zernio
<1>3. ASSUME NEW k \in Keys PROVE Inputs(k)' /\ Produced(k)' /\ Spent(k)' /\ Delivered(k)'
  <2>1. Inputs(k)' BY InputsKept DEF IInv, World, inputs
  <2>2. Produced(k)' BY ProducedKept DEF IInv, World, inputs, products, zernio
  <2>3. Spent(k)' BY SpentKept DEF IInv, World
  <2>4. Delivered(k)' BY DeliveredKept DEF IInv, World, zernio
  <2> QED BY <2>1, <2>2, <2>3, <2>4
<1> QED BY <1>1, <1>2, <1>3 DEF IInv

LEMMA Keyed == ASSUME NEW k \in Keys PROVE k[1] \in Days /\ k[2] \in Candidates /\ k = <<k[1], k[2]>>
BY DEF Keys

\* The cycle knows its number.
LEMMA Numbered == ASSUME IInv, cyc.pc # "idle" PROVE cyc \in Cycle /\ cyc.n >= 1 /\ cyc.n \in 1..MaxCycles
<1>1. cyc \in Cycle /\ cyc.n >= 1
  BY DEF IInv, TypeOK, CycleFacts
<1>2. cyc.n \in 0..MaxCycles
  BY <1>1 DEF Cycle
<1> QED BY <1>1, <1>2, DraftAssumption

-----------------------------------------------------------------------------
(* The steps of the cycle that change its record only.                     *)

LEMMA InitStep == Init => IInv
<1> SUFFICES ASSUME Init PROVE IInv
  OBVIOUS
<1>1. 1 \in Days
  BY DraftAssumption DEF Days
<1>2. cyc \in Cycle /\ cyc.pc = "idle"
  BY <1>1, DraftAssumption DEF Init, Cycle, IdleCycle, CyclePcs, OrNone
<1>3. TypeOK
  <2>1. /\ request \in [Keys -> OrNone(Request)] /\ asset \in [Keys -> OrNone(AssetKinds)]
        /\ caption \in [Keys -> OrNone(Copies)]
        /\ receipt \in [Candidates -> OrNone(Request)]
        /\ record \in [Candidates -> OrNone(RenderRecord)]
        /\ manifest \in [Keys -> OrNone(Manifest)]
        /\ delivery \in [Keys -> OrNone(DeliveryStates)]
        /\ report \in [Keys -> OrNone({"cycle"} \cup Claims)]
    BY DEF Init, OrNone
  <2>2. /\ day \in Days /\ drafts \in [Keys -> Nat] /\ cards \in [Keys -> Nat]
        /\ ledger \in [Keys -> SUBSET Rows] /\ entry \in [Candidates -> Entry]
    BY <1>1 DEF Init, Entry
  <2> QED BY <1>2, <2>1, <2>2 DEF TypeOK
<1>4. CycleFacts
  BY <1>2 DEF CycleFacts, Walking, HasAsset, HasReceipt, HasCopy, HasDraft
<1>5. FlagsAreTrue(entry)
  BY DEF Init, FlagsAreTrue
<1>6. ASSUME NEW k \in Keys PROVE Inputs(k) /\ Produced(k) /\ Spent(k) /\ Delivered(k)
  <2>1. /\ request[k] = None /\ asset[k] = None /\ manifest[k] = None /\ drafts[k] = 0
        /\ delivery[k] = None /\ cards[k] = 0 /\ ledger[k] = {} /\ report[k] = None
    BY DEF Init
  <2>2. None # "SENT"
    BY DraftAssumption DEF Claims
  <2> QED BY <2>1, <2>2 DEF Inputs, Produced, Spent, Delivered, Created, NotCreated
<1> QED BY <1>3, <1>4, <1>5, <1>6 DEF IInv

LEMMA StartCycleStep == ASSUME IInv, StartCycle PROVE IInv'
<1>1. cyc \in Cycle /\ cyc.n \in 0..MaxCycles /\ day \in Days /\ entry \in [Candidates -> Entry]
  BY DEF IInv, TypeOK, Cycle
<1>2. cyc.n < MaxCycles
  BY DEF StartCycle
<1>3. cyc' = [pc |-> "select", n |-> cyc.n + 1, today |-> day, base |-> entry, snap |-> None,
              ranked |-> <<>>, tried |-> {}, copy |-> None, recovered |-> FALSE, proof |-> FALSE]
  BY DEF StartCycle, IdleCycle
<1>4. cyc.n + 1 \in 0..MaxCycles /\ cyc.n + 1 >= 1
  BY <1>1, <1>2, DraftAssumption
<1>5. cyc' \in Cycle /\ cyc'.pc = "select" /\ cyc'.n >= 1
  BY <1>1, <1>3, <1>4 DEF Cycle, CyclePcs, OrNone
<1>6. CycleFacts'
  BY <1>5 DEF CycleFacts, Walking, HasAsset, HasReceipt, HasCopy, HasDraft
<1> QED BY <1>5, <1>6, WorldKept DEF StartCycle, World

LEMMA SelectStep == ASSUME IInv, Select PROVE IInv'
<1>1. cyc \in Cycle /\ cyc.n >= 1 /\ cyc.pc # "idle"
  BY Numbered DEF Select
<1>2. CASE ToBackstop
  BY <1>1, <1>2, Ending, WorldKept DEF Select, World
<1>3. CASE \E s \in Rankings(Eligible) : cyc' = [cyc EXCEPT !.pc = "next", !.ranked = s]
  <2>1. PICK s \in Rankings(Eligible) : cyc' = [cyc EXCEPT !.pc = "next", !.ranked = s]
    BY <1>3
  <2>2. s \in Seq(Candidates)
    <3>1. IsFiniteSet(Eligible) /\ Eligible \subseteq Candidates
      BY DraftAssumption, FS_Subset DEF Eligible
    <3>2. Cardinality(Eligible) \in Nat
      BY <3>1, FS_CardinalityType
    <3>3. PICK n \in 1..Cardinality(Eligible) : s \in [1..n -> Eligible]
      BY <2>1 DEF Rankings
    <3>4. n \in Nat
      BY <3>2, <3>3
    <3> QED BY <3>1, <3>3, <3>4
  <2>3. cyc' \in Cycle /\ cyc'.pc = "next" /\ cyc'.n = cyc.n
    BY <1>1, <2>1, <2>2 DEF Cycle, CyclePcs
  <2>4. CycleFacts'
    BY <1>1, <2>3 DEF CycleFacts, Walking, HasAsset, HasReceipt, HasCopy, HasDraft
  <2> QED BY <2>3, <2>4, WorldKept DEF Select, World
<1> QED BY <1>2, <1>3 DEF Select

LEMMA ExhaustedStep == ASSUME IInv, Exhausted PROVE IInv'
<1>1. cyc \in Cycle /\ cyc.n >= 1
  BY Numbered DEF Exhausted
<1>2. EndCycle \/ ToBackstop
  BY DEF Exhausted
<1> QED BY <1>1, <1>2, Ending, WorldKept DEF Exhausted, World

LEMMA ClassifyStep == ASSUME IInv, Classify PROVE IInv'
<1>1. cyc \in Cycle /\ cyc.n >= 1 /\ cyc.pc = "classify"
  BY Numbered DEF Classify
<1>2. /\ Untried # {} /\ request[Key] # None /\ asset[Key] # None
      /\ receipt[Current] = request[Key]
  BY <1>1 DEF IInv, CycleFacts, CyclePcs, Walking, HasAsset, HasReceipt
<1>3. UNCHANGED World
  BY DEF Classify, World
<1>4. (\E d \in Dispositions : Record(d)) \/ Raise \/ Goto("produce")
  BY DEF Classify, Dispositions
<1>5. CASE \E d \in Dispositions : Record(d)
  BY <1>1, <1>2, <1>3, <1>5, Recording, WorldKept
<1>6. CASE Raise
  BY <1>1, <1>3, <1>6, Ending, WorldKept DEF Raise
<1>7. CASE Goto("produce")
  <2>1. /\ cyc' \in Cycle /\ cyc'.pc = "produce" /\ cyc'.n = cyc.n
        /\ Current' = Current /\ Untried' = Untried /\ Key' = Key
    BY <1>1, <1>7, Going DEF Goto, CyclePcs
  <2>2. UNCHANGED <<request, asset, receipt>>
    BY <1>3 DEF World, inputs
  <2>3. CycleFacts'
    BY <1>1, <1>2, <2>1, <2>2
       DEF CycleFacts, CyclePcs, Walking, HasAsset, HasReceipt, HasCopy, HasDraft
  <2> QED BY <1>3, <2>1, <2>3, WorldKept
<1> QED BY <1>4, <1>5, <1>6, <1>7

\* Once accepted, the candidate has its asset and its receipt.
LEMMA Accepted ==
  ASSUME IInv, cyc.pc \in Walking
  PROVE  /\ cyc \in Cycle /\ cyc.n >= 1 /\ cyc.n \in 1..MaxCycles /\ Untried # {}
         /\ Current \in Candidates /\ Key \in Keys
         /\ Key[1] = cyc.today /\ Key[2] = Current
<1>1. cyc.pc # "idle" /\ Untried # {}
  BY DEF IInv, CycleFacts, Walking
<1> QED BY <1>1, Numbered, InHand

LEMMA ReadyStep == ASSUME IInv, Ready PROVE IInv'
<1>1. cyc \in Cycle /\ cyc.n >= 1 /\ cyc.pc = "ready" /\ Untried # {}
  BY Accepted DEF Ready, Walking, CyclePcs
<1>2. UNCHANGED World
  BY DEF Ready, World
<1>3. CASE Raise
  BY <1>1, <1>2, <1>3, Ending, WorldKept DEF Raise
<1>4. CASE Goto("bridge")
  <2>1. /\ cyc' \in Cycle /\ cyc'.pc = "bridge" /\ cyc'.n = cyc.n /\ cyc'.copy = cyc.copy
        /\ Current' = Current /\ Untried' = Untried /\ Key' = Key
    BY <1>1, <1>4, Going DEF Goto, CyclePcs
  <2>2. UNCHANGED <<request, asset, receipt, manifest, delivery>>
    BY <1>2 DEF World, inputs, zernio, notices
  <2>3. CycleFacts'
    BY <1>1, <2>1, <2>2
       DEF IInv, CycleFacts, CyclePcs, Walking, HasAsset, HasReceipt, HasCopy, HasDraft
  <2> QED BY <1>2, <2>1, <2>3, WorldKept
<1> QED BY <1>3, <1>4 DEF Ready

LEMMA FlipCheckStep == ASSUME IInv, FlipCheck PROVE IInv'
<1>1. cyc \in Cycle /\ cyc.n >= 1 /\ cyc.pc = "flip" /\ Untried # {}
  BY Accepted DEF FlipCheck, Walking, CyclePcs
<1>2. UNCHANGED World
  BY DEF FlipCheck, World
<1>3. CASE Raise
  BY <1>1, <1>2, <1>3, Ending, WorldKept DEF Raise
<1>4. CASE cyc' = [cyc EXCEPT !.pc = "replace", !.snap = entry]
  <2>1. entry \in [Candidates -> Entry]
    BY DEF IInv, TypeOK
  <2>2. /\ cyc' \in Cycle /\ cyc'.pc = "replace" /\ cyc'.n = cyc.n /\ cyc'.copy = cyc.copy
        /\ cyc'.snap = entry
        /\ cyc'.ranked = cyc.ranked /\ cyc'.tried = cyc.tried /\ cyc'.today = cyc.today
    BY <1>1, <1>4, <2>1 DEF Cycle, CyclePcs, OrNone
  <2>3. Current' = Current /\ Untried' = Untried /\ Key' = Key
    BY <2>2, SameCandidate
  <2>4. UNCHANGED <<request, asset, receipt, manifest, delivery, drafts>>
    BY <1>2 DEF World, inputs, zernio, notices
  <2>5. FlagsAreTrue(cyc.snap)'
    BY <2>2, <2>4 DEF IInv, FlagsAreTrue
  <2>6. /\ request[Key] # None /\ asset[Key] # None /\ receipt[Current] = request[Key]
        /\ cyc.copy \in Copies /\ Created(Key) /\ delivery[Key] = None
    BY <1>1 DEF IInv, CycleFacts, CyclePcs, Walking, HasAsset, HasReceipt, HasCopy, HasDraft
  <2>7. Created(Key)'
    BY <2>3, <2>4, <2>6 DEF Created
  <2>8. CycleFacts'
    BY <1>1, <2>1, <2>2, <2>3, <2>4, <2>5, <2>6, <2>7
       DEF CycleFacts, Walking, HasAsset, HasReceipt, HasCopy, HasDraft
  <2> QED BY <1>2, <2>2, <2>8, WorldKept
<1> QED BY <1>3, <1>4 DEF FlipCheck

-----------------------------------------------------------------------------
(* The files of a candidate, each written once.                            *)

\* The two dated input files change for one key; no manifest stands on it.
LEMMA InputsGrow ==
  ASSUME IInv, NEW e \in Keys, manifest[e] = None,
         \A k \in Keys \ {e} : request'[k] = request[k] /\ asset'[k] = asset[k],
         UNCHANGED <<receipt, record, manifest>>
  PROVE  \A k \in Keys : Produced(k)' /\ (k # e => Inputs(k)')
BY DEF IInv, Produced, Inputs

LEMMA NextCandidateStep == ASSUME IInv, NextCandidate PROVE IInv'
<1>1. cyc \in Cycle /\ cyc.n >= 1 /\ cyc.pc = "next" /\ Untried # {}
  BY Numbered DEF NextCandidate
<1>2. Current \in Candidates /\ Key \in Keys /\ Key[2] = Current
  BY <1>1, InHand
<1>3. UNCHANGED <<day, entry, asset, receipt, products, zernio, notices, audit>>
  BY DEF NextCandidate
<1>4. CASE UNCHANGED request
  <2>1. UNCHANGED World
    BY <1>3, <1>4 DEF World, inputs
  <2>2. \/ Record("STORY") \/ Raise
        \/ /\ request[Key] # None /\ asset[Key] # None
           /\ cyc' = [cyc EXCEPT !.pc = "evaluate", !.recovered = TRUE]
        \/ request[Key] = None /\ Goto("asset") /\ \E o \in Offers[Current] :
                request' = [request EXCEPT ![Key] = o[1]]
    BY DEF NextCandidate
  <2>3. CASE Record("STORY")
    BY <1>1, <2>1, <2>3, Recording, WorldKept DEF Dispositions
  <2>4. CASE Raise
    BY <1>1, <2>1, <2>4, Ending, WorldKept DEF Raise
  <2>5. CASE /\ request[Key] # None /\ asset[Key] # None
             /\ cyc' = [cyc EXCEPT !.pc = "evaluate", !.recovered = TRUE]
    <3>1. /\ cyc' \in Cycle /\ cyc'.pc = "evaluate" /\ cyc'.n = cyc.n
          /\ cyc'.ranked = cyc.ranked /\ cyc'.tried = cyc.tried /\ cyc'.today = cyc.today
      BY <1>1, <2>5 DEF Cycle, CyclePcs
    <3>2. Current' = Current /\ Untried' = Untried /\ Key' = Key
      BY <3>1, SameCandidate
    <3>3. CycleFacts'
      BY <1>1, <1>3, <1>4, <2>5, <3>1, <3>2
         DEF CycleFacts, Walking, HasAsset, HasReceipt, HasCopy, HasDraft
    <3> QED BY <2>1, <3>1, <3>3, WorldKept
  <2>6. CASE request[Key] = None /\ Goto("asset") /\ \E o \in Offers[Current] :
                request' = [request EXCEPT ![Key] = o[1]]
    <3>1. PICK o \in Offers[Current] : request' = [request EXCEPT ![Key] = o[1]]
      BY <2>6
    <3>2. o[1] \in Request
      BY <1>2, DraftAssumption
    <3>3. request'[Key] = o[1] /\ o[1] # None
      BY <1>2, <3>1, <3>2, DraftAssumption DEF IInv, TypeOK
    <3> QED BY <1>4, <2>6, <3>3
  <2> QED BY <2>2, <2>3, <2>4, <2>5, <2>6
<1>5. CASE request[Key] = None /\ Goto("asset") /\ \E o \in Offers[Current] :
                request' = [request EXCEPT ![Key] = o[1]]
  <2>1. PICK o \in Offers[Current] : request' = [request EXCEPT ![Key] = o[1]]
    BY <1>5
  <2>2. o[1] \in Request /\ o[1] # None
    BY <1>2, DraftAssumption
  <2>3. request \in [Keys -> OrNone(Request)] /\ manifest[Key] = None /\ asset[Key] = None
    BY <1>2, <1>5 DEF IInv, TypeOK, Produced, Inputs
  <2>4. /\ request' \in [Keys -> OrNone(Request)] /\ request'[Key] # None
        /\ \A k \in Keys \ {Key} : request'[k] = request[k]
    BY <1>2, <2>1, <2>2, <2>3 DEF OrNone
  <2>5. /\ cyc' \in Cycle /\ cyc'.pc = "asset" /\ cyc'.n = cyc.n
        /\ Current' = Current /\ Untried' = Untried /\ Key' = Key
    BY <1>1, <1>5, Going DEF Goto, CyclePcs
  <2>6. TypeOK'
    BY <1>3, <2>4, <2>5 DEF IInv, TypeOK, products, zernio, notices, audit
  <2>7. CycleFacts'
    BY <1>1, <1>3, <2>3, <2>4, <2>5
       DEF CycleFacts, Walking, HasAsset, HasReceipt, HasCopy, HasDraft
  <2>8. FlagsAreTrue(entry)'
    BY <1>3, FlagsKept DEF IInv, zernio
  <2>9. PICK e \in Keys : e = Key
    BY <1>2
  <2>10. \A k \in Keys : Produced(k)' /\ (k # e => Inputs(k)')
    <3>1. \A k \in Keys \ {e} : request'[k] = request[k] /\ asset'[k] = asset[k]
      BY <1>3, <2>4, <2>9
    <3>2. UNCHANGED <<receipt, record, manifest>>
      BY <1>3 DEF products, zernio
    <3> QED BY <2>3, <2>9, <3>1, <3>2, InputsGrow
  <2>11. Inputs(e)'
    BY <1>3, <2>3, <2>4, <2>9 DEF Inputs
  <2>12. ASSUME NEW k \in Keys PROVE Spent(k)' /\ Delivered(k)'
    BY <1>3, SpentKept, DeliveredKept DEF IInv, zernio
  <2> QED BY <2>6, <2>7, <2>8, <2>10, <2>11, <2>12 DEF IInv
<1> QED BY <1>4, <1>5 DEF NextCandidate

LEMMA WriteAssetStep == ASSUME IInv, WriteAsset PROVE IInv'
<1>1. /\ cyc \in Cycle /\ cyc.n >= 1 /\ cyc.pc = "asset" /\ Untried # {}
      /\ Current \in Candidates /\ Key \in Keys /\ Key[2] = Current
  BY Accepted DEF WriteAsset, Walking, CyclePcs
<1>2. UNCHANGED <<day, entry, request, receipt, products, zernio, notices, audit>>
  BY DEF WriteAsset
<1>3. PICK o \in Offers[Current] : o[1] = request[Key] /\ asset' = [asset EXCEPT ![Key] = o[2]]
  BY DEF WriteAsset
<1>4. o \in Request \X AssetKinds /\ o[2] # None /\ o = <<o[1], o[2]>>
  BY <1>1, DraftAssumption
<1>5. request[Key] # None /\ asset[Key] = None /\ asset \in [Keys -> OrNone(AssetKinds)]
  BY <1>1 DEF IInv, CycleFacts, TypeOK
<1>6. /\ asset' \in [Keys -> OrNone(AssetKinds)] /\ asset'[Key] = o[2]
      /\ \A k \in Keys \ {Key} : asset'[k] = asset[k]
  BY <1>1, <1>3, <1>4, <1>5 DEF OrNone
<1>7. /\ cyc' \in Cycle /\ cyc'.pc = "evaluate" /\ cyc'.n = cyc.n
      /\ Current' = Current /\ Untried' = Untried /\ Key' = Key
  BY <1>1, Going DEF Goto, CyclePcs, WriteAsset
<1>8. TypeOK'
  BY <1>2, <1>6, <1>7 DEF IInv, TypeOK, products, zernio, notices, audit
<1>9. CycleFacts'
  BY <1>1, <1>2, <1>4, <1>5, <1>6, <1>7
     DEF CycleFacts, Walking, HasAsset, HasReceipt, HasCopy, HasDraft
<1>10. FlagsAreTrue(entry)'
  BY <1>2, FlagsKept DEF IInv, zernio
<1>11. PICK e \in Keys : e = Key
  BY <1>1
<1>12. manifest[e] = None
  BY <1>5, <1>11 DEF IInv, Produced
<1>13. \A k \in Keys : Produced(k)' /\ (k # e => Inputs(k)')
  <2>1. \A k \in Keys \ {e} : request'[k] = request[k] /\ asset'[k] = asset[k]
    BY <1>2, <1>6, <1>11
  <2>2. UNCHANGED <<receipt, record, manifest>>
    BY <1>2 DEF products, zernio
  <2> QED BY <1>12, <2>1, <2>2, InputsGrow
<1>14. Inputs(e)'
  BY <1>1, <1>2, <1>3, <1>4, <1>5, <1>6, <1>11 DEF Inputs
<1>15. ASSUME NEW k \in Keys PROVE Spent(k)' /\ Delivered(k)'
  BY <1>2, SpentKept, DeliveredKept DEF IInv, zernio
<1> QED BY <1>8, <1>9, <1>10, <1>13, <1>14, <1>15 DEF IInv

LEMMA EvaluateStep == ASSUME IInv, Evaluate PROVE IInv'
<1>1. /\ cyc \in Cycle /\ cyc.n >= 1 /\ cyc.pc = "evaluate" /\ Untried # {}
      /\ Current \in Candidates /\ Key \in Keys /\ Key[2] = Current
  BY Accepted DEF Evaluate, Walking, CyclePcs
<1>2. UNCHANGED <<day, entry, request, asset, products, zernio, notices, audit>>
  BY DEF Evaluate
<1>3. request[Key] # None /\ asset[Key] # None
  BY <1>1 DEF IInv, CycleFacts, Walking, HasAsset, CyclePcs
<1>4. \/ UNCHANGED receipt /\ \E d \in Dispositions : Record(d)
      \/ /\ receipt[Current] \in {None, request[Key]} /\ Goto("classify")
         /\ receipt' = [receipt EXCEPT ![Current] = request[Key]]
  BY DEF Evaluate, Dispositions
<1>5. CASE UNCHANGED receipt /\ \E d \in Dispositions : Record(d)
  <2>1. UNCHANGED World
    BY <1>2, <1>5 DEF World, inputs
  <2> QED BY <1>1, <1>5, <2>1, Recording, WorldKept
<1>6. CASE /\ receipt[Current] \in {None, request[Key]} /\ Goto("classify")
           /\ receipt' = [receipt EXCEPT ![Current] = request[Key]]
  <2>1. /\ receipt \in [Candidates -> OrNone(Request)]
        /\ request[Key] \in OrNone(Request)
    BY <1>1 DEF IInv, TypeOK
  <2>2. /\ receipt' \in [Candidates -> OrNone(Request)] /\ receipt'[Current] = request[Key]
        /\ \A c \in Candidates : receipt[c] # None => receipt'[c] = receipt[c]
    BY <1>1, <1>6, <2>1
  <2>3. /\ cyc' \in Cycle /\ cyc'.pc = "classify" /\ cyc'.n = cyc.n
        /\ Current' = Current /\ Untried' = Untried /\ Key' = Key
    BY <1>1, <1>6, Going DEF Goto, CyclePcs
  <2>4. TypeOK'
    BY <1>2, <2>2, <2>3 DEF IInv, TypeOK, products, zernio, notices, audit
  <2>5. CycleFacts'
    BY <1>1, <1>2, <1>3, <2>2, <2>3
       DEF CycleFacts, Walking, HasAsset, HasReceipt, HasCopy, HasDraft
  <2>6. ASSUME NEW k \in Keys PROVE Produced(k)'
    <3>1. Produced(k) /\ k[2] \in Candidates
      BY Keyed DEF IInv
    <3>2. CASE manifest[k] = None
      BY <1>2, <3>2 DEF Produced, zernio
    <3>3. CASE manifest[k] # None
      <4>1. receipt'[k[2]] = receipt[k[2]]
        BY <2>2, <3>1, <3>3 DEF Produced
      <4> QED BY <1>2, <3>1, <4>1 DEF Produced, zernio, products
    <3> QED BY <3>2, <3>3
  <2>7. ASSUME NEW k \in Keys PROVE Inputs(k)' /\ Spent(k)' /\ Delivered(k)'
    BY <1>2, InputsKept, SpentKept, DeliveredKept DEF IInv, zernio
  <2>8. FlagsAreTrue(entry)'
    BY <1>2, FlagsKept DEF IInv, zernio
  <2> QED BY <2>4, <2>5, <2>6, <2>7, <2>8 DEF IInv
<1> QED BY <1>4, <1>5, <1>6

LEMMA ProduceStep == ASSUME IInv, Produce PROVE IInv'
<1>1. /\ cyc \in Cycle /\ cyc.n >= 1 /\ cyc.pc = "produce" /\ Untried # {}
      /\ Current \in Candidates /\ Key \in Keys /\ Key[2] = Current
  BY Accepted DEF Produce, Walking, CyclePcs
<1>2. UNCHANGED <<day, entry, inputs, record, zernio, notices, audit>>
  BY DEF Produce
<1>3. CASE Raise /\ UNCHANGED caption
  BY <1>1, <1>2, <1>3, Ending, WorldKept DEF Raise, World, products
<1>4. CASE \E t \in Copies : /\ caption' = [caption EXCEPT ![Key] = t]
                             /\ cyc' = [cyc EXCEPT !.pc = "render", !.copy = t]
  <2>1. PICK t \in Copies : /\ caption' = [caption EXCEPT ![Key] = t]
                            /\ cyc' = [cyc EXCEPT !.pc = "render", !.copy = t]
    BY <1>4
  <2>2. caption' \in [Keys -> OrNone(Copies)]
    BY <1>1, <2>1 DEF IInv, TypeOK, OrNone
  <2>3. /\ cyc' \in Cycle /\ cyc'.pc = "render" /\ cyc'.n = cyc.n /\ cyc'.copy = t
        /\ cyc'.ranked = cyc.ranked /\ cyc'.tried = cyc.tried /\ cyc'.today = cyc.today
    BY <1>1, <2>1 DEF Cycle, CyclePcs, OrNone
  <2>4. Current' = Current /\ Untried' = Untried /\ Key' = Key
    BY <2>3, SameCandidate
  <2>5. UNCHANGED <<request, asset, receipt>>
    BY <1>2 DEF inputs
  <2>6. TypeOK'
    BY <1>2, <2>2, <2>3 DEF IInv, TypeOK, inputs, zernio, notices, audit
  <2>7. CycleFacts'
    BY <1>1, <2>1, <2>3, <2>4, <2>5
       DEF IInv, CycleFacts, CyclePcs, Walking, HasAsset, HasReceipt, HasCopy, HasDraft
  <2>8. ASSUME NEW k \in Keys PROVE Inputs(k)' /\ Produced(k)' /\ Spent(k)' /\ Delivered(k)'
    BY <1>2, InputsKept, ProducedKept, SpentKept, DeliveredKept DEF IInv, inputs, zernio
  <2>9. FlagsAreTrue(entry)'
    BY <1>2, FlagsKept DEF IInv, zernio
  <2> QED BY <2>6, <2>7, <2>8, <2>9 DEF IInv
<1> QED BY <1>3, <1>4 DEF Produce

LEMMA RenderStep == ASSUME IInv, Render PROVE IInv'
<1>1. /\ cyc \in Cycle /\ cyc.n >= 1 /\ cyc.pc = "render" /\ Untried # {}
      /\ Current \in Candidates /\ Key \in Keys /\ Key[2] = Current
  BY Accepted DEF Render, Walking, CyclePcs
<1>2. UNCHANGED <<day, entry, inputs, caption, zernio, notices, audit>>
  BY DEF Render
<1>3. CASE Raise /\ UNCHANGED record
  BY <1>1, <1>2, <1>3, Ending, WorldKept DEF Raise, World, products
<1> DEFINE mine == <<cyc.today, cyc.copy>>
<1>4. CASE /\ Renderable(receipt[Current], asset[Key]) /\ record[Current] \in {None, mine}
           /\ record' = [record EXCEPT ![Current] = mine] /\ Goto("manifest")
  <2>1. cyc.copy \in Copies /\ cyc.today \in Days
    BY <1>1 DEF IInv, CycleFacts, Cycle, CyclePcs, Walking, HasAsset, HasReceipt, HasCopy
  <2>2. mine \in RenderRecord
    BY <2>1 DEF RenderRecord
  <2>3. /\ record' \in [Candidates -> OrNone(RenderRecord)] /\ record'[Current] = mine
        /\ \A c \in Candidates : record[c] # None => record'[c] = record[c]
    <3> HIDE DEF mine
    <3> QED BY <1>1, <1>4, <2>2 DEF IInv, TypeOK, OrNone
  <2>4. /\ cyc' \in Cycle /\ cyc'.pc = "manifest" /\ cyc'.n = cyc.n /\ cyc'.copy = cyc.copy
        /\ cyc'.today = cyc.today
        /\ Current' = Current /\ Untried' = Untried /\ Key' = Key
    BY <1>1, <1>4, Going DEF Goto, CyclePcs
  <2>5. UNCHANGED <<request, asset, receipt>>
    BY <1>2 DEF inputs
  <2>6. TypeOK'
    BY <1>2, <2>3, <2>4 DEF IInv, TypeOK, inputs, zernio, notices, audit
  <2>7. CycleFacts'
    BY <1>1, <1>4, <2>1, <2>3, <2>4, <2>5
       DEF IInv, CycleFacts, CyclePcs, Walking, HasAsset, HasReceipt, HasCopy, HasDraft
  <2>8. ASSUME NEW k \in Keys PROVE Produced(k)'
    <3>1. Produced(k) /\ k[1] \in Days /\ k[2] \in Candidates
      BY Keyed DEF IInv
    <3>2. UNCHANGED manifest
      BY <1>2 DEF zernio
    <3>3. CASE manifest[k] = None
      BY <3>2, <3>3 DEF Produced
    <3>4. CASE manifest[k] # None
      <4>1. manifest[k].copy \in Copies
        BY <3>4 DEF IInv, TypeOK, OrNone, Manifest
      <4>2. record[k[2]] = <<k[1], manifest[k].copy>>
        BY <3>1, <3>4 DEF Produced
      <4>3. record[k[2]] # None
        BY <3>1, <4>1, <4>2, DraftAssumption DEF RenderRecord
      <4>4. record'[k[2]] = record[k[2]]
        BY <2>3, <3>1, <4>3
      <4> QED BY <2>5, <3>1, <3>2, <4>4 DEF Produced
    <3> QED BY <3>3, <3>4
  <2>9. ASSUME NEW k \in Keys PROVE Inputs(k)' /\ Spent(k)' /\ Delivered(k)'
    BY <1>2, InputsKept, SpentKept, DeliveredKept DEF IInv, inputs, zernio
  <2>10. FlagsAreTrue(entry)'
    BY <1>2, FlagsKept DEF IInv, zernio
  <2> QED BY <2>6, <2>7, <2>8, <2>9, <2>10 DEF IInv
<1> QED BY <1>3, <1>4 DEF Render

LEMMA BuildManifestStep == ASSUME IInv, BuildManifest PROVE IInv'
<1>1. /\ cyc \in Cycle /\ cyc.n \in 1..MaxCycles /\ cyc.n >= 1 /\ cyc.pc = "manifest"
      /\ Untried # {} /\ Current \in Candidates /\ Key \in Keys
      /\ Key[1] = cyc.today /\ Key[2] = Current
  BY Accepted DEF BuildManifest, Walking, CyclePcs
<1>2. UNCHANGED <<day, entry, inputs, products, drafts, notices, audit>>
  BY DEF BuildManifest
<1>3. CASE Raise /\ UNCHANGED manifest
  BY <1>1, <1>2, <1>3, Ending, WorldKept DEF Raise, World, zernio
<1> DEFINE m == [state |-> "NOT_CREATED", built |-> cyc.n, date |-> day, copy |-> cyc.copy]
<1>4. CASE manifest[Key] = None /\ manifest' = [manifest EXCEPT ![Key] = m] /\ Goto("ready")
  <2>1. /\ request[Key] # None /\ asset[Key] # None /\ receipt[Current] = request[Key]
        /\ cyc.copy \in Copies
        /\ Renderable(receipt[Current], asset[Key])
        /\ record[Current] = <<cyc.today, cyc.copy>>
    BY <1>1 DEF IInv, CycleFacts, CyclePcs, Walking, HasAsset, HasReceipt, HasCopy
  <2>2. m \in Manifest /\ m.state = "NOT_CREATED" /\ m.copy = cyc.copy
    BY <1>1, <2>1 DEF Manifest, ReviewStates, IInv, TypeOK
  <2>3. m # None
    BY <2>2, DraftAssumption
  <2>4. /\ manifest' \in [Keys -> OrNone(Manifest)] /\ manifest'[Key] = m
        /\ \A k \in Keys \ {Key} : manifest'[k] = manifest[k]
    <3> HIDE DEF m
    <3> QED BY <1>1, <1>4, <2>2 DEF IInv, TypeOK, OrNone
  <2> HIDE DEF m
  <2>5. /\ cyc' \in Cycle /\ cyc'.pc = "ready" /\ cyc'.n = cyc.n /\ cyc'.copy = cyc.copy
        /\ Current' = Current /\ Untried' = Untried /\ Key' = Key
    BY <1>1, <1>4, Going DEF Goto, CyclePcs
  <2>6. PICK e \in Keys : e = Key
    BY <1>1
  <2>7. drafts[e] = 0 /\ delivery[e] = None /\ cards[e] = 0 /\ report[e] = None
    <3>1. Spent(e) /\ Delivered(e) /\ drafts[e] \in Nat /\ cards[e] \in Nat
      BY DEF IInv, TypeOK
    <3> QED BY <1>4, <2>6, <3>1 DEF Spent, Delivered, Created
  <2>8. TypeOK'
    BY <1>2, <2>4, <2>5 DEF IInv, TypeOK, inputs, products, notices, audit
  <2>9. UNCHANGED <<request, asset, receipt, record, delivery, cards, ledger, report>>
    BY <1>2 DEF inputs, products, notices, audit
  <2>10. CycleFacts'
    BY <1>1, <2>1, <2>3, <2>4, <2>5, <2>6, <2>7, <2>9
       DEF CycleFacts, Walking, HasAsset, HasReceipt, HasCopy, HasDraft
  <2>11. FlagsAreTrue(entry)'
    BY <1>2, FlagsKept DEF IInv
  <2>12. ASSUME NEW k \in Keys, k # e
         PROVE  Inputs(k)' /\ Produced(k)' /\ Spent(k)' /\ Delivered(k)'
    <3>1. manifest'[k] = manifest[k] /\ drafts'[k] = drafts[k]
      BY <1>2, <2>4, <2>6, <2>12
    <3>2. Inputs(k) /\ Produced(k) /\ Spent(k) /\ Delivered(k)
      BY DEF IInv
    <3> QED BY <2>9, <3>1, <3>2 DEF Inputs, Produced, Spent, Delivered, Created, NotCreated
  <2>13. Inputs(e)' /\ Produced(e)' /\ Spent(e)' /\ Delivered(e)'
    <3>1. manifest'[e] = m /\ drafts'[e] = 0 /\ UNCHANGED <<delivery, cards, ledger, report>>
      BY <1>2, <2>4, <2>6, <2>7, <2>9
    <3>2. ~Created(e)' /\ NotCreated(e)'
      BY <2>2, <2>3, <3>1 DEF Created, NotCreated
    <3>3. Inputs(e)'
      BY <2>9, InputsKept DEF IInv
    <3>4. Produced(e)'
      BY <1>1, <2>1, <2>2, <2>6, <2>9, <3>1 DEF Produced
    <3>5. Spent(e)'
      BY <3>1, <3>2 DEF Spent
    <3>6. Delivered(e) /\ ~Created(e)
      BY <1>4, <2>6 DEF IInv, Created
    <3>7. Delivered(e)'
      BY <2>7, <3>1, <3>6 DEF Delivered
    <3> QED BY <3>3, <3>4, <3>5, <3>7
  <2> QED BY <2>8, <2>10, <2>11, <2>12, <2>13 DEF IInv
<1> QED BY <1>3, <1>4 DEF BuildManifest

-----------------------------------------------------------------------------
(* One run of the bridge, whoever starts it and however it ends.           *)

\* What a bridge leaves behind: drafts are only added, for a manifest's one attempt.
Bridged ==
    /\ manifest' \in [Keys -> OrNone(Manifest)] /\ drafts' \in [Keys -> Nat]
    /\ \A k \in Keys : Inputs(k)' /\ Produced(k)' /\ Spent(k)' /\ Delivered(k)'
    /\ FlagsAreTrue(entry)'
    /\ \A k \in Keys : (Created(k) => Created(k)') /\ (manifest[k] # None => manifest'[k] # None)

Elsewhere == UNCHANGED <<day, entry, inputs, products, notices, audit>>

LEMMA Attempting ==
  ASSUME IInv, Elsewhere, NEW k \in Keys, NEW made \in BOOLEAN,
         NEW state \in ReviewStates \ {"NOT_CREATED"}, state = "DRAFT_CREATED" => made,
         Attempt(k, state, made)
  PROVE  Bridged /\ (state = "DRAFT_CREATED" => Created(k)')
<1>1. /\ manifest[k] # None /\ manifest[k].state = "NOT_CREATED"
      /\ manifest' = [manifest EXCEPT ![k].state = state]
      /\ drafts' = [drafts EXCEPT ![k] = IF made THEN @ + 1 ELSE @]
  BY DEF Attempt, NotCreated
<1>2. /\ manifest \in [Keys -> OrNone(Manifest)] /\ drafts \in [Keys -> Nat]
      /\ manifest[k] \in Manifest
  BY <1>1 DEF IInv, TypeOK, OrNone
<1> DEFINE m == [manifest[k] EXCEPT !.state = state]
<1>3. m \in Manifest /\ m.state = state /\ m.copy = manifest[k].copy
  BY <1>2 DEF Manifest
<1>4. manifest' = [manifest EXCEPT ![k] = m]
  BY <1>1, <1>2
<1> HIDE DEF m
<1>5. /\ manifest' \in [Keys -> OrNone(Manifest)] /\ manifest'[k] = m
      /\ \A l \in Keys \ {k} : manifest'[l] = manifest[l]
  BY <1>2, <1>3, <1>4 DEF OrNone
<1>6. m # None
  BY <1>3, DraftAssumption
<1>7. drafts[k] = 0
  <2>1. Spent(k) /\ drafts[k] \in Nat
    BY <1>2 DEF IInv
  <2> QED BY <1>1, <2>1 DEF Spent, NotCreated
<1>8. /\ drafts' \in [Keys -> Nat] /\ drafts'[k] = IF made THEN 1 ELSE 0
      /\ \A l \in Keys \ {k} : drafts'[l] = drafts[l]
  BY <1>1, <1>2, <1>7
<1>9. UNCHANGED <<request, asset, receipt, record, delivery, cards, ledger, report>>
  BY DEF Elsewhere, inputs, products, notices, audit
<1>10. \A l \in Keys \ {k} : Inputs(l)' /\ Produced(l)' /\ Spent(l)' /\ Delivered(l)'
  <2>1. ASSUME NEW l \in Keys \ {k}
        PROVE  Inputs(l)' /\ Produced(l)' /\ Spent(l)' /\ Delivered(l)'
    <3>1. Inputs(l) /\ Produced(l) /\ Spent(l) /\ Delivered(l)
      BY DEF IInv
    <3>2. manifest'[l] = manifest[l] /\ drafts'[l] = drafts[l]
      BY <1>5, <1>8
    <3> QED BY <1>9, <3>1, <3>2 DEF Inputs, Produced, Spent, Delivered, Created, NotCreated
  <2> QED BY <2>1
<1>11. Created(k)' = (state = "DRAFT_CREATED") /\ ~NotCreated(k)' /\ ~Created(k)
  BY <1>1, <1>3, <1>5, <1>6 DEF Created, NotCreated
<1>12. Inputs(k)' /\ Produced(k)' /\ Spent(k)' /\ Delivered(k)'
  <2>1. Inputs(k) /\ Produced(k) /\ Spent(k) /\ Delivered(k)
    BY DEF IInv
  <2>2. Inputs(k)' /\ Produced(k)'
    BY <1>1, <1>3, <1>5, <1>9, <2>1 DEF Inputs, Produced
  <2>3. Spent(k)'
    BY <1>5, <1>6, <1>8, <1>11 DEF Spent
  <2>4. Delivered(k)'
    BY <1>9, <1>11, <2>1 DEF Delivered
  <2> QED BY <2>2, <2>3, <2>4
<1>13. FlagsAreTrue(entry)'
  <2>1. UNCHANGED entry /\ FlagsAreTrue(entry)
    BY DEF Elsewhere, IInv
  <2>2. ASSUME NEW c \in Candidates, entry'[c].status = "DRAFTED"
        PROVE  \E d \in Days : drafts'[<<d, c>>] = 1
    <3>1. PICK d \in Days : drafts[<<d, c>>] = 1
      BY <2>1, <2>2 DEF FlagsAreTrue
    <3>2. <<d, c>> \in Keys
      BY DEF Keys
    <3>3. <<d, c>> # k
      BY <1>7, <3>1
    <3> QED BY <1>8, <3>1, <3>2, <3>3
  <2> QED BY <2>2 DEF FlagsAreTrue
<1>14. ASSUME NEW l \in Keys
       PROVE  (Created(l) => Created(l)') /\ (manifest[l] # None => manifest'[l] # None)
  BY <1>5, <1>6, <1>11 DEF Created
<1> QED BY <1>5, <1>8, <1>10, <1>11, <1>12, <1>13, <1>14 DEF Bridged

LEMMA NoBridge == ASSUME IInv, Elsewhere, UNCHANGED zernio PROVE Bridged
<1>1. \A k \in Keys : Inputs(k)' /\ Produced(k)' /\ Spent(k)' /\ Delivered(k)'
  BY InputsKept, ProducedKept, SpentKept, DeliveredKept
     DEF Elsewhere, IInv, inputs, products, zernio
<1>2. FlagsAreTrue(entry)'
  BY FlagsKept DEF Elsewhere, IInv, zernio
<1>3. manifest' = manifest /\ drafts' = drafts
  BY DEF zernio
<1>4. \A k \in Keys : (Created(k) => Created(k)') /\ (manifest[k] # None => manifest'[k] # None)
  BY <1>3 DEF Created
<1>5. manifest' \in [Keys -> OrNone(Manifest)] /\ drafts' \in [Keys -> Nat]
  BY <1>3 DEF IInv, TypeOK
<1> QED BY <1>1, <1>2, <1>4, <1>5 DEF Bridged

LEMMA Running ==
  ASSUME IInv, Elsewhere, NEW k \in Keys, NEW ok \in BOOLEAN, RunBridge(k, ok)
  PROVE  Bridged /\ (ok => Created(k)')
<1>1. CASE ok /\ Attempt(k, "DRAFT_CREATED", TRUE)
  BY <1>1, Attempting DEF ReviewStates
<1>2. CASE ~ok /\ \E made \in BOOLEAN : Attempt(k, "REVIEW_UNKNOWN", made)
  <2>1. PICK made \in BOOLEAN : Attempt(k, "REVIEW_UNKNOWN", made)
    BY <1>2
  <2> QED BY <1>2, <2>1, Attempting DEF ReviewStates
<1>3. CASE ~ok /\ UNCHANGED zernio
  BY <1>3, NoBridge
<1> QED BY <1>1, <1>2, <1>3 DEF RunBridge

LEMMA Killing ==
  ASSUME IInv, Elsewhere, NEW k \in Keys, KilledBridge(k)
  PROVE  Bridged
<1>1. CASE \E made \in BOOLEAN : Attempt(k, "CREATE_IN_FLIGHT", made)
  <2>1. PICK made \in BOOLEAN : Attempt(k, "CREATE_IN_FLIGHT", made)
    BY <1>1
  <2> QED BY <2>1, Attempting DEF ReviewStates
<1>2. CASE UNCHANGED zernio
  BY <1>2, NoBridge
<1> QED BY <1>1, <1>2 DEF KilledBridge

\* With a bridge's effects the cycle's own facts complete the invariant.
LEMMA AfterBridge ==
  ASSUME IInv, Elsewhere, Bridged, cyc' \in Cycle, CycleFacts'
  PROVE  IInv'
<1>1. TypeOK'
  BY DEF IInv, TypeOK, Bridged, Elsewhere, inputs, products, notices, audit
<1> QED BY <1>1 DEF Bridged, IInv

LEMMA BridgeStep == ASSUME IInv, Bridge PROVE IInv'
<1>1. /\ cyc \in Cycle /\ cyc.n >= 1 /\ cyc.pc = "bridge" /\ Untried # {}
      /\ Current \in Candidates /\ Key \in Keys
  BY Accepted DEF Bridge, Walking, CyclePcs
<1>2. Elsewhere
  BY DEF Bridge, Elsewhere
<1>3. PICK ok \in BOOLEAN : RunBridge(Key, ok) /\ IF ok THEN Goto("flip") ELSE Raise
  BY DEF Bridge
<1>4. PICK e \in Keys : e = Key
  BY <1>1
<1>5. Bridged /\ (ok => Created(e)')
  BY <1>2, <1>3, <1>4, Running
<1>6. CASE ~ok
  BY <1>1, <1>2, <1>3, <1>5, <1>6, Ending, AfterBridge DEF Raise
<1>7. CASE ok
  <2>1. /\ cyc' \in Cycle /\ cyc'.pc = "flip" /\ cyc'.n = cyc.n /\ cyc'.copy = cyc.copy
        /\ Current' = Current /\ Untried' = Untried /\ Key' = Key
    BY <1>1, <1>3, <1>7, Going DEF Goto, CyclePcs
  <2>2. UNCHANGED <<request, asset, receipt, delivery>>
    BY <1>2 DEF Elsewhere, inputs, notices
  <2>3. Created(Key)'
    BY <1>4, <1>5, <1>7, <2>1 DEF Created
  <2>4. CycleFacts'
    BY <1>1, <2>1, <2>2, <2>3
       DEF IInv, CycleFacts, CyclePcs, Walking, HasAsset, HasReceipt, HasCopy, HasDraft
  <2> QED BY <1>2, <1>5, <2>1, <2>4, AfterBridge
<1> QED BY <1>6, <1>7

LEMMA BackstopStep == ASSUME IInv, Backstop PROVE IInv'
<1>1. cyc \in Cycle /\ cyc.n >= 1
  BY Numbered DEF Backstop
<1>2. Elsewhere /\ EndCycle
  BY DEF Backstop, Elsewhere
<1>3. Bridged
  <2>1. CASE \E k \in Pending : \E ok \in BOOLEAN : RunBridge(k, ok)
    <3>1. PICK k \in Pending, ok \in BOOLEAN : RunBridge(k, ok)
      BY <2>1
    <3>2. k \in Keys
      BY DEF Pending
    <3> QED BY <1>2, <3>1, <3>2, Running
  <2>2. CASE UNCHANGED zernio
    BY <1>2, <2>2, NoBridge
  <2> QED BY <2>1, <2>2 DEF Backstop
<1> QED BY <1>1, <1>2, <1>3, Ending, AfterBridge

LEMMA ClickStep == ASSUME IInv, NEW k \in Keys, Click(k) PROVE IInv'
<1>1. Elsewhere /\ cyc' = cyc /\ cyc.pc \in {"idle", "ready", "bridge", "backstop"}
  BY DEF Click, Elsewhere
<1>2. Bridged
  BY <1>1, Running, Killing DEF Click
<1>3. cyc' \in Cycle
  BY <1>1 DEF IInv, TypeOK
<1>4. Current' = Current /\ Untried' = Untried /\ Key' = Key
  BY <1>1, SameCandidate
<1>5. UNCHANGED <<request, asset, receipt, delivery>>
  BY <1>1 DEF Elsewhere, inputs, notices
<1>6. CASE cyc.pc \in {"idle", "backstop"}
  <2>1. CycleFacts'
    BY <1>1, <1>6 DEF IInv, CycleFacts, Walking, HasAsset, HasReceipt, HasCopy, HasDraft
  <2> QED BY <1>1, <1>2, <1>3, <2>1, AfterBridge
<1>7. CASE cyc.pc \in {"ready", "bridge"}
  <2>1. Key \in Keys /\ manifest[Key] # None
    BY <1>7, Accepted DEF IInv, CycleFacts, Walking, CyclePcs
  <2>2. manifest'[Key] # None
    BY <1>2, <2>1 DEF Bridged
  <2>3. CycleFacts'
    BY <1>1, <1>4, <1>5, <1>7, <2>2
       DEF IInv, CycleFacts, CyclePcs, Walking, HasAsset, HasReceipt, HasCopy, HasDraft
  <2> QED BY <1>1, <1>2, <1>3, <2>3, AfterBridge
<1> QED BY <1>1, <1>6, <1>7

LEMMA StageFailsStep == ASSUME IInv, StageFails PROVE IInv'
<1>1. cyc \in Cycle /\ cyc.n >= 1
  BY Numbered DEF StageFails
<1>2. Elsewhere /\ ToBackstop
  BY DEF StageFails, Elsewhere, Raise
<1>3. Bridged
  <2>1. CASE cyc.pc = "bridge"
    <3>1. Key \in Keys
      BY <2>1, Accepted DEF Walking, CyclePcs
    <3>2. KilledBridge(Key)
      BY <2>1 DEF StageFails
    <3>3. PICK e \in Keys : e = Key
      BY <3>1
    <3> QED BY <1>2, <3>2, <3>3, Killing
  <2>2. CASE cyc.pc # "bridge"
    BY <1>2, <2>2, NoBridge DEF StageFails
  <2> QED BY <2>1, <2>2
<1> QED BY <1>1, <1>2, <1>3, Ending, AfterBridge

LEMMA CycleCrashStep == ASSUME IInv, CycleCrash PROVE IInv'
<1>1. cyc \in Cycle /\ cyc.n >= 1
  BY Numbered DEF CycleCrash
<1>2. Elsewhere /\ EndCycle
  BY DEF CycleCrash, Elsewhere
<1>3. Bridged
  <2>1. CASE cyc.pc = "bridge" /\ (KilledBridge(Key) \/ \E ok \in BOOLEAN : RunBridge(Key, ok))
    <3>1. PICK e \in Keys : e = Key
      BY <2>1, Accepted DEF Walking, CyclePcs
    <3> QED BY <1>2, <2>1, <3>1, Killing, Running
  <2>2. CASE \E k \in Pending : KilledBridge(k)
    BY <1>2, <2>2, Killing DEF Pending
  <2>3. CASE UNCHANGED zernio
    BY <1>2, <2>3, NoBridge
  <2> QED BY <2>1, <2>2, <2>3 DEF CycleCrash
<1> QED BY <1>1, <1>2, <1>3, Ending, AfterBridge

-----------------------------------------------------------------------------
(* From the draft to the report.                                           *)

\* What the cycle knows once its draft is created.
LEMMA Drafted ==
  ASSUME IInv, cyc.pc \in HasDraft
  PROVE  /\ cyc \in Cycle /\ cyc.n >= 1 /\ Untried # {} /\ cyc.copy \in Copies
         /\ Current \in Candidates /\ Key \in Keys
         /\ Key[1] = cyc.today /\ Key[2] = Current
         /\ request[Key] # None /\ asset[Key] # None /\ receipt[Current] = request[Key]
         /\ Created(Key)
<1>1. cyc.pc \in Walking /\ cyc.pc \in HasAsset /\ cyc.pc \in HasReceipt /\ cyc.pc \in HasCopy
  BY DEF Walking, HasAsset, HasReceipt, HasCopy, HasDraft
<1>2. /\ cyc \in Cycle /\ cyc.n >= 1 /\ Untried # {}
      /\ Current \in Candidates /\ Key \in Keys
      /\ Key[1] = cyc.today /\ Key[2] = Current
  BY <1>1, Accepted
<1>3. /\ request[Key] # None /\ asset[Key] # None /\ receipt[Current] = request[Key]
      /\ cyc.copy \in Copies /\ Created(Key)
  BY <1>1 DEF IInv, CycleFacts
<1> QED BY <1>2, <1>3

\* A step that changes deliveries, cards, ledger and reports of one key only.
LEMMA Telling ==
  ASSUME IInv, UNCHANGED <<day, entry, inputs, products, zernio>>,
         NEW e \in Keys, Delivered(e)',
         \A k \in Keys \ {e} : /\ delivery'[k] = delivery[k] /\ cards'[k] = cards[k]
                               /\ ledger'[k] = ledger[k] /\ report'[k] = report[k],
         delivery' \in [Keys -> OrNone(DeliveryStates)], cards' \in [Keys -> Nat],
         ledger' \in [Keys -> SUBSET Rows],
         report' \in [Keys -> OrNone({"cycle"} \cup Claims)],
         cyc' \in Cycle, CycleFacts'
  PROVE  IInv'
<1>1. TypeOK'
  BY DEF IInv, TypeOK, inputs, products, zernio
<1>2. UNCHANGED manifest
  BY DEF zernio
<1>3. ASSUME NEW k \in Keys PROVE Inputs(k)' /\ Produced(k)' /\ Spent(k)'
  BY InputsKept, ProducedKept, SpentKept DEF IInv, inputs, products, zernio
<1>4. ASSUME NEW k \in Keys PROVE Delivered(k)'
  <2>1. CASE k = e
    BY <2>1
  <2>2. CASE k # e
    BY <1>2, <2>2 DEF IInv, Delivered, Created
  <2> QED BY <2>1, <2>2
<1>5. FlagsAreTrue(entry)'
  BY FlagsKept DEF IInv, zernio
<1> QED BY <1>1, <1>3, <1>4, <1>5 DEF IInv

\* The next step of a cycle whose draft is created.
LEMMA HasDraftFacts ==
  ASSUME UNCHANGED <<inputs, zernio>>, cyc'.n >= 1, cyc'.copy \in Copies,
         Current' = Current, Untried' = Untried, Key' = Key, Untried # {},
         request[Key] # None, asset[Key] # None, receipt[Current] = request[Key],
         Created(Key), cyc'.pc \in {"notify", "send", "proof", "complete", "report"},
         cyc'.pc = "notify" => delivery'[Key] = None,
         cyc'.pc \in {"send", "proof"} => delivery'[Key] = "SENDING",
         cyc'.pc = "send" => cards'[Key] = 0,
         cyc'.pc = "proof" /\ cyc'.proof => cards'[Key] = 1,
         cyc'.pc = "report" => ledger'[Key] # {}
  PROVE  CycleFacts'
<1>1. UNCHANGED <<request, asset, receipt, manifest>>
  BY DEF inputs, zernio
<1>2. Created(Key)'
  BY <1>1 DEF Created
<1>3. /\ cyc'.pc \in Walking => Untried' # {}
      /\ request'[Key'] # None /\ asset'[Key'] # None /\ receipt'[Current'] = request'[Key']
  BY <1>1
<1>4. cyc'.pc \notin {"idle", "asset", "manifest", "ready", "bridge", "flip", "replace"}
  OBVIOUS
<1> QED BY <1>2, <1>3, <1>4 DEF CycleFacts

LEMMA FlipReplaceStep == ASSUME IInv, FlipReplace PROVE IInv'
<1>1. cyc.pc = "replace"
  BY DEF FlipReplace
<1>2. /\ cyc \in Cycle /\ cyc.n >= 1 /\ Untried # {} /\ cyc.copy \in Copies
      /\ Current \in Candidates /\ Key \in Keys
      /\ Key[1] = cyc.today /\ Key[2] = Current
      /\ request[Key] # None /\ asset[Key] # None /\ receipt[Current] = request[Key]
      /\ Created(Key)
  BY <1>1, Drafted DEF Walking, HasAsset, HasReceipt, HasCopy, HasDraft, CyclePcs
<1>3. /\ cyc.snap \in [Candidates -> Entry] /\ FlagsAreTrue(cyc.snap)
      /\ delivery[Key] = None
  BY <1>1 DEF IInv, CycleFacts
<1>4. UNCHANGED <<day, inputs, products, zernio, notices, audit>>
  BY DEF FlipReplace
<1>5. PICK s \in [Candidates -> Entry] : s = cyc.snap
  BY <1>3
<1>6. entry' = [s EXCEPT ![Current] = [s[Current] EXCEPT !.status = "DRAFTED"]]
  BY <1>5 DEF FlipReplace
<1>7. [s[Current] EXCEPT !.status = "DRAFTED"] \in Entry
  BY <1>2 DEF Entry
<1>8. /\ entry' \in [Candidates -> Entry]
      /\ \A c \in Candidates \ {Current} : entry'[c] = s[c]
  BY <1>2, <1>6, <1>7
<1>9. FlagsAreTrue(entry)'
  <2>1. UNCHANGED drafts
    BY <1>4 DEF zernio
  <2>2. drafts[Key] = 1 /\ Key = <<cyc.today, Current>> /\ cyc.today \in Days
    BY <1>2 DEF IInv, Spent, Key, Cycle
  <2>3. ASSUME NEW c \in Candidates, entry'[c].status = "DRAFTED"
        PROVE  \E d \in Days : drafts'[<<d, c>>] = 1
    <3>1. CASE c = Current
      BY <2>1, <2>2, <3>1
    <3>2. CASE c # Current
      BY <1>3, <1>5, <1>8, <2>1, <2>3, <3>2 DEF FlagsAreTrue
    <3> QED BY <3>1, <3>2
  <2> QED BY <2>3 DEF FlagsAreTrue
<1>10. /\ cyc' \in Cycle /\ cyc'.pc = "notify" /\ cyc'.n = cyc.n /\ cyc'.copy = cyc.copy
       /\ Current' = Current /\ Untried' = Untried /\ Key' = Key
  BY <1>2, Going DEF FlipReplace, Goto, CyclePcs
<1>11. CycleFacts'
  BY <1>2, <1>3, <1>4, <1>10, HasDraftFacts DEF notices
<1>12. TypeOK'
  BY <1>4, <1>8, <1>10 DEF IInv, TypeOK, inputs, products, zernio, notices, audit
<1>13. ASSUME NEW k \in Keys PROVE Inputs(k)' /\ Produced(k)' /\ Spent(k)' /\ Delivered(k)'
  BY <1>4, InputsKept, ProducedKept, SpentKept, DeliveredKept
     DEF IInv, inputs, products, zernio
<1> QED BY <1>9, <1>11, <1>12, <1>13 DEF IInv

LEMMA NotifyStep == ASSUME IInv, Notify PROVE IInv'
<1>1. cyc.pc = "notify"
  BY DEF Notify
<1>2. /\ cyc \in Cycle /\ cyc.n >= 1 /\ Untried # {} /\ cyc.copy \in Copies
      /\ Current \in Candidates /\ Key \in Keys
      /\ request[Key] # None /\ asset[Key] # None /\ receipt[Current] = request[Key]
      /\ Created(Key)
  BY <1>1, Drafted DEF Walking, HasAsset, HasReceipt, HasCopy, HasDraft, CyclePcs
<1>3. /\ UNCHANGED <<day, entry, inputs, products, zernio, cards, audit>>
      /\ delivery' = [delivery EXCEPT ![Key] = "SENDING"]
  BY DEF Notify
<1>4. PICK e \in Keys : e = Key
  BY <1>2
<1>5. /\ delivery \in [Keys -> OrNone(DeliveryStates)] /\ cards \in [Keys -> Nat]
      /\ ledger \in [Keys -> SUBSET Rows]
      /\ report \in [Keys -> OrNone({"cycle"} \cup Claims)]
  BY DEF IInv, TypeOK
<1>6. /\ delivery' \in [Keys -> OrNone(DeliveryStates)] /\ delivery'[e] = "SENDING"
      /\ \A k \in Keys \ {e} : delivery'[k] = delivery[k]
  BY <1>3, <1>4, <1>5 DEF OrNone, DeliveryStates
<1>7. "SENDING" # None
  BY DraftAssumption DEF DeliveryStates
<1>8. Delivered(e) /\ delivery[e] = None /\ cards[e] = 0
  BY <1>1, <1>4, <1>5 DEF IInv, CycleFacts, Delivered
<1>9. Delivered(e)'
  <2>1. UNCHANGED <<cards, ledger, report, manifest>>
    BY <1>3 DEF audit, zernio
  <2>2. Created(e)'
    BY <1>2, <1>4, <2>1 DEF Created
  <2> QED BY <1>6, <1>7, <1>8, <2>1, <2>2 DEF Delivered
<1>10. /\ cyc' \in Cycle /\ cyc'.pc = "send" /\ cyc'.n = cyc.n /\ cyc'.copy = cyc.copy
       /\ Current' = Current /\ Untried' = Untried /\ Key' = Key
  BY <1>2, Going DEF Notify, Goto, CyclePcs
<1>11. CycleFacts'
  BY <1>2, <1>3, <1>4, <1>6, <1>8, <1>10, HasDraftFacts
<1> QED BY <1>3, <1>5, <1>6, <1>9, <1>10, <1>11, Telling DEF audit

LEMMA SendStep == ASSUME IInv, Send PROVE IInv'
<1>1. cyc.pc = "send"
  BY DEF Send
<1>2. /\ cyc \in Cycle /\ cyc.n >= 1 /\ Untried # {} /\ cyc.copy \in Copies
      /\ Current \in Candidates /\ Key \in Keys
      /\ request[Key] # None /\ asset[Key] # None /\ receipt[Current] = request[Key]
      /\ Created(Key)
  BY <1>1, Drafted DEF Walking, HasAsset, HasReceipt, HasCopy, HasDraft, CyclePcs
<1>3. PICK shown \in BOOLEAN, proof \in BOOLEAN :
         /\ proof => shown
         /\ cards' = [cards EXCEPT ![Key] = IF shown THEN @ + 1 ELSE @]
         /\ cyc' = [cyc EXCEPT !.pc = "proof", !.proof = proof]
  BY DEF Send
<1>4. UNCHANGED <<day, entry, inputs, products, zernio, delivery, audit>>
  BY DEF Send
<1>5. PICK e \in Keys : e = Key
  BY <1>2
<1>6. /\ delivery \in [Keys -> OrNone(DeliveryStates)] /\ cards \in [Keys -> Nat]
      /\ ledger \in [Keys -> SUBSET Rows]
      /\ report \in [Keys -> OrNone({"cycle"} \cup Claims)]
  BY DEF IInv, TypeOK
<1>7. Delivered(e) /\ delivery[e] = "SENDING" /\ cards[e] = 0
  BY <1>1, <1>5 DEF IInv, CycleFacts
<1>8. /\ cards' \in [Keys -> Nat] /\ cards'[e] = IF shown THEN 1 ELSE 0
      /\ \A k \in Keys \ {e} : cards'[k] = cards[k]
  BY <1>3, <1>5, <1>6, <1>7
<1>9. "SENDING" # None
  BY DraftAssumption DEF DeliveryStates
<1>10. Delivered(e)'
  <2>1. UNCHANGED <<delivery, ledger, report, manifest>>
    BY <1>4 DEF audit, zernio
  <2>2. Created(e)'
    BY <1>2, <1>5, <2>1 DEF Created
  <2> QED BY <1>7, <1>8, <1>9, <2>1, <2>2 DEF Delivered
<1>11. /\ cyc' \in Cycle /\ cyc'.pc = "proof" /\ cyc'.n = cyc.n /\ cyc'.copy = cyc.copy
       /\ cyc'.proof = proof
       /\ cyc'.ranked = cyc.ranked /\ cyc'.tried = cyc.tried /\ cyc'.today = cyc.today
  BY <1>2, <1>3 DEF Cycle, CyclePcs
<1>12. Current' = Current /\ Untried' = Untried /\ Key' = Key
  BY <1>11, SameCandidate
<1>13. CycleFacts'
  BY <1>2, <1>3, <1>4, <1>5, <1>7, <1>8, <1>11, <1>12, HasDraftFacts
<1> QED BY <1>4, <1>6, <1>8, <1>10, <1>11, <1>13, Telling DEF audit

LEMMA WriteProofStep == ASSUME IInv, WriteProof PROVE IInv'
<1>1. cyc.pc = "proof"
  BY DEF WriteProof
<1>2. /\ cyc \in Cycle /\ cyc.n >= 1 /\ Untried # {} /\ cyc.copy \in Copies
      /\ Current \in Candidates /\ Key \in Keys
      /\ request[Key] # None /\ asset[Key] # None /\ receipt[Current] = request[Key]
      /\ Created(Key)
  BY <1>1, Drafted DEF Walking, HasAsset, HasReceipt, HasCopy, HasDraft, CyclePcs
<1>3. UNCHANGED <<day, entry, inputs, products, zernio, cards, audit>>
  BY DEF WriteProof
<1>4. PICK e \in Keys : e = Key
  BY <1>2
<1>5. /\ delivery \in [Keys -> OrNone(DeliveryStates)] /\ cards \in [Keys -> Nat]
      /\ ledger \in [Keys -> SUBSET Rows]
      /\ report \in [Keys -> OrNone({"cycle"} \cup Claims)]
  BY DEF IInv, TypeOK
<1>6. Delivered(e) /\ delivery[e] = "SENDING" /\ (cyc.proof => cards[e] = 1)
  BY <1>1, <1>4 DEF IInv, CycleFacts
<1>7. /\ delivery' \in [Keys -> OrNone(DeliveryStates)]
      /\ delivery'[e] \in DeliveryStates /\ (delivery'[e] = "SENT" => cards[e] = 1)
      /\ \A k \in Keys \ {e} : delivery'[k] = delivery[k]
  BY <1>4, <1>5, <1>6 DEF WriteProof, OrNone, DeliveryStates
<1>8. None \notin DeliveryStates
  BY DraftAssumption
<1>9. Delivered(e)'
  <2>1. UNCHANGED <<cards, ledger, report, manifest>>
    BY <1>3 DEF audit, zernio
  <2>2. Created(e)'
    BY <1>2, <1>4, <2>1 DEF Created
  <2> QED BY <1>6, <1>7, <1>8, <2>1, <2>2 DEF Delivered
<1>10. /\ cyc' \in Cycle /\ cyc'.pc = "complete" /\ cyc'.n = cyc.n /\ cyc'.copy = cyc.copy
       /\ Current' = Current /\ Untried' = Untried /\ Key' = Key
  BY <1>2, Going DEF WriteProof, Goto, CyclePcs
<1>11. CycleFacts'
  BY <1>2, <1>3, <1>10, HasDraftFacts
<1> QED BY <1>3, <1>5, <1>7, <1>9, <1>10, <1>11, Telling DEF audit

LEMMA CompleteStep == ASSUME IInv, Complete PROVE IInv'
<1>1. cyc.pc = "complete"
  BY DEF Complete
<1>2. /\ cyc \in Cycle /\ cyc.n >= 1 /\ Untried # {} /\ cyc.copy \in Copies
      /\ Current \in Candidates /\ Key \in Keys
      /\ request[Key] # None /\ asset[Key] # None /\ receipt[Current] = request[Key]
      /\ Created(Key)
  BY <1>1, Drafted DEF Walking, HasAsset, HasReceipt, HasCopy, HasDraft, CyclePcs
<1>3. UNCHANGED <<day, entry, inputs, products, zernio, notices, report>>
  BY DEF Complete
<1>4. PICK e \in Keys : e = Key
  BY <1>2
<1>5. /\ delivery \in [Keys -> OrNone(DeliveryStates)] /\ cards \in [Keys -> Nat]
      /\ ledger \in [Keys -> SUBSET Rows]
      /\ report \in [Keys -> OrNone({"cycle"} \cup Claims)]
  BY DEF IInv, TypeOK
<1>6. PICK row \in {"marked", "opaque"} : ledger' = [ledger EXCEPT ![Key] = @ \cup {row}]
  BY DEF Complete
<1>7. row \in Rows /\ row # "SENT"
  BY <1>6 DEF Rows
<1>8. /\ ledger' \in [Keys -> SUBSET Rows] /\ ledger'[e] = ledger[e] \cup {row}
      /\ \A k \in Keys \ {e} : ledger'[k] = ledger[k]
  BY <1>4, <1>5, <1>6, <1>7
<1>9. Delivered(e)'
  <2>1. UNCHANGED <<delivery, cards, report, manifest>>
    BY <1>3 DEF notices, zernio
  <2>2. Created(e)'
    BY <1>2, <1>4, <2>1 DEF Created
  <2> QED BY <1>7, <1>8, <2>1, <2>2 DEF IInv, Delivered
<1>10. /\ cyc' \in Cycle /\ cyc'.pc = "report" /\ cyc'.n = cyc.n /\ cyc'.copy = cyc.copy
       /\ Current' = Current /\ Untried' = Untried /\ Key' = Key
  BY <1>2, Going DEF Complete, Goto, CyclePcs
<1>11. CycleFacts'
  BY <1>2, <1>3, <1>4, <1>8, <1>10, HasDraftFacts
<1> QED BY <1>3, <1>5, <1>8, <1>9, <1>10, <1>11, Telling DEF notices

LEMMA WriteReportStep == ASSUME IInv, WriteReport PROVE IInv'
<1>1. cyc.pc = "report"
  BY DEF WriteReport
<1>2. cyc \in Cycle /\ cyc.n >= 1 /\ Key \in Keys /\ Created(Key)
  BY <1>1, Drafted DEF Walking, HasAsset, HasReceipt, HasCopy, HasDraft, CyclePcs
<1>3. UNCHANGED <<day, entry, inputs, products, zernio, notices, ledger>>
  BY DEF WriteReport
<1>4. CASE Raise /\ UNCHANGED report
  BY <1>2, <1>3, <1>4, Ending, WorldKept DEF Raise, World, audit
<1>5. CASE report[Key] = None /\ report' = [report EXCEPT ![Key] = "cycle"] /\ ToBackstop
  <2>1. PICK e \in Keys : e = Key
    BY <1>2
  <2>2. /\ delivery \in [Keys -> OrNone(DeliveryStates)] /\ cards \in [Keys -> Nat]
        /\ ledger \in [Keys -> SUBSET Rows]
        /\ report \in [Keys -> OrNone({"cycle"} \cup Claims)]
    BY DEF IInv, TypeOK
  <2>3. /\ report' \in [Keys -> OrNone({"cycle"} \cup Claims)] /\ report'[e] = "cycle"
        /\ \A k \in Keys \ {e} : report'[k] = report[k]
    BY <1>5, <2>1, <2>2 DEF OrNone
  <2>4. Delivered(e) /\ ledger[e] # {}
    BY <1>1, <2>1 DEF IInv, CycleFacts
  <2>5. Delivered(e)'
    <3>1. UNCHANGED <<delivery, cards, ledger, manifest>>
      BY <1>3 DEF notices, zernio
    <3>2. Created(e)'
      BY <1>2, <2>1, <3>1 DEF Created
    <3> QED BY <2>3, <2>4, <3>1, <3>2 DEF Delivered
  <2>6. cyc' \in Cycle /\ CycleFacts'
    BY <1>2, <1>5, Ending
  <2> QED BY <1>3, <2>2, <2>3, <2>5, <2>6, Telling DEF notices
<1> QED BY <1>4, <1>5 DEF WriteReport

-----------------------------------------------------------------------------
(* The recovery command and the world outside.                             *)

LEMMA RecoverStep == ASSUME IInv, NEW e \in Keys, Recover(e) PROVE IInv'
<1>1. UNCHANGED <<day, entry, inputs, products, zernio, notices>> /\ cyc' = cyc
  BY DEF Recover
<1>2. /\ delivery \in [Keys -> OrNone(DeliveryStates)] /\ cards \in [Keys -> Nat]
      /\ ledger \in [Keys -> SUBSET Rows]
      /\ report \in [Keys -> OrNone({"cycle"} \cup Claims)]
  BY DEF IInv, TypeOK
<1>3. Created(e) /\ Delivered(e)
  BY DEF Recover, Recoverable, IInv
<1>4. PICK claim \in Claims : claim = DeliveryClaim(e)
  BY DEF DeliveryClaim, Claims
<1>5. claim = "SENT" => cards[e] = 1
  BY <1>3, <1>4 DEF DeliveryClaim, Delivered
<1>6. /\ ledger' = [ledger EXCEPT ![e] = IF MarkedRows(e) = {} THEN ledger[e] \cup {claim}
                                          ELSE ledger[e]]
      /\ report' \in {report, [report EXCEPT ![e] = claim]}
  BY <1>4 DEF Recover
<1>7. /\ ledger' \in [Keys -> SUBSET Rows] /\ ledger'[e] # {}
      /\ ledger'[e] \in {ledger[e], ledger[e] \cup {claim}}
      /\ \A k \in Keys \ {e} : ledger'[k] = ledger[k]
  BY <1>2, <1>4, <1>6 DEF MarkedRows, Rows
<1>8. /\ report' \in [Keys -> OrNone({"cycle"} \cup Claims)]
      /\ report'[e] \in {report[e], claim}
      /\ \A k \in Keys \ {e} : report'[k] = report[k]
  BY <1>2, <1>4, <1>6 DEF OrNone
<1>9. Delivered(e)'
  <2>1. UNCHANGED <<delivery, cards, manifest>>
    BY <1>1 DEF notices, zernio
  <2>2. Created(e)'
    BY <1>3, <2>1 DEF Created
  <2>3. "SENT" \in ledger'[e] \/ report'[e] = "SENT" => cards[e] = 1
    BY <1>3, <1>5, <1>7, <1>8 DEF Delivered
  <2>4. delivery[e] # None => Created(e)
    BY <1>3
  <2> QED BY <1>3, <1>7, <2>1, <2>2, <2>3 DEF Delivered
<1>10. Current' = Current /\ Untried' = Untried /\ Key' = Key /\ cyc' \in Cycle
  BY <1>1, SameCandidate DEF IInv, TypeOK
<1>11. CycleFacts'
  <2>1. UNCHANGED <<request, asset, receipt, record, manifest, drafts, delivery, cards>>
    BY <1>1 DEF inputs, products, zernio, notices
  <2>2. cyc.pc = "report" => ledger'[Key] # {}
    <3>1. ASSUME cyc.pc = "report" PROVE ledger'[Key] # {}
      <4>1. Key \in Keys /\ ledger[Key] # {}
        BY <3>1, Accepted DEF IInv, CycleFacts, Walking, CyclePcs
      <4> QED BY <1>7, <4>1
    <3> QED BY <3>1
  <2>3. Created(Key)' = Created(Key) /\ FlagsAreTrue(cyc.snap)' = FlagsAreTrue(cyc.snap)
    BY <1>1, <1>10, <2>1 DEF Created, FlagsAreTrue
  <2> QED BY <1>1, <1>10, <2>1, <2>2, <2>3 DEF IInv, CycleFacts
<1> QED BY <1>1, <1>2, <1>7, <1>8, <1>9, <1>10, <1>11, Telling DEF notices

LEMMA MorningEditsStep == ASSUME IInv, NEW c \in Candidates, MorningEdits(c) PROVE IInv'
<1>1. /\ UNCHANGED <<day, inputs, products, zernio, notices, audit>> /\ cyc' = cyc
      /\ entry' = [entry EXCEPT ![c] = [entry[c] EXCEPT !.version = entry[c].version + 1]]
  BY DEF MorningEdits, IInv, TypeOK
<1>2. entry \in [Candidates -> Entry]
  BY DEF IInv, TypeOK
<1>3. [entry[c] EXCEPT !.version = entry[c].version + 1] \in Entry
  BY <1>2 DEF Entry
<1>4. [entry[c] EXCEPT !.version = entry[c].version + 1].status = entry[c].status
  BY <1>2 DEF Entry
<1>5. entry' \in [Candidates -> Entry] /\ \A b \in Candidates : entry'[b].status = entry[b].status
  BY <1>1, <1>2, <1>3, <1>4
<1>6. TypeOK'
  BY <1>1, <1>5 DEF IInv, TypeOK, inputs, products, zernio, notices, audit
<1>7. FlagsAreTrue(entry)'
  BY <1>1, <1>5 DEF IInv, FlagsAreTrue, zernio
<1>8. Current' = Current /\ Untried' = Untried /\ Key' = Key
  BY <1>1, SameCandidate
<1>9. CycleFacts'
  <2>1. UNCHANGED <<request, asset, receipt, record, manifest, drafts, delivery, cards, ledger>>
    BY <1>1 DEF inputs, products, zernio, notices, audit
  <2>2. Created(Key)' = Created(Key) /\ FlagsAreTrue(cyc.snap)' = FlagsAreTrue(cyc.snap)
    BY <1>1, <1>8, <2>1 DEF Created, FlagsAreTrue
  <2> QED BY <1>1, <1>8, <2>1, <2>2 DEF IInv, CycleFacts
<1>10. ASSUME NEW k \in Keys PROVE Inputs(k)' /\ Produced(k)' /\ Spent(k)' /\ Delivered(k)'
  BY <1>1, InputsKept, ProducedKept, SpentKept, DeliveredKept
     DEF IInv, inputs, products, zernio
<1> QED BY <1>6, <1>7, <1>9, <1>10 DEF IInv

LEMMA NextDayStep == ASSUME IInv, NextDay PROVE IInv'
<1>1. /\ UNCHANGED <<entry, inputs, products, zernio, notices, audit>> /\ cyc' = cyc
      /\ day < MaxDay /\ day' = day + 1
  BY DEF NextDay
<1>2. day' \in Days
  BY <1>1, DraftAssumption DEF IInv, TypeOK, Days
<1>3. TypeOK'
  BY <1>1, <1>2 DEF IInv, TypeOK, inputs, products, zernio, notices, audit
<1>4. FlagsAreTrue(entry)'
  BY <1>1, FlagsKept DEF IInv, zernio
<1>5. Current' = Current /\ Untried' = Untried /\ Key' = Key
  BY <1>1, SameCandidate
<1>6. CycleFacts'
  <2>1. UNCHANGED <<request, asset, receipt, record, manifest, drafts, delivery, cards, ledger>>
    BY <1>1 DEF inputs, products, zernio, notices, audit
  <2>2. Created(Key)' = Created(Key) /\ FlagsAreTrue(cyc.snap)' = FlagsAreTrue(cyc.snap)
    BY <1>1, <1>5, <2>1 DEF Created, FlagsAreTrue
  <2> QED BY <1>1, <1>5, <2>1, <2>2 DEF IInv, CycleFacts
<1>7. ASSUME NEW k \in Keys PROVE Inputs(k)' /\ Produced(k)' /\ Spent(k)' /\ Delivered(k)'
  BY <1>1, InputsKept, ProducedKept, SpentKept, DeliveredKept
     DEF IInv, inputs, products, zernio
<1> QED BY <1>3, <1>4, <1>6, <1>7 DEF IInv

-----------------------------------------------------------------------------
(* The theorems.                                                           *)

LEMMA CycleSteps == ASSUME IInv, CycleStep PROVE IInv'
BY SelectStep, ExhaustedStep, NextCandidateStep, WriteAssetStep, EvaluateStep, ClassifyStep,
   ProduceStep, RenderStep, BuildManifestStep, ReadyStep, BridgeStep, FlipCheckStep,
   FlipReplaceStep, NotifyStep, SendStep, WriteProofStep, CompleteStep, WriteReportStep,
   BackstopStep
   DEF CycleStep

LEMMA IInvStep == ASSUME IInv, [Next]_vars PROVE IInv'
<1>1. CASE StartCycle
  BY <1>1, StartCycleStep
<1>2. CASE CycleStep
  BY <1>2, CycleSteps
<1>3. CASE StageFails
  BY <1>3, StageFailsStep
<1>4. CASE CycleCrash
  BY <1>4, CycleCrashStep
<1>5. CASE \E k \in Keys : Click(k) \/ Recover(k)
  BY <1>5, ClickStep, RecoverStep
<1>6. CASE \E c \in Candidates : MorningEdits(c)
  BY <1>6, MorningEditsStep
<1>7. CASE NextDay
  BY <1>7, NextDayStep
<1>8. CASE UNCHANGED vars
  <2>1. UNCHANGED World /\ cyc' = cyc
    BY <1>8 DEF vars, World
  <2>2. Current' = Current /\ Untried' = Untried /\ Key' = Key /\ cyc' \in Cycle
    BY <2>1, SameCandidate DEF IInv, TypeOK
  <2>3. UNCHANGED <<request, asset, receipt, record, manifest, drafts, delivery, cards, ledger>>
    BY <2>1 DEF World, inputs, products, zernio, notices, audit
  <2>4. Created(Key)' = Created(Key) /\ FlagsAreTrue(cyc.snap)' = FlagsAreTrue(cyc.snap)
    BY <2>1, <2>2, <2>3 DEF Created, FlagsAreTrue
  <2>5. CycleFacts'
    BY <2>1, <2>2, <2>3, <2>4 DEF IInv, CycleFacts
  <2> QED BY <2>1, <2>2, <2>5, WorldKept
<1> QED BY <1>1, <1>2, <1>3, <1>4, <1>5, <1>6, <1>7, <1>8 DEF Next

\* For any candidates, offers and copies, however many days, cycles, presses of
\* the button, edits, deaths and recoveries: what the files, the provider and the
\* cycle's memory say of a draft stays true together.
THEOREM Invariance == Spec => []IInv
<1> QED BY InitStep, IInvStep, PTL DEF Spec

\* A candidate gets one review draft in its life: two days of one candidate
\* cannot both have a manifest, and a manifest's attempt is spent once.
THEOREM OneDraft == Spec => []OneDraftPerCandidate
<1>1. IInv => OneDraftPerCandidate
  <2> SUFFICES ASSUME IInv, NEW c \in Candidates,
                      NEW k \in Keys, k[2] = c, drafts[k] > 0,
                      NEW l \in Keys, l[2] = c, drafts[l] > 0
               PROVE  k = l /\ drafts[k] = 1
    BY DEF OneDraftPerCandidate
  <2>1. ASSUME NEW i \in Keys, i[2] = c, drafts[i] > 0
        PROVE  drafts[i] = 1 /\ record[c] = <<i[1], manifest[i].copy>>
    <3>1. drafts[i] \in Nat /\ Spent(i) /\ Produced(i)
      BY DEF IInv, TypeOK
    <3>2. drafts[i] = 1
      BY <2>1, <3>1 DEF Spent
    <3> QED BY <2>1, <3>1, <3>2 DEF Spent, Produced
  <2>2. drafts[k] = 1 /\ k[1] = l[1]
    BY <2>1
  <2> QED BY <2>2, Keyed
<1> QED BY <1>1, Invariance, PTL

-----------------------------------------------------------------------------
(* The promise of a single review draft.  A candidate has a manifest of one *)
(* day at most, so its attempt and its drafts are that manifest's.          *)

\* What the promise sees of a candidate is what its only manifest says.
Viewed ==
    \A c \in Candidates :
        /\ \A d \in Days : manifest[<<d, c>>] # None =>
              ReviewOf(c) = manifest[<<d, c>>].state /\ DraftsOf(c) = drafts[<<d, c>>]
        /\ (\A d \in Days : manifest[<<d, c>>] = None) =>
              ReviewOf(c) = "NOT_CREATED" /\ DraftsOf(c) = 0

LEMMA Views == IInv => Viewed
<1> SUFFICES ASSUME IInv, NEW c \in Candidates
             PROVE  /\ \A d \in Days : manifest[<<d, c>>] # None =>
                          /\ ReviewOf(c) = manifest[<<d, c>>].state
                          /\ DraftsOf(c) = drafts[<<d, c>>]
                    /\ (\A d \in Days : manifest[<<d, c>>] = None) =>
                          ReviewOf(c) = "NOT_CREATED" /\ DraftsOf(c) = 0
  BY DEF Viewed
<1> DEFINE D(d) == {d} \X (1..drafts[<<d, c>>])
<1>0. DraftsOf(c) = Cardinality(UNION {D(d) : d \in Days})
  BY DEF DraftsOf
<1>1. ASSUME NEW d \in Days
      PROVE  /\ drafts[<<d, c>>] \in {0, 1}
             /\ drafts[<<d, c>>] = 1 => manifest[<<d, c>>] # None
             /\ manifest[<<d, c>>] # None => record[c] = <<d, manifest[<<d, c>>].copy>>
  <2>1. PICK k \in Keys : k = <<d, c>>
    BY DEF Keys
  <2>2. drafts[k] \in Nat /\ Spent(k) /\ Produced(k)
    BY DEF IInv, TypeOK
  <2>3. drafts[k] \in {0, 1} /\ (drafts[k] = 1 => manifest[k] # None)
    BY <2>2 DEF Spent
  <2>4. manifest[k] # None => record[c] = <<d, manifest[k].copy>>
    BY <2>1, <2>2 DEF Produced
  <2> QED BY <2>1, <2>3, <2>4
<1>2. ASSUME NEW d \in Days, manifest[<<d, c>>] # None
      PROVE  ReviewOf(c) = manifest[<<d, c>>].state /\ DraftsOf(c) = drafts[<<d, c>>]
  <2>1. \A e \in Days : manifest[<<e, c>>] # None => e = d
    BY <1>1, <1>2
  <2>2. ManifestsOf(c) = {d}
    BY <1>2, <2>1 DEF ManifestsOf
  <2>3. ReviewOf(c) = manifest[<<d, c>>].state
    BY <2>2 DEF ReviewOf
  <2>4. \A e \in Days : e # d => drafts[<<e, c>>] = 0
    BY <1>1, <2>1
  <2>5. \A e \in Days : e # d => D(e) = {}
    BY <2>4
  <2>6. CASE drafts[<<d, c>>] = 0
    <3>1. \A e \in Days : D(e) = {}
      BY <2>5, <2>6
    <3> HIDE DEF D
    <3>2. UNION {D(e) : e \in Days} = {}
      BY <3>1
    <3> QED BY <1>0, <2>3, <2>6, <3>2, FS_EmptySet
  <2>7. CASE drafts[<<d, c>>] = 1
    <3>1. D(d) = {<<d, 1>>}
      BY <2>7
    <3> HIDE DEF D
    <3>2. UNION {D(e) : e \in Days} = {<<d, 1>>}
      BY <2>5, <3>1
    <3> QED BY <1>0, <2>3, <2>7, <3>2, FS_Singleton
  <2> QED BY <1>1, <2>6, <2>7
<1>3. ASSUME \A d \in Days : manifest[<<d, c>>] = None
      PROVE  ReviewOf(c) = "NOT_CREATED" /\ DraftsOf(c) = 0
  <2>1. ManifestsOf(c) = {}
    BY <1>3 DEF ManifestsOf
  <2>2. \A d \in Days : drafts[<<d, c>>] = 0
    BY <1>1, <1>3
  <2>3. \A e \in Days : D(e) = {}
    BY <2>2
  <2>4. UNION {D(e) : e \in Days} = {}
    <3> HIDE DEF D
    <3> QED BY <2>3
  <2>5. DraftsOf(c) = 0
    <3> HIDE DEF D
    <3> QED BY <1>0, <2>4, FS_EmptySet
  <2> QED BY <2>1, <2>5 DEF ReviewOf
<1> QED BY <1>2, <1>3

LEMMA ViewsNext == IInv' => Viewed'
BY Views, PTL

\* How a step touches manifests and drafts: one manifest at most, which appears
\* or whose attempt is spent.
Others(k) == \A l \in Keys \ {k} : manifest'[l] = manifest[l] /\ drafts'[l] = drafts[l]
Builds(k) ==
    /\ Others(k) /\ manifest[k] = None /\ manifest'[k] # None
    /\ manifest'[k].state = "NOT_CREATED" /\ drafts'[k] = drafts[k]
Tries(k) ==
    /\ Others(k) /\ manifest[k] # None /\ manifest[k].state = "NOT_CREATED"
    /\ manifest'[k] # None
    /\ manifest'[k].state \in {"CREATE_IN_FLIGHT", "REVIEW_UNKNOWN", "DRAFT_CREATED"}
    /\ drafts[k] = 0 /\ drafts'[k] \in {0, 1}
    /\ manifest'[k].state = "DRAFT_CREATED" => drafts'[k] = 1

LEMMA AttemptTries ==
  ASSUME IInv, NEW k \in Keys, NEW made \in BOOLEAN,
         NEW state \in ReviewStates \ {"NOT_CREATED"}, state = "DRAFT_CREATED" => made,
         Attempt(k, state, made)
  PROVE  Tries(k)
<1>1. /\ manifest[k] # None /\ manifest[k].state = "NOT_CREATED"
      /\ manifest' = [manifest EXCEPT ![k].state = state]
      /\ drafts' = [drafts EXCEPT ![k] = IF made THEN @ + 1 ELSE @]
  BY DEF Attempt, NotCreated
<1>2. /\ manifest \in [Keys -> OrNone(Manifest)] /\ drafts \in [Keys -> Nat]
      /\ manifest[k] \in Manifest
  BY <1>1 DEF IInv, TypeOK, OrNone
<1> DEFINE m == [manifest[k] EXCEPT !.state = state]
<1>3. m \in Manifest /\ m.state = state
  BY <1>2 DEF Manifest
<1>4. manifest' = [manifest EXCEPT ![k] = m]
  BY <1>1, <1>2
<1> HIDE DEF m
<1>5. manifest'[k] = m /\ \A l \in Keys \ {k} : manifest'[l] = manifest[l]
  BY <1>2, <1>4
<1>6. m # None
  BY <1>3, DraftAssumption
<1>7. drafts[k] = 0
  <2>1. Spent(k) /\ drafts[k] \in Nat
    BY <1>2 DEF IInv
  <2> QED BY <1>1, <2>1 DEF Spent, NotCreated
<1>8. drafts'[k] = (IF made THEN 1 ELSE 0) /\ \A l \in Keys \ {k} : drafts'[l] = drafts[l]
  BY <1>1, <1>2, <1>7
<1> QED BY <1>1, <1>3, <1>5, <1>6, <1>7, <1>8 DEF Tries, Others, ReviewStates

LEMMA RunTries ==
  ASSUME IInv, NEW k \in Keys, KilledBridge(k) \/ \E ok \in BOOLEAN : RunBridge(k, ok)
  PROVE  Tries(k) \/ UNCHANGED zernio
<1>1. ASSUME NEW made \in BOOLEAN, Attempt(k, "REVIEW_UNKNOWN", made) PROVE Tries(k)
  BY <1>1, AttemptTries DEF ReviewStates
<1>2. ASSUME NEW made \in BOOLEAN, Attempt(k, "CREATE_IN_FLIGHT", made) PROVE Tries(k)
  BY <1>2, AttemptTries DEF ReviewStates
<1>3. ASSUME Attempt(k, "DRAFT_CREATED", TRUE) PROVE Tries(k)
  BY <1>3, AttemptTries DEF ReviewStates
<1> QED BY <1>1, <1>2, <1>3 DEF RunBridge, KilledBridge

LEMMA BuildBuilds == ASSUME IInv, BuildManifest PROVE Builds(Key) \/ UNCHANGED zernio
<1>1. cyc.n \in 1..MaxCycles /\ Key \in Keys /\ cyc.copy \in Copies
  <2>1. cyc.pc = "manifest"
    BY DEF BuildManifest
  <2>2. cyc.n \in 1..MaxCycles /\ Key \in Keys
    BY <2>1, Accepted DEF Walking, CyclePcs
  <2>3. cyc.copy \in Copies
    BY <2>1 DEF IInv, CycleFacts, HasCopy, HasReceipt, HasAsset, Walking, CyclePcs
  <2> QED BY <2>2, <2>3
<1> DEFINE m == [state |-> "NOT_CREATED", built |-> cyc.n, date |-> day, copy |-> cyc.copy]
<1>2. CASE manifest[Key] = None /\ manifest' = [manifest EXCEPT ![Key] = m]
  <2>1. PICK e \in Keys : e = Key
    BY <1>1
  <2>2. m \in Manifest /\ m.state = "NOT_CREATED"
    BY <1>1 DEF Manifest, ReviewStates, IInv, TypeOK
  <2>3. m # None
    BY <2>2, DraftAssumption
  <2> HIDE DEF m
  <2>4. manifest'[e] = m /\ \A l \in Keys \ {e} : manifest'[l] = manifest[l]
    BY <1>2, <2>1 DEF IInv, TypeOK
  <2>5. UNCHANGED drafts
    BY DEF BuildManifest
  <2>6. Builds(e)
    BY <1>2, <2>1, <2>2, <2>3, <2>4, <2>5 DEF Builds, Others
  <2> QED BY <2>1, <2>6
<1> QED BY <1>2 DEF BuildManifest, zernio

LEMMA ThreeKinds ==
  ASSUME IInv, [Next]_vars
  PROVE  UNCHANGED zernio \/ \E k \in Keys : Builds(k) \/ Tries(k)
<1>1. CASE BuildManifest
  <2>1. cyc.pc = "manifest"
    BY <1>1 DEF BuildManifest
  <2>2. Key \in Keys
    BY <2>1, Accepted DEF Walking, CyclePcs
  <2> QED BY <1>1, <2>2, BuildBuilds
<1>2. ASSUME cyc.pc = "bridge", NEW P, P <=> KilledBridge(Key) \/ \E ok \in BOOLEAN : RunBridge(Key, ok), P
      PROVE  UNCHANGED zernio \/ \E k \in Keys : Builds(k) \/ Tries(k)
  <2>1. Key \in Keys
    BY <1>2, Accepted DEF Walking, CyclePcs
  <2>2. PICK e \in Keys : e = Key
    BY <2>1
  <2>3. KilledBridge(e) \/ \E ok \in BOOLEAN : RunBridge(e, ok)
    BY <1>2, <2>2
  <2> QED BY <2>3, RunTries
<1>3. CASE Bridge
  BY <1>2, <1>3 DEF Bridge
<1>4. CASE StageFails
  BY <1>2, <1>4 DEF StageFails
<1>5. ASSUME NEW k \in Keys, KilledBridge(k) \/ \E ok \in BOOLEAN : RunBridge(k, ok)
      PROVE  UNCHANGED zernio \/ \E l \in Keys : Builds(l) \/ Tries(l)
  BY <1>5, RunTries
<1>6. CASE Backstop
  BY <1>5, <1>6 DEF Backstop, Pending
<1>7. CASE CycleCrash
  BY <1>2, <1>5, <1>7 DEF CycleCrash, Pending
<1>8. CASE \E k \in Keys : Click(k)
  BY <1>5, <1>8 DEF Click
<1>9. CASE \/ StartCycle \/ Select \/ Exhausted \/ NextCandidate \/ WriteAsset \/ Evaluate
           \/ Classify \/ Produce \/ Render \/ Ready \/ FlipCheck \/ FlipReplace \/ Notify
           \/ Send \/ WriteProof \/ Complete \/ WriteReport
           \/ (\E k \in Keys : Recover(k)) \/ (\E c \in Candidates : MorningEdits(c))
           \/ NextDay \/ UNCHANGED vars
  BY <1>9 DEF StartCycle, Select, Exhausted, NextCandidate, WriteAsset, Evaluate, Classify,
     Produce, Render, Ready, FlipCheck, FlipReplace, Notify, Send, WriteProof, Complete,
     WriteReport, Recover, MorningEdits, NextDay, vars
<1> QED BY <1>1, <1>3, <1>4, <1>6, <1>7, <1>8, <1>9 DEF Next, CycleStep

\* The views of a candidate before and after a step that spends its attempt.
LEMMA BridgeIsPromised ==
  ASSUME NEW c \in Candidates,
         ReviewOf(c) = "NOT_CREATED",
         ReviewOf(c)' \in {"CREATE_IN_FLIGHT", "REVIEW_UNKNOWN", "DRAFT_CREATED"},
         DraftsOf(c) = 0, DraftsOf(c)' \in {0, 1},
         ReviewOf(c)' = "DRAFT_CREATED" => DraftsOf(c)' = 1,
         \A b \in Candidates \ {c} : /\ ReviewOf(b)' = ReviewOf(b)
                                     /\ DraftsOf(b)' = DraftsOf(b)
  PROVE  Promise!Next
<1> DEFINE r == [b \in Candidates |-> ReviewOf(b)]
           n == [b \in Candidates |-> DraftsOf(b)]
<1>1. r[c] = ReviewOf(c) /\ r'[c] = ReviewOf(c)' /\ n[c] = DraftsOf(c) /\ n'[c] = DraftsOf(c)'
  OBVIOUS
<1>2. r' = [r EXCEPT ![c] = r'[c]]
  OBVIOUS
<1>3. n' = [n EXCEPT ![c] = n'[c]]
  OBVIOUS
<1>4. n'[c] \in n[c]..1
  BY <1>1
<1>5. /\ r[c] \in {"NOT_CREATED", "CREATE_IN_FLIGHT"}
      /\ r'[c] \in {"CREATE_IN_FLIGHT", "REVIEW_UNKNOWN", "DRAFT_CREATED"}
      /\ r'[c] = "DRAFT_CREATED" => n'[c] = 1
  BY <1>1
<1>6. Promise!Bridge(c)
  BY <1>2, <1>3, <1>4, <1>5, Zenon DEF Promise!Bridge
<1> QED BY <1>6 DEF Promise!Next

LEMMA SameViews ==
  ASSUME \A c \in Candidates : /\ ReviewOf(c)' = ReviewOf(c)
                               /\ DraftsOf(c)' = DraftsOf(c)
  PROVE  UNCHANGED Promise!vars
BY DEF Promise!vars

\* A candidate none of whose manifests moves is seen as before.
LEMMA ViewKept ==
  ASSUME Viewed, Viewed', NEW c \in Candidates,
         \A d \in Days : /\ manifest'[<<d, c>>] = manifest[<<d, c>>]
                         /\ drafts'[<<d, c>>] = drafts[<<d, c>>]
  PROVE  ReviewOf(c)' = ReviewOf(c) /\ DraftsOf(c)' = DraftsOf(c)
<1>1. CASE \E d \in Days : manifest[<<d, c>>] # None
  BY <1>1 DEF Viewed
<1>2. CASE \A d \in Days : manifest[<<d, c>>] = None
  BY <1>2 DEF Viewed
<1> QED BY <1>1, <1>2

LEMMA PromiseStep ==
  ASSUME IInv, [Next]_vars
  PROVE  [Promise!Next]_(Promise!vars)
<1>1. Viewed /\ Viewed' /\ IInv'
  BY Views, IInvStep, ViewsNext
<1>2. CASE UNCHANGED zernio
  <2>1. ASSUME NEW c \in Candidates
        PROVE  /\ ReviewOf(c)' = ReviewOf(c)
               /\ DraftsOf(c)' = DraftsOf(c)
    BY <1>1, <1>2, ViewKept DEF zernio
  <2> QED BY <2>1, SameViews
<1>3. ASSUME NEW k \in Keys, Others(k)
      PROVE  \A b \in Candidates \ {k[2]} :
                /\ ReviewOf(b)' = ReviewOf(b)
                /\ DraftsOf(b)' = DraftsOf(b)
  <2>1. ASSUME NEW b \in Candidates \ {k[2]}, NEW d \in Days
        PROVE  manifest'[<<d, b>>] = manifest[<<d, b>>] /\ drafts'[<<d, b>>] = drafts[<<d, b>>]
    <3>1. <<d, b>> \in Keys \ {k}
      BY DEF Keys
    <3> QED BY <1>3, <3>1 DEF Others
  <2> QED BY <1>1, <2>1, ViewKept
<1>4. ASSUME NEW k \in Keys, Builds(k)
      PROVE  UNCHANGED Promise!vars
  <2>1. k[1] \in Days /\ k[2] \in Candidates /\ k = <<k[1], k[2]>> /\ Others(k)
    BY <1>4, Keyed DEF Builds
  <2>2. ReviewOf(k[2])' = "NOT_CREATED" /\ DraftsOf(k[2])' = drafts'[k]
    BY <1>1, <1>4, <2>1 DEF Builds, Viewed
  <2>3. \A d \in Days : manifest[<<d, k[2]>>] = None
    <3>1. ASSUME NEW d \in Days, d # k[1], manifest[<<d, k[2]>>] # None PROVE FALSE
      <4>1. PICK l \in Keys : l = <<d, k[2]>>
        BY <2>1 DEF Keys
      <4>2. manifest'[l] # None /\ manifest'[k] # None
        BY <1>4, <2>1, <3>1, <4>1 DEF Others, Builds
      <4>3. Produced(l)' /\ Produced(k)'
        BY <1>1 DEF IInv
      <4>4. record'[k[2]] = <<d, manifest'[l].copy>> /\ record'[k[2]] = <<k[1], manifest'[k].copy>>
        BY <4>1, <4>2, <4>3 DEF Produced
      <4> QED BY <3>1, <4>4
    <3> QED BY <1>4, <2>1, <3>1 DEF Builds
  <2>4. ReviewOf(k[2]) = "NOT_CREATED" /\ DraftsOf(k[2]) = 0
    BY <1>1, <2>1, <2>3 DEF Viewed
  <2>5. drafts'[k] = 0
    <3>1. drafts[k] \in Nat /\ Spent(k)
      BY DEF IInv, TypeOK
    <3> QED BY <1>4, <3>1 DEF Spent, Builds
  <2>6. \A b \in Candidates : /\ ReviewOf(b)' = ReviewOf(b)
                              /\ DraftsOf(b)' = DraftsOf(b)
    BY <1>3, <2>1, <2>2, <2>4, <2>5
  <2> QED BY <2>6, SameViews
<1>5. ASSUME NEW k \in Keys, Tries(k)
      PROVE  Promise!Next
  <2>1. k[1] \in Days /\ k[2] \in Candidates /\ k = <<k[1], k[2]>> /\ Others(k)
    BY <1>5, Keyed DEF Tries
  <2>2. ReviewOf(k[2]) = "NOT_CREATED" /\ DraftsOf(k[2]) = 0
    BY <1>1, <1>5, <2>1 DEF Tries, Viewed
  <2>3. ReviewOf(k[2])' = manifest'[k].state /\ DraftsOf(k[2])' = drafts'[k]
    BY <1>1, <1>5, <2>1 DEF Tries, Viewed
  <2>4. /\ manifest'[k].state \in {"CREATE_IN_FLIGHT", "REVIEW_UNKNOWN", "DRAFT_CREATED"}
        /\ drafts'[k] \in {0, 1} /\ (manifest'[k].state = "DRAFT_CREATED" => drafts'[k] = 1)
    BY <1>5 DEF Tries
  <2>5. \A b \in Candidates \ {k[2]} :
                /\ ReviewOf(b)' = ReviewOf(b)
                /\ DraftsOf(b)' = DraftsOf(b)
    BY <1>3, <2>1
  <2>6. /\ ReviewOf(k[2])' \in {"CREATE_IN_FLIGHT", "REVIEW_UNKNOWN", "DRAFT_CREATED"}
        /\ DraftsOf(k[2])' \in {0, 1}
        /\ ReviewOf(k[2])' = "DRAFT_CREATED" => DraftsOf(k[2])' = 1
    BY <2>3, <2>4
  <2> QED BY <2>1, <2>2, <2>5, <2>6, BridgeIsPromised
<1> QED BY <1>2, <1>4, <1>5, ThreeKinds

\* The Draft Factory keeps the promise of a single review draft for every
\* candidate, step by step: whatever day it is selected again, whoever runs the
\* bridge and wherever a cycle, a bridge or the completion pass dies.
THEOREM KeepsThePromise == Spec => ImplementsPromise
<1>1. Init => Promise!Init
  <2> SUFFICES ASSUME Init PROVE Promise!Init
    OBVIOUS
  <2>1. Viewed
    BY InitStep, Views
  <2>2. \A c \in Candidates, d \in Days : manifest[<<d, c>>] = None
    BY DEF Init, Keys
  <2>3. \A c \in Candidates : ReviewOf(c) = "NOT_CREATED" /\ DraftsOf(c) = 0
    BY <2>1, <2>2 DEF Viewed
  <2> QED BY <2>3 DEF Promise!Init
<1>2. IInv /\ [Next]_vars => [Promise!Next]_(Promise!vars)
  BY PromiseStep
<1> QED BY <1>1, <1>2, Invariance, PTL DEF Spec, ImplementsPromise, Promise!Spec

\* At most one card for a manifest, only of a recorded draft; SENT only of a card
\* that was shown; DRAFTED in the queue only of a candidate that has its draft.
THEOREM CardsAreTrue == Spec => []CardIsTrue
<1>1. IInv => CardIsTrue
  <2> SUFFICES ASSUME IInv PROVE CardIsTrue
    OBVIOUS
  <2>1. ASSUME NEW k \in Keys
        PROVE  /\ cards[k] <= 1
               /\ cards[k] = 1 => Created(k) /\ drafts[k] = 1 /\ delivery[k] # None
               /\ delivery[k] = "SENT" => cards[k] = 1
    BY DEF IInv, Delivered, Spent
  <2>2. ASSUME NEW c \in Candidates, entry[c].status = "DRAFTED"
        PROVE  \E d \in Days : drafts[<<d, c>>] = 1
    BY <2>2 DEF IInv, FlagsAreTrue
  <2> QED BY <2>1, <2>2 DEF CardIsTrue
<1> QED BY <1>1, Invariance, PTL

\* The recovery command invents no delivery, and no report stands without a row.
THEOREM RecoveryInventsNothing == Spec => []RecoveryIsTruthful
<1>1. IInv => RecoveryIsTruthful
  BY DEF IInv, Delivered, RecoveryIsTruthful
<1> QED BY <1>1, Invariance, PTL

\* No later cycle, day or text moves a manifest's receipt, asset or render record
\* from under it.
THEOREM ManifestsStandOnReceipts == Spec => []ProducedUnderReceipt
<1>1. IInv => ProducedUnderReceipt
  BY DEF IInv, Produced, ProducedUnderReceipt
<1> QED BY <1>1, Invariance, PTL

\* The style of a request that must show evidence and has some.
LEMMA EvidenceHasItsStyle ==
  ASSUME NEW q \in Request, VisualEvidenceRequired(q),
         RealPhotoAvailable(q) \/ FallbackVisualStyle(q) # "NONE"
  PROVE  LET missing == VisualEvidenceRequired(q) /\ ~RealPhotoAvailable(q)
         IN  (IF missing THEN FallbackVisualStyle(q) ELSE ResolveVisualStyle(q))
                \in {"REAL_PHOTO", "SOURCE_SCREENSHOT", "DATA_VISUALIZATION"}
<1>1. CASE RealPhotoAvailable(q)
  <2>1. AssetStrength(q) = "STRONG_OFFICIAL"
    BY <1>1 DEF AssetStrength, RealPhotoAvailable, Request
  <2>2. ResolveVisualStyle(q) = "REAL_PHOTO"
    BY <2>1 DEF ResolveVisualStyle
  <2> QED BY <1>1, <2>2
<1>2. CASE ~RealPhotoAvailable(q)
  BY <1>2 DEF FallbackVisualStyle
<1> QED BY <1>1, <1>2

\* The packaging policy is total, and its decisions keep its own rules: a carousel
\* has three facts at least, no breaking news and from five to eight slides, other
\* formats none; and what has to show evidence gets a style that shows some,
\* through every fallback, or is skipped.
THEOREM PackagingIsSound ==
  \A q \in Request :
    LET d == EvaluatePackaging(q)
    IN  /\ d.format \in FORMATS /\ d.style \in VISUAL_STYLES
        /\ d.format = "CAROUSEL" => /\ q.beats >= MIN_CAROUSEL_BEATS /\ ~q.breaking
                                    /\ d.slides \in 5..CAROUSEL_SLIDE_TARGET_CAP
        /\ d.format # "CAROUSEL" => d.slides = 0
        /\ d.format # "SKIP" /\ VisualEvidenceRequired(q) =>
              d.style \in {"REAL_PHOTO", "SOURCE_SCREENSHOT", "DATA_VISUALIZATION"}
<1> TAKE q \in Request
<1> DEFINE missing == VisualEvidenceRequired(q) /\ ~RealPhotoAvailable(q)
           style == IF missing THEN FallbackVisualStyle(q) ELSE ResolveVisualStyle(q)
           format == DecideFormat(q)
           slides == IF format = "CAROUSEL" THEN SlideCountRecommendation(q.beats) ELSE 0
<1>1. format \in FORMATS \ {"SKIP"}
  BY DEF DecideFormat, FORMATS, Request, CONTENT_SHAPES
<1>2. style \in VISUAL_STYLES
  BY DEF FallbackVisualStyle, ResolveVisualStyle, VISUAL_STYLES
<1>3. format = "CAROUSEL" => q.beats >= MIN_CAROUSEL_BEATS /\ ~q.breaking
  BY DEF DecideFormat, CarouselAllowed, Request, CONTENT_SHAPES
<1>4. format = "CAROUSEL" => slides \in 5..CAROUSEL_SLIDE_TARGET_CAP
  <2>1. q.beats \in Nat
    BY DEF Request
  <2>2. ASSUME q.beats >= MIN_CAROUSEL_BEATS
        PROVE  SlideCountRecommendation(q.beats) \in 5..CAROUSEL_SLIDE_TARGET_CAP
    BY <2>1, <2>2 DEF SlideCountRecommendation, MIN_CAROUSEL_BEATS, CAROUSEL_SLIDE_FLOOR,
       CAROUSEL_SLIDE_TARGET_CAP, CAROUSEL_BEAT_TRIM_THRESHOLD, CAROUSEL_SLIDE_OVERHEAD
  <2> QED BY <1>3, <2>2
<1>5. \/ EvaluatePackaging(q) = Skip("NONE")
      \/ EvaluatePackaging(q) = Skip("GENERATED_ILLUSTRATION_FORBIDDEN")
      \/ /\ EvaluatePackaging(q) = [format |-> format, style |-> style, slides |-> slides]
         /\ ~(missing /\ FallbackVisualStyle(q) = "NONE")
  BY DEF EvaluatePackaging
<1>6. VisualEvidenceRequired(q) /\ ~(missing /\ FallbackVisualStyle(q) = "NONE") =>
        style \in {"REAL_PHOTO", "SOURCE_SCREENSHOT", "DATA_VISUALIZATION"}
  BY EvidenceHasItsStyle
<1>7. format # "CAROUSEL" => slides = 0
  OBVIOUS
<1> HIDE DEF style, format, slides
<1>8. CASE EvaluatePackaging(q) \in {Skip("NONE"), Skip("GENERATED_ILLUSTRATION_FORBIDDEN")}
  <2>1. PICK s \in {"NONE", "GENERATED_ILLUSTRATION_FORBIDDEN"} : EvaluatePackaging(q) = Skip(s)
    BY <1>8
  <2> QED BY <2>1 DEF Skip, FORMATS, VISUAL_STYLES
<1>9. CASE /\ EvaluatePackaging(q) = [format |-> format, style |-> style, slides |-> slides]
           /\ ~(missing /\ FallbackVisualStyle(q) = "NONE")
  BY <1>1, <1>2, <1>3, <1>4, <1>6, <1>7, <1>9
<1> QED BY <1>5, <1>8, <1>9

\* What a renderable decision says of its evidence.
LEMMA RenderableIsSupported ==
  ASSUME NEW q \in Request, NEW kind, Renderable(q, kind)
  PROVE  /\ q.verified /\ ~q.weak /\ (q.low => q.shape = "BREAKING_DEVELOPING")
         /\ q.grounded \/ RealPhotoRequired(q) => kind # "NONE"
<1>1. EvaluatePackaging(q).format \in {"SINGLE_POST", "CAROUSEL"}
  BY DEF Renderable
<1>2. ~(~q.verified \/ q.weak \/ (q.low /\ q.shape # "BREAKING_DEVELOPING"))
  BY <1>1 DEF EvaluatePackaging, Skip
<1>3. q.grounded \/ RealPhotoRequired(q) => kind # "NONE"
  BY DEF Renderable, ValidAsset
<1> QED BY <1>2, <1>3

\* Whatever SELECT offered and PRODUCE wrote, the packaging policy is enforced on
\* the draft itself: a post is verified, not weakly grounded, of an audience or
\* breaking, and has its picture where its layout or its subject promises one.
THEOREM DraftsAreSupported ==
  Spec => [](\A k \in Keys : drafts[k] > 0 =>
               LET q == receipt[k[2]]
               IN  /\ q.verified /\ ~q.weak /\ (q.low => q.shape = "BREAKING_DEVELOPING")
                   /\ q.grounded \/ RealPhotoRequired(q) => asset[k] # "NONE")
<1> DEFINE P == \A k \in Keys : drafts[k] > 0 =>
               LET q == receipt[k[2]]
               IN  /\ q.verified /\ ~q.weak /\ (q.low => q.shape = "BREAKING_DEVELOPING")
                   /\ q.grounded \/ RealPhotoRequired(q) => asset[k] # "NONE"
<1>1. IInv => P
  <2> SUFFICES ASSUME IInv, NEW k \in Keys, drafts[k] > 0
               PROVE  LET q == receipt[k[2]]
                      IN  /\ q.verified /\ ~q.weak
                          /\ (q.low => q.shape = "BREAKING_DEVELOPING")
                          /\ q.grounded \/ RealPhotoRequired(q) => asset[k] # "NONE"
    OBVIOUS
  <2>1. drafts[k] \in Nat /\ Spent(k) /\ Produced(k) /\ request[k] \in OrNone(Request)
    BY DEF IInv, TypeOK
  <2>2. manifest[k] # None
    BY <2>1 DEF Spent
  <2>3. receipt[k[2]] \in Request /\ Renderable(receipt[k[2]], asset[k])
    BY <2>1, <2>2 DEF Produced, OrNone
  <2> QED BY <2>3, RenderableIsSupported
<1> QED BY <1>1, Invariance, PTL
=============================================================================
