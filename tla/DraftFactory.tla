---------------------------- MODULE DraftFactory ----------------------------
(***************************************************************************)
(* The Draft Factory: a scheduled cycle in which a model ranks candidates  *)
(* and writes texts while deterministic code does every write.  A cycle    *)
(* walks the ranking until a candidate is accepted, renders it, builds its *)
(* manifest, has one review draft created at Zernio, marks the queue, and  *)
(* sends one approval card.  The cycle may be killed between two steps; an *)
(* operator repairs the audit trail afterwards.  One run of the bridge,    *)
(* whoever starts it, is one step here: DraftBridge opens it.              *)
(***************************************************************************)
EXTENDS PackagingPolicy, Sequences, FiniteSets

CONSTANTS
    Candidates,
    MaxDay,         \* Baku days the instance lives through (bound)
    MaxCycles,      \* factory cycles started (bound)
    MaxEdits,       \* edits of one queue entry by Morning (bound)
    Offers,         \* [Candidates -> <<request, asset kind>> pairs SELECT may rank it with]
    Copies,         \* texts PRODUCE may return
    None            \* no file

Days == 1..MaxDay
Keys == Days \X Candidates          \* manifest_id is "<today>-<candidate>"

ReviewStates == {"NOT_CREATED", "CREATE_IN_FLIGHT", "REVIEW_UNKNOWN", "DRAFT_CREATED"}

\* The review block, the cycle that built the manifest and the Baku date
\* (both from created_at), and the copy it carries.
Manifest == [state : ReviewStates, built : 1..MaxCycles, date : Days, copy : Copies]

Entry == [status : {"READY", "DRAFTED"}, version : Nat]
RenderRecord == Days \X Copies      \* the day of its paths, its copy
DeliveryStates == {"SENDING", "SENT", "DELIVERY_UNCONFIRMED"}
Claims == {"SENT", "DELIVERY_UNCONFIRMED", "NO_RECEIPT"}

ASSUME DraftAssumption ==
    /\ Candidates # {} /\ IsFiniteSet(Candidates) /\ Copies # {}
    /\ MaxDay \in Nat \ {0} /\ MaxCycles \in Nat /\ MaxEdits \in Nat
    /\ Offers \in [Candidates -> SUBSET (Request \X AssetKinds)]
    /\ None \notin Request \cup AssetKinds \cup Copies \cup RenderRecord
    /\ None \notin Manifest \cup DeliveryStates \cup Claims \cup {"cycle"}

VARIABLES
    day,            \* the Baku date
    entry,          \* candidate queue: [Candidates -> [status, version]]
    request, asset, caption,    \* [Keys -> dated production file or None]
    receipt,        \* [Candidates -> the request the receipt was computed from]
    record,         \* [Candidates -> render record: <<day of its paths, copy>>]
    manifest,       \* [Keys -> Manifest or None]
    drafts,         \* [Keys -> drafts created at Zernio]
    delivery,       \* [Keys -> Telegram delivery receipt or None]
    cards,          \* [Keys -> approval cards shown to the owner]
    ledger, report, \* [Keys -> DRAFT rows], [Keys -> production report or None]
    cyc             \* the factory cycle

inputs == <<request, asset, receipt>>
products == <<caption, record>>
notices == <<delivery, cards>>
audit == <<ledger, report>>
zernio == <<manifest, drafts>>
vars == <<day, entry, inputs, products, zernio, notices, audit, cyc>>

CyclePcs == {"idle", "select", "next", "asset", "evaluate", "classify",
             "produce", "render", "manifest", "ready", "bridge", "flip",
             "replace", "notify", "send", "proof", "complete", "report",
             "backstop"}
Dispositions == {"SKIP", "STORY", "VISUAL_GROUNDING_UNMET", "PACKAGING_RECEIPT_CONFLICT"}
Rows == {"marked", "opaque"} \cup Claims    \* rows a cycle wrote, rows recovery wrote

IdleCycle == [pc |-> "idle", n |-> 0, today |-> 1,
              base |-> None, snap |-> None, ranked |-> <<>>, tried |-> {},
              copy |-> None, recovered |-> FALSE, proof |-> FALSE]

Init ==
    /\ day = 1
    /\ entry = [c \in Candidates |-> [status |-> "READY", version |-> 0]]
    /\ request = [k \in Keys |-> None] /\ asset = [k \in Keys |-> None]
    /\ caption = [k \in Keys |-> None] /\ manifest = [k \in Keys |-> None]
    /\ receipt = [c \in Candidates |-> None] /\ record = [c \in Candidates |-> None]
    /\ drafts = [k \in Keys |-> 0]
    /\ delivery = [k \in Keys |-> None] /\ cards = [k \in Keys |-> 0]
    /\ ledger = [k \in Keys |-> {}] /\ report = [k \in Keys |-> None]
    /\ cyc = IdleCycle
-----------------------------------------------------------------------------
(* The wrapper and the ranking.                                            *)

Goto(pc) == cyc' = [cyc EXCEPT !.pc = pc]
\* The wrapper's completion pass, which also follows a BridgeError.
ToBackstop == cyc' = [IdleCycle EXCEPT !.pc = "backstop", !.n = cyc.n]
Raise == ToBackstop
EndCycle == cyc' = [IdleCycle EXCEPT !.n = cyc.n]

\* The places of a ranking that no attempt names, and the first of them.
UntriedOf(ranked, tried) == {i \in DOMAIN ranked : ranked[i] \notin {t[1] : t \in tried}}
FirstOf(ranked, tried) ==
    LET left == UntriedOf(ranked, tried)
    IN  ranked[CHOOSE i \in left : \A j \in left : i <= j]
Untried == UntriedOf(cyc.ranked, cyc.tried)
Current == FirstOf(cyc.ranked, cyc.tried)
Key == <<cyc.today, Current>>
\* Mutant: the disposition is not kept.
RecordForgotten(disposition) == cyc' = [cyc EXCEPT !.pc = "next", !.recovered = FALSE]
Record(disposition) ==
    cyc' = [cyc EXCEPT !.pc = "next", !.recovered = FALSE,
                       !.tried = @ \cup {<<Current, disposition>>}]

\* A cycle starts with its own snapshot of the queue and its own date.
StartCycle ==
    /\ cyc.pc = "idle" /\ cyc.n < MaxCycles
    /\ cyc' = [IdleCycle EXCEPT !.pc = "select", !.n = cyc.n + 1,
                                !.today = day, !.base = entry]
    /\ UNCHANGED <<day, entry, inputs, products, zernio, notices, audit>>

Eligible == {c \in Candidates : cyc.base[c].status = "READY"}

\* A ranking is a sequence of distinct candidates.
Rankings(S) == {s \in UNION {[1..n -> S] : n \in 1..Cardinality(S)} :
                    \A i, j \in DOMAIN s : s[i] = s[j] => i = j}

\* The model ranks eligible candidates, or says NO_ACTION.
Select ==
    /\ cyc.pc = "select"
    /\ \/ \E s \in Rankings(Eligible) : cyc' = [cyc EXCEPT !.pc = "next", !.ranked = s]
       \/ ToBackstop
    /\ UNCHANGED <<day, entry, inputs, products, zernio, notices, audit>>

\* next_candidate on an exhausted ranking builds a reason from every attempt;
\* a conflict attempt carries no reason and the KeyError is caught nowhere.
Exhausted ==
    /\ cyc.pc = "next" /\ Untried = {}
    /\ IF \E t \in cyc.tried : t[2] = "PACKAGING_RECEIPT_CONFLICT"
       THEN EndCycle
       ELSE ToBackstop
    /\ UNCHANGED <<day, entry, inputs, products, zernio, notices, audit>>

\* Top of the loop: a STORY receipt is settled from the file; two dated input
\* files are reused; one alone refuses; otherwise the request is written.
NextCandidate ==
    /\ cyc.pc = "next" /\ Untried # {}
    /\ LET c == Current
           story == receipt[c] # None /\ EvaluatePackaging(receipt[c]).format = "STORY"
           found == request[Key] # None
       IN  /\ \/ story /\ Record("STORY") /\ UNCHANGED request
              \/ /\ ~story /\ found /\ asset[Key] # None
                 /\ cyc' = [cyc EXCEPT !.pc = "evaluate", !.recovered = TRUE]
                 /\ UNCHANGED request
              \/ ~story /\ found /\ asset[Key] = None /\ Raise /\ UNCHANGED request
              \/ /\ ~story /\ ~found
                 /\ \E o \in Offers[c] : request' = [request EXCEPT ![Key] = o[1]]
                 /\ Goto("asset")
    /\ UNCHANGED <<day, entry, asset, receipt, products, zernio, notices, audit>>

WriteAsset ==
    /\ cyc.pc = "asset"
    /\ \E o \in Offers[Current] : o[1] = request[Key] /\ asset' = [asset EXCEPT ![Key] = o[2]]
    /\ Goto("evaluate")
    /\ UNCHANGED <<day, entry, request, receipt, products, zernio, notices, audit>>

\* Mutant: a receipt that differs is replaced.
EvaluateAnew ==
    /\ cyc.pc = "evaluate"
    /\ LET c == Current  q == request[Key] IN
       IF GroundingUnmet(q)
       THEN Record("VISUAL_GROUNDING_UNMET") /\ UNCHANGED receipt
       ELSE receipt' = [receipt EXCEPT ![c] = q] /\ Goto("classify")
    /\ UNCHANGED <<day, entry, request, asset, products, zernio, notices, audit>>

\* The evaluator: no receipt for an ungrounded request, never a second receipt.
Evaluate ==
    /\ cyc.pc = "evaluate"
    /\ LET c == Current  q == request[Key] IN
       CASE GroundingUnmet(q) ->
                Record("VISUAL_GROUNDING_UNMET") /\ UNCHANGED receipt
         [] ~GroundingUnmet(q) /\ receipt[c] \notin {None, q} ->
                Record("PACKAGING_RECEIPT_CONFLICT") /\ UNCHANGED receipt
         [] ~GroundingUnmet(q) /\ receipt[c] \in {None, q} ->
                receipt' = [receipt EXCEPT ![c] = q] /\ Goto("classify")
    /\ UNCHANGED <<day, entry, request, asset, products, zernio, notices, audit>>

Classify ==
    /\ cyc.pc = "classify"
    /\ LET q == receipt[Current]  format == EvaluatePackaging(q).format IN
       CASE format = "SKIP" -> Record("SKIP")
         [] format = "STORY" -> Record("STORY")
         [] OTHER ->
            IF cyc.recovered /\ ~ValidAsset(q, asset[Key]) THEN Raise
            ELSE IF q.grounded /\ asset[Key] = "NONE"
                 THEN Record("VISUAL_GROUNDING_UNMET")
                 ELSE Goto("produce")
    /\ UNCHANGED <<day, entry, inputs, products, zernio, notices, audit>>
-----------------------------------------------------------------------------
(* From the accepted candidate to its manifest.                            *)

\* PRODUCE and _write_new_file: the same bytes are reused, others refuse.
Produce ==
    /\ cyc.pc = "produce"
    /\ \E t \in Copies :
        IF caption[Key] \in {None, t}
        THEN /\ caption' = [caption EXCEPT ![Key] = t]
             /\ cyc' = [cyc EXCEPT !.pc = "render", !.copy = t]
        ELSE Raise /\ UNCHANGED caption
    /\ UNCHANGED <<day, entry, inputs, record, zernio, notices, audit>>

\* Mutant: a record of another day or text is replaced.
RenderAnew ==
    /\ cyc.pc = "render"
    /\ IF Renderable(receipt[Current], asset[Key])
       THEN /\ record' = [record EXCEPT ![Current] = <<cyc.today, cyc.copy>>]
            /\ Goto("manifest")
       ELSE Raise /\ UNCHANGED record
    /\ UNCHANGED <<day, entry, inputs, caption, zernio, notices, audit>>

\* The render record lies on a path without a date and names dated files: a
\* different record refuses, the same one is reused.
Render ==
    /\ cyc.pc = "render"
    /\ LET mine == <<cyc.today, cyc.copy>> IN
       IF /\ Renderable(receipt[Current], asset[Key])
          /\ record[Current] \in {None, mine}
       THEN record' = [record EXCEPT ![Current] = mine] /\ Goto("manifest")
       ELSE Raise /\ UNCHANGED record
    /\ UNCHANGED <<day, entry, inputs, caption, zernio, notices, audit>>

BuildManifest ==
    /\ cyc.pc = "manifest"
    /\ IF manifest[Key] = None
       THEN /\ manifest' = [manifest EXCEPT ![Key] =
                  [state |-> "NOT_CREATED", built |-> cyc.n, date |-> day,
                   copy |-> cyc.copy]]
            /\ Goto("ready")
       ELSE Raise /\ UNCHANGED manifest
    /\ UNCHANGED <<day, entry, inputs, products, drafts, notices, audit>>

\* The entry must still be what it was at SELECT; then the command line runs.
Ready ==
    /\ cyc.pc = "ready"
    /\ IF entry[Current] = cyc.base[Current] THEN Goto("bridge") ELSE Raise
    /\ UNCHANGED <<day, entry, inputs, products, zernio, notices, audit>>
-----------------------------------------------------------------------------
(* One run of the bridge: by the cycle, its completion pass, or the button. *)

Created(k) == manifest[k] # None /\ manifest[k].state = "DRAFT_CREATED"
NotCreated(k) == manifest[k] # None /\ manifest[k].state = "NOT_CREATED"

\* require_packaging_authority: the manifest still is what receipt and render
\* record say.
Authorised(k) ==
    LET c == k[2] IN
    /\ receipt[c] # None /\ Renderable(receipt[c], asset[k])
    /\ record[c] = <<k[1], manifest[k].copy>>

\* The one create request may make a draft whatever the state says of it.
Attempt(k, state, made) ==
    /\ NotCreated(k) /\ Authorised(k)
    /\ manifest' = [manifest EXCEPT ![k].state = state]
    /\ drafts' = [drafts EXCEPT ![k] = IF made THEN @ + 1 ELSE @]

RunBridge(k, ok) ==
    \/ ok /\ Attempt(k, "DRAFT_CREATED", TRUE)
    \/ ~ok /\ \E made \in BOOLEAN : Attempt(k, "REVIEW_UNKNOWN", made)
    \/ ~ok /\ UNCHANGED zernio

\* A bridge killed by a timeout or with its machine.
KilledBridge(k) ==
    \/ \E made \in BOOLEAN : Attempt(k, "CREATE_IN_FLIGHT", made)
    \/ UNCHANGED zernio

Bridge ==
    /\ cyc.pc = "bridge"
    /\ \E ok \in BOOLEAN : RunBridge(Key, ok) /\ IF ok THEN Goto("flip") ELSE Raise
    /\ UNCHANGED <<day, entry, inputs, products, notices, audit>>

\* ensure_pending_bridge: at most one manifest, built by this cycle and dated
\* today, through the action.
Pending == {k \in Keys : /\ NotCreated(k)
                         /\ manifest[k].built = cyc.n /\ manifest[k].date = day}
Backstop ==
    /\ cyc.pc = "backstop"
    /\ \/ \E k \in Pending : \E ok \in BOOLEAN :
            RunBridge(k, ok) /\ EndCycle
       \/ Pending = {} /\ EndCycle /\ UNCHANGED zernio
    /\ UNCHANGED <<day, entry, inputs, products, notices, audit>>

\* The button names a manifest; one that is created is only replayed.  A click
\* at another place commutes with the cycle's steps up to the next of these.
Click(k) ==
    /\ manifest[k] # None /\ cyc.pc \in {"idle", "ready", "bridge", "backstop"}
    /\ (\E ok \in BOOLEAN : RunBridge(k, ok)) \/ KilledBridge(k)
    /\ UNCHANGED <<day, entry, inputs, products, notices, audit, cyc>>
-----------------------------------------------------------------------------
(* From the draft to the report.                                           *)

\* flip_ready_to_drafted reads the queue twice and then replaces the file by
\* what it read, with one status changed.
FlipCheck ==
    /\ cyc.pc = "flip"
    /\ IF entry[Current] = cyc.base[Current]
       THEN cyc' = [cyc EXCEPT !.pc = "replace", !.snap = entry]
       ELSE Raise
    /\ UNCHANGED <<day, entry, inputs, products, zernio, notices, audit>>

FlipReplace ==
    /\ cyc.pc = "replace"
    /\ entry' = [cyc.snap EXCEPT ![Current].status = "DRAFTED"]
    /\ Goto("notify")
    /\ UNCHANGED <<day, inputs, products, zernio, notices, audit>>

\* Mutant: the card is sent without its marker.
NotifyUnmarked ==
    /\ cyc.pc = "notify" /\ Goto("send")
    /\ UNCHANGED <<day, entry, inputs, products, zernio, notices, audit>>

\* The SENDING marker is durable before the one send.
Notify ==
    /\ cyc.pc = "notify"
    /\ delivery' = [delivery EXCEPT ![Key] = "SENDING"]
    /\ Goto("send")
    /\ UNCHANGED <<day, entry, inputs, products, zernio, cards, audit>>

\* The card may arrive without its message id coming back.
Send ==
    /\ cyc.pc = "send"
    /\ \E shown, proof \in BOOLEAN :
        /\ proof => shown
        /\ cards' = [cards EXCEPT ![Key] = IF shown THEN @ + 1 ELSE @]
        /\ cyc' = [cyc EXCEPT !.pc = "proof", !.proof = proof]
    /\ UNCHANGED <<day, entry, inputs, products, zernio, delivery, audit>>

\* Mutant: a send that returned counts as a delivery.
WriteProofAlways ==
    /\ cyc.pc = "proof"
    /\ delivery' = [delivery EXCEPT ![Key] = "SENT"]
    /\ Goto("complete")
    /\ UNCHANGED <<day, entry, inputs, products, zernio, cards, audit>>

\* The second write of the receipt is best effort: SENDING may stay.
WriteProof ==
    /\ cyc.pc = "proof"
    /\ \/ delivery' = [delivery EXCEPT ![Key] =
                         IF cyc.proof THEN "SENT" ELSE "DELIVERY_UNCONFIRMED"]
       \/ UNCHANGED delivery
    /\ Goto("complete")
    /\ UNCHANGED <<day, entry, inputs, products, zernio, cards, audit>>

\* The row is written by the model: only its candidate is checked.
Complete ==
    /\ cyc.pc = "complete"
    /\ \E row \in {"marked", "opaque"} :
         ledger' = [ledger EXCEPT ![Key] = @ \cup {row}]
    /\ Goto("report")
    /\ UNCHANGED <<day, entry, inputs, products, zernio, notices, report>>

WriteReport ==
    /\ cyc.pc = "report"
    /\ IF report[Key] = None
       THEN /\ report' = [report EXCEPT ![Key] = "cycle"]
            /\ ToBackstop
       ELSE Raise /\ UNCHANGED report
    /\ UNCHANGED <<day, entry, inputs, products, zernio, notices, ledger>>

\* A model round, a helper or the cycle's time budget fails: between any two
\* steps; a helper killed by its timeout dies where it is.
StageFails ==
    /\ cyc.pc \notin {"idle", "replace", "send", "proof", "backstop"}
    /\ Raise
    /\ IF cyc.pc = "bridge" THEN KilledBridge(Key) ELSE UNCHANGED zernio
    /\ UNCHANGED <<day, entry, inputs, products, notices, audit>>
-----------------------------------------------------------------------------
(* Deaths, the recovery command, and the world outside.                    *)

\* The wrapper dies, and its completion pass with it; a bridge under way may
\* end, or die with it.
CycleCrash ==
    /\ cyc.pc # "idle"
    /\ EndCycle
    /\ \/ cyc.pc = "bridge" /\ (KilledBridge(Key) \/ \E ok \in BOOLEAN : RunBridge(Key, ok))
       \/ cyc.pc = "backstop" /\ \E k \in Pending : KilledBridge(k)
       \/ UNCHANGED zernio
    /\ UNCHANGED <<day, entry, inputs, products, notices, audit>>

\* Mutant: a marker counts as a delivery.
DeliveryClaimOptimist(k) ==
    IF delivery[k] = None THEN "NO_RECEIPT" ELSE "SENT"
DeliveryClaim(k) ==
    CASE delivery[k] = None -> "NO_RECEIPT"
      [] delivery[k] = "SENT" -> "SENT"
      [] OTHER -> "DELIVERY_UNCONFIRMED"

MarkedRows(k) == ledger[k] \ {"opaque"}

\* No row of another day names the candidate; the report is absent or its own.
LedgerIdentity(k) == \A d \in Days \ {k[1]} : MarkedRows(<<d, k[2]>>) = {}
ReportAgrees(k) == report[k] \in {None, DeliveryClaim(k)}
QueueSaysDrafted(k) == entry[k[2]].status = "DRAFTED"
Recoverable(k) ==
    Created(k) /\ QueueSaysDrafted(k) /\ LedgerIdentity(k) /\ ReportAgrees(k)

\* apply_one: the row comes first, and a crash may leave it without the report.
Recover(k) ==
    /\ Recoverable(k)
    /\ ledger' = [ledger EXCEPT ![k] = IF MarkedRows(k) = {}
                                       THEN @ \cup {DeliveryClaim(k)} ELSE @]
    /\ report' \in {report, [report EXCEPT ![k] = DeliveryClaim(k)]}
    /\ UNCHANGED <<day, entry, inputs, products, zernio, notices, cyc>>

\* The day and an entry's bytes are read at a few places only; a change
\* anywhere else commutes with the steps up to the next of them.
MorningEdits(c) ==
    /\ cyc.pc \in {"ready", "flip", "replace"}
    /\ entry[c].version < MaxEdits
    /\ entry' = [entry EXCEPT ![c].version = @ + 1]
    /\ UNCHANGED <<day, inputs, products, zernio, notices, audit, cyc>>

NextDay ==
    /\ cyc.pc \in {"idle", "manifest", "backstop"}
    /\ day < MaxDay /\ day' = day + 1
    /\ UNCHANGED <<entry, inputs, products, zernio, notices, audit, cyc>>

CycleStep ==
    \/ Select \/ Exhausted \/ NextCandidate \/ WriteAsset \/ Evaluate \/ Classify
    \/ Produce \/ Render \/ BuildManifest \/ Ready \/ Bridge \/ FlipCheck
    \/ FlipReplace \/ Notify \/ Send \/ WriteProof \/ Complete \/ WriteReport
    \/ Backstop

Next ==
    \/ StartCycle \/ CycleStep \/ StageFails \/ CycleCrash
    \/ \E k \in Keys : Click(k) \/ Recover(k)
    \/ (\E c \in Candidates : MorningEdits(c)) \/ NextDay

Spec == Init /\ [][Next]_vars
\* A cycle that runs keeps running: it is one process with its own deadline.
FairSpec == Spec /\ WF_vars(CycleStep)
-----------------------------------------------------------------------------
(* Properties.                                                             *)

OrNone(S) == S \cup {None}
Cycle == [pc : CyclePcs, n : 0..MaxCycles, today : Days,
          base : OrNone([Candidates -> Entry]), snap : OrNone([Candidates -> Entry]),
          ranked : Seq(Candidates), tried : SUBSET (Candidates \X Dispositions),
          copy : OrNone(Copies), recovered : BOOLEAN, proof : BOOLEAN]

TypeOK ==
    /\ day \in Days
    /\ entry \in [Candidates -> Entry]
    /\ request \in [Keys -> OrNone(Request)] /\ asset \in [Keys -> OrNone(AssetKinds)]
    /\ caption \in [Keys -> OrNone(Copies)]
    /\ receipt \in [Candidates -> OrNone(Request)]
    /\ record \in [Candidates -> OrNone(RenderRecord)]
    /\ manifest \in [Keys -> OrNone(Manifest)] /\ drafts \in [Keys -> Nat]
    /\ delivery \in [Keys -> OrNone(DeliveryStates)] /\ cards \in [Keys -> Nat]
    /\ ledger \in [Keys -> SUBSET Rows]
    /\ report \in [Keys -> OrNone({"cycle"} \cup Claims)]
    /\ cyc \in Cycle

\* A candidate gets one review draft in its life, whatever day it is selected
\* again, whoever runs the bridge and wherever a cycle died before.
OneDraftPerCandidate ==
    \A c \in Candidates : \A k, l \in {k \in Keys : k[2] = c /\ drafts[k] > 0} :
        k = l /\ drafts[k] = 1

\* The promise of a single review draft, for a candidate: whatever day it is
\* selected again, whoever runs the bridge and wherever a cycle died before.
ManifestsOf(c) == {d \in Days : manifest[<<d, c>>] # None}
ReviewOf(c) == IF ManifestsOf(c) = {} THEN "NOT_CREATED"
               ELSE manifest[<<CHOOSE d \in ManifestsOf(c) : TRUE, c>>].state
DraftsOf(c) == Cardinality(UNION {{d} \X (1..drafts[<<d, c>>]) : d \in Days})
Promise == INSTANCE OneReviewDraft WITH
    Works <- Candidates,
    review <- [c \in Candidates |-> ReviewOf(c)],
    drafts <- [c \in Candidates |-> DraftsOf(c)]
ImplementsPromise == Promise!Spec

\* The owner sees at most one card for a manifest, only for a draft that
\* exists and is recorded; SENT is only written of a card that was shown; a
\* queue entry is DRAFTED only when its draft was made.
CardIsTrue ==
    /\ \A k \in Keys :
        /\ cards[k] <= 1
        /\ cards[k] = 1 => Created(k) /\ drafts[k] = 1 /\ delivery[k] # None
        /\ delivery[k] = "SENT" => cards[k] = 1
    /\ \A c \in Candidates : entry[c].status = "DRAFTED" =>
            \E d \in Days : drafts[<<d, c>>] = 1

\* The recovery command claims a delivery only of a card that was shown, and
\* no report stands without its ledger row, whoever wrote it.
RecoveryIsTruthful ==
    \A k \in Keys :
        /\ "SENT" \in ledger[k] \/ report[k] = "SENT" => cards[k] = 1
        /\ report[k] # None => ledger[k] # {} /\ Created(k)

\* Every manifest was built under the receipt that still stands: its asset is
\* renderable under it, the request is the receipt's and the render record
\* names this day and copy.
ProducedUnderReceipt ==
    \A k \in Keys : manifest[k] # None =>
        /\ receipt[k[2]] = request[k] /\ Renderable(receipt[k[2]], asset[k])
        /\ record[k[2]] = <<k[1], manifest[k].copy>>

\* Every cycle ends: the walk over the ranking never returns to a candidate.
EveryCycleEnds == []<>(cyc.pc = "idle")
-----------------------------------------------------------------------------
(* The inductive invariant.                                                *)

\* Where the cycle has accepted a candidate, and what it then knows of it.
Walking == CyclePcs \ {"idle", "select", "next", "backstop"}
HasAsset == Walking \ {"asset"}
HasReceipt == HasAsset \ {"evaluate"}
HasCopy == HasReceipt \ {"classify", "produce"}
HasDraft == HasCopy \ {"render", "manifest", "ready", "bridge"}

\* A status DRAFTED, in the queue or in a copy of it, is backed by a draft.
FlagsAreTrue(e) ==
    \A c \in Candidates : e[c].status = "DRAFTED" => \E d \in Days : drafts[<<d, c>>] = 1

\* The dated input files are the ones SELECT offered, in the order they are written.
Inputs(k) ==
    /\ request[k] = None => asset[k] = None
    /\ asset[k] # None => <<request[k], asset[k]>> \in Offers[k[2]]

\* A manifest stands on its receipt, its asset and its render record.
Produced(k) == manifest[k] # None =>
    /\ request[k] # None /\ asset[k] # None /\ receipt[k[2]] = request[k]
    /\ Renderable(receipt[k[2]], asset[k])
    /\ record[k[2]] = <<k[1], manifest[k].copy>>

\* The one attempt of a manifest makes its draft, if any.
Spent(k) ==
    /\ drafts[k] <= 1
    /\ drafts[k] = 1 => manifest[k] # None /\ ~NotCreated(k)
    /\ Created(k) => drafts[k] = 1

\* A delivery is begun for a created draft, and claimed of a card that was shown.
Delivered(k) ==
    /\ delivery[k] # None => Created(k)
    /\ cards[k] <= 1 /\ (cards[k] = 1 => delivery[k] # None)
    /\ delivery[k] = "SENT" => cards[k] = 1
    /\ "SENT" \in ledger[k] \/ report[k] = "SENT" => cards[k] = 1
    /\ report[k] # None => ledger[k] # {} /\ Created(k)

\* What the cycle relies on between its reads and its writes.
CycleFacts ==
    /\ cyc.pc # "idle" => cyc.n >= 1
    /\ cyc.pc \in Walking => Untried # {}
    /\ cyc.pc = "asset" => request[Key] # None /\ asset[Key] = None
    /\ cyc.pc \in HasAsset => request[Key] # None /\ asset[Key] # None
    /\ cyc.pc \in HasReceipt => receipt[Current] = request[Key]
    /\ cyc.pc \in HasCopy => cyc.copy \in Copies
    /\ cyc.pc = "manifest" => /\ Renderable(receipt[Current], asset[Key])
                              /\ record[Current] = <<cyc.today, cyc.copy>>
    /\ cyc.pc \in {"ready", "bridge"} => manifest[Key] # None
    /\ cyc.pc \in HasDraft => Created(Key)
    /\ cyc.pc = "replace" => cyc.snap \in [Candidates -> Entry] /\ FlagsAreTrue(cyc.snap)
    /\ cyc.pc \in {"ready", "bridge", "flip", "replace", "notify"} => delivery[Key] = None
    /\ cyc.pc \in {"send", "proof"} => delivery[Key] = "SENDING"
    /\ cyc.pc = "send" => cards[Key] = 0
    /\ cyc.pc = "proof" /\ cyc.proof => cards[Key] = 1
    /\ cyc.pc = "report" => ledger[Key] # {}

\* Everything the files, the provider and the cycle's memory say of a draft is
\* true together: the four properties above, and why they stay true.
IInv ==
    /\ TypeOK /\ CycleFacts /\ FlagsAreTrue(entry)
    /\ \A k \in Keys : Inputs(k) /\ Produced(k) /\ Spent(k) /\ Delivered(k)
=============================================================================
