---------------------- MODULE FinalPublishOutcomeProofs ----------------------
(***************************************************************************)
(* Machine-checked proofs about what FinalPublish records of a             *)
(* publication.  For any set of boot-reconcile commands: manifests, ledger,*)
(* queue and answers are true, terminal receipts are dead.  When only the  *)
(* daemon reconciles at boot: receipts match manifests, and every PUT is   *)
(* made under a live authorization.                                        *)
(*                                                                         *)
(* The argument: the first lemmas say what a step may do to a manifest     *)
(* (PublicationMoves), a receipt (ReceiptMoves) and the provider           *)
(* (ProviderMoves).  A publication only moves from NOT_REQUESTED to        *)
(* PUBLISH_IN_FLIGHT, to an outcome, and from PUBLISHING to PUBLISHED or   *)
(* FAILED; the provider's published and failed are final.  So what a       *)
(* process holds in memory of an outcome stays true until it is written    *)
(* (OutcomeFacts, ReaderFacts), and so is what it writes.                  *)
(***************************************************************************)
EXTENDS FinalPublishProofs

-----------------------------------------------------------------------------
(* What each kind of step leaves alone *)

\* A step of the daemon on a request touches nobody else's memory, no approved
\* file and no supersession marker.
LEMMA DaemonFrame ==
    ASSUME DaemonStep
    PROVE UNCHANGED <<files, superseded, bootVars, readerVars, remote>>
BY DEF DaemonStep, FindFails, CheckConsumed, CheckSuperseded, Claim, WriteClaim,
       WriteClaimFails, ClaimTorn, ClaimExists, RecoverTerminal, Adopt,
       RecoverRevoked, Authorize, MarkExecuting, ReceiptGone, Load, Preflight,
       Consume, WriteFails, Put, Response, Accepted, AcceptedEvent, Readback,
       Persist, Event, QueueRead, QueueWrite, Settle, SettleConsumed,
       SettleConsumedTorn, SettleError, Revoke, Block, RevokeUnexpected,
       NotifyClaim, NotifySkip, NotifySend, NotifyRecord, Finish, Goto,
       OutsideDaemon, fileVars

\* The daemon's start, stop and readiness change no file and nobody else's memory.
LEMMA LifecycleFrame ==
    ASSUME Crash \/ DaemonStart \/ Ready
    PROVE /\ UNCHANGED <<fileVars, readerVars, providerVars, history>>
          /\ pc' \in {"off", "boot", "idle"}
BY DEF Crash, Dead, DaemonStart, BootScan, Ready, Scratch, bootVars

\* Boot reconciliation writes receipts and its own memory only; the daemon's
\* failing one ends its process.
LEMMA BootFrame ==
    ASSUME NEW b \in Booters, CommandStart(b) \/ BootStep(b)
    PROVE /\ UNCHANGED <<man, files, superseded, ledger, queue, lock, readerVars,
                         providerVars, history, inst, own, Scratch>>
          /\ pc' = pc \/ (b = Daemon /\ pc' = "off")
BY DEF CommandStart, BootStep, BootRead, BootSettle, BootFails, BootScan,
       fileVars, daemonVars, Scratch

\* A reconciliation command writes manifests, receipts, ledger and queue, and
\* touches neither the daemon, nor boot reconciliation, nor the provider.
LEMMA ReaderFrame ==
    ASSUME NEW r \in Readers,
           (\E p \in Posts : ReadStart(r, p)) \/ ReadStep(r) \/ ReadEnd(r)
    PROVE UNCHANGED <<files, superseded, daemonVars, bootVars, providerVars, history>>
BY DEF ReadStart, ReadStep, ReadEnd, ReadTruth, ReadPersist, ReadEvent, ReadQueue,
       ReadQueueWrite, ReadScan, Converge, OutsideReader, fileVars

\* First-stage transitions, supersession, file damage and the provider touch no
\* receipt, no ledger, no lock and nobody's memory.
LEMMA WorldFrame ==
    ASSUME NEW p \in Posts,
           \/ FirstStage(p) \/ Supersede(p) \/ ChangeFiles(p)
           \/ Deliver(p) \/ Provider(p)
    PROVE UNCHANGED <<rcpt, ledger, queue, lock, daemonVars, bootVars, readerVars, history>>
BY DEF FirstStage, Supersede, ChangeFiles, Deliver, Provider, fileVars

-----------------------------------------------------------------------------
(* What a step may do to a manifest *)

\* The daemon's steps that write no manifest.
LEMMA DaemonKeepsManifests ==
    ASSUME DaemonStep, ~Authorize, ~Consume, ~Accepted, ~Persist, ~Revoke,
           ~RevokeUnexpected, ~NotifyClaim, ~NotifyRecord
    PROVE UNCHANGED man
BY DEF DaemonStep, FindFails, CheckConsumed, CheckSuperseded, Claim, WriteClaim,
       WriteClaimFails, ClaimTorn, ClaimExists, RecoverTerminal, Adopt,
       RecoverRevoked, MarkExecuting, ReceiptGone, Load, Preflight,
       WriteFails, Put, Response, AcceptedEvent, Readback,
       Event, QueueRead, QueueWrite, Settle, SettleConsumed,
       SettleConsumedTorn, SettleError, Block,
       NotifySkip, NotifySend, Finish, Goto, fileVars

\* Every write of a manifest by the daemon starts from the manifest on disk.
LEMMA DaemonSaves ==
    ASSUME IInv,
           \/ Authorize \/ Consume \/ Accepted \/ Persist \/ Revoke
           \/ RevokeUnexpected \/ NotifyClaim \/ NotifyRecord
    PROVE P \in Posts /\ own = man[P] /\ man[P] \in Manifest
BY ConstantsAssumption
   DEF IInv, TypeOK, Control, CopiesAreCurrent, P, Authorize, Consume, Accepted,
       Persist, Revoke, RevokeUnexpected, NotifyClaim, NotifyRecord, Working

\* The daemon's writes that leave the publication and the attempt alone.
LEMMA DaemonKeepsPublication ==
    ASSUME IInv,
           \/ Authorize \/ Accepted \/ Revoke \/ RevokeUnexpected
           \/ NotifyClaim \/ NotifyRecord
    PROVE \A p \in Posts : /\ man'[p].state = man[p].state
                           /\ man'[p].attempts = man[p].attempts
<1>1. P \in Posts /\ own = man[P] /\ man[P] \in Manifest
  BY DaemonSaves
<1>2. PICK m \in {Authorized(own), Live(own), Revoked(own), Attempted(own),
                  Notified(own, "SENT"), Notified(own, "UNCONFIRMED")} :
        man' = [man EXCEPT ![P] = m]
  BY <1>1 DEF Authorize, Accepted, Revoke, RevokeUnexpected, NotifyClaim,
              NotifyRecord, Save
<1>3. m.state = man[P].state /\ m.attempts = man[P].attempts
  BY <1>1, <1>2, UpdatesFields
<1> QED BY <1>1, <1>2, <1>3 DEF IInv, TypeOK

\* How far a step may take the publication of post p.
PublicationMoves(p) ==
    \/ man'[p].state = man[p].state /\ man'[p].attempts = man[p].attempts
    \/ /\ pc = "consume" /\ pc' = "put" /\ p = P /\ man[p].state = "NOT_REQUESTED"
       /\ man'[p].state = "PUBLISH_IN_FLIGHT" /\ man'[p].attempts = 1
    \/ /\ pc = "persist" /\ p = P /\ man[p].state = "PUBLISH_IN_FLIGHT"
       /\ man'[p].state = verdict /\ man'[p].attempts = man[p].attempts
    \/ \E r \in Readers :
         /\ rpc[r] = "persist" /\ p = rpost[r] /\ rnew[r] \in {"PUBLISHED", "FAILED"}
         /\ man[p].state = "PUBLISHING"
         /\ man'[p].state = rnew[r] /\ man'[p].attempts = man[p].attempts

\* Every step moves a publication forward, one stage at a time.
LEMMA PublicationStep ==
    ASSUME IInv, [Next]_vars, NEW p \in Posts
    PROVE PublicationMoves(p)
<1> USE ConstantsAssumption
<1>1. CASE Consume
  <2>1. P \in Posts /\ own = man[P] /\ man[P] \in Manifest
    BY <1>1, DaemonSaves
  <2>2. man' = [man EXCEPT ![P] = Consumed(man[P])]
    BY <1>1, <2>1 DEF Consume, Save
  <2>3. Consumed(man[P]).state = "PUBLISH_IN_FLIGHT" /\ Consumed(man[P]).attempts = 1
    BY <2>1, UpdatesFields
  <2> QED BY <1>1, <2>1, <2>2, <2>3
          DEF Consume, PublicationMoves, IInv, TypeOK, OneAttempt
<1>2. CASE Persist
  <2>1. P \in Posts /\ own = man[P] /\ man[P] \in Manifest
    BY <1>2, DaemonSaves
  <2>2. man' = [man EXCEPT ![P] = Outcome(man[P], verdict)]
    BY <1>2, <2>1 DEF Persist, Save
  <2>3. /\ Outcome(man[P], verdict).state = verdict
        /\ Outcome(man[P], verdict).attempts = man[P].attempts
    BY <2>1, UpdatesFields
  <2> QED BY <1>2, <2>1, <2>2, <2>3
          DEF Persist, PublicationMoves, IInv, TypeOK, OneAttempt
<1>3. CASE \/ Authorize \/ Accepted \/ Revoke \/ RevokeUnexpected
           \/ NotifyClaim \/ NotifyRecord
  BY <1>3, DaemonKeepsPublication DEF PublicationMoves
<1>4. ASSUME NEW r \in Readers, ReadPersist(r) PROVE PublicationMoves(p)
  <2> DEFINE q == rpost[r]
  <2>1. q \in Posts /\ rman[r] = man[q] /\ man[q] \in Manifest /\ rpc[r] = "persist"
    BY <1>4 DEF ReadPersist, IInv, TypeOK, CopiesAreCurrent
  <2>2. CASE rnew[r] = "PUBLISHED_CORRECTED"
    <3>1. man' = [man EXCEPT ![q] = man[q]]
      BY <1>4, <2>1, <2>2 DEF ReadPersist
    <3> QED BY <2>1, <3>1 DEF PublicationMoves, IInv, TypeOK
  <2>3. CASE rnew[r] # "PUBLISHED_CORRECTED"
    <3>1. man' = [man EXCEPT ![q] = Outcome(man[q], rnew[r])]
      BY <1>4, <2>1, <2>3 DEF ReadPersist
    <3>2. man[q].state = "PUBLISHING"
      BY <2>1, <2>3 DEF IInv, OneAttempt
    <3>3. rnew[r] \in {"PUBLISHED", "FAILED"}
      <4>1. rnew[r] \in {"NONE", "PUBLISHED", "FAILED", "PUBLISHED_CORRECTED"}
        BY DEF IInv, TypeOK
      <4>2. rnew[r] # "NONE"
        BY <2>1 DEF IInv, Control
      <4> QED BY <2>3, <4>1, <4>2
    <3>4. /\ Outcome(man[q], rnew[r]).state = rnew[r]
          /\ Outcome(man[q], rnew[r]).attempts = man[q].attempts
      BY <2>1, UpdatesFields
    <3> QED BY <2>1, <3>1, <3>2, <3>3, <3>4 DEF PublicationMoves, IInv, TypeOK
  <2> QED BY <2>2, <2>3
<1>5. ASSUME NEW q \in Posts, FirstStage(q) PROVE PublicationMoves(p)
  <2>1. man[q] \in Manifest
    BY DEF IInv, TypeOK
  <2>2. Stamped(man[q]).state = man[q].state /\ Stamped(man[q]).attempts = man[q].attempts
    BY <2>1, UpdatesFields
  <2> QED BY <1>5, <2>2 DEF FirstStage, PublicationMoves, IInv, TypeOK
<1>6. CASE UNCHANGED man
  BY <1>6 DEF PublicationMoves
<1>7. ASSUME NEW r \in Readers,
             (\E q \in Posts : ReadStart(r, q)) \/ ReadStep(r) \/ ReadEnd(r),
             ~ReadPersist(r)
      PROVE UNCHANGED man
  BY <1>7 DEF ReadStart, ReadStep, ReadEnd, ReadTruth, ReadEvent, ReadQueue,
              ReadQueueWrite, ReadScan, Converge, fileVars
<1>8. ASSUME NEW q \in Posts, Supersede(q) \/ ChangeFiles(q) \/ Deliver(q) \/ Provider(q)
      PROVE UNCHANGED man
  BY <1>8 DEF Supersede, ChangeFiles, Deliver, Provider, fileVars
<1>9. ASSUME NEW i \in Instances, Receive(i) PROVE UNCHANGED man
  BY <1>9 DEF Receive, fileVars
<1>10. CASE UNCHANGED vars
  BY <1>10, <1>6 DEF vars, fileVars
<1> QED BY <1>1, <1>2, <1>3, <1>4, <1>5, <1>6, <1>7, <1>8, <1>9, <1>10,
          DaemonKeepsManifests, LifecycleFrame, BootFrame
     DEF Next, fileVars

-----------------------------------------------------------------------------
(* What a step may do to a receipt *)

\* How far a step may take the receipt of instance i.
ReceiptMoves(i) ==
    \/ rcpt'[i] = rcpt[i]
    \/ pc = "check" /\ pc' = "claimed" /\ i = inst /\ rcpt[i] = "NONE" /\ rcpt'[i] = "TORN"
    \/ pc = "claimed" /\ pc' = "authorize" /\ i = inst /\ rcpt'[i] = "RECEIVED"
    \/ /\ pc = "mark" /\ pc' = "load" /\ i = inst
       /\ rcpt[i] \in Nonterminal /\ rcpt'[i] = "EXECUTING"
    \/ /\ pc \in {"recover", "block"} /\ i = inst
       /\ rcpt[i] \in Nonterminal /\ rcpt'[i] = "SETTLED_BLOCKED"
    \/ /\ pc \in {"settle", "settleConsumed", "excBridge", "excOther"} /\ i = inst
       /\ rcpt[i] \notin Terminal /\ rcpt'[i] = SettledAs(man[P].state)
       /\ pc \in {"excBridge", "excOther"} => man[P].attempts = 1
    \/ \E b \in Booters : i = bcur[b] /\ rcpt[i] \notin Terminal /\ rcpt'[i] = plan[b]
    \/ \E r \in Readers :
         /\ rpc[r] = "converge" /\ i \in rtodo[r] /\ rcpt[i] = "SETTLED_PUBLISHING"
         /\ rcpt'[i] = IF rnew[r] = "FAILED" THEN "SETTLED_FAILED" ELSE "SETTLED_PUBLISHED"

\* The daemon's steps that write no receipt.
LEMMA DaemonKeepsReceipts ==
    ASSUME DaemonStep, ~Claim, ~WriteClaim, ~RecoverRevoked, ~MarkExecuting, ~Settle,
           ~SettleConsumed, ~SettleError, ~Block
    PROVE UNCHANGED rcpt
BY DEF DaemonStep, FindFails, CheckConsumed, CheckSuperseded, WriteClaimFails,
       ClaimTorn, ClaimExists, RecoverTerminal, Adopt, Authorize, ReceiptGone, Load,
       Preflight, Consume, WriteFails, Put, Response, Accepted, AcceptedEvent,
       Readback, Persist, Event, QueueRead, QueueWrite, SettleConsumedTorn, Revoke,
       RevokeUnexpected, NotifyClaim, NotifySkip, NotifySend, NotifyRecord, Finish,
       Goto, fileVars

\* Every step moves a receipt forward; a terminal one only from PUBLISHING.
LEMMA ReceiptStep ==
    ASSUME IInv, [Next]_vars, NEW i \in Instances
    PROVE ReceiptMoves(i)
<1> USE ConstantsAssumption DEF IInv, TypeOK
<1>1. CASE \/ Claim \/ WriteClaim \/ RecoverRevoked \/ MarkExecuting
           \/ Settle \/ Block
  BY <1>1 DEF Claim, WriteClaim, RecoverRevoked, MarkExecuting, Settle,
              Block, Receipt, MayProceed, ReceiptMoves, Nonterminal, Terminal
<1>2. CASE SettleConsumed
  <2>1. own = man[P]
    BY <1>2 DEF SettleConsumed, CopiesAreCurrent, Working
  <2> QED BY <1>2, <2>1 DEF SettleConsumed, Receipt, Settled, ReceiptMoves
<1>3. CASE SettleError
  BY <1>3 DEF SettleError, Receipt, Settled, ReceiptMoves
<1>4. ASSUME NEW b \in Booters, BootSettle(b) PROVE ReceiptMoves(i)
  BY <1>4 DEF BootSettle, ReceiptMoves
<1>5. ASSUME NEW r \in Readers, NEW j \in Instances, Converge(r, j) PROVE ReceiptMoves(i)
  BY <1>5 DEF Converge, ReceiptMoves
<1>6. CASE UNCHANGED rcpt
  BY <1>6 DEF ReceiptMoves
<1>7. ASSUME NEW b \in Booters, CommandStart(b) \/ BootStep(b), ~BootSettle(b)
      PROVE UNCHANGED rcpt
  BY <1>7 DEF CommandStart, BootStep, BootRead, BootFails, fileVars
<1>8. ASSUME NEW r \in Readers,
             (\E q \in Posts : ReadStart(r, q)) \/ ReadStep(r) \/ ReadEnd(r),
             \A j \in Instances : ~Converge(r, j)
      PROVE UNCHANGED rcpt
  BY <1>8 DEF ReadStart, ReadStep, ReadEnd, ReadTruth, ReadPersist, ReadEvent,
              ReadQueue, ReadQueueWrite, ReadScan, fileVars
<1>9. ASSUME NEW j \in Instances, Receive(j) PROVE UNCHANGED rcpt
  BY <1>9 DEF Receive, fileVars
<1>10. CASE UNCHANGED vars
  BY <1>10, <1>6 DEF vars, fileVars
<1> QED BY <1>1, <1>2, <1>3, <1>4, <1>5, <1>6, <1>7, <1>8, <1>9, <1>10,
          DaemonKeepsReceipts, LifecycleFrame, WorldFrame
     DEF Next, fileVars

\* What a step may do to the work list of a boot reconciliation.
LEMMA BootStepMoves ==
    ASSUME IInv, [Next]_vars, NEW b \in Booters
    PROVE /\ \/ todo'[b] \subseteq todo[b]
             \/ rcpt' = rcpt /\ todo'[b] = {i \in Instances : rcpt[i] \in Nonterminal}
          /\ \/ bcur'[b] = NoInstance
             \/ bcur'[b] = bcur[b] /\ plan'[b] = plan[b]
             \/ \E i \in Instances : BootRead(b, i)
<1> USE ConstantsAssumption DEF IInv, TypeOK
<1>1. CASE Crash \/ DaemonStart \/ Ready
  BY <1>1 DEF Crash, DaemonStart, Ready, BootScan, fileVars, bootVars
<1>2. ASSUME NEW c \in Booters, CommandStart(c)
      PROVE /\ \/ todo'[b] = todo[b]
               \/ rcpt' = rcpt /\ todo'[b] = {i \in Instances : rcpt[i] \in Nonterminal}
            /\ bcur'[b] = bcur[b] /\ plan'[b] = plan[b]
  BY <1>2 DEF CommandStart, BootScan, fileVars
<1>3. ASSUME NEW c \in Booters, BootSettle(c) \/ BootFails(c)
      PROVE /\ todo'[b] \subseteq todo[b]
            /\ bcur'[b] = NoInstance \/ (bcur'[b] = bcur[b] /\ plan'[b] = plan[b])
  BY <1>3 DEF BootSettle, BootFails
<1>4. ASSUME NEW c \in Booters, NEW i \in Instances, BootRead(c, i)
      PROVE /\ todo'[b] \subseteq todo[b]
            /\ b = c \/ (bcur'[b] = bcur[b] /\ plan'[b] = plan[b])
  BY <1>4 DEF BootRead
<1>5. CASE UNCHANGED bootVars
  BY <1>5 DEF bootVars
<1>6. ASSUME NEW i \in Instances, Receive(i) PROVE UNCHANGED bootVars
  BY <1>6 DEF Receive, OutsideDaemon
<1>7. CASE UNCHANGED vars
  BY <1>7, <1>5 DEF vars
<1> QED BY <1>1, <1>2, <1>3, <1>4, <1>5, <1>6, <1>7, DaemonFrame, ReaderFrame, WorldFrame
     DEF Next, BootStep

-----------------------------------------------------------------------------
(* The life of a receipt *)

\* A step on a request starts and stays inside it, or ends it; which action
\* leads where.
LEMMA DaemonControl ==
    ASSUME DaemonStep
    PROVE /\ pc \in Working
          /\ pc' \in (Working \ {"check"}) \cup {"idle"}
          /\ pc' # "idle" => inst' = inst
          /\ pc' = "claimed" => Claim
          /\ pc' = "recover" => ClaimExists
          /\ pc' = "authorize" => WriteClaim \/ Adopt
          /\ pc' = "mark" => Authorize
          /\ pc' = "load" => MarkExecuting
          /\ pc' = "preflight" => Load
          /\ pc' = "consume" => Preflight
          /\ pc' = "put" => Consume
          /\ pc' = "await" => Put
          /\ pc' = "accept" => Response
          /\ pc' = "acceptEvent" => Accepted
          /\ pc' = "readback" => Response \/ AcceptedEvent
          /\ pc' = "persist" => Readback
          /\ pc' = "event" => Persist
          /\ pc' = "queueRead" => Event
          /\ pc' = "queueWrite" => QueueRead
          /\ pc' = "settle" => Event \/ QueueWrite
          /\ pc' = "settleConsumed" => CheckConsumed
          /\ pc' = "block" => Revoke
BY DEF DaemonStep, FindFails, CheckConsumed, CheckSuperseded, Claim, WriteClaim,
       WriteClaimFails, ClaimTorn, ClaimExists, RecoverTerminal, Adopt,
       RecoverRevoked, Authorize, MarkExecuting, ReceiptGone, Load, Preflight,
       Consume, WriteFails, Put, Response, Accepted, AcceptedEvent, Readback,
       Persist, Event, QueueRead, QueueWrite, Settle, SettleConsumed,
       SettleConsumedTorn, SettleError, Revoke, Block, RevokeUnexpected,
       NotifyClaim, NotifySkip, NotifySend, NotifyRecord, Finish, Goto, Reply,
       MayProceed, Working

\* Nothing but the daemon moves the daemon inside a request.
LEMMA OthersControl ==
    ASSUME [Next]_vars, ~DaemonStep, pc' \in Working
    PROVE \/ pc' = "check"
          \/ UNCHANGED <<pc, inst, own, Scratch>>
<1>1. ASSUME NEW i \in Instances, Receive(i) PROVE pc' = "check"
  BY <1>1 DEF Receive
<1>2. {"off", "boot", "idle"} \cap Working = {}
  BY DEF Working
<1>3. CASE UNCHANGED vars
  BY <1>3 DEF vars, daemonVars, Scratch
<1> QED BY <1>1, <1>2, <1>3, LifecycleFrame, BootFrame, ReaderFrame, WorldFrame
     DEF Next, daemonVars, Scratch

\* No step breaks the life of a receipt.
LEMMA LifeStep ==
    ASSUME IInv, ReceiptLife, [Next]_vars
    PROVE ReceiptLife'
<1> USE ConstantsAssumption
<1>1. \A i \in Instances : rcpt[i] \notin {"NONE", "TORN"} => rcpt'[i] \notin {"NONE", "TORN"}
  <2> SUFFICES ASSUME NEW i \in Instances, rcpt[i] \notin {"NONE", "TORN"}
               PROVE rcpt'[i] \notin {"NONE", "TORN"}
    OBVIOUS
  <2>1. {"NONE", "TORN"} \cap Terminal = {}
    BY DEF Terminal
  <2>2. \A b \in Booters : plan[b] \in Terminal
    BY DEF IInv, TypeOK
  <2>3. ReceiptMoves(i)
    BY ReceiptStep
  <2>4. \/ rcpt'[i] \in {rcpt[i], "RECEIVED", "EXECUTING"} \cup Terminal
        \/ rcpt[i] = "NONE"
    BY <2>2, <2>3, SettledAsTerminal, Zenon DEF ReceiptMoves, Terminal
  <2> QED BY <2>1, <2>4
<1>2. ASSUME NEW b \in Booters
      PROVE \A i \in todo'[b] : rcpt'[i] \notin {"NONE", "TORN"}
  <2>1. CASE todo'[b] \subseteq todo[b]
    <3>1. todo[b] \subseteq Instances
      BY DEF IInv, TypeOK
    <3> QED BY <1>1, <2>1, <3>1 DEF ReceiptLife
  <2>2. CASE rcpt' = rcpt /\ todo'[b] = {i \in Instances : rcpt[i] \in Nonterminal}
    BY <2>2 DEF Nonterminal
  <2> QED BY <2>1, <2>2, BootStepMoves
<1>3. ASSUME NEW b \in Booters, bcur'[b] # NoInstance
      PROVE rcpt'[bcur'[b]] \notin {"NONE", "TORN"}
  <2>1. CASE bcur'[b] = bcur[b]
    BY <1>1, <1>3, <2>1 DEF ReceiptLife, IInv, TypeOK
  <2>2. CASE \E i \in Instances : BootRead(b, i)
    BY <1>1, <2>2 DEF BootRead, ReceiptLife, IInv, TypeOK
  <2> QED BY <1>3, <2>1, <2>2, BootStepMoves
<1>4. ASSUME pc' = "claimed"
      PROVE rcpt'[inst'] = "TORN"
  <2>1. CASE Claim
    BY <2>1 DEF Claim, Receipt, Control, MayProceed, Working, IInv, TypeOK
  <2>2. CASE pc = "claimed" /\ inst' = inst
    <3>1. inst \in Instances /\ rcpt[inst] = "TORN"
      BY <2>2 DEF Control, Working, ReceiptLife, IInv
    <3>2. ReceiptMoves(inst)
      BY <3>1, ReceiptStep
    <3>3. \A b \in Booters : inst # bcur[b]
      BY <3>1 DEF ReceiptLife
    <3> QED BY <1>4, <2>2, <3>1, <3>2, <3>3 DEF ReceiptMoves, Nonterminal
  <2> QED BY <1>4, <2>1, <2>2, DaemonControl, OthersControl DEF Working
<1>5. ASSUME pc' # "boot"
      PROVE todo'[Daemon] = {} /\ bcur'[Daemon] = NoInstance
  <2> USE ConstantsAssumption, <1>5 DEF ReceiptLife, IInv, TypeOK
  <2>1. CASE DaemonStep
    BY <2>1, DaemonFrame, DaemonControl DEF bootVars, Working
  <2>2. CASE Crash \/ DaemonStart \/ Ready
    BY <2>2 DEF Crash, DaemonStart, Ready, bootVars
  <2>3. ASSUME NEW b \in Booters, CommandStart(b) \/ BootStep(b)
        PROVE todo'[Daemon] = {} /\ bcur'[Daemon] = NoInstance
    BY <2>3 DEF CommandStart, BootScan, BootStep, BootRead, BootSettle, BootFails, daemonVars
  <2>4. ASSUME NEW i \in Instances, Receive(i)
        PROVE todo'[Daemon] = {} /\ bcur'[Daemon] = NoInstance
    BY <2>4 DEF Receive, OutsideDaemon, bootVars
  <2>5. CASE UNCHANGED <<pc, bootVars>>
    BY <2>5 DEF bootVars
  <2>6. CASE UNCHANGED vars
    BY <2>5, <2>6 DEF vars, daemonVars
  <2> QED BY <2>1, <2>2, <2>3, <2>4, <2>5, <2>6, ReaderFrame, WorldFrame
       DEF Next, daemonVars
<1> QED BY <1>2, <1>3, <1>4, <1>5 DEF ReceiptLife

-----------------------------------------------------------------------------
(* What a request knows of the attempt and of its authorization *)

\* Nobody else moves a request, or changes the manifest it works on.
LEMMA RequestUndisturbed ==
    ASSUME IInv, [Next]_vars, ~DaemonStep, pc' \in Working \ {"check"}
    PROVE /\ UNCHANGED <<pc, inst, own, Scratch>>
          /\ P' = P /\ P \in Posts /\ lock[P] = Daemon
          /\ pc # "load" => man'[P] = man[P]
<1> USE ConstantsAssumption
<1>1. UNCHANGED <<pc, inst, own, Scratch>>
  BY OthersControl
<1>2. P' = P /\ P \in Posts /\ lock[P] = Daemon
  BY <1>1 DEF P, IInv, TypeOK, Control, CopiesAreCurrent
<1>3. CopiesAreCurrent /\ CopiesAreCurrent'
  BY CopiesStep DEF IInv
<1>4. pc # "load" => man'[P] = man[P]
  BY <1>1, <1>2, <1>3 DEF CopiesAreCurrent
<1> QED BY <1>1, <1>2, <1>4

\* No step of the daemon takes a request beyond what it knows.
LEMMA RequestDaemonStep ==
    ASSUME IInv, RequestFacts, OutcomeFacts, DaemonStep
    PROVE RequestFacts'
<1> USE ConstantsAssumption
<1>1. [Next]_vars
  BY DEF Next
<1>2. P \in Posts /\ inst \in Instances /\ man[P] \in Manifest
  <2>1. pc \in Working
    BY DaemonControl
  <2> QED BY <2>1 DEF IInv, TypeOK, Control, P
<1>3. pc' # "idle" => P' = P
  BY DaemonControl DEF P
<1>4. PublicationMoves(P)
  BY <1>1, <1>2, PublicationStep
<1>5. pc' \in {"claimed", "recover"} => man'[P].attempts = 0
  BY DaemonControl DEF Claim, ClaimExists, MayProceed, fileVars
<1>6. pc' = "block" => man'[P].attempts = 0
  BY <1>2, DaemonControl, DaemonKeepsPublication DEF Revoke
<1>7. pc' \in {"event", "queueRead", "queueWrite", "settle", "settleConsumed"} =>
        man'[P].attempts = 1
  <2>1. CASE Persist
    <3>1. man[P].attempts \in {0, 1} /\ man[P].attempts # 0
      BY <1>2, <2>1 DEF Persist, IInv, OneAttempt, Manifest
    <3> QED BY <2>1, <3>1, <1>4 DEF PublicationMoves, Persist
  <2>2. CASE CheckConsumed
    BY <2>2 DEF CheckConsumed, fileVars
  <2>3. CASE Event \/ QueueRead \/ QueueWrite
    BY <2>3 DEF Event, QueueRead, QueueWrite, RequestFacts, Goto, fileVars
  <2> QED BY <2>1, <2>2, <2>3, DaemonControl
<1>8. pc' \in {"consume", "put"} => man'[P].final
  <2>1. CASE Preflight
    BY <2>1 DEF Preflight, Goto, fileVars, IInv, CopiesAreCurrent, Working
  <2>2. CASE Consume
    <3>1. own = man[P] /\ man' = [man EXCEPT ![P] = Consumed(man[P])]
      BY <2>2, DaemonSaves DEF Consume, Save
    <3>2. Consumed(man[P]).final = man[P].final
      BY <1>2 DEF Consumed, Manifest
    <3> QED BY <1>2, <2>2, <3>1, <3>2 DEF Consume, RequestFacts, IInv, TypeOK
  <2> QED BY <2>1, <2>2, DaemonControl
<1>9. superseded' = superseded
  BY DaemonFrame
<1>10. pc' \in {"claimed", "recover", "authorize", "mark", "load", "preflight",
                "consume", "put"} => P \notin superseded
  BY DaemonControl DEF RequestFacts, Claim, ClaimExists, MayProceed, WriteClaim,
     Adopt, Authorize, MarkExecuting, Load, Preflight, Consume
<1>11. \A p \in Posts : puts'[p] = 0 => putBy'[p] = NoInstance
  <2>1. CASE Put
    BY <1>2, <2>1 DEF Put, RequestFacts, IInv, TypeOK
  <2>2. CASE ~Put
    <3>1. UNCHANGED <<puts, putBy>>
      BY <2>2 DEF DaemonStep, FindFails, CheckConsumed, CheckSuperseded, Claim,
         WriteClaim, WriteClaimFails, ClaimTorn, ClaimExists, RecoverTerminal, Adopt,
         RecoverRevoked, Authorize, MarkExecuting, ReceiptGone, Load, Preflight,
         Consume, WriteFails, Response, Accepted, AcceptedEvent, Readback, Persist,
         Event, QueueRead, QueueWrite, Settle, SettleConsumed, SettleConsumedTorn,
         SettleError, Revoke, Block, RevokeUnexpected, NotifyClaim, NotifySkip,
         NotifySend, NotifyRecord, Finish, Goto, Reply, history
    <3> QED BY <3>1 DEF RequestFacts
  <2> QED BY <2>1, <2>2
<1> QED BY <1>3, <1>5, <1>6, <1>7, <1>8, <1>9, <1>10, <1>11 DEF RequestFacts

\* No step of anybody else takes away what the request knows.
LEMMA RequestOtherStep ==
    ASSUME IInv, RequestFacts, [Next]_vars, ~DaemonStep
    PROVE RequestFacts'
<1> USE ConstantsAssumption
<1>1. UNCHANGED <<puts, putBy>>
  <2>1. ASSUME NEW i \in Instances, Receive(i) PROVE UNCHANGED history
    BY <2>1 DEF Receive
  <2>2. CASE UNCHANGED vars
    BY <2>2 DEF vars, history
  <2> QED BY <2>1, <2>2, LifecycleFrame, BootFrame, ReaderFrame, WorldFrame
       DEF Next, history
<1>2. superseded' = superseded \/ \E p \in Posts : Supersede(p)
  <2>1. ASSUME NEW i \in Instances, Receive(i) PROVE superseded' = superseded
    BY <2>1 DEF Receive, fileVars
  <2>2. ASSUME NEW p \in Posts, FirstStage(p) \/ ChangeFiles(p) \/ Deliver(p) \/ Provider(p)
        PROVE superseded' = superseded
    BY <2>2 DEF FirstStage, ChangeFiles, Deliver, Provider, fileVars
  <2>3. CASE UNCHANGED vars
    BY <2>3 DEF vars, fileVars
  <2> QED BY <2>1, <2>2, <2>3, LifecycleFrame, BootFrame, ReaderFrame
       DEF Next, fileVars
<1>3. superseded' \subseteq StoryPosts
  BY <1>2 DEF RequestFacts, Supersede
<1>4. CASE pc' \in Working \ {"check"}
  <2>1. /\ UNCHANGED <<pc, inst, own, Scratch>>
        /\ P' = P /\ P \in Posts /\ lock[P] = Daemon
        /\ pc # "load" => man'[P] = man[P]
    BY <1>4, RequestUndisturbed
  <2>2. P \notin superseded => P \notin superseded'
    BY <1>2, <2>1 DEF Supersede
  <2> QED BY <1>1, <1>3, <2>1, <2>2 DEF RequestFacts
<1>5. CASE pc' \notin Working \ {"check"}
  BY <1>1, <1>3, <1>5 DEF RequestFacts, Working
<1> QED BY <1>4, <1>5

\* What the request knows holds in every step.
LEMMA RequestStep ==
    ASSUME IInv, RequestFacts, OutcomeFacts, [Next]_vars
    PROVE RequestFacts'
BY RequestDaemonStep, RequestOtherStep

-----------------------------------------------------------------------------
(* What a step may do to the provider and to the PUT *)

\* How far a step may take the provider's view of post p, and our PUT.
ProviderMoves(p) ==
    /\ \/ remote'[p] = remote[p]
       \/ remote[p] \in {"draft", "queued"} /\ remote'[p] # "draft"
    /\ \/ /\ \/ wire'[p] = wire[p]
             \/ wire[p] = "sent" /\ wire'[p] \in {"applied", "refused"}
          /\ puts'[p] = puts[p] /\ putBy'[p] = putBy[p]
       \/ /\ pc = "put" /\ pc' = "await" /\ p = P
          /\ wire'[p] = "sent" /\ puts'[p] = puts[p] + 1 /\ putBy'[p] = inst

\* Only the PUT of the daemon is sent, only the provider answers it.
LEMMA ProviderStep ==
    ASSUME IInv, [Next]_vars, NEW p \in Posts
    PROVE ProviderMoves(p)
<1> USE ConstantsAssumption
<1>1. CASE Put
  BY <1>1 DEF Put, OutsideDaemon, ProviderMoves, IInv, TypeOK
<1>2. CASE DaemonStep /\ ~Put
  <2>1. UNCHANGED <<wire, puts, putBy>>
    BY <1>2 DEF DaemonStep, FindFails, CheckConsumed, CheckSuperseded, Claim,
         WriteClaim, WriteClaimFails, ClaimTorn, ClaimExists, RecoverTerminal, Adopt,
         RecoverRevoked, Authorize, MarkExecuting, ReceiptGone, Load, Preflight,
         Consume, WriteFails, Response, Accepted, AcceptedEvent, Readback, Persist,
         Event, QueueRead, QueueWrite, Settle, SettleConsumed, SettleConsumedTorn,
         SettleError, Revoke, Block, RevokeUnexpected, NotifyClaim, NotifySkip,
         NotifySend, NotifyRecord, Finish, Goto, Reply, history
  <2> QED BY <1>2, <2>1, DaemonFrame DEF ProviderMoves
<1>3. ASSUME NEW q \in Posts, Deliver(q) \/ Provider(q) PROVE ProviderMoves(p)
  BY <1>3 DEF Deliver, Provider, ProviderMoves, history, IInv, TypeOK
<1>4. CASE UNCHANGED <<remote, wire, puts, putBy>>
  BY <1>4 DEF ProviderMoves
<1>5. ASSUME NEW q \in Posts, FirstStage(q) \/ Supersede(q) \/ ChangeFiles(q)
      PROVE UNCHANGED <<remote, wire, puts, putBy>>
  BY <1>5 DEF FirstStage, Supersede, ChangeFiles, providerVars, history
<1>6. ASSUME NEW i \in Instances, Receive(i) PROVE UNCHANGED <<remote, wire, puts, putBy>>
  BY <1>6 DEF Receive, OutsideDaemon, history
<1>7. CASE UNCHANGED vars
  BY <1>4, <1>7 DEF vars, providerVars, history
<1> QED BY <1>1, <1>2, <1>3, <1>4, <1>5, <1>6, <1>7, LifecycleFrame, BootFrame, ReaderFrame
     DEF Next, providerVars, history

\* The PUT is made of a post nothing was sent for, so what the provider bears
\* out it goes on bearing out.
LEMMA BorneOutStays ==
    ASSUME IInv, OutcomeFacts, [Next]_vars, NEW p \in Posts
    PROVE \A s : BorneOut(p, s) => BorneOut(p, s)'
<1>1. ProviderMoves(p)
  BY ProviderStep
<1>2. pc = "put" /\ p = P => wire[p] = "none"
  BY DEF IInv, OneAttempt, OutcomeFacts
<1> QED BY <1>1, <1>2 DEF ProviderMoves, BorneOut

\* PUBLISHED and FAILED are final, and so is an attempt's being settled.
LEMMA FinalStays ==
    ASSUME IInv, [Next]_vars, NEW p \in Posts
    PROVE /\ man[p].state \in {"PUBLISHED", "FAILED"} => man'[p].state = man[p].state
          /\ man[p].attempts = 1 => man'[p].attempts = 1
          /\ man[p].state \notin {"NOT_REQUESTED", "PUBLISH_IN_FLIGHT", "UNKNOWN"} =>
               man'[p].state \notin {"NOT_REQUESTED", "PUBLISH_IN_FLIGHT", "UNKNOWN"}
BY PublicationStep DEF PublicationMoves

\* What a manifest claims is true in every step.
LEMMA TruthStep ==
    ASSUME IInv, OutcomeFacts, TruthfulStates, \A r \in Readers : ReaderFacts(r), [Next]_vars
    PROVE TruthfulStates'
<1> SUFFICES ASSUME NEW p \in Posts PROVE BorneOut(p, man[p].state)'
  BY DEF TruthfulStates
<1>1. \A s : BorneOut(p, s) => BorneOut(p, s)'
  BY BorneOutStays
<1>2. PublicationMoves(p)
  BY PublicationStep
<1>3. BorneOut(p, man[p].state)
  BY DEF TruthfulStates
<1>4. pc = "persist" /\ p = P => BorneOut(p, verdict)
  BY DEF OutcomeFacts
<1>5. \A r \in Readers : rpc[r] = "persist" /\ p = rpost[r] => BorneOut(p, rnew[r])
  BY DEF ReaderFacts
<1>6. BorneOut(p, man'[p].state)
  BY <1>2, <1>3, <1>4, <1>5 DEF PublicationMoves, BorneOut
<1> QED BY <1>1, <1>6 DEF BorneOut

-----------------------------------------------------------------------------
(* What the daemon and the readers hold in memory of an outcome *)

\* What promote_once may answer says what became of the PUT.
LEMMA AnswersAreTrue ==
    ASSUME NEW w \in WireStates, NEW d \in Answers(w)
    PROVE (d = "accepted" => w = "applied") /\ (d = "rejected" => w = "refused")
BY Zenon DEF Answers, WireStates

\* Whatever the readback yields is borne out by the provider.
LEMMA VerdictsAreTrue ==
    ASSUME NEW p \in Posts, remote[p] \in RemoteStates,
           put = "rejected" => wire[p] = "refused",
           NEW v \in {Clarified(put, truth) : truth \in Classify(remote[p])}
                       \cup {Unclarified(put)}
    PROVE BorneOut(p, v)
<1>1. CASE v = Unclarified(put)
  BY <1>1 DEF Unclarified, BorneOut
<1>2. ASSUME NEW truth \in Classify(remote[p]), v = Clarified(put, truth)
      PROVE BorneOut(p, v)
  <2>1. BorneOut(p, truth)
    BY DEF Classify, RemoteStates, BorneOut
  <2> QED BY <1>2, <2>1 DEF Clarified, BorneOut
<1> QED BY <1>1, <1>2

\* The queue copies only ever hold what the queue file held.
LEMMA CopyStep ==
    ASSUME IInv, OutcomeFacts, LedgerIsTrue, [Next]_vars
    PROVE \A p \in dq' : man'[p].state = "PUBLISHED"
<1>1. dq' \subseteq dq \cup queue
  <2>1. CASE DaemonStep
    BY <2>1 DEF DaemonStep, FindFails, CheckConsumed, CheckSuperseded, Claim,
         WriteClaim, WriteClaimFails, ClaimTorn, ClaimExists, RecoverTerminal, Adopt,
         RecoverRevoked, Authorize, MarkExecuting, ReceiptGone, Load, Preflight,
         Consume, WriteFails, Put, Response, Accepted, AcceptedEvent, Readback,
         Persist, Event, QueueRead, QueueWrite, Settle, SettleConsumed,
         SettleConsumedTorn, SettleError, Revoke, Block, RevokeUnexpected,
         NotifyClaim, NotifySkip, NotifySend, NotifyRecord, Finish, Goto, Reply,
         Scratch
  <2>2. CASE Crash \/ DaemonStart \/ Ready
    BY <2>2 DEF Crash, Dead, DaemonStart, Ready, Scratch
  <2>3. ASSUME NEW i \in Instances, Receive(i) PROVE dq' = dq
    BY <2>3 DEF Receive, Scratch
  <2>4. CASE UNCHANGED vars
    BY <2>4 DEF vars, daemonVars
  <2> QED BY <2>1, <2>2, <2>3, <2>4, BootFrame, ReaderFrame, WorldFrame
       DEF Next, Scratch, daemonVars
<1>2. dq \cup queue \subseteq Posts
  BY DEF IInv, TypeOK
<1>3. \A p \in dq \cup queue : man[p].state = "PUBLISHED"
  BY <1>2 DEF OutcomeFacts, LedgerIsTrue
<1> QED BY <1>1, <1>2, <1>3, FinalStays

\* The wire knows of every PUT, and of no other.
LEMMA WireStep ==
    ASSUME IInv, OutcomeFacts, [Next]_vars
    PROVE \A p \in Posts : wire'[p] = "none" <=> puts'[p] = 0
<1> SUFFICES ASSUME NEW p \in Posts PROVE wire'[p] = "none" <=> puts'[p] = 0
  OBVIOUS
<1>1. puts[p] \in Nat
  BY DEF IInv, TypeOK
<1> QED BY <1>1, ProviderStep DEF ProviderMoves, OutcomeFacts

\* No step of the daemon makes it believe what is not so.
LEMMA OutcomeDaemonStep ==
    ASSUME IInv, RequestFacts, OutcomeFacts, LedgerIsTrue, DaemonStep
    PROVE OutcomeFacts'
<1> USE ConstantsAssumption
<1>1. [Next]_vars
  BY DEF Next
<1>2. /\ P \in Posts /\ inst \in Instances /\ man[P] \in Manifest
      /\ wire[P] \in WireStates /\ remote[P] \in RemoteStates /\ remote' = remote
  <2>1. pc \in Working
    BY DaemonControl
  <2> QED BY <2>1, DaemonFrame DEF IInv, TypeOK, Control, P
<1>3. pc' # "idle" => P' = P
  BY DaemonControl DEF P
<1>4. pc' \in {"accept", "acceptEvent"} => put' = "accepted"
  BY DaemonControl DEF Response, Accepted, Goto, Scratch, OutcomeFacts
<1>5. ASSUME pc' \in {"accept", "acceptEvent", "readback", "persist"}
      PROVE /\ put' = "accepted" => wire'[P] = "applied"
            /\ put' = "rejected" => wire'[P] = "refused"
  <2>1. CASE Response
    BY <1>2, <2>1, AnswersAreTrue DEF Response
  <2>2. CASE Accepted \/ AcceptedEvent \/ Readback
    BY <2>2 DEF Accepted, AcceptedEvent, Readback, Scratch, OutcomeFacts
  <2> QED BY <1>5, <2>1, <2>2, DaemonControl
<1>6. ASSUME pc' = "persist"
      PROVE BorneOut(P, verdict') /\ UNCHANGED <<wire, remote>>
  <2>1. Readback
    BY <1>6, DaemonControl
  <2>2. UNCHANGED <<wire, remote>> /\ (put = "rejected" => wire[P] = "refused")
    BY <1>2, <2>1 DEF Readback, OutcomeFacts
  <2> QED BY <1>2, <2>1, <2>2, VerdictsAreTrue DEF Readback
<1>7. ASSUME pc' = "event" PROVE man'[P].state = verdict'
  <2>1. Persist /\ own = man[P]
    BY <1>7, DaemonControl, DaemonSaves
  <2>2. man' = [man EXCEPT ![P] = Outcome(man[P], verdict)] /\ verdict' = verdict
    BY <2>1 DEF Persist, Save, Scratch
  <2>3. Outcome(man[P], verdict).state = verdict
    BY <1>2, UpdatesFields
  <2> QED BY <1>2, <2>2, <2>3 DEF IInv, TypeOK
<1>8. pc' \in {"queueRead", "queueWrite"} => man'[P].state = "PUBLISHED"
  BY DaemonControl DEF Event, QueueRead, Goto, fileVars, OutcomeFacts
<1>9. pc' = "settle" => man'[P].state \in Verdicts \ {"UNKNOWN"}
  <2>1. CASE Event
    BY <2>1 DEF Event, OutcomeFacts, IInv, TypeOK, Control
  <2>2. CASE QueueWrite
    BY <2>2 DEF QueueWrite, OutcomeFacts, Verdicts
  <2> QED BY <2>1, <2>2, DaemonControl
<1>10. pc' = "persist" => BorneOut(P, verdict)'
  BY <1>3, <1>6 DEF BorneOut
<1> QED BY <1>1, <1>3, <1>4, <1>5, <1>7, <1>8, <1>9, <1>10, CopyStep, WireStep
     DEF OutcomeFacts

\* What the daemon believes stays true whatever the others do.
LEMMA OutcomeOtherStep ==
    ASSUME IInv, OutcomeFacts, LedgerIsTrue, [Next]_vars, ~DaemonStep
    PROVE OutcomeFacts'
<1>1. CASE pc' \in Working \ {"check"}
  <2>1. /\ UNCHANGED <<pc, inst, own, Scratch>>
        /\ P' = P /\ P \in Posts
        /\ pc # "load" => man'[P] = man[P]
    BY <1>1, RequestUndisturbed
  <2>2. ProviderMoves(P) /\ \A s : BorneOut(P, s) => BorneOut(P, s)'
    BY <2>1, ProviderStep, BorneOutStays
  <2>3. pc = "persist" => BorneOut(P, verdict)'
    BY <2>1, <2>2 DEF OutcomeFacts, BorneOut, Scratch
  <2> QED BY <2>1, <2>2, <2>3, CopyStep, WireStep DEF OutcomeFacts, Scratch, ProviderMoves
<1>2. CASE pc' \notin Working \ {"check"}
  BY <1>2, CopyStep, WireStep DEF OutcomeFacts, Working
<1> QED BY <1>1, <1>2

\* Nothing but a reader's own step moves the reader.
LEMMA ReaderUndisturbed ==
    ASSUME IInv, [Next]_vars, NEW r \in Readers,
           \A p \in Posts : ~ReadStart(r, p), ~ReadStep(r), ~ReadEnd(r)
    PROVE /\ rpc'[r] = rpc[r] /\ rpost'[r] = rpost[r] /\ rnew'[r] = rnew[r]
          /\ rtodo'[r] = rtodo[r] /\ rq'[r] = rq[r]
<1>1. ASSUME NEW c \in Readers, c # r,
             (\E p \in Posts : ReadStart(c, p)) \/ ReadStep(c) \/ ReadEnd(c)
      PROVE /\ rpc'[r] = rpc[r] /\ rpost'[r] = rpost[r] /\ rnew'[r] = rnew[r]
            /\ rtodo'[r] = rtodo[r] /\ rq'[r] = rq[r]
  <2> USE <1>1 DEF IInv, TypeOK
  <2>1. ASSUME NEW p \in Posts, ReadStart(c, p)
        PROVE /\ rpc'[r] = rpc[r] /\ rpost'[r] = rpost[r] /\ rnew'[r] = rnew[r]
              /\ rtodo' = rtodo /\ rq' = rq
    BY <2>1 DEF ReadStart
  <2>2. CASE ReadEnd(c)
    BY <2>2 DEF ReadEnd
  <2>3. CASE ReadTruth(c) \/ ReadPersist(c) \/ ReadEvent(c) \/ ReadQueue(c)
    BY <2>3 DEF ReadTruth, ReadPersist, ReadEvent, ReadQueue
  <2>4. CASE ReadQueueWrite(c) \/ ReadScan(c) \/ \E i \in Instances : Converge(c, i)
    BY <2>4 DEF ReadQueueWrite, ReadScan, Converge
  <2> QED BY <2>1, <2>2, <2>3, <2>4 DEF ReadStep
<1>2. ASSUME NEW i \in Instances, Receive(i) PROVE UNCHANGED readerVars
  BY <1>2 DEF Receive, OutsideDaemon
<1>3. CASE UNCHANGED vars
  BY <1>3 DEF vars, readerVars
<1> QED BY <1>1, <1>2, <1>3, DaemonFrame, LifecycleFrame, BootFrame, WorldFrame
     DEF Next, readerVars

\* The readers' memory of an outcome is true in every step.
LEMMA ReaderFactsStep ==
    ASSUME IInv, OutcomeFacts, LedgerIsTrue, [Next]_vars,
           NEW r \in Readers, ReaderFacts(r)
    PROVE ReaderFacts(r)'
<1> USE ConstantsAssumption
<1> DEFINE p == rpost[r]
<1>1. /\ p \in Posts /\ remote[p] \in RemoteStates
      /\ rnew[r] \in {"NONE", "PUBLISHED", "FAILED", "PUBLISHED_CORRECTED"}
      /\ rq[r] \subseteq Posts /\ queue \subseteq Posts /\ man[p] \in Manifest
  BY DEF IInv, TypeOK
<1>2. \A q \in Posts : man[q].state \in {"PUBLISHED", "FAILED"} =>
                         man'[q].state = man[q].state
  BY FinalStays
<1>3. \A q \in Posts : \A s : BorneOut(q, s) => BorneOut(q, s)'
  BY BorneOutStays
<1>4. rpc[r] \notin {"idle", "get"} => rnew[r] # "NONE"
  BY DEF IInv, Control
<1>5. CASE \A q \in Posts : ~ReadStart(r, q) /\ ~ReadStep(r) /\ ~ReadEnd(r)
  <2>1. /\ rpc'[r] = rpc[r] /\ rpost'[r] = rpost[r] /\ rnew'[r] = rnew[r]
        /\ rtodo'[r] = rtodo[r] /\ rq'[r] = rq[r]
    BY <1>1, <1>5, ReaderUndisturbed
  <2>2. BorneOut(p, rnew[r]) => BorneOut(rpost[r], rnew[r])'
    BY <1>1, <1>3, <2>1 DEF BorneOut
  <2> QED BY <1>1, <1>2, <2>1, <2>2 DEF ReaderFacts
<1>6. ASSUME NEW q \in Posts, ReadStart(r, q) PROVE ReaderFacts(r)'
  BY <1>1, <1>2, <1>6 DEF ReadStart, ReaderFacts, IInv, TypeOK
<1>7. CASE ReadEnd(r)
  BY <1>7 DEF ReadEnd, ReaderFacts, IInv, TypeOK
<1>8. CASE ReadTruth(r)
  <2>1. /\ rpc[r] = "get" /\ rpc'[r] = "persist" /\ rpost' = rpost /\ rtodo' = rtodo /\ rq' = rq
        /\ UNCHANGED <<man, remote, wire>>
    BY <1>8 DEF ReadTruth, fileVars, OutsideReader, providerVars, IInv, TypeOK
  <2>2. /\ rnew'[r] \in Classify(remote[p]) \/ rnew'[r] = "PUBLISHED_CORRECTED"
        /\ rnew'[r] = "PUBLISHED_CORRECTED" => rnew[r] = "PUBLISHED_CORRECTED"
    BY <1>8 DEF ReadTruth, IInv, TypeOK
  <2>3. BorneOut(p, rnew'[r])
    BY <1>1, <2>2 DEF BorneOut, Classify, RemoteStates
  <2>4. BorneOut(rpost[r], rnew[r])'
    BY <2>1, <2>3 DEF BorneOut
  <2> QED BY <2>1, <2>2, <2>4 DEF ReaderFacts
<1>9. CASE ReadPersist(r)
  <2>1. /\ rpc[r] = "persist" /\ rpc'[r] = "event"
        /\ UNCHANGED <<rpost, rnew, rtodo, rq>>
        /\ rman[r] = man[p]
    BY <1>9 DEF ReadPersist, IInv, TypeOK, CopiesAreCurrent
  <2>2. man'[p] = IF rnew[r] = "PUBLISHED_CORRECTED" THEN man[p] ELSE Outcome(man[p], rnew[r])
    BY <1>1, <1>9, <2>1 DEF ReadPersist, IInv, TypeOK
  <2>3. Outcome(man[p], rnew[r]).state = rnew[r]
    BY <1>1, UpdatesFields
  <2>4. man'[p].state = IF rnew[r] = "FAILED" THEN "FAILED" ELSE "PUBLISHED"
    BY <1>1, <1>4, <2>1, <2>2, <2>3 DEF ReaderFacts
  <2>5. \A q \in rq[r] : man'[q].state = "PUBLISHED"
    BY <1>1, <1>2 DEF ReaderFacts
  <2>6. rpost'[r] = p /\ rnew'[r] = rnew[r] /\ rtodo'[r] = rtodo[r] /\ rq'[r] = rq[r]
    BY <2>1
  <2> QED BY <2>1, <2>4, <2>5, <2>6 DEF ReaderFacts
<1>10. CASE ReadEvent(r)
  BY <1>10 DEF ReadEvent, ReaderFacts, IInv, TypeOK
<1>11. CASE ReadQueue(r)
  <2>1. /\ rpc[r] = "queueRead" /\ rpc'[r] = "queueWrite" /\ rq'[r] = queue
        /\ UNCHANGED <<man, rpost, rnew, rtodo>>
    BY <1>11 DEF ReadQueue, IInv, TypeOK, fileVars
  <2>2. \A q \in queue : man[q].state = "PUBLISHED"
    BY <1>1 DEF LedgerIsTrue
  <2> QED BY <2>1, <2>2 DEF ReaderFacts
<1>12. CASE ReadQueueWrite(r)
  BY <1>12 DEF ReadQueueWrite, ReaderFacts, IInv, TypeOK
<1>13. CASE ReadScan(r)
  BY <1>13 DEF ReadScan, ReaderFacts, IInv, TypeOK, fileVars
<1>14. ASSUME NEW i \in Instances, Converge(r, i) PROVE ReaderFacts(r)'
  BY <1>14 DEF Converge, ReaderFacts, IInv, TypeOK
<1> QED BY <1>5, <1>6, <1>7, <1>8, <1>9, <1>10, <1>11, <1>12, <1>13, <1>14 DEF ReadStep

-----------------------------------------------------------------------------
(* The ledger and the queue *)

\* Only the daemon's and the readers' rows reach the ledger and the queue.
LEMMA RowsStep ==
    ASSUME [Next]_vars
    PROVE /\ \/ ledger' = ledger
             \/ AcceptedEvent \/ Event
             \/ \E r \in Readers : ReadEvent(r)
          /\ \/ queue' = queue
             \/ QueueWrite
             \/ \E r \in Readers : ReadQueueWrite(r)
<1>1. CASE DaemonStep /\ ~AcceptedEvent /\ ~Event /\ ~QueueWrite
  BY <1>1 DEF DaemonStep, FindFails, CheckConsumed, CheckSuperseded, Claim,
       WriteClaim, WriteClaimFails, ClaimTorn, ClaimExists, RecoverTerminal, Adopt,
       RecoverRevoked, Authorize, MarkExecuting, ReceiptGone, Load, Preflight,
       Consume, WriteFails, Put, Response, Accepted, Readback, Persist, QueueRead,
       Settle, SettleConsumed, SettleConsumedTorn, SettleError, Revoke, Block,
       RevokeUnexpected, NotifyClaim, NotifySkip, NotifySend, NotifyRecord, Finish,
       Goto, fileVars
<1>2. CASE AcceptedEvent \/ Event \/ QueueWrite
  BY <1>2 DEF AcceptedEvent, Event, QueueWrite
<1>3. ASSUME NEW r \in Readers,
             (\E p \in Posts : ReadStart(r, p)) \/ ReadStep(r) \/ ReadEnd(r)
      PROVE /\ ledger' = ledger \/ ReadEvent(r)
            /\ queue' = queue \/ ReadQueueWrite(r)
  BY <1>3 DEF ReadStart, ReadStep, ReadEnd, ReadTruth, ReadPersist, ReadEvent,
     ReadQueue, ReadQueueWrite, ReadScan, Converge, fileVars
<1>4. ASSUME NEW i \in Instances, Receive(i) PROVE UNCHANGED <<ledger, queue>>
  BY <1>4 DEF Receive, fileVars
<1>5. CASE UNCHANGED vars
  BY <1>5 DEF vars, fileVars
<1> QED BY <1>1, <1>2, <1>3, <1>4, <1>5, LifecycleFrame, BootFrame, WorldFrame
     DEF Next, fileVars

\* No row is ever written that the manifest and the provider do not bear out,
\* and none is ever belied.
LEMMA LedgerStep ==
    ASSUME IInv, RequestFacts, OutcomeFacts, LedgerIsTrue,
           \A r \in Readers : ReaderFacts(r), [Next]_vars
    PROVE LedgerIsTrue'
<1> USE ConstantsAssumption
<1> SUFFICES ASSUME NEW p \in Posts
             PROVE /\ <<p, "PUBLISH_ACCEPTED">> \in ledger' => wire'[p] = "applied"
                   /\ <<p, "PUBLISHED">> \in ledger' => man'[p].state = "PUBLISHED"
                   /\ <<p, "PUBLISHED_CORRECTED">> \in ledger' => man'[p].state = "PUBLISHED"
                   /\ <<p, "FAILED">> \in ledger' => man'[p].state = "FAILED"
                   /\ p \in queue' => man'[p].state = "PUBLISHED"
  BY DEF LedgerIsTrue
<1>1. man[p].state \in {"PUBLISHED", "FAILED"} => man'[p].state = man[p].state
  BY FinalStays
<1>2. wire[p] = "applied" => wire'[p] = "applied"
  BY ProviderStep DEF ProviderMoves, IInv, OneAttempt, OutcomeFacts
<1>3. \A e \in Events : <<p, e>> \in ledger' =>
        \/ <<p, e>> \in ledger
        \/ e = "PUBLISH_ACCEPTED" /\ wire[p] = "applied"
        \/ e # "PUBLISH_ACCEPTED" /\ e # "PUBLISHED_CORRECTED" /\ man[p].state = e
        \/ e = "PUBLISHED_CORRECTED" /\ man[p].state = "PUBLISHED"
  <2>1. CASE AcceptedEvent
    BY <2>1 DEF AcceptedEvent, OutcomeFacts
  <2>2. CASE Event
    BY <2>2 DEF Event, OutcomeFacts, IInv, TypeOK, Verdicts
  <2>3. ASSUME NEW r \in Readers, ReadEvent(r)
        PROVE \A e \in Events : <<p, e>> \in ledger' =>
                \/ <<p, e>> \in ledger
                \/ e \in {"PUBLISHED", "FAILED"} /\ man[p].state = e
                \/ e = "PUBLISHED_CORRECTED" /\ man[p].state = "PUBLISHED"
    <3>1. ledger' = ledger \cup {<<rpost[r], rnew[r]>>} /\ rpc[r] = "event"
      BY <2>3 DEF ReadEvent
    <3>2. rnew[r] \in {"PUBLISHED", "FAILED", "PUBLISHED_CORRECTED"}
      BY <3>1 DEF IInv, TypeOK, Control
    <3>3. man[rpost[r]].state = IF rnew[r] = "FAILED" THEN "FAILED" ELSE "PUBLISHED"
      BY <3>1 DEF ReaderFacts
    <3> QED BY <3>1, <3>2, <3>3
  <2> QED BY <2>1, <2>2, <2>3, RowsStep
<1>4. p \in queue' => p \in queue \/ man[p].state = "PUBLISHED"
  <2>1. CASE QueueWrite
    BY <2>1 DEF QueueWrite, OutcomeFacts
  <2>2. ASSUME NEW r \in Readers, ReadQueueWrite(r)
        PROVE p \in queue' => p \in queue \/ man[p].state = "PUBLISHED"
    BY <2>2 DEF ReadQueueWrite, ReaderFacts
  <2> QED BY <2>1, <2>2, RowsStep
<1> QED BY <1>1, <1>2, <1>3, <1>4 DEF LedgerIsTrue, Events

-----------------------------------------------------------------------------
(* Receipts that are dead, and answers *)

\* A terminal receipt is only ever moved from PUBLISHING to what it became.
LEMMA TerminalStep ==
    ASSUME IInv, ReceiptLife, [Next]_vars
    PROVE TerminalStays
<1> SUFFICES ASSUME NEW i \in Instances, rcpt[i] \in Terminal
             PROVE \/ rcpt'[i] = rcpt[i]
                   \/ /\ rcpt[i] = "SETTLED_PUBLISHING"
                      /\ rcpt'[i] \in {"SETTLED_PUBLISHED", "SETTLED_FAILED"}
  BY DEF TerminalStays
<1>1. {"NONE", "TORN", "RECEIVED", "EXECUTING"} \cap Terminal = {}
  BY DEF Terminal
<1> QED BY <1>1, ReceiptStep DEF ReceiptMoves, ReceiptLife, Nonterminal

\* A terminal receipt stays terminal.
LEMMA TerminalForever ==
    ASSUME IInv, ReceiptLife, [Next]_vars, NEW i \in Instances, rcpt[i] \in Terminal
    PROVE rcpt'[i] \in Terminal
BY TerminalStep DEF TerminalStays, Terminal

\* How far a step of the daemon may take the answer it prepares.
LEMMA DaemonAnswers ==
    ASSUME DaemonStep
    PROVE \/ answer' = "none"
          \/ /\ answer' = answer /\ inst' = inst
             /\ pc \in {"notify", "sending", "sent", "reply"} =>
                  pc' \in {"notify", "sending", "sent", "reply"}
          \/ Settle \/ SettleConsumed
          \/ answer' \in {"code2", "code3"} /\ pc' \in {"notify", "reply"}
BY DEF DaemonStep, FindFails, CheckConsumed, CheckSuperseded, Claim, WriteClaim,
       WriteClaimFails, ClaimTorn, ClaimExists, RecoverTerminal, Adopt,
       RecoverRevoked, Authorize, MarkExecuting, ReceiptGone, Load, Preflight,
       Consume, WriteFails, Put, Response, Accepted, AcceptedEvent, Readback,
       Persist, Event, QueueRead, QueueWrite, Settle, SettleConsumed,
       SettleConsumedTorn, SettleError, Revoke, Block, RevokeUnexpected,
       NotifyClaim, NotifySkip, NotifySend, NotifyRecord, Finish, Goto, Reply,
       MayProceed, Scratch

\* Outside a request no answer is prepared.
LEMMA NoAnswerOutside ==
    ASSUME IInv, ReceiptLife, AnswerFacts, [Next]_vars, ~DaemonStep,
           pc' \notin Working \ {"check"}
    PROVE answer' = "none"
<1> USE ConstantsAssumption DEF AnswerFacts
<1>1. ASSUME NEW i \in Instances, Receive(i) PROVE answer' = "none"
  BY <1>1 DEF Receive, Scratch
<1>2. CASE Crash \/ DaemonStart \/ Ready
  BY <1>2 DEF Crash, Dead, DaemonStart, Ready, Scratch
<1>3. ASSUME NEW b \in Booters, CommandStart(b) \/ BootStep(b) PROVE answer' = "none"
  <2>1. CASE pc' = pc
    BY <1>3, <2>1, BootFrame DEF Scratch, Working
  <2>2. CASE pc' # pc
    <3>1. b = Daemon /\ BootFails(Daemon)
      BY <1>3, <2>2 DEF CommandStart, BootStep, BootRead, BootSettle, BootFails, daemonVars
    <3>2. pc = "boot"
      BY <3>1 DEF BootFails, ReceiptLife
    <3> QED BY <1>3, <3>2, BootFrame DEF Scratch
  <2> QED BY <2>1, <2>2
<1>4. CASE UNCHANGED daemonVars
  BY <1>4 DEF daemonVars, Working
<1>5. CASE UNCHANGED vars
  BY <1>4, <1>5 DEF vars
<1> QED BY <1>1, <1>2, <1>3, <1>4, <1>5, ReaderFrame, WorldFrame DEF Next

\* An answer is only ever prepared of a settled receipt.
LEMMA AnswerStep ==
    ASSUME IInv, ReceiptLife, RequestFacts, OutcomeFacts, AnswerFacts, [Next]_vars
    PROVE AnswerFacts'
<1> USE ConstantsAssumption
<1>1. CASE DaemonStep
  <2>1. P \in Posts /\ inst \in Instances
    <3>1. pc \in Working
      BY <1>1, DaemonControl
    <3> QED BY <3>1 DEF IInv, TypeOK, Control, P
  <2>2. /\ rcpt[inst] \in Terminal => rcpt'[inst] \in Terminal
        /\ man[P].attempts = 1 => man'[P].attempts = 1
        /\ man[P].state \notin {"NOT_REQUESTED", "PUBLISH_IN_FLIGHT", "UNKNOWN"} =>
             man'[P].state \notin {"NOT_REQUESTED", "PUBLISH_IN_FLIGHT", "UNKNOWN"}
    BY <2>1, TerminalForever, FinalStays
  <2>3. man[P].attempts = 1 => man[P].state # "NOT_REQUESTED"
    BY <2>1 DEF IInv, OneAttempt
  <2>4. CASE Settle
    <3>1. rcpt'[inst] \in Terminal
      BY <2>1, <2>4, SettledAsTerminal DEF Settle, Receipt, IInv, TypeOK
    <3> QED BY <2>1, <2>2, <2>4, <3>1
            DEF Settle, AnswerFacts, P, RequestFacts, OutcomeFacts, Verdicts
  <2>5. CASE SettleConsumed
    <3>1. rcpt'[inst] \in Terminal
      BY <2>1, <2>5, SettledAsTerminal DEF SettleConsumed, Receipt, Settled, IInv, TypeOK
    <3> QED BY <2>1, <2>2, <2>5, <3>1 DEF SettleConsumed, AnswerFacts, P, RequestFacts
  <2>6. CASE answer' = answer /\ inst' = inst
             /\ (pc \in {"notify", "sending", "sent", "reply"} =>
                   pc' \in {"notify", "sending", "sent", "reply"})
    BY <2>2, <2>3, <2>6 DEF AnswerFacts, P
  <2>7. CASE answer' \in {"code2", "code3"} /\ pc' \in {"notify", "reply"}
    BY <2>7 DEF AnswerFacts
  <2>8. CASE answer' = "none"
    BY <2>8 DEF AnswerFacts
  <2> QED BY <1>1, <2>4, <2>5, <2>6, <2>7, <2>8, DaemonAnswers
<1>2. CASE ~DaemonStep /\ pc' \in Working \ {"check"}
  <2>1. /\ UNCHANGED <<pc, inst, own, Scratch>>
        /\ P' = P /\ P \in Posts
        /\ pc # "load" => man'[P] = man[P]
    BY <1>2, RequestUndisturbed
  <2>2. inst \in Instances
    BY <1>2, <2>1 DEF IInv, Control
  <2>3. rcpt[inst] \in Terminal => rcpt'[inst] \in Terminal
    BY <2>2, TerminalForever
  <2> QED BY <2>1, <2>3 DEF AnswerFacts, Scratch
<1>3. CASE ~DaemonStep /\ pc' \notin Working \ {"check"}
  BY <1>3, NoAnswerOutside DEF AnswerFacts
<1> QED BY <1>1, <1>2, <1>3

\* How far a step may take what an instance was told.
LEMMA ToldStep ==
    ASSUME IInv, [Next]_vars, NEW i \in Instances
    PROVE \/ told'[i] = told[i]
          \/ told'[i] \in {"code2", "code3"}
          \/ Finish /\ i = inst
<1> USE ConstantsAssumption DEF IInv, TypeOK
<1>1. CASE \/ FindFails \/ CheckSuperseded \/ WriteClaimFails \/ ClaimTorn
           \/ RecoverTerminal \/ RecoverRevoked \/ ReceiptGone \/ SettleConsumedTorn
  BY <1>1 DEF FindFails, CheckSuperseded, WriteClaimFails, ClaimTorn,
       RecoverTerminal, RecoverRevoked, ReceiptGone, SettleConsumedTorn, Reply
<1>2. CASE Finish
  BY <1>2 DEF Finish, Reply
<1>3. CASE /\ DaemonStep /\ ~FindFails /\ ~CheckSuperseded /\ ~WriteClaimFails
           /\ ~ClaimTorn /\ ~RecoverTerminal /\ ~RecoverRevoked /\ ~ReceiptGone
           /\ ~SettleConsumedTorn /\ ~Finish
  BY <1>3 DEF DaemonStep, CheckConsumed, Claim, WriteClaim, ClaimExists, Adopt,
       Authorize, MarkExecuting, Load, Preflight, Consume, WriteFails, Put, Response,
       Accepted, AcceptedEvent, Readback, Persist, Event, QueueRead, QueueWrite,
       Settle, SettleConsumed, SettleError, Revoke, Block, RevokeUnexpected,
       NotifyClaim, NotifySkip, NotifySend, NotifyRecord, Goto, history
<1>4. ASSUME NEW j \in Instances, Receive(j) PROVE told' = told
  BY <1>4 DEF Receive, history
<1>5. CASE UNCHANGED vars
  BY <1>5 DEF vars, history
<1> QED BY <1>1, <1>2, <1>3, <1>4, <1>5, LifecycleFrame, BootFrame, ReaderFrame, WorldFrame
     DEF Next, history

\* Nobody is told of an answer the provider has not given.
LEMMA AnsweredStep ==
    ASSUME IInv, ReceiptLife, AnswerFacts, AnsweredIsSettled, [Next]_vars
    PROVE AnsweredIsSettled'
<1> USE ConstantsAssumption
<1> SUFFICES ASSUME NEW i \in Instances, told'[i] = "code0"
             PROVE /\ rcpt'[i] \in Terminal
                   /\ man'[PostOf[i]].attempts = 1
                   /\ man'[PostOf[i]].state \notin {"PUBLISH_IN_FLIGHT", "UNKNOWN"}
  BY DEF AnsweredIsSettled
<1>1. PostOf[i] \in Posts
  OBVIOUS
<1>2. /\ rcpt[i] \in Terminal /\ man[PostOf[i]].attempts = 1
      /\ man[PostOf[i]].state \notin {"PUBLISH_IN_FLIGHT", "UNKNOWN"}
  <2>1. CASE told[i] = "code0"
    BY <2>1 DEF AnsweredIsSettled
  <2>2. CASE Finish /\ i = inst
    <3>1. answer = "code0" \/ (answer = "byState" /\ CodeFor(man[P].state) = "code0")
      BY <2>2 DEF Finish, Reply, IInv, TypeOK
    <3>2. CodeFor(man[P].state) = "code0" =>
            man[P].state \notin {"PUBLISH_IN_FLIGHT", "UNKNOWN"}
      BY DEF CodeFor
    <3> QED BY <2>2, <3>1, <3>2 DEF AnswerFacts, P
  <2> QED BY <2>1, <2>2, ToldStep
<1>3. man[PostOf[i]].state # "NOT_REQUESTED"
  BY <1>1, <1>2 DEF IInv, OneAttempt
<1> QED BY <1>1, <1>2, <1>3, TerminalForever, FinalStays

-----------------------------------------------------------------------------
(* Receipts and authorizations, when only the daemon reconciles at boot *)

\* What a receipt is settled as agrees with the manifest it is settled from.
LEMMA SettledAgrees ==
    ASSUME NEW i \in Instances, man[PostOf[i]].state \in PubStates \ {"NOT_REQUESTED"}
    PROVE Agrees(i, SettledAs(man[PostOf[i]].state))
BY DEF Agrees, SettledAs, PubStates

\* What agrees with a manifest goes on agreeing: nothing says UNKNOWN of an
\* attempt whose outcome is still to be written, or BLOCKED of the instance
\* about to send.
LEMMA AgreesStays ==
    ASSUME IInv, [Next]_vars, NEW i \in Instances, NEW r, Agrees(i, r),
           pc = "persist" /\ PostOf[i] = P => r # "SETTLED_UNKNOWN",
           pc = "put" /\ i = inst => r # "SETTLED_BLOCKED"
    PROVE Agrees(i, r)'
<1>1. PostOf[i] \in Posts
  BY ConstantsAssumption
<1>2. PublicationMoves(PostOf[i]) /\ ProviderMoves(PostOf[i])
  BY <1>1, PublicationStep, ProviderStep
<1>3. r = "SETTLED_BLOCKED" => putBy'[PostOf[i]] # i
  BY <1>2 DEF ProviderMoves, Agrees
<1>4. CASE r = "SETTLED_BLOCKED"
  BY <1>3, <1>4 DEF Agrees
<1>5. CASE r # "SETTLED_BLOCKED"
  BY <1>2, <1>5 DEF PublicationMoves, Agrees
<1> QED BY <1>4, <1>5

\* The receipts the request and the boot reconciliation rely on.
LEMMA ReceiptFactsStep ==
    ASSUME Booters = {Daemon}, IInv, ReceiptLife, RequestFacts, ReceiptFacts,
           ReceiptMatches, [Next]_vars
    PROVE ReceiptFacts'
<1> USE ConstantsAssumption
<1>1. \A i \in Instances : pc # "boot" => \A b \in Booters : i # bcur[b]
  BY DEF ReceiptLife
<1>2. CASE DaemonStep
  <2>1. pc \in Working /\ inst \in Instances /\ P \in Posts
    <3>1. pc \in Working
      BY <1>2, DaemonControl
    <3> QED BY <3>1 DEF IInv, TypeOK, Control, P
  <2>2. pc' # "idle" => inst' = inst /\ P' = P
    BY <1>2, DaemonControl DEF P
  <2>3. pc' \in {"load", "preflight", "consume", "put"} => rcpt'[inst] = "EXECUTING"
    BY <1>2, <2>1, DaemonControl
       DEF MarkExecuting, Load, Preflight, Consume, Receipt, Goto, fileVars,
           ReceiptFacts, IInv, TypeOK
  <2>4. ASSUME pc' \in {"put", "await", "accept", "acceptEvent", "readback", "persist"},
               NEW i \in Instances, PostOf[i] = P
        PROVE rcpt'[i] # "SETTLED_UNKNOWN"
    <3>1. CASE Consume
      BY <2>1, <2>4, <3>1
         DEF Consume, ReceiptMatches, Agrees, IInv, OneAttempt
    <3>2. CASE \/ Put \/ Response \/ Accepted \/ AcceptedEvent \/ Readback
      BY <2>4, <3>2
         DEF Put, Response, Accepted, AcceptedEvent, Readback, Goto, fileVars, ReceiptFacts
    <3> QED BY <1>2, <2>4, <3>1, <3>2, DaemonControl
  <2>5. bcur'[Daemon] = NoInstance
    BY <1>2, <2>1, DaemonFrame DEF ReceiptLife, Working, bootVars
  <2> QED BY <2>2, <2>3, <2>4, <2>5 DEF ReceiptFacts
<1>3. CASE ~DaemonStep
  <2>1. CASE pc' \in Working \ {"check"}
    <3>1. UNCHANGED <<pc, inst>> /\ P' = P
      BY <1>3, <2>1, RequestUndisturbed
    <3>2. inst \in Instances /\ pc # "boot"
      BY <2>1, <3>1 DEF IInv, Control, Working
    <3>3. pc \in {"load", "preflight", "consume", "put"} => rcpt'[inst] = "EXECUTING"
      BY <1>1, <3>1, <3>2, ReceiptStep DEF ReceiptMoves, ReceiptFacts
    <3>4. ASSUME pc \in {"put", "await", "accept", "acceptEvent", "readback", "persist"},
                 NEW i \in Instances, PostOf[i] = P
          PROVE rcpt'[i] # "SETTLED_UNKNOWN"
      BY <1>1, <3>1, <3>2, <3>4, ReceiptStep DEF ReceiptMoves, ReceiptFacts
    <3>5. pc' # "boot"
      BY <3>1, <3>2
    <3>6. bcur'[Daemon] = NoInstance
      BY <3>5, LifeStep DEF ReceiptLife
    <3> QED BY <3>1, <3>3, <3>4, <3>6 DEF ReceiptFacts
  <2>2. CASE pc' \notin Working \ {"check"}
    <3>1. CASE bcur'[Daemon] = bcur[Daemon] /\ plan'[Daemon] = plan[Daemon]
               /\ bcur[Daemon] # NoInstance
      <4>1. bcur[Daemon] \in Instances /\ pc = "boot"
        BY <3>1 DEF IInv, TypeOK, ReceiptLife
      <4>2. \A i \in Instances : \A r : Agrees(i, r) => Agrees(i, r)'
        BY <4>1, AgreesStays
      <4> QED BY <2>2, <3>1, <4>1, <4>2 DEF ReceiptFacts, Working, Agrees
    <3>2. ASSUME NEW i \in Instances, BootRead(Daemon, i)
          PROVE ReceiptFacts'
      <4> DEFINE m == man[PostOf[i]]
      <4>1. PostOf[i] \in Posts /\ UNCHANGED <<man, putBy>> /\ bcur'[Daemon] = i
        BY <3>2 DEF BootRead, fileVars, history, IInv, TypeOK
      <4>2. \/ plan'[Daemon] = "ABANDONED"
            \/ m.attempts = 1 /\ plan'[Daemon] = SettledAs(m.state)
        BY <3>2 DEF BootRead, IInv, TypeOK
      <4>3. m.attempts = 1 => m.state \in PubStates \ {"NOT_REQUESTED"}
        <5>1. m \in Manifest /\ (m.attempts = 0 <=> m.state = "NOT_REQUESTED")
          BY <4>1 DEF IInv, TypeOK, OneAttempt
        <5> QED BY <5>1 DEF Manifest
      <4>4. Agrees(i, plan'[Daemon])
        BY <4>2, <4>3, SettledAgrees DEF Agrees
      <4>5. Agrees(bcur[Daemon], plan[Daemon])'
        BY <4>1, <4>4 DEF Agrees
      <4> QED BY <2>2, <4>5 DEF ReceiptFacts, Working
    <3>3. CASE bcur'[Daemon] = NoInstance
      BY <2>2, <3>3 DEF ReceiptFacts, Working
    <3> QED BY <3>1, <3>2, <3>3, BootStepMoves
  <2> QED BY <2>1, <2>2
<1> QED BY <1>2, <1>3

\* Every receipt goes on agreeing with its manifest.
LEMMA MatchesStep ==
    ASSUME Booters = {Daemon}, IInv, ReceiptLife, RequestFacts, ReceiptFacts,
           ReceiptMatches, \A r \in Readers : ReaderFacts(r), [Next]_vars
    PROVE ReceiptMatches'
<1> USE ConstantsAssumption
<1> SUFFICES ASSUME NEW i \in Instances PROVE Agrees(i, rcpt[i])'
  BY DEF ReceiptMatches
<1> DEFINE p == PostOf[i]
<1>1. /\ p \in Posts /\ man[p] \in Manifest
      /\ man[p].attempts = 0 <=> man[p].state = "NOT_REQUESTED"
      /\ man[p].attempts = 0 => putBy[p] # i
  BY DEF IInv, TypeOK, OneAttempt, RequestFacts
<1>2. Agrees(i, rcpt[i]) /\ ReceiptMoves(i)
  BY ReceiptStep DEF ReceiptMatches
<1>3. \A r : /\ Agrees(i, r)
             /\ pc = "persist" /\ p = P => r # "SETTLED_UNKNOWN"
             /\ pc = "put" /\ i = inst => r # "SETTLED_BLOCKED"
             => Agrees(i, r)'
  BY AgreesStays
<1>4. CASE rcpt'[i] = rcpt[i]
  BY <1>2, <1>3, <1>4 DEF ReceiptFacts, Agrees
<1>5. CASE rcpt'[i] \in {"TORN", "RECEIVED", "EXECUTING"}
  BY <1>5 DEF Agrees
<1>6. CASE pc \in {"recover", "block"} /\ i = inst /\ rcpt'[i] = "SETTLED_BLOCKED"
  <2>1. Agrees(i, "SETTLED_BLOCKED")
    BY <1>1, <1>6 DEF Agrees, RequestFacts, P
  <2> QED BY <1>3, <1>6, <2>1 DEF Agrees
<1>7. CASE /\ pc \in {"settle", "settleConsumed", "excBridge", "excOther"}
           /\ i = inst /\ rcpt'[i] = SettledAs(man[P].state)
           /\ pc \in {"excBridge", "excOther"} => man[P].attempts = 1
  <2>1. man[p].attempts = 1 /\ rcpt'[i] = SettledAs(man[p].state)
    BY <1>7 DEF RequestFacts, P
  <2>2. man[p].state \in PubStates \ {"NOT_REQUESTED"}
    BY <1>1, <2>1 DEF Manifest
  <2>3. Agrees(i, rcpt'[i])
    BY <2>1, <2>2, SettledAgrees
  <2> QED BY <1>3, <1>7, <2>3 DEF Agrees
<1>8. ASSUME NEW b \in Booters, i = bcur[b], rcpt'[i] = plan[b]
      PROVE Agrees(i, rcpt[i])'
  <2>1. pc = "boot" /\ Agrees(i, rcpt'[i])
    BY <1>8 DEF ReceiptFacts, ReceiptLife
  <2> QED BY <1>3, <2>1 DEF Agrees
<1>9. ASSUME NEW r \in Readers, rpc[r] = "converge", i \in rtodo[r],
             rcpt'[i] = IF rnew[r] = "FAILED" THEN "SETTLED_FAILED" ELSE "SETTLED_PUBLISHED"
      PROVE Agrees(i, rcpt[i])'
  <2>1. Agrees(i, rcpt'[i])
    BY <1>9 DEF ReaderFacts, Agrees
  <2> QED BY <1>3, <1>9, <2>1 DEF Agrees
<1> QED BY <1>2, <1>4, <1>5, <1>6, <1>7, <1>8, <1>9 DEF ReceiptMoves

-----------------------------------------------------------------------------
(* The theorems *)

\* The initial states satisfy the invariants.
LEMMA InitOutcome == Init => SoloInv
<1> SUFFICES ASSUME Init PROVE SoloInv
  OBVIOUS
<1> USE ConstantsAssumption DEF Init
<1>1. IInv
  BY InitIInv
<1>2. ReceiptLife /\ RequestFacts /\ OutcomeFacts /\ AnswerFacts
  BY DEF ReceiptLife, RequestFacts, OutcomeFacts, AnswerFacts, FreshManifest
<1>3. \A r \in Readers : ReaderFacts(r)
  BY DEF ReaderFacts
<1>4. TruthfulStates /\ LedgerIsTrue /\ AnsweredIsSettled
  BY DEF TruthfulStates, BorneOut, LedgerIsTrue, AnsweredIsSettled, FreshManifest
<1>5. ReceiptFacts /\ ReceiptMatches
  BY DEF ReceiptFacts, ReceiptMatches, Agrees
<1> QED BY <1>1, <1>2, <1>3, <1>4, <1>5 DEF SoloInv, OutcomeInv

\* One step keeps all of OutcomeInv.
LEMMA OutcomeInvStep == OutcomeInv /\ [Next]_vars => OutcomeInv'
<1> SUFFICES ASSUME OutcomeInv, [Next]_vars PROVE OutcomeInv'
  OBVIOUS
<1> USE DEF OutcomeInv
<1>1. IInv'
  BY TypeStep, ControlStep, CopiesStep, OneAttemptStep, OneNoticeStep DEF IInv
<1>2. ReceiptLife' /\ RequestFacts' /\ AnswerFacts' /\ AnsweredIsSettled'
  BY LifeStep, RequestStep, AnswerStep, AnsweredStep
<1>3. OutcomeFacts' /\ TruthfulStates' /\ LedgerIsTrue'
  BY OutcomeDaemonStep, OutcomeOtherStep, TruthStep, LedgerStep
<1>4. \A r \in Readers : ReaderFacts(r)'
  BY ReaderFactsStep
<1> QED BY <1>1, <1>2, <1>3, <1>4

\* With any number of boot-reconcile commands beside the daemon, what the
\* processes hold in memory of an outcome, and what they record, stays true.
THEOREM OutcomeInvariance == Spec => []OutcomeInv
<1>1. Init => OutcomeInv
  BY InitOutcome DEF SoloInv
<1> QED BY <1>1, OutcomeInvStep, PTL DEF Spec

\* A manifest never claims what the provider does not bear out.
THEOREM ManifestsAreTruthful == Spec => []TruthfulStates
<1>1. OutcomeInv => TruthfulStates
  BY DEF OutcomeInv
<1> QED BY <1>1, OutcomeInvariance, PTL

\* The append-only ledger and the queue file hold no row their manifest does not
\* stand behind.
THEOREM LedgerStaysTrue == Spec => []LedgerIsTrue
<1>1. OutcomeInv => LedgerIsTrue
  BY DEF OutcomeInv
<1> QED BY <1>1, OutcomeInvariance, PTL

\* Code 0 is only ever said of a terminal receipt whose post has a recorded
\* provider answer.
THEOREM AnswersAreSettled == Spec => []AnsweredIsSettled
<1>1. OutcomeInv => AnsweredIsSettled
  BY DEF OutcomeInv
<1> QED BY <1>1, OutcomeInvariance, PTL

\* No redelivery, crash, boot reconciliation or reconciliation command moves a
\* terminal receipt, except that SETTLED_PUBLISHING is resolved.
THEOREM TerminalReceiptsAreDead == Spec => DeadStaysDead
<1>1. OutcomeInv /\ [Next]_vars => [TerminalStays]_vars
  BY TerminalStep DEF OutcomeInv
<1> QED BY <1>1, OutcomeInvariance, PTL DEF Spec, DeadStaysDead

\* When only the daemon reconciles at boot, receipts stay in step with manifests.
THEOREM SoloInvariance ==
    ASSUME Booters = {Daemon}
    PROVE Spec => []SoloInv
<1>1. SoloInv /\ [Next]_vars => SoloInv'
  BY OutcomeInvStep, ReceiptFactsStep, MatchesStep DEF SoloInv, OutcomeInv
<1> QED BY <1>1, InitOutcome, PTL DEF Spec

\* A settled receipt then agrees with the manifest it was settled from.
THEOREM ReceiptsMatch ==
    ASSUME Booters = {Daemon}
    PROVE Spec => []ReceiptMatches
<1>1. SoloInv => ReceiptMatches
  BY DEF SoloInv
<1> QED BY <1>1, SoloInvariance, PTL

\* And every PUT is made under a live authorization of the instance that makes it.
THEOREM PutsAreAuthorized ==
    ASSUME Booters = {Daemon}
    PROVE Spec => PutIsAuthorized
<1>1. SoloInv /\ [Next]_vars => [PutAuthorized]_vars
  <2> SUFFICES ASSUME SoloInv, [Next]_vars, NEW p \in Posts, puts'[p] # puts[p]
               PROVE /\ p = P /\ rcpt[inst] = "EXECUTING" /\ man[p].final
                     /\ lock[p] = Daemon /\ p \notin superseded
    BY DEF PutAuthorized
  <2>1. pc = "put" /\ p = P
    BY ProviderStep DEF ProviderMoves, SoloInv, OutcomeInv
  <2> QED BY <2>1 DEF SoloInv, OutcomeInv, ReceiptFacts, RequestFacts, IInv,
            CopiesAreCurrent, Working
<1> QED BY <1>1, SoloInvariance, PTL DEF Spec, PutIsAuthorized

=============================================================================
