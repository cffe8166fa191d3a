------------------------- MODULE FinalPublishProofs -------------------------
(***************************************************************************)
(* Machine-checked proofs about FinalPublish, for every value of its       *)
(* constants: any number of posts, authorizations, concurrent              *)
(* reconciliation commands and boot-reconcile commands, any crashes.       *)
(*                                                                         *)
(* The argument: the lock keeps every in-memory manifest copy current      *)
(* (CopiesAreCurrent), so no whole-file write can undo attempts = 1; the   *)
(* PUT is one step after the write that sets it, and only a manifest with  *)
(* attempts = 0 gets there (OneAttempt).  IInv is inductive, and implies   *)
(* the safety properties and the refinement of AtMostOncePublication.      *)
(***************************************************************************)
EXTENDS FinalPublish, TLAPS

-----------------------------------------------------------------------------
(* The operators the model is built from *)

\* Every update of a manifest yields a manifest.
LEMMA UpdatesTyped ==
    ASSUME NEW m \in Manifest
    PROVE /\ Authorized(m) \in Manifest /\ Revoked(m) \in Manifest
          /\ Consumed(m) \in Manifest /\ Live(m) \in Manifest
          /\ Attempted(m) \in Manifest /\ Stamped(m) \in Manifest
          /\ \A s \in PubStates : Outcome(m, s) \in Manifest
          /\ \A n \in {"SENT", "UNCONFIRMED"} : Notified(m, n) \in Manifest
BY Zenon DEF Authorized, Revoked, Consumed, Live, Attempted, Stamped, Outcome,
             Notified, Manifest, PubStates

\* Only Consumed and Outcome move the publication, and no update but Consumed
\* touches the attempt counter.
LEMMA UpdatesFields ==
    ASSUME NEW m \in Manifest
    PROVE /\ \A k \in {Authorized(m), Revoked(m), Live(m), Attempted(m), Stamped(m)} :
               k.state = m.state /\ k.attempts = m.attempts
          /\ Consumed(m).state = "PUBLISH_IN_FLIGHT" /\ Consumed(m).attempts = 1
          /\ \A s : Outcome(m, s).state = s /\ Outcome(m, s).attempts = m.attempts
          /\ \A n : Notified(m, n).state = m.state /\ Notified(m, n).attempts = m.attempts
BY Zenon DEF Authorized, Revoked, Consumed, Live, Attempted, Stamped, Outcome,
             Notified, Manifest

\* Only the two notification updates count a try.
LEMMA UpdatesTries ==
    ASSUME NEW m \in Manifest
    PROVE /\ \A k \in {Authorized(m), Revoked(m), Consumed(m), Live(m), Stamped(m)} :
               k.tries = m.tries
          /\ \A s : Outcome(m, s).tries = m.tries
          /\ Attempted(m).tries = 1 /\ \A n : Notified(m, n).tries = 1
BY Zenon DEF Authorized, Revoked, Consumed, Live, Attempted, Stamped, Outcome,
             Notified, Manifest

\* The manifest a draft run writes is a manifest.
LEMMA FreshTyped == FreshManifest \in Manifest
BY DEF FreshManifest, Manifest, PubStates

\* Settling always yields a terminal receipt state.
LEMMA SettledAsTerminal == \A state : SettledAs(state) \in Terminal
BY Zenon DEF SettledAs, Terminal

\* What promote_once may answer is a disposition.
LEMMA AnswersTyped == \A w : Answers(w) \subseteq Dispositions
BY Zenon DEF Answers, Dispositions

\* Whatever the provider shows, a readback yields one of the verdicts.
LEMMA VerdictsTyped ==
    ASSUME NEW r \in RemoteStates, NEW d
    PROVE {Clarified(d, truth) : truth \in Classify(r)} \cup {Unclarified(d)}
            \subseteq Verdicts
<1>1. Classify(r) \subseteq Verdicts
  BY Zenon DEF Classify, RemoteStates, Verdicts
<1>2. Unclarified(d) \in Verdicts
  BY Zenon DEF Unclarified, Verdicts
<1> QED BY <1>1, <1>2 DEF Clarified, Verdicts

-----------------------------------------------------------------------------
(* Type correctness *)

\* No step leaves the types.
LEMMA TypeStep ==
    ASSUME IInv, [Next]_vars
    PROVE TypeOK'
<1> USE ConstantsAssumption, FreshTyped, UpdatesTyped
<1> USE DEF IInv, TypeOK, Control
<1>1. CASE FindFails
  BY <1>1 DEF FindFails, P, Reply, fileVars, OutsideDaemon, bootVars,
        readerVars, PubStates, Dispositions, Verdicts, Working
<1>2. CASE CheckConsumed
  BY <1>2 DEF CheckConsumed, Found, P, fileVars, Scratch, OutsideDaemon,
        bootVars, readerVars, history, Working
<1>3. CASE CheckSuperseded
  BY <1>3 DEF CheckSuperseded, Found, P, Reply, fileVars, OutsideDaemon,
        bootVars, readerVars, PubStates, Dispositions, Verdicts, Working
<1>4. CASE Claim
  BY <1>4 DEF Claim, MayProceed, Found, P, Receipt, Scratch, OutsideDaemon,
        bootVars, readerVars, history, ReceiptStates, Nonterminal, Terminal,
        Working
<1>5. CASE WriteClaim
  BY <1>5 DEF WriteClaim, Receipt, Scratch, OutsideDaemon, bootVars,
        readerVars, history, ReceiptStates, Nonterminal, Terminal, Working, P
<1>6. CASE WriteClaimFails
  BY <1>6 DEF WriteClaimFails, Reply, P, fileVars, OutsideDaemon, bootVars,
        readerVars, PubStates, Dispositions, Verdicts, Working
<1>7. CASE ClaimTorn
  BY <1>7 DEF ClaimTorn, MayProceed, Found, P, Reply, fileVars,
        OutsideDaemon, bootVars, readerVars, PubStates, Dispositions,
        Verdicts, Working
<1>8. CASE ClaimExists
  BY <1>8 DEF ClaimExists, MayProceed, Found, P, fileVars, Scratch,
        OutsideDaemon, bootVars, readerVars, history, Working
<1>9. CASE RecoverTerminal
  BY <1>9 DEF RecoverTerminal, Found, P, Reply, fileVars, OutsideDaemon,
        bootVars, readerVars, PubStates, Dispositions, Verdicts, Working
<1>10. CASE Adopt
  BY <1>10 DEF Adopt, Found, P, fileVars, Scratch, OutsideDaemon, bootVars,
        readerVars, history, Working
<1>11. CASE RecoverRevoked
  BY <1>11 DEF RecoverRevoked, Receipt, Reply, P, OutsideDaemon, bootVars,
        readerVars, PubStates, Dispositions, Verdicts, ReceiptStates,
        Nonterminal, Terminal, Working
<1>12. CASE Authorize
  BY <1>12 DEF Authorize, Found, P, Save, Scratch, OutsideDaemon, bootVars,
        readerVars, history, Working
<1>13. CASE MarkExecuting
  BY <1>13 DEF MarkExecuting, Receipt, Scratch, OutsideDaemon, bootVars,
        readerVars, history, ReceiptStates, Nonterminal, Terminal, Working, P
<1>14. CASE ReceiptGone
  BY <1>14 DEF ReceiptGone, Found, P, Reply, fileVars, OutsideDaemon,
        bootVars, readerVars, PubStates, Dispositions, Verdicts, Working
<1>15. CASE Load
  BY <1>15 DEF Load, Found, P, fileVars, Scratch, OutsideDaemon, bootVars,
        readerVars, history, Working
<1>16. CASE Preflight
  BY <1>16 DEF Preflight, P, Goto, fileVars, bootVars, readerVars, history,
        Scratch, Working
<1>17. CASE Consume
  BY <1>17 DEF Consume, Save, P, Scratch, OutsideDaemon, bootVars,
        readerVars, history, Working
<1>18. CASE WriteFails
  BY <1>18 DEF WriteFails, Goto, fileVars, bootVars, readerVars, history,
        Scratch, Working, P
<1>19. CASE Put
  BY <1>19 DEF Put, P, fileVars, Scratch, OutsideDaemon, bootVars,
        readerVars, WireStates, Working
<1>20. CASE Response
  BY <1>20, AnswersTyped DEF Response, P, Goto, fileVars, bootVars,
        readerVars, history, Working
<1>21. CASE Accepted
  BY <1>21 DEF Accepted, Save, P, Scratch, OutsideDaemon, bootVars,
        readerVars, history, Working
<1>22. CASE AcceptedEvent
  BY <1>22 DEF AcceptedEvent, P, Scratch, OutsideDaemon, bootVars,
        readerVars, history, Events, Verdicts, Working
<1>23. CASE Readback
  BY <1>23, VerdictsTyped DEF Readback, P, Goto, fileVars, bootVars,
        readerVars, history, Working
<1>24. CASE Persist
  BY <1>24 DEF Persist, Save, P, Scratch, OutsideDaemon, bootVars,
        readerVars, history, Verdicts, PubStates, Working
<1>25. CASE Event
  BY <1>25 DEF Event, P, Scratch, OutsideDaemon, bootVars, readerVars,
        history, Events, Verdicts, Working
<1>26. CASE QueueRead
  BY <1>26 DEF QueueRead, Goto, fileVars, bootVars, readerVars, history,
        Working, P
<1>27. CASE QueueWrite
  BY <1>27 DEF QueueWrite, P, Scratch, OutsideDaemon, bootVars, readerVars,
        history, Working
<1>28. CASE Settle
  BY <1>28, SettledAsTerminal DEF Settle, Found, P, Receipt, OutsideDaemon,
        bootVars, readerVars, history, ReceiptStates, Nonterminal, Terminal,
        Working
<1>29. CASE SettleConsumed
  BY <1>29, SettledAsTerminal DEF SettleConsumed, Receipt, Settled,
        OutsideDaemon, bootVars, readerVars, history, ReceiptStates,
        Nonterminal, Terminal, Working, P
<1>30. CASE SettleConsumedTorn
  BY <1>30 DEF SettleConsumedTorn, Reply, P, fileVars, OutsideDaemon,
        bootVars, readerVars, PubStates, Dispositions, Verdicts, Working
<1>31. CASE SettleError
  BY <1>31, SettledAsTerminal DEF SettleError, Found, P, Receipt, Settled,
        OutsideDaemon, bootVars, readerVars, history, ReceiptStates,
        Nonterminal, Terminal, Working
<1>32. CASE Revoke
  BY <1>32 DEF Revoke, Found, P, Save, Scratch, OutsideDaemon, bootVars,
        readerVars, history, Working
<1>33. CASE Block
  BY <1>33 DEF Block, Receipt, OutsideDaemon, bootVars, readerVars, history,
        ReceiptStates, Nonterminal, Terminal, Working, P
<1>34. CASE RevokeUnexpected
  BY <1>34 DEF RevokeUnexpected, Found, P, Save, OutsideDaemon, bootVars,
        readerVars, history, Working
<1>35. CASE NotifyClaim
  BY <1>35 DEF NotifyClaim, Found, P, Save, Scratch, OutsideDaemon, bootVars,
        readerVars, history, Working
<1>36. CASE NotifySkip
  BY <1>36 DEF NotifySkip, Goto, fileVars, bootVars, readerVars, history,
        Scratch, Working, P
<1>37. CASE NotifySend
  BY <1>37 DEF NotifySend, P, fileVars, Scratch, OutsideDaemon, bootVars,
        readerVars, Working
<1>38. CASE NotifyRecord
  BY <1>38 DEF NotifyRecord, Save, P, Scratch, OutsideDaemon, bootVars,
        readerVars, history, Working
<1>39. CASE Finish
  BY <1>39 DEF Finish, Found, P, Reply, CodeFor, fileVars, OutsideDaemon,
        bootVars, readerVars, PubStates, Dispositions, Verdicts, Working
<1>40. ASSUME NEW i \in Instances, Receive(i) PROVE TypeOK'
  BY <1>40 DEF Receive, fileVars, Scratch, OutsideDaemon, bootVars,
        readerVars, history, Working
<1>41. CASE Crash
  BY <1>41 DEF Crash, Dead, fileVars, readerVars, providerVars, history,
        Verdicts, Dispositions
<1>42. CASE DaemonStart
  BY <1>42 DEF DaemonStart, BootScan, fileVars, Scratch, readerVars,
        providerVars, history
<1>43. CASE Ready
  BY <1>43 DEF Ready, fileVars, Scratch, bootVars, readerVars, providerVars,
        history
<1>44. ASSUME NEW b \in Booters, CommandStart(b) PROVE TypeOK'
  BY <1>44 DEF CommandStart, BootScan, fileVars, daemonVars, readerVars,
        providerVars, history
<1>45. ASSUME NEW b \in Booters, NEW i \in Instances, BootRead(b, i) PROVE TypeOK'
  BY <1>45, SettledAsTerminal DEF BootRead, fileVars, daemonVars, readerVars,
        providerVars, history, Terminal
<1>46. ASSUME NEW b \in Booters, BootSettle(b) PROVE TypeOK'
  BY <1>46 DEF BootSettle, daemonVars, readerVars, providerVars, history,
        ReceiptStates
<1>47. ASSUME NEW b \in Booters, BootFails(b) PROVE TypeOK'
  BY <1>47 DEF BootFails, fileVars, Scratch, readerVars, providerVars, history
<1>48. ASSUME NEW r \in Readers, NEW p \in Posts, ReadStart(r, p) PROVE TypeOK'
  BY <1>48 DEF ReadStart, fileVars, daemonVars, bootVars, providerVars,
        history
<1>49. ASSUME NEW r \in Readers, ReadTruth(r) PROVE TypeOK'
  BY <1>49 DEF ReadTruth, fileVars, OutsideReader, daemonVars, bootVars,
        providerVars, history
<1>50. ASSUME NEW r \in Readers, ReadPersist(r) PROVE TypeOK'
  BY <1>50 DEF ReadPersist, OutsideReader, daemonVars, bootVars,
        providerVars, history, PubStates
<1>51. ASSUME NEW r \in Readers, ReadEvent(r) PROVE TypeOK'
  BY <1>51 DEF ReadEvent, OutsideReader, daemonVars, bootVars, providerVars,
        history, Events
<1>52. ASSUME NEW r \in Readers, ReadQueue(r) PROVE TypeOK'
  BY <1>52 DEF ReadQueue, fileVars, OutsideReader, daemonVars, bootVars,
        providerVars, history
<1>53. ASSUME NEW r \in Readers, ReadQueueWrite(r) PROVE TypeOK'
  BY <1>53 DEF ReadQueueWrite, OutsideReader, daemonVars, bootVars,
        providerVars, history
<1>54. ASSUME NEW r \in Readers, ReadScan(r) PROVE TypeOK'
  BY <1>54 DEF ReadScan, fileVars, OutsideReader, daemonVars, bootVars,
        providerVars, history
<1>55. ASSUME NEW r \in Readers, ReadEnd(r) PROVE TypeOK'
  BY <1>55 DEF ReadEnd, fileVars, OutsideReader, daemonVars, bootVars,
        providerVars, history
<1>56. ASSUME NEW r \in Readers, NEW i \in Instances, Converge(r, i) PROVE TypeOK'
  BY <1>56 DEF Converge, OutsideReader, daemonVars, bootVars, providerVars,
        history, ReceiptStates, Terminal
<1>57. ASSUME NEW p \in Posts, FirstStage(p) PROVE TypeOK'
  BY <1>57 DEF FirstStage, daemonVars, bootVars, readerVars, providerVars,
        history
<1>58. ASSUME NEW p \in Posts, Supersede(p) PROVE TypeOK'
  BY <1>58 DEF Supersede, daemonVars, bootVars, readerVars, providerVars,
        history
<1>59. ASSUME NEW p \in Posts, ChangeFiles(p) PROVE TypeOK'
  BY <1>59 DEF ChangeFiles, daemonVars, bootVars, readerVars, providerVars,
        history
<1>60. ASSUME NEW p \in Posts, Deliver(p) PROVE TypeOK'
  BY <1>60 DEF Deliver, fileVars, daemonVars, bootVars, readerVars, history,
        WireStates, RemoteStates
<1>61. ASSUME NEW p \in Posts, Provider(p) PROVE TypeOK'
  BY <1>61 DEF Provider, fileVars, daemonVars, bootVars, readerVars, history,
        RemoteStates
<1>62. CASE UNCHANGED vars
  BY <1>62 DEF vars, fileVars, daemonVars, bootVars, readerVars,
        providerVars, history
<1> QED BY <1>1, <1>2, <1>3, <1>4, <1>5, <1>6, <1>7, <1>8, <1>9, <1>10,
        <1>11, <1>12, <1>13, <1>14, <1>15, <1>16, <1>17, <1>18, <1>19, <1>20,
        <1>21, <1>22, <1>23, <1>24, <1>25, <1>26, <1>27, <1>28, <1>29, <1>30,
        <1>31, <1>32, <1>33, <1>34, <1>35, <1>36, <1>37, <1>38, <1>39, <1>40,
        <1>41, <1>42, <1>43, <1>44, <1>45, <1>46, <1>47, <1>48, <1>49, <1>50,
        <1>51, <1>52, <1>53, <1>54, <1>55, <1>56, <1>57, <1>58, <1>59, <1>60,
        <1>61, <1>62
  DEF Next, DaemonStep, BootStep, ReadStep

-----------------------------------------------------------------------------
(* The control state *)

\* No step loses the instance a request works for, reports an unknown outcome,
\* or lets a reconciliation go on without a row to append.
LEMMA ControlStep ==
    ASSUME IInv, [Next]_vars
    PROVE Control'
<1> USE ConstantsAssumption
<1> USE DEF IInv, TypeOK, Control
<1>1. CASE FindFails
  BY <1>1 DEF FindFails, P, Reply, fileVars, OutsideDaemon, bootVars,
        readerVars, Working
<1>2. CASE CheckConsumed
  BY <1>2 DEF CheckConsumed, Found, P, fileVars, Scratch, OutsideDaemon,
        bootVars, readerVars, history, Working
<1>3. CASE CheckSuperseded
  BY <1>3 DEF CheckSuperseded, Found, P, Reply, fileVars, OutsideDaemon,
        bootVars, readerVars, Working
<1>4. CASE Claim
  BY <1>4 DEF Claim, MayProceed, Found, P, Receipt, Scratch, OutsideDaemon,
        bootVars, readerVars, history, Working
<1>5. CASE WriteClaim
  BY <1>5 DEF WriteClaim, Receipt, Scratch, OutsideDaemon, bootVars,
        readerVars, history, P, Working
<1>6. CASE WriteClaimFails
  BY <1>6 DEF WriteClaimFails, Reply, P, fileVars, OutsideDaemon, bootVars,
        readerVars, Working
<1>7. CASE ClaimTorn
  BY <1>7 DEF ClaimTorn, MayProceed, Found, P, Reply, fileVars,
        OutsideDaemon, bootVars, readerVars, Working
<1>8. CASE ClaimExists
  BY <1>8 DEF ClaimExists, MayProceed, Found, P, fileVars, Scratch,
        OutsideDaemon, bootVars, readerVars, history, Working
<1>9. CASE RecoverTerminal
  BY <1>9 DEF RecoverTerminal, Found, P, Reply, fileVars, OutsideDaemon,
        bootVars, readerVars, Working
<1>10. CASE Adopt
  BY <1>10 DEF Adopt, Found, P, fileVars, Scratch, OutsideDaemon, bootVars,
        readerVars, history, Working
<1>11. CASE RecoverRevoked
  BY <1>11 DEF RecoverRevoked, Receipt, Reply, P, OutsideDaemon, bootVars,
        readerVars, Working
<1>12. CASE Authorize
  BY <1>12 DEF Authorize, Found, P, Save, Scratch, OutsideDaemon, bootVars,
        readerVars, history, Working
<1>13. CASE MarkExecuting
  BY <1>13 DEF MarkExecuting, Receipt, Scratch, OutsideDaemon, bootVars,
        readerVars, history, P, Working
<1>14. CASE ReceiptGone
  BY <1>14 DEF ReceiptGone, Found, P, Reply, fileVars, OutsideDaemon,
        bootVars, readerVars, Working
<1>15. CASE Load
  BY <1>15 DEF Load, Found, P, fileVars, Scratch, OutsideDaemon, bootVars,
        readerVars, history, Working
<1>16. CASE Preflight
  BY <1>16 DEF Preflight, P, Goto, fileVars, bootVars, readerVars, history,
        Scratch, Working
<1>17. CASE Consume
  BY <1>17 DEF Consume, Save, P, Scratch, OutsideDaemon, bootVars,
        readerVars, history, Working
<1>18. CASE WriteFails
  BY <1>18 DEF WriteFails, Goto, fileVars, bootVars, readerVars, history,
        Scratch, P, Working
<1>19. CASE Put
  BY <1>19 DEF Put, P, fileVars, Scratch, OutsideDaemon, bootVars,
        readerVars, Working
<1>20. CASE Response
  BY <1>20 DEF Response, P, Goto, fileVars, bootVars, readerVars, history,
        Working
<1>21. CASE Accepted
  BY <1>21 DEF Accepted, Save, P, Scratch, OutsideDaemon, bootVars,
        readerVars, history, Working
<1>22. CASE AcceptedEvent
  BY <1>22 DEF AcceptedEvent, P, Scratch, OutsideDaemon, bootVars,
        readerVars, history, Working
<1>23. CASE Readback
  BY <1>23 DEF Readback, P, Goto, fileVars, bootVars, readerVars, history,
        Working
<1>24. CASE Persist
  BY <1>24 DEF Persist, Save, P, Scratch, OutsideDaemon, bootVars,
        readerVars, history, Working
<1>25. CASE Event
  BY <1>25 DEF Event, P, Scratch, OutsideDaemon, bootVars, readerVars,
        history, Working
<1>26. CASE QueueRead
  BY <1>26 DEF QueueRead, Goto, fileVars, bootVars, readerVars, history, P,
        Working
<1>27. CASE QueueWrite
  BY <1>27 DEF QueueWrite, P, Scratch, OutsideDaemon, bootVars, readerVars,
        history, Working
<1>28. CASE Settle
  BY <1>28 DEF Settle, Found, P, Receipt, OutsideDaemon, bootVars,
        readerVars, history, Working
<1>29. CASE SettleConsumed
  BY <1>29 DEF SettleConsumed, Receipt, Settled, OutsideDaemon, bootVars,
        readerVars, history, P, Working
<1>30. CASE SettleConsumedTorn
  BY <1>30 DEF SettleConsumedTorn, Reply, P, fileVars, OutsideDaemon,
        bootVars, readerVars, Working
<1>31. CASE SettleError
  BY <1>31 DEF SettleError, Found, P, Receipt, Settled, OutsideDaemon,
        bootVars, readerVars, history, Working
<1>32. CASE Revoke
  BY <1>32 DEF Revoke, Found, P, Save, Scratch, OutsideDaemon, bootVars,
        readerVars, history, Working
<1>33. CASE Block
  BY <1>33 DEF Block, Receipt, OutsideDaemon, bootVars, readerVars, history,
        P, Working
<1>34. CASE RevokeUnexpected
  BY <1>34 DEF RevokeUnexpected, Found, P, Save, OutsideDaemon, bootVars,
        readerVars, history, Working
<1>35. CASE NotifyClaim
  BY <1>35 DEF NotifyClaim, Found, P, Save, Scratch, OutsideDaemon, bootVars,
        readerVars, history, Working
<1>36. CASE NotifySkip
  BY <1>36 DEF NotifySkip, Goto, fileVars, bootVars, readerVars, history,
        Scratch, P, Working
<1>37. CASE NotifySend
  BY <1>37 DEF NotifySend, P, fileVars, Scratch, OutsideDaemon, bootVars,
        readerVars, Working
<1>38. CASE NotifyRecord
  BY <1>38 DEF NotifyRecord, Save, P, Scratch, OutsideDaemon, bootVars,
        readerVars, history, Working
<1>39. CASE Finish
  BY <1>39 DEF Finish, Found, P, Reply, CodeFor, fileVars, OutsideDaemon,
        bootVars, readerVars, Working
<1>40. ASSUME NEW i \in Instances, Receive(i) PROVE Control'
  BY <1>40 DEF Receive, fileVars, Scratch, OutsideDaemon, bootVars,
        readerVars, history, P, Working
<1>41. CASE Crash
  BY <1>41 DEF Crash, Dead, fileVars, readerVars, providerVars, history, P,
        Working
<1>42. CASE DaemonStart
  BY <1>42 DEF DaemonStart, BootScan, fileVars, Scratch, readerVars,
        providerVars, history, P, Working
<1>43. CASE Ready
  BY <1>43 DEF Ready, fileVars, Scratch, bootVars, readerVars, providerVars,
        history, P, Working
<1>44. ASSUME NEW b \in Booters, CommandStart(b) PROVE Control'
  BY <1>44 DEF CommandStart, BootScan, fileVars, daemonVars, readerVars,
        providerVars, history, P, Working
<1>45. ASSUME NEW b \in Booters, NEW i \in Instances, BootRead(b, i)
       PROVE Control'
  BY <1>45 DEF BootRead, fileVars, daemonVars, readerVars, providerVars,
        history, P, Working
<1>46. ASSUME NEW b \in Booters, BootSettle(b) PROVE Control'
  BY <1>46 DEF BootSettle, daemonVars, readerVars, providerVars, history, P,
        Working
<1>47. ASSUME NEW b \in Booters, BootFails(b) PROVE Control'
  BY <1>47 DEF BootFails, fileVars, Scratch, readerVars, providerVars,
        history, P, Working
<1>48. ASSUME NEW r \in Readers, NEW p \in Posts, ReadStart(r, p)
       PROVE Control'
  BY <1>48 DEF ReadStart, fileVars, daemonVars, bootVars, providerVars,
        history, P, Working
<1>49. ASSUME NEW r \in Readers, ReadTruth(r) PROVE Control'
  BY <1>49 DEF ReadTruth, fileVars, OutsideReader, daemonVars, bootVars,
        providerVars, history, P, Working
<1>50. ASSUME NEW r \in Readers, ReadPersist(r) PROVE Control'
  BY <1>50 DEF ReadPersist, OutsideReader, daemonVars, bootVars,
        providerVars, history, P, Working
<1>51. ASSUME NEW r \in Readers, ReadEvent(r) PROVE Control'
  BY <1>51 DEF ReadEvent, OutsideReader, daemonVars, bootVars, providerVars,
        history, P, Working
<1>52. ASSUME NEW r \in Readers, ReadQueue(r) PROVE Control'
  BY <1>52 DEF ReadQueue, fileVars, OutsideReader, daemonVars, bootVars,
        providerVars, history, P, Working
<1>53. ASSUME NEW r \in Readers, ReadQueueWrite(r) PROVE Control'
  BY <1>53 DEF ReadQueueWrite, OutsideReader, daemonVars, bootVars,
        providerVars, history, P, Working
<1>54. ASSUME NEW r \in Readers, ReadScan(r) PROVE Control'
  BY <1>54 DEF ReadScan, fileVars, OutsideReader, daemonVars, bootVars,
        providerVars, history, P, Working
<1>55. ASSUME NEW r \in Readers, ReadEnd(r) PROVE Control'
  BY <1>55 DEF ReadEnd, fileVars, OutsideReader, daemonVars, bootVars,
        providerVars, history, P, Working
<1>56. ASSUME NEW r \in Readers, NEW i \in Instances, Converge(r, i)
       PROVE Control'
  BY <1>56 DEF Converge, OutsideReader, daemonVars, bootVars, providerVars,
        history, P, Working
<1>57. ASSUME NEW p \in Posts, FirstStage(p) PROVE Control'
  BY <1>57 DEF FirstStage, daemonVars, bootVars, readerVars, providerVars,
        history, P, Working
<1>58. ASSUME NEW p \in Posts, Supersede(p) PROVE Control'
  BY <1>58 DEF Supersede, daemonVars, bootVars, readerVars, providerVars,
        history, P, Working
<1>59. ASSUME NEW p \in Posts, ChangeFiles(p) PROVE Control'
  BY <1>59 DEF ChangeFiles, daemonVars, bootVars, readerVars, providerVars,
        history, P, Working
<1>60. ASSUME NEW p \in Posts, Deliver(p) PROVE Control'
  BY <1>60 DEF Deliver, fileVars, daemonVars, bootVars, readerVars, history,
        P, Working
<1>61. ASSUME NEW p \in Posts, Provider(p) PROVE Control'
  BY <1>61 DEF Provider, fileVars, daemonVars, bootVars, readerVars, history,
        P, Working
<1>62. CASE UNCHANGED vars
  BY <1>62 DEF vars, fileVars, daemonVars, bootVars, readerVars,
        providerVars, history, P, Working
<1> QED BY <1>1, <1>2, <1>3, <1>4, <1>5, <1>6, <1>7, <1>8, <1>9, <1>10,
        <1>11, <1>12, <1>13, <1>14, <1>15, <1>16, <1>17, <1>18, <1>19, <1>20,
        <1>21, <1>22, <1>23, <1>24, <1>25, <1>26, <1>27, <1>28, <1>29, <1>30,
        <1>31, <1>32, <1>33, <1>34, <1>35, <1>36, <1>37, <1>38, <1>39, <1>40,
        <1>41, <1>42, <1>43, <1>44, <1>45, <1>46, <1>47, <1>48, <1>49, <1>50,
        <1>51, <1>52, <1>53, <1>54, <1>55, <1>56, <1>57, <1>58, <1>59, <1>60,
        <1>61, <1>62
  DEF Next, DaemonStep, BootStep, ReadStep

-----------------------------------------------------------------------------
(* The copies are current *)

\* A manifest is written only by the holder of its lock, so no other process's
\* copy goes stale.
LEMMA CopiesStep ==
    ASSUME IInv, [Next]_vars
    PROVE CopiesAreCurrent'
<1> USE ConstantsAssumption
<1> USE DEF IInv, TypeOK, Control, CopiesAreCurrent
<1>1. CASE FindFails
  BY <1>1 DEF FindFails, P, Reply, fileVars, OutsideDaemon, bootVars,
        readerVars, Working
<1>2. CASE CheckConsumed
  BY <1>2 DEF CheckConsumed, Found, P, fileVars, Scratch, OutsideDaemon,
        bootVars, readerVars, history, Working
<1>3. CASE CheckSuperseded
  BY <1>3 DEF CheckSuperseded, Found, P, Reply, fileVars, OutsideDaemon,
        bootVars, readerVars, Working
<1>4. CASE Claim
  BY <1>4 DEF Claim, MayProceed, Found, P, Receipt, Scratch, OutsideDaemon,
        bootVars, readerVars, history, Working
<1>5. CASE WriteClaim
  BY <1>5 DEF WriteClaim, Receipt, Scratch, OutsideDaemon, bootVars,
        readerVars, history, P, Working
<1>6. CASE WriteClaimFails
  BY <1>6 DEF WriteClaimFails, Reply, P, fileVars, OutsideDaemon, bootVars,
        readerVars, Working
<1>7. CASE ClaimTorn
  BY <1>7 DEF ClaimTorn, MayProceed, Found, P, Reply, fileVars,
        OutsideDaemon, bootVars, readerVars, Working
<1>8. CASE ClaimExists
  BY <1>8 DEF ClaimExists, MayProceed, Found, P, fileVars, Scratch,
        OutsideDaemon, bootVars, readerVars, history, Working
<1>9. CASE RecoverTerminal
  BY <1>9 DEF RecoverTerminal, Found, P, Reply, fileVars, OutsideDaemon,
        bootVars, readerVars, Working
<1>10. CASE Adopt
  BY <1>10 DEF Adopt, Found, P, fileVars, Scratch, OutsideDaemon, bootVars,
        readerVars, history, Working
<1>11. CASE RecoverRevoked
  BY <1>11 DEF RecoverRevoked, Receipt, Reply, P, OutsideDaemon, bootVars,
        readerVars, Working
<1>12. CASE Authorize
  BY <1>12 DEF Authorize, Found, P, Save, Scratch, OutsideDaemon, bootVars,
        readerVars, history, Working
<1>13. CASE MarkExecuting
  BY <1>13 DEF MarkExecuting, Receipt, Scratch, OutsideDaemon, bootVars,
        readerVars, history, P, Working
<1>14. CASE ReceiptGone
  BY <1>14 DEF ReceiptGone, Found, P, Reply, fileVars, OutsideDaemon,
        bootVars, readerVars, Working
<1>15. CASE Load
  BY <1>15 DEF Load, Found, P, fileVars, Scratch, OutsideDaemon, bootVars,
        readerVars, history, Working
<1>16. CASE Preflight
  BY <1>16 DEF Preflight, P, Goto, fileVars, bootVars, readerVars, history,
        Scratch, Working
<1>17. CASE Consume
  BY <1>17 DEF Consume, Save, P, Scratch, OutsideDaemon, bootVars,
        readerVars, history, Working
<1>18. CASE WriteFails
  BY <1>18 DEF WriteFails, Goto, fileVars, bootVars, readerVars, history,
        Scratch, P, Working
<1>19. CASE Put
  BY <1>19 DEF Put, P, fileVars, Scratch, OutsideDaemon, bootVars,
        readerVars, Working
<1>20. CASE Response
  BY <1>20 DEF Response, P, Goto, fileVars, bootVars, readerVars, history,
        Working
<1>21. CASE Accepted
  BY <1>21 DEF Accepted, Save, P, Scratch, OutsideDaemon, bootVars,
        readerVars, history, Working
<1>22. CASE AcceptedEvent
  BY <1>22 DEF AcceptedEvent, P, Scratch, OutsideDaemon, bootVars,
        readerVars, history, Working
<1>23. CASE Readback
  BY <1>23 DEF Readback, P, Goto, fileVars, bootVars, readerVars, history,
        Working
<1>24. CASE Persist
  BY <1>24 DEF Persist, Save, P, Scratch, OutsideDaemon, bootVars,
        readerVars, history, Working
<1>25. CASE Event
  BY <1>25 DEF Event, P, Scratch, OutsideDaemon, bootVars, readerVars,
        history, Working
<1>26. CASE QueueRead
  BY <1>26 DEF QueueRead, Goto, fileVars, bootVars, readerVars, history, P,
        Working
<1>27. CASE QueueWrite
  BY <1>27 DEF QueueWrite, P, Scratch, OutsideDaemon, bootVars, readerVars,
        history, Working
<1>28. CASE Settle
  BY <1>28 DEF Settle, Found, P, Receipt, OutsideDaemon, bootVars,
        readerVars, history, Working
<1>29. CASE SettleConsumed
  BY <1>29 DEF SettleConsumed, Receipt, Settled, OutsideDaemon, bootVars,
        readerVars, history, P, Working
<1>30. CASE SettleConsumedTorn
  BY <1>30 DEF SettleConsumedTorn, Reply, P, fileVars, OutsideDaemon,
        bootVars, readerVars, Working
<1>31. CASE SettleError
  BY <1>31 DEF SettleError, Found, P, Receipt, Settled, OutsideDaemon,
        bootVars, readerVars, history, Working
<1>32. CASE Revoke
  BY <1>32 DEF Revoke, Found, P, Save, Scratch, OutsideDaemon, bootVars,
        readerVars, history, Working
<1>33. CASE Block
  BY <1>33 DEF Block, Receipt, OutsideDaemon, bootVars, readerVars, history,
        P, Working
<1>34. CASE RevokeUnexpected
  BY <1>34 DEF RevokeUnexpected, Found, P, Save, OutsideDaemon, bootVars,
        readerVars, history, Working
<1>35. CASE NotifyClaim
  BY <1>35 DEF NotifyClaim, Found, P, Save, Scratch, OutsideDaemon, bootVars,
        readerVars, history, Working
<1>36. CASE NotifySkip
  BY <1>36 DEF NotifySkip, Goto, fileVars, bootVars, readerVars, history,
        Scratch, P, Working
<1>37. CASE NotifySend
  BY <1>37 DEF NotifySend, P, fileVars, Scratch, OutsideDaemon, bootVars,
        readerVars, Working
<1>38. CASE NotifyRecord
  BY <1>38 DEF NotifyRecord, Save, P, Scratch, OutsideDaemon, bootVars,
        readerVars, history, Working
<1>39. CASE Finish
  BY <1>39 DEF Finish, Found, P, Reply, CodeFor, fileVars, OutsideDaemon,
        bootVars, readerVars, Working
<1>40. ASSUME NEW i \in Instances, Receive(i) PROVE CopiesAreCurrent'
  BY <1>40 DEF Receive, fileVars, Scratch, OutsideDaemon, bootVars,
        readerVars, history, P, Working
<1>41. CASE Crash
  BY <1>41 DEF Crash, Dead, fileVars, readerVars, providerVars, history, P,
        Working
<1>42. CASE DaemonStart
  BY <1>42 DEF DaemonStart, BootScan, fileVars, Scratch, readerVars,
        providerVars, history, P, Working
<1>43. CASE Ready
  BY <1>43 DEF Ready, fileVars, Scratch, bootVars, readerVars, providerVars,
        history, P, Working
<1>44. ASSUME NEW b \in Booters, CommandStart(b) PROVE CopiesAreCurrent'
  BY <1>44 DEF CommandStart, BootScan, fileVars, daemonVars, readerVars,
        providerVars, history, P, Working
<1>45. ASSUME NEW b \in Booters, NEW i \in Instances, BootRead(b, i)
       PROVE CopiesAreCurrent'
  BY <1>45 DEF BootRead, fileVars, daemonVars, readerVars, providerVars,
        history, P, Working
<1>46. ASSUME NEW b \in Booters, BootSettle(b) PROVE CopiesAreCurrent'
  BY <1>46 DEF BootSettle, daemonVars, readerVars, providerVars, history, P,
        Working
<1>47. ASSUME NEW b \in Booters, BootFails(b) PROVE CopiesAreCurrent'
  BY <1>47 DEF BootFails, fileVars, Scratch, readerVars, providerVars,
        history, P, Working
<1>48. ASSUME NEW r \in Readers, NEW p \in Posts, ReadStart(r, p)
       PROVE CopiesAreCurrent'
  BY <1>48 DEF ReadStart, fileVars, daemonVars, bootVars, providerVars,
        history, P, Working
<1>49. ASSUME NEW r \in Readers, ReadTruth(r) PROVE CopiesAreCurrent'
  BY <1>49 DEF ReadTruth, fileVars, OutsideReader, daemonVars, bootVars,
        providerVars, history, P, Working
<1>50. ASSUME NEW r \in Readers, ReadPersist(r) PROVE CopiesAreCurrent'
  BY <1>50 DEF ReadPersist, OutsideReader, daemonVars, bootVars,
        providerVars, history, P, Working
<1>51. ASSUME NEW r \in Readers, ReadEvent(r) PROVE CopiesAreCurrent'
  BY <1>51 DEF ReadEvent, OutsideReader, daemonVars, bootVars, providerVars,
        history, P, Working
<1>52. ASSUME NEW r \in Readers, ReadQueue(r) PROVE CopiesAreCurrent'
  BY <1>52 DEF ReadQueue, fileVars, OutsideReader, daemonVars, bootVars,
        providerVars, history, P, Working
<1>53. ASSUME NEW r \in Readers, ReadQueueWrite(r) PROVE CopiesAreCurrent'
  BY <1>53 DEF ReadQueueWrite, OutsideReader, daemonVars, bootVars,
        providerVars, history, P, Working
<1>54. ASSUME NEW r \in Readers, ReadScan(r) PROVE CopiesAreCurrent'
  BY <1>54 DEF ReadScan, fileVars, OutsideReader, daemonVars, bootVars,
        providerVars, history, P, Working
<1>55. ASSUME NEW r \in Readers, ReadEnd(r) PROVE CopiesAreCurrent'
  BY <1>55 DEF ReadEnd, fileVars, OutsideReader, daemonVars, bootVars,
        providerVars, history, P, Working
<1>56. ASSUME NEW r \in Readers, NEW i \in Instances, Converge(r, i)
       PROVE CopiesAreCurrent'
  BY <1>56 DEF Converge, OutsideReader, daemonVars, bootVars, providerVars,
        history, P, Working
<1>57. ASSUME NEW p \in Posts, FirstStage(p) PROVE CopiesAreCurrent'
  BY <1>57 DEF FirstStage, daemonVars, bootVars, readerVars, providerVars,
        history, P, Working
<1>58. ASSUME NEW p \in Posts, Supersede(p) PROVE CopiesAreCurrent'
  BY <1>58 DEF Supersede, daemonVars, bootVars, readerVars, providerVars,
        history, P, Working
<1>59. ASSUME NEW p \in Posts, ChangeFiles(p) PROVE CopiesAreCurrent'
  BY <1>59 DEF ChangeFiles, daemonVars, bootVars, readerVars, providerVars,
        history, P, Working
<1>60. ASSUME NEW p \in Posts, Deliver(p) PROVE CopiesAreCurrent'
  BY <1>60 DEF Deliver, fileVars, daemonVars, bootVars, readerVars, history,
        P, Working
<1>61. ASSUME NEW p \in Posts, Provider(p) PROVE CopiesAreCurrent'
  BY <1>61 DEF Provider, fileVars, daemonVars, bootVars, readerVars, history,
        P, Working
<1>62. CASE UNCHANGED vars
  BY <1>62 DEF vars, fileVars, daemonVars, bootVars, readerVars,
        providerVars, history, P, Working
<1> QED BY <1>1, <1>2, <1>3, <1>4, <1>5, <1>6, <1>7, <1>8, <1>9, <1>10,
        <1>11, <1>12, <1>13, <1>14, <1>15, <1>16, <1>17, <1>18, <1>19, <1>20,
        <1>21, <1>22, <1>23, <1>24, <1>25, <1>26, <1>27, <1>28, <1>29, <1>30,
        <1>31, <1>32, <1>33, <1>34, <1>35, <1>36, <1>37, <1>38, <1>39, <1>40,
        <1>41, <1>42, <1>43, <1>44, <1>45, <1>46, <1>47, <1>48, <1>49, <1>50,
        <1>51, <1>52, <1>53, <1>54, <1>55, <1>56, <1>57, <1>58, <1>59, <1>60,
        <1>61, <1>62
  DEF Next, DaemonStep, BootStep, ReadStep

-----------------------------------------------------------------------------
(* One attempt *)

\* Only Consume moves the counter, and only Put follows it.
LEMMA OneAttemptStep ==
    ASSUME IInv, [Next]_vars
    PROVE OneAttempt'
<1> USE ConstantsAssumption, UpdatesFields
<1> USE DEF IInv, TypeOK, Control, CopiesAreCurrent, OneAttempt
<1>1. CASE FindFails
  BY <1>1 DEF FindFails, P, Reply, fileVars, OutsideDaemon, bootVars,
        readerVars, Working
<1>2. CASE CheckConsumed
  BY <1>2 DEF CheckConsumed, Found, P, fileVars, Scratch, OutsideDaemon,
        bootVars, readerVars, history, Working
<1>3. CASE CheckSuperseded
  BY <1>3 DEF CheckSuperseded, Found, P, Reply, fileVars, OutsideDaemon,
        bootVars, readerVars, Working
<1>4. CASE Claim
  BY <1>4 DEF Claim, MayProceed, Found, P, Receipt, Scratch, OutsideDaemon,
        bootVars, readerVars, history, Working
<1>5. CASE WriteClaim
  BY <1>5 DEF WriteClaim, Receipt, Scratch, OutsideDaemon, bootVars,
        readerVars, history, P, Working
<1>6. CASE WriteClaimFails
  BY <1>6 DEF WriteClaimFails, Reply, P, fileVars, OutsideDaemon, bootVars,
        readerVars, Working
<1>7. CASE ClaimTorn
  BY <1>7 DEF ClaimTorn, MayProceed, Found, P, Reply, fileVars,
        OutsideDaemon, bootVars, readerVars, Working
<1>8. CASE ClaimExists
  BY <1>8 DEF ClaimExists, MayProceed, Found, P, fileVars, Scratch,
        OutsideDaemon, bootVars, readerVars, history, Working
<1>9. CASE RecoverTerminal
  BY <1>9 DEF RecoverTerminal, Found, P, Reply, fileVars, OutsideDaemon,
        bootVars, readerVars, Working
<1>10. CASE Adopt
  BY <1>10 DEF Adopt, Found, P, fileVars, Scratch, OutsideDaemon, bootVars,
        readerVars, history, Working
<1>11. CASE RecoverRevoked
  BY <1>11 DEF RecoverRevoked, Receipt, Reply, P, OutsideDaemon, bootVars,
        readerVars, Working
<1>12. CASE Authorize
  BY <1>12 DEF Authorize, Found, P, Save, Scratch, OutsideDaemon, bootVars,
        readerVars, history, Working
<1>13. CASE MarkExecuting
  BY <1>13 DEF MarkExecuting, Receipt, Scratch, OutsideDaemon, bootVars,
        readerVars, history, P, Working
<1>14. CASE ReceiptGone
  BY <1>14 DEF ReceiptGone, Found, P, Reply, fileVars, OutsideDaemon,
        bootVars, readerVars, Working
<1>15. CASE Load
  BY <1>15 DEF Load, Found, P, fileVars, Scratch, OutsideDaemon, bootVars,
        readerVars, history, Working
<1>16. CASE Preflight
  BY <1>16 DEF Preflight, P, Goto, fileVars, bootVars, readerVars, history,
        Scratch, Working
<1>17. CASE Consume
  BY <1>17 DEF Consume, Save, P, Scratch, OutsideDaemon, bootVars,
        readerVars, history, Working
<1>18. CASE WriteFails
  BY <1>18 DEF WriteFails, Goto, fileVars, bootVars, readerVars, history,
        Scratch, P, Working
<1>19. CASE Put
  BY <1>19 DEF Put, P, fileVars, Scratch, OutsideDaemon, bootVars,
        readerVars, Working
<1>20. CASE Response
  BY <1>20 DEF Response, P, Goto, fileVars, bootVars, readerVars, history,
        Working
<1>21. CASE Accepted
  BY <1>21 DEF Accepted, Save, P, Scratch, OutsideDaemon, bootVars,
        readerVars, history, Working
<1>22. CASE AcceptedEvent
  BY <1>22 DEF AcceptedEvent, P, Scratch, OutsideDaemon, bootVars,
        readerVars, history, Working
<1>23. CASE Readback
  BY <1>23 DEF Readback, P, Goto, fileVars, bootVars, readerVars, history,
        Working
<1>24. CASE Persist
  BY <1>24 DEF Persist, Save, P, Scratch, OutsideDaemon, bootVars,
        readerVars, history, Working, Verdicts
<1>25. CASE Event
  BY <1>25 DEF Event, P, Scratch, OutsideDaemon, bootVars, readerVars,
        history, Working
<1>26. CASE QueueRead
  BY <1>26 DEF QueueRead, Goto, fileVars, bootVars, readerVars, history, P,
        Working
<1>27. CASE QueueWrite
  BY <1>27 DEF QueueWrite, P, Scratch, OutsideDaemon, bootVars, readerVars,
        history, Working
<1>28. CASE Settle
  BY <1>28 DEF Settle, Found, P, Receipt, OutsideDaemon, bootVars,
        readerVars, history, Working
<1>29. CASE SettleConsumed
  BY <1>29 DEF SettleConsumed, Receipt, Settled, OutsideDaemon, bootVars,
        readerVars, history, P, Working
<1>30. CASE SettleConsumedTorn
  BY <1>30 DEF SettleConsumedTorn, Reply, P, fileVars, OutsideDaemon,
        bootVars, readerVars, Working
<1>31. CASE SettleError
  BY <1>31 DEF SettleError, Found, P, Receipt, Settled, OutsideDaemon,
        bootVars, readerVars, history, Working
<1>32. CASE Revoke
  BY <1>32 DEF Revoke, Found, P, Save, Scratch, OutsideDaemon, bootVars,
        readerVars, history, Working
<1>33. CASE Block
  BY <1>33 DEF Block, Receipt, OutsideDaemon, bootVars, readerVars, history,
        P, Working
<1>34. CASE RevokeUnexpected
  BY <1>34 DEF RevokeUnexpected, Found, P, Save, OutsideDaemon, bootVars,
        readerVars, history, Working
<1>35. CASE NotifyClaim
  BY <1>35 DEF NotifyClaim, Found, P, Save, Scratch, OutsideDaemon, bootVars,
        readerVars, history, Working
<1>36. CASE NotifySkip
  BY <1>36 DEF NotifySkip, Goto, fileVars, bootVars, readerVars, history,
        Scratch, P, Working
<1>37. CASE NotifySend
  BY <1>37 DEF NotifySend, P, fileVars, Scratch, OutsideDaemon, bootVars,
        readerVars, Working
<1>38. CASE NotifyRecord
  BY <1>38 DEF NotifyRecord, Save, P, Scratch, OutsideDaemon, bootVars,
        readerVars, history, Working
<1>39. CASE Finish
  BY <1>39 DEF Finish, Found, P, Reply, CodeFor, fileVars, OutsideDaemon,
        bootVars, readerVars, Working
<1>40. ASSUME NEW i \in Instances, Receive(i) PROVE OneAttempt'
  BY <1>40 DEF Receive, fileVars, Scratch, OutsideDaemon, bootVars,
        readerVars, history, P, Working
<1>41. CASE Crash
  BY <1>41 DEF Crash, Dead, fileVars, readerVars, providerVars, history, P,
        Working
<1>42. CASE DaemonStart
  BY <1>42 DEF DaemonStart, BootScan, fileVars, Scratch, readerVars,
        providerVars, history, P, Working
<1>43. CASE Ready
  BY <1>43 DEF Ready, fileVars, Scratch, bootVars, readerVars, providerVars,
        history, P, Working
<1>44. ASSUME NEW b \in Booters, CommandStart(b) PROVE OneAttempt'
  BY <1>44 DEF CommandStart, BootScan, fileVars, daemonVars, readerVars,
        providerVars, history, P, Working
<1>45. ASSUME NEW b \in Booters, NEW i \in Instances, BootRead(b, i)
       PROVE OneAttempt'
  BY <1>45 DEF BootRead, fileVars, daemonVars, readerVars, providerVars,
        history, P, Working
<1>46. ASSUME NEW b \in Booters, BootSettle(b) PROVE OneAttempt'
  BY <1>46 DEF BootSettle, daemonVars, readerVars, providerVars, history, P,
        Working
<1>47. ASSUME NEW b \in Booters, BootFails(b) PROVE OneAttempt'
  BY <1>47 DEF BootFails, fileVars, Scratch, readerVars, providerVars,
        history, P, Working
<1>48. ASSUME NEW r \in Readers, NEW p \in Posts, ReadStart(r, p)
       PROVE OneAttempt'
  BY <1>48 DEF ReadStart, fileVars, daemonVars, bootVars, providerVars,
        history, P, Working
<1>49. ASSUME NEW r \in Readers, ReadTruth(r) PROVE OneAttempt'
  BY <1>49 DEF ReadTruth, fileVars, OutsideReader, daemonVars, bootVars,
        providerVars, history, P, Working
<1>50. ASSUME NEW r \in Readers, ReadPersist(r) PROVE OneAttempt'
  <2> DEFINE q == rpost[r]
  <2>1. q \in Posts /\ rman[r] = man[q] /\ lock[q] = r
    BY <1>50 DEF ReadPersist
  <2>2. CASE rnew[r] = "PUBLISHED_CORRECTED"
    <3>1. man' = man
      BY <1>50, <2>1, <2>2 DEF ReadPersist
    <3> QED BY <1>50, <3>1 DEF ReadPersist, OutsideReader, daemonVars,
              providerVars, history, P
  <2>3. CASE rnew[r] # "PUBLISHED_CORRECTED"
    <3>1. man' = [man EXCEPT ![q] = Outcome(man[q], rnew[r])]
      BY <1>50, <2>1, <2>3 DEF ReadPersist
    <3>2. man[q].state = "PUBLISHING" /\ man[q].attempts # 0
      BY <1>50, <2>1, <2>3 DEF ReadPersist
    <3>3. man'[q].state = rnew[r] /\ man'[q].attempts # 0
      BY <2>1, <3>1, <3>2
    <3>4. rnew[r] # "NOT_REQUESTED"
      <4>1. rnew[r] \in {"NONE", "PUBLISHED", "FAILED", "PUBLISHED_CORRECTED"}
        OBVIOUS
      <4> QED BY <4>1
    <3>5. P # q \/ pc \notin Working
      BY <2>1
    <3> QED BY <1>50, <2>1, <3>1, <3>2, <3>3, <3>4, <3>5 DEF ReadPersist,
              OutsideReader, daemonVars, providerVars, history, P, Working
  <2> QED BY <2>2, <2>3
<1>51. ASSUME NEW r \in Readers, ReadEvent(r) PROVE OneAttempt'
  BY <1>51 DEF ReadEvent, OutsideReader, daemonVars, bootVars, providerVars,
        history, P, Working
<1>52. ASSUME NEW r \in Readers, ReadQueue(r) PROVE OneAttempt'
  BY <1>52 DEF ReadQueue, fileVars, OutsideReader, daemonVars, bootVars,
        providerVars, history, P, Working
<1>53. ASSUME NEW r \in Readers, ReadQueueWrite(r) PROVE OneAttempt'
  BY <1>53 DEF ReadQueueWrite, OutsideReader, daemonVars, bootVars,
        providerVars, history, P, Working
<1>54. ASSUME NEW r \in Readers, ReadScan(r) PROVE OneAttempt'
  BY <1>54 DEF ReadScan, fileVars, OutsideReader, daemonVars, bootVars,
        providerVars, history, P, Working
<1>55. ASSUME NEW r \in Readers, ReadEnd(r) PROVE OneAttempt'
  BY <1>55 DEF ReadEnd, fileVars, OutsideReader, daemonVars, bootVars,
        providerVars, history, P, Working
<1>56. ASSUME NEW r \in Readers, NEW i \in Instances, Converge(r, i)
       PROVE OneAttempt'
  BY <1>56 DEF Converge, OutsideReader, daemonVars, bootVars, providerVars,
        history, P, Working
<1>57. ASSUME NEW p \in Posts, FirstStage(p) PROVE OneAttempt'
  BY <1>57 DEF FirstStage, daemonVars, bootVars, readerVars, providerVars,
        history, P, Working
<1>58. ASSUME NEW p \in Posts, Supersede(p) PROVE OneAttempt'
  BY <1>58 DEF Supersede, daemonVars, bootVars, readerVars, providerVars,
        history, P, Working
<1>59. ASSUME NEW p \in Posts, ChangeFiles(p) PROVE OneAttempt'
  BY <1>59 DEF ChangeFiles, daemonVars, bootVars, readerVars, providerVars,
        history, P, Working
<1>60. ASSUME NEW p \in Posts, Deliver(p) PROVE OneAttempt'
  BY <1>60 DEF Deliver, fileVars, daemonVars, bootVars, readerVars, history,
        P, Working
<1>61. ASSUME NEW p \in Posts, Provider(p) PROVE OneAttempt'
  BY <1>61 DEF Provider, fileVars, daemonVars, bootVars, readerVars, history,
        P, Working
<1>62. CASE UNCHANGED vars
  BY <1>62 DEF vars, fileVars, daemonVars, bootVars, readerVars,
        providerVars, history, P, Working
<1> QED BY <1>1, <1>2, <1>3, <1>4, <1>5, <1>6, <1>7, <1>8, <1>9, <1>10,
        <1>11, <1>12, <1>13, <1>14, <1>15, <1>16, <1>17, <1>18, <1>19, <1>20,
        <1>21, <1>22, <1>23, <1>24, <1>25, <1>26, <1>27, <1>28, <1>29, <1>30,
        <1>31, <1>32, <1>33, <1>34, <1>35, <1>36, <1>37, <1>38, <1>39, <1>40,
        <1>41, <1>42, <1>43, <1>44, <1>45, <1>46, <1>47, <1>48, <1>49, <1>50,
        <1>51, <1>52, <1>53, <1>54, <1>55, <1>56, <1>57, <1>58, <1>59, <1>60,
        <1>61, <1>62
  DEF Next, DaemonStep, BootStep, ReadStep

-----------------------------------------------------------------------------
(* One notification *)

\* Only NotifySend sends, and NotifyClaim has counted the try before.
LEMMA OneNoticeStep ==
    ASSUME IInv, [Next]_vars
    PROVE OneNotice'
<1> USE ConstantsAssumption, UpdatesTries
<1> USE DEF IInv, TypeOK, Control, CopiesAreCurrent, OneNotice
<1>1. CASE FindFails
  BY <1>1 DEF FindFails, P, Reply, fileVars, OutsideDaemon, bootVars,
        readerVars, Working
<1>2. CASE CheckConsumed
  BY <1>2 DEF CheckConsumed, Found, P, fileVars, Scratch, OutsideDaemon,
        bootVars, readerVars, history, Working
<1>3. CASE CheckSuperseded
  BY <1>3 DEF CheckSuperseded, Found, P, Reply, fileVars, OutsideDaemon,
        bootVars, readerVars, Working
<1>4. CASE Claim
  BY <1>4 DEF Claim, MayProceed, Found, P, Receipt, Scratch, OutsideDaemon,
        bootVars, readerVars, history, Working
<1>5. CASE WriteClaim
  BY <1>5 DEF WriteClaim, Receipt, Scratch, OutsideDaemon, bootVars,
        readerVars, history, P, Working
<1>6. CASE WriteClaimFails
  BY <1>6 DEF WriteClaimFails, Reply, P, fileVars, OutsideDaemon, bootVars,
        readerVars, Working
<1>7. CASE ClaimTorn
  BY <1>7 DEF ClaimTorn, MayProceed, Found, P, Reply, fileVars,
        OutsideDaemon, bootVars, readerVars, Working
<1>8. CASE ClaimExists
  BY <1>8 DEF ClaimExists, MayProceed, Found, P, fileVars, Scratch,
        OutsideDaemon, bootVars, readerVars, history, Working
<1>9. CASE RecoverTerminal
  BY <1>9 DEF RecoverTerminal, Found, P, Reply, fileVars, OutsideDaemon,
        bootVars, readerVars, Working
<1>10. CASE Adopt
  BY <1>10 DEF Adopt, Found, P, fileVars, Scratch, OutsideDaemon, bootVars,
        readerVars, history, Working
<1>11. CASE RecoverRevoked
  BY <1>11 DEF RecoverRevoked, Receipt, Reply, P, OutsideDaemon, bootVars,
        readerVars, Working
<1>12. CASE Authorize
  BY <1>12 DEF Authorize, Found, P, Save, Scratch, OutsideDaemon, bootVars,
        readerVars, history, Working
<1>13. CASE MarkExecuting
  BY <1>13 DEF MarkExecuting, Receipt, Scratch, OutsideDaemon, bootVars,
        readerVars, history, P, Working
<1>14. CASE ReceiptGone
  BY <1>14 DEF ReceiptGone, Found, P, Reply, fileVars, OutsideDaemon,
        bootVars, readerVars, Working
<1>15. CASE Load
  BY <1>15 DEF Load, Found, P, fileVars, Scratch, OutsideDaemon, bootVars,
        readerVars, history, Working
<1>16. CASE Preflight
  BY <1>16 DEF Preflight, P, Goto, fileVars, bootVars, readerVars, history,
        Scratch, Working
<1>17. CASE Consume
  BY <1>17 DEF Consume, Save, P, Scratch, OutsideDaemon, bootVars,
        readerVars, history, Working
<1>18. CASE WriteFails
  BY <1>18 DEF WriteFails, Goto, fileVars, bootVars, readerVars, history,
        Scratch, P, Working
<1>19. CASE Put
  BY <1>19 DEF Put, P, fileVars, Scratch, OutsideDaemon, bootVars,
        readerVars, Working
<1>20. CASE Response
  BY <1>20 DEF Response, P, Goto, fileVars, bootVars, readerVars, history,
        Working
<1>21. CASE Accepted
  BY <1>21 DEF Accepted, Save, P, Scratch, OutsideDaemon, bootVars,
        readerVars, history, Working
<1>22. CASE AcceptedEvent
  BY <1>22 DEF AcceptedEvent, P, Scratch, OutsideDaemon, bootVars,
        readerVars, history, Working
<1>23. CASE Readback
  BY <1>23 DEF Readback, P, Goto, fileVars, bootVars, readerVars, history,
        Working
<1>24. CASE Persist
  BY <1>24 DEF Persist, Save, P, Scratch, OutsideDaemon, bootVars,
        readerVars, history, Working
<1>25. CASE Event
  BY <1>25 DEF Event, P, Scratch, OutsideDaemon, bootVars, readerVars,
        history, Working
<1>26. CASE QueueRead
  BY <1>26 DEF QueueRead, Goto, fileVars, bootVars, readerVars, history, P,
        Working
<1>27. CASE QueueWrite
  BY <1>27 DEF QueueWrite, P, Scratch, OutsideDaemon, bootVars, readerVars,
        history, Working
<1>28. CASE Settle
  BY <1>28 DEF Settle, Found, P, Receipt, OutsideDaemon, bootVars,
        readerVars, history, Working
<1>29. CASE SettleConsumed
  BY <1>29 DEF SettleConsumed, Receipt, Settled, OutsideDaemon, bootVars,
        readerVars, history, P, Working
<1>30. CASE SettleConsumedTorn
  BY <1>30 DEF SettleConsumedTorn, Reply, P, fileVars, OutsideDaemon,
        bootVars, readerVars, Working
<1>31. CASE SettleError
  BY <1>31 DEF SettleError, Found, P, Receipt, Settled, OutsideDaemon,
        bootVars, readerVars, history, Working
<1>32. CASE Revoke
  BY <1>32 DEF Revoke, Found, P, Save, Scratch, OutsideDaemon, bootVars,
        readerVars, history, Working
<1>33. CASE Block
  BY <1>33 DEF Block, Receipt, OutsideDaemon, bootVars, readerVars, history,
        P, Working
<1>34. CASE RevokeUnexpected
  BY <1>34 DEF RevokeUnexpected, Found, P, Save, OutsideDaemon, bootVars,
        readerVars, history, Working
<1>35. CASE NotifyClaim
  BY <1>35 DEF NotifyClaim, Found, P, Save, Scratch, OutsideDaemon, bootVars,
        readerVars, history, Working
<1>36. CASE NotifySkip
  BY <1>36 DEF NotifySkip, Goto, fileVars, bootVars, readerVars, history,
        Scratch, P, Working
<1>37. CASE NotifySend
  BY <1>37 DEF NotifySend, P, fileVars, Scratch, OutsideDaemon, bootVars,
        readerVars, Working
<1>38. CASE NotifyRecord
  BY <1>38 DEF NotifyRecord, Save, P, Scratch, OutsideDaemon, bootVars,
        readerVars, history, Working
<1>39. CASE Finish
  BY <1>39 DEF Finish, Found, P, Reply, CodeFor, fileVars, OutsideDaemon,
        bootVars, readerVars, Working
<1>40. ASSUME NEW i \in Instances, Receive(i) PROVE OneNotice'
  BY <1>40 DEF Receive, fileVars, Scratch, OutsideDaemon, bootVars,
        readerVars, history, P, Working
<1>41. CASE Crash
  BY <1>41 DEF Crash, Dead, fileVars, readerVars, providerVars, history, P,
        Working
<1>42. CASE DaemonStart
  BY <1>42 DEF DaemonStart, BootScan, fileVars, Scratch, readerVars,
        providerVars, history, P, Working
<1>43. CASE Ready
  BY <1>43 DEF Ready, fileVars, Scratch, bootVars, readerVars, providerVars,
        history, P, Working
<1>44. ASSUME NEW b \in Booters, CommandStart(b) PROVE OneNotice'
  BY <1>44 DEF CommandStart, BootScan, fileVars, daemonVars, readerVars,
        providerVars, history, P, Working
<1>45. ASSUME NEW b \in Booters, NEW i \in Instances, BootRead(b, i)
       PROVE OneNotice'
  BY <1>45 DEF BootRead, fileVars, daemonVars, readerVars, providerVars,
        history, P, Working
<1>46. ASSUME NEW b \in Booters, BootSettle(b) PROVE OneNotice'
  BY <1>46 DEF BootSettle, daemonVars, readerVars, providerVars, history, P,
        Working
<1>47. ASSUME NEW b \in Booters, BootFails(b) PROVE OneNotice'
  BY <1>47 DEF BootFails, fileVars, Scratch, readerVars, providerVars,
        history, P, Working
<1>48. ASSUME NEW r \in Readers, NEW p \in Posts, ReadStart(r, p)
       PROVE OneNotice'
  BY <1>48 DEF ReadStart, fileVars, daemonVars, bootVars, providerVars,
        history, P, Working
<1>49. ASSUME NEW r \in Readers, ReadTruth(r) PROVE OneNotice'
  BY <1>49 DEF ReadTruth, fileVars, OutsideReader, daemonVars, bootVars,
        providerVars, history, P, Working
<1>50. ASSUME NEW r \in Readers, ReadPersist(r) PROVE OneNotice'
  BY <1>50 DEF ReadPersist, OutsideReader, daemonVars, bootVars,
        providerVars, history, P, Working
<1>51. ASSUME NEW r \in Readers, ReadEvent(r) PROVE OneNotice'
  BY <1>51 DEF ReadEvent, OutsideReader, daemonVars, bootVars, providerVars,
        history, P, Working
<1>52. ASSUME NEW r \in Readers, ReadQueue(r) PROVE OneNotice'
  BY <1>52 DEF ReadQueue, fileVars, OutsideReader, daemonVars, bootVars,
        providerVars, history, P, Working
<1>53. ASSUME NEW r \in Readers, ReadQueueWrite(r) PROVE OneNotice'
  BY <1>53 DEF ReadQueueWrite, OutsideReader, daemonVars, bootVars,
        providerVars, history, P, Working
<1>54. ASSUME NEW r \in Readers, ReadScan(r) PROVE OneNotice'
  BY <1>54 DEF ReadScan, fileVars, OutsideReader, daemonVars, bootVars,
        providerVars, history, P, Working
<1>55. ASSUME NEW r \in Readers, ReadEnd(r) PROVE OneNotice'
  BY <1>55 DEF ReadEnd, fileVars, OutsideReader, daemonVars, bootVars,
        providerVars, history, P, Working
<1>56. ASSUME NEW r \in Readers, NEW i \in Instances, Converge(r, i)
       PROVE OneNotice'
  BY <1>56 DEF Converge, OutsideReader, daemonVars, bootVars, providerVars,
        history, P, Working
<1>57. ASSUME NEW p \in Posts, FirstStage(p) PROVE OneNotice'
  BY <1>57 DEF FirstStage, daemonVars, bootVars, readerVars, providerVars,
        history, P, Working
<1>58. ASSUME NEW p \in Posts, Supersede(p) PROVE OneNotice'
  BY <1>58 DEF Supersede, daemonVars, bootVars, readerVars, providerVars,
        history, P, Working
<1>59. ASSUME NEW p \in Posts, ChangeFiles(p) PROVE OneNotice'
  BY <1>59 DEF ChangeFiles, daemonVars, bootVars, readerVars, providerVars,
        history, P, Working
<1>60. ASSUME NEW p \in Posts, Deliver(p) PROVE OneNotice'
  BY <1>60 DEF Deliver, fileVars, daemonVars, bootVars, readerVars, history,
        P, Working
<1>61. ASSUME NEW p \in Posts, Provider(p) PROVE OneNotice'
  BY <1>61 DEF Provider, fileVars, daemonVars, bootVars, readerVars, history,
        P, Working
<1>62. CASE UNCHANGED vars
  BY <1>62 DEF vars, fileVars, daemonVars, bootVars, readerVars,
        providerVars, history, P, Working
<1> QED BY <1>1, <1>2, <1>3, <1>4, <1>5, <1>6, <1>7, <1>8, <1>9, <1>10,
        <1>11, <1>12, <1>13, <1>14, <1>15, <1>16, <1>17, <1>18, <1>19, <1>20,
        <1>21, <1>22, <1>23, <1>24, <1>25, <1>26, <1>27, <1>28, <1>29, <1>30,
        <1>31, <1>32, <1>33, <1>34, <1>35, <1>36, <1>37, <1>38, <1>39, <1>40,
        <1>41, <1>42, <1>43, <1>44, <1>45, <1>46, <1>47, <1>48, <1>49, <1>50,
        <1>51, <1>52, <1>53, <1>54, <1>55, <1>56, <1>57, <1>58, <1>59, <1>60,
        <1>61, <1>62
  DEF Next, DaemonStep, BootStep, ReadStep

-----------------------------------------------------------------------------
(* The implementation keeps the abstract promise *)

\* A step that moves neither a post's attempt and state nor a PUT is no step
\* of the promise.
LEMMA UnmovedStutters ==
    ASSUME UNCHANGED puts,
           \A p \in Posts : man'[p].attempts = man[p].attempts
                             /\ man'[p].state = man[p].state
    PROVE UNCHANGED Promise!vars
BY DEF Promise!vars

\* Consuming the attempt is Own.
LEMMA OwnIsPromised ==
    ASSUME man \in [Posts -> Manifest], NEW q \in Posts, man[q].attempts = 0,
           man' = [man EXCEPT ![q] = Consumed(man[q])], UNCHANGED puts
    PROVE Promise!Next
<1>1. Consumed(man[q]).attempts = 1 /\ Consumed(man[q]).state = "PUBLISH_IN_FLIGHT"
  BY UpdatesFields
<1>2. \A p \in Posts :
        /\ p # q => man'[p] = man[p]
        /\ p = q => man'[p].attempts = 1 /\ man'[p].state = "PUBLISH_IN_FLIGHT"
  BY <1>1
<1>3. {p \in Posts : man'[p].attempts = 1}
        = {p \in Posts : man[p].attempts = 1} \cup {q}
  BY <1>2
<1>4. [p \in Posts |-> man'[p].state]
        = [[p \in Posts |-> man[p].state] EXCEPT ![q] = "PUBLISH_IN_FLIGHT"]
  BY <1>2
<1>5. Promise!Own(q)
  BY <1>3, <1>4 DEF Promise!Own
<1> QED BY <1>5 DEF Promise!Next

\* Writing a result is Record or Resolve.
LEMMA OutcomeIsPromised ==
    ASSUME man \in [Posts -> Manifest], NEW q \in Posts, NEW s,
           man' = [man EXCEPT ![q] = Outcome(man[q], s)], UNCHANGED puts,
           \/ man[q].state = "PUBLISH_IN_FLIGHT" /\ puts[q] = 1 /\ s \in Verdicts
           \/ man[q].state = "PUBLISHING" /\ s \in {"PUBLISHED", "FAILED"}
    PROVE Promise!Next
<1>1. Outcome(man[q], s).attempts = man[q].attempts /\ Outcome(man[q], s).state = s
  BY UpdatesFields
<1>2. \A p \in Posts :
        /\ p # q => man'[p] = man[p]
        /\ p = q => man'[p].attempts = man[p].attempts /\ man'[p].state = s
  BY <1>1
<1>3. {p \in Posts : man'[p].attempts = 1} = {p \in Posts : man[p].attempts = 1}
  BY <1>2
<1>4. [p \in Posts |-> man'[p].state] = [[p \in Posts |-> man[p].state] EXCEPT ![q] = s]
  BY <1>2
<1>5. Promise!Record(q) \/ Promise!Resolve(q)
  BY <1>3, <1>4 DEF Promise!Record, Promise!Resolve, Promise!Recorded, Promise!Final,
                    Verdicts
<1> QED BY <1>5 DEF Promise!Next

\* Issuing the PUT is Call.
LEMMA PutIsPromised ==
    ASSUME NEW q \in Posts, man[q].attempts = 1, puts[q] = 0,
           puts' = [puts EXCEPT ![q] = 1], UNCHANGED man
    PROVE Promise!Next
<1>1. Promise!Call(q)
  BY DEF Promise!Call
<1> QED BY <1>1 DEF Promise!Next

\* Every step is a step of the promise or changes nothing it speaks of.
LEMMA PromiseStep ==
    ASSUME IInv, [Next]_vars
    PROVE [Promise!Next]_(Promise!vars)
<1> USE ConstantsAssumption, UpdatesFields
<1> USE DEF IInv, TypeOK, Control, CopiesAreCurrent
<1>1. CASE FindFails
  BY <1>1, UnmovedStutters DEF FindFails, P, Reply, fileVars, OutsideDaemon,
        bootVars, readerVars, Working
<1>2. CASE CheckConsumed
  BY <1>2, UnmovedStutters DEF CheckConsumed, Found, P, fileVars, Scratch,
        OutsideDaemon, bootVars, readerVars, history, Working
<1>3. CASE CheckSuperseded
  BY <1>3, UnmovedStutters DEF CheckSuperseded, Found, P, Reply, fileVars,
        OutsideDaemon, bootVars, readerVars, Working
<1>4. CASE Claim
  BY <1>4, UnmovedStutters DEF Claim, MayProceed, Found, P, Receipt, Scratch,
        OutsideDaemon, bootVars, readerVars, history, Working
<1>5. CASE WriteClaim
  BY <1>5, UnmovedStutters DEF WriteClaim, Receipt, Scratch, OutsideDaemon,
        bootVars, readerVars, history, P, Working
<1>6. CASE WriteClaimFails
  BY <1>6, UnmovedStutters DEF WriteClaimFails, Reply, P, fileVars,
        OutsideDaemon, bootVars, readerVars, Working
<1>7. CASE ClaimTorn
  BY <1>7, UnmovedStutters DEF ClaimTorn, MayProceed, Found, P, Reply,
        fileVars, OutsideDaemon, bootVars, readerVars, Working
<1>8. CASE ClaimExists
  BY <1>8, UnmovedStutters DEF ClaimExists, MayProceed, Found, P, fileVars,
        Scratch, OutsideDaemon, bootVars, readerVars, history, Working
<1>9. CASE RecoverTerminal
  BY <1>9, UnmovedStutters DEF RecoverTerminal, Found, P, Reply, fileVars,
        OutsideDaemon, bootVars, readerVars, Working
<1>10. CASE Adopt
  BY <1>10, UnmovedStutters DEF Adopt, Found, P, fileVars, Scratch,
        OutsideDaemon, bootVars, readerVars, history, Working
<1>11. CASE RecoverRevoked
  BY <1>11, UnmovedStutters DEF RecoverRevoked, Receipt, Reply, P,
        OutsideDaemon, bootVars, readerVars, Working
<1>12. CASE Authorize
  BY <1>12, UnmovedStutters DEF Authorize, Found, P, Save, Scratch,
        OutsideDaemon, bootVars, readerVars, history, Working
<1>13. CASE MarkExecuting
  BY <1>13, UnmovedStutters DEF MarkExecuting, Receipt, Scratch,
        OutsideDaemon, bootVars, readerVars, history, P, Working
<1>14. CASE ReceiptGone
  BY <1>14, UnmovedStutters DEF ReceiptGone, Found, P, Reply, fileVars,
        OutsideDaemon, bootVars, readerVars, Working
<1>15. CASE Load
  BY <1>15, UnmovedStutters DEF Load, Found, P, fileVars, Scratch,
        OutsideDaemon, bootVars, readerVars, history, Working
<1>16. CASE Preflight
  BY <1>16, UnmovedStutters DEF Preflight, P, Goto, fileVars, bootVars,
        readerVars, history, Scratch, Working
<1>17. CASE Consume
  <2>1. P \in Posts /\ own = man[P] /\ man[P].attempts = 0
    BY <1>17 DEF Consume, P, Working, OneAttempt
  <2>2. man' = [man EXCEPT ![P] = Consumed(man[P])] /\ UNCHANGED puts
    BY <1>17, <2>1 DEF Consume, Save, history
  <2> QED BY <2>1, <2>2, OwnIsPromised
<1>18. CASE WriteFails
  BY <1>18, UnmovedStutters DEF WriteFails, Goto, fileVars, bootVars,
        readerVars, history, Scratch, P, Working
<1>19. CASE Put
  <2>1. P \in Posts /\ puts[P] = 0 /\ man[P].state = "PUBLISH_IN_FLIGHT"
    BY <1>19 DEF Put, P, Working, OneAttempt
  <2>2. man[P].attempts = 1
    <3>1. man[P] \in Manifest
      BY <2>1
    <3>2. man[P].attempts \in {0, 1}
      BY <3>1, Zenon DEF Manifest
    <3> QED BY <2>1, <3>2 DEF OneAttempt
  <2>3. UNCHANGED man /\ puts' = [puts EXCEPT ![P] = 1]
    BY <1>19, <2>1 DEF Put, fileVars
  <2> QED BY <2>1, <2>2, <2>3, PutIsPromised
<1>20. CASE Response
  BY <1>20, UnmovedStutters DEF Response, P, Goto, fileVars, bootVars,
        readerVars, history, Working
<1>21. CASE Accepted
  BY <1>21, UnmovedStutters DEF Accepted, Save, P, Scratch, OutsideDaemon,
        bootVars, readerVars, history, Working
<1>22. CASE AcceptedEvent
  BY <1>22, UnmovedStutters DEF AcceptedEvent, P, Scratch, OutsideDaemon,
        bootVars, readerVars, history, Working
<1>23. CASE Readback
  BY <1>23, UnmovedStutters DEF Readback, P, Goto, fileVars, bootVars,
        readerVars, history, Working
<1>24. CASE Persist
  <2>1. P \in Posts /\ own = man[P] /\ puts[P] = 1 /\ man[P].state = "PUBLISH_IN_FLIGHT"
    BY <1>24 DEF Persist, P, Working, OneAttempt
  <2>2. man' = [man EXCEPT ![P] = Outcome(man[P], verdict)] /\ UNCHANGED puts
    BY <1>24, <2>1 DEF Persist, Save, history
  <2> QED BY <2>1, <2>2, OutcomeIsPromised
<1>25. CASE Event
  BY <1>25, UnmovedStutters DEF Event, P, Scratch, OutsideDaemon, bootVars,
        readerVars, history, Working
<1>26. CASE QueueRead
  BY <1>26, UnmovedStutters DEF QueueRead, Goto, fileVars, bootVars,
        readerVars, history, P, Working
<1>27. CASE QueueWrite
  BY <1>27, UnmovedStutters DEF QueueWrite, P, Scratch, OutsideDaemon,
        bootVars, readerVars, history, Working
<1>28. CASE Settle
  BY <1>28, UnmovedStutters DEF Settle, Found, P, Receipt, OutsideDaemon,
        bootVars, readerVars, history, Working
<1>29. CASE SettleConsumed
  BY <1>29, UnmovedStutters DEF SettleConsumed, Receipt, Settled,
        OutsideDaemon, bootVars, readerVars, history, P, Working
<1>30. CASE SettleConsumedTorn
  BY <1>30, UnmovedStutters DEF SettleConsumedTorn, Reply, P, fileVars,
        OutsideDaemon, bootVars, readerVars, Working
<1>31. CASE SettleError
  BY <1>31, UnmovedStutters DEF SettleError, Found, P, Receipt, Settled,
        OutsideDaemon, bootVars, readerVars, history, Working
<1>32. CASE Revoke
  BY <1>32, UnmovedStutters DEF Revoke, Found, P, Save, Scratch,
        OutsideDaemon, bootVars, readerVars, history, Working
<1>33. CASE Block
  BY <1>33, UnmovedStutters DEF Block, Receipt, OutsideDaemon, bootVars,
        readerVars, history, P, Working
<1>34. CASE RevokeUnexpected
  BY <1>34, UnmovedStutters DEF RevokeUnexpected, Found, P, Save,
        OutsideDaemon, bootVars, readerVars, history, Working
<1>35. CASE NotifyClaim
  BY <1>35, UnmovedStutters DEF NotifyClaim, Found, P, Save, Scratch,
        OutsideDaemon, bootVars, readerVars, history, Working
<1>36. CASE NotifySkip
  BY <1>36, UnmovedStutters DEF NotifySkip, Goto, fileVars, bootVars,
        readerVars, history, Scratch, P, Working
<1>37. CASE NotifySend
  BY <1>37, UnmovedStutters DEF NotifySend, P, fileVars, Scratch,
        OutsideDaemon, bootVars, readerVars, Working
<1>38. CASE NotifyRecord
  BY <1>38, UnmovedStutters DEF NotifyRecord, Save, P, Scratch,
        OutsideDaemon, bootVars, readerVars, history, Working
<1>39. CASE Finish
  BY <1>39, UnmovedStutters DEF Finish, Found, P, Reply, CodeFor, fileVars,
        OutsideDaemon, bootVars, readerVars, Working
<1>40. ASSUME NEW i \in Instances, Receive(i) PROVE UNCHANGED Promise!vars
  BY <1>40, UnmovedStutters DEF Receive, fileVars, Scratch, OutsideDaemon,
        bootVars, readerVars, history, P, Working
<1>41. CASE Crash
  BY <1>41, UnmovedStutters DEF Crash, Dead, fileVars, readerVars,
        providerVars, history, P, Working
<1>42. CASE DaemonStart
  BY <1>42, UnmovedStutters DEF DaemonStart, BootScan, fileVars, Scratch,
        readerVars, providerVars, history, P, Working
<1>43. CASE Ready
  BY <1>43, UnmovedStutters DEF Ready, fileVars, Scratch, bootVars,
        readerVars, providerVars, history, P, Working
<1>44. ASSUME NEW b \in Booters, CommandStart(b) PROVE UNCHANGED Promise!vars
  BY <1>44, UnmovedStutters DEF CommandStart, BootScan, fileVars, daemonVars,
        readerVars, providerVars, history, P, Working
<1>45. ASSUME NEW b \in Booters, NEW i \in Instances, BootRead(b, i)
       PROVE UNCHANGED Promise!vars
  BY <1>45, UnmovedStutters DEF BootRead, fileVars, daemonVars, readerVars,
        providerVars, history, P, Working
<1>46. ASSUME NEW b \in Booters, BootSettle(b) PROVE UNCHANGED Promise!vars
  BY <1>46, UnmovedStutters DEF BootSettle, daemonVars, readerVars,
        providerVars, history, P, Working
<1>47. ASSUME NEW b \in Booters, BootFails(b) PROVE UNCHANGED Promise!vars
  BY <1>47, UnmovedStutters DEF BootFails, fileVars, Scratch, readerVars,
        providerVars, history, P, Working
<1>48. ASSUME NEW r \in Readers, NEW p \in Posts, ReadStart(r, p)
       PROVE UNCHANGED Promise!vars
  BY <1>48, UnmovedStutters DEF ReadStart, fileVars, daemonVars, bootVars,
        providerVars, history, P, Working
<1>49. ASSUME NEW r \in Readers, ReadTruth(r) PROVE UNCHANGED Promise!vars
  BY <1>49, UnmovedStutters DEF ReadTruth, fileVars, OutsideReader,
        daemonVars, bootVars, providerVars, history, P, Working
<1>50. ASSUME NEW r \in Readers, ReadPersist(r) PROVE [Promise!Next]_(Promise!vars)
  <2> DEFINE q == rpost[r]
  <2>1. q \in Posts /\ rman[r] = man[q] /\ UNCHANGED puts
    BY <1>50 DEF ReadPersist, OutsideReader, history
  <2>2. CASE rnew[r] = "PUBLISHED_CORRECTED"
    <3>1. man' = man
      BY <1>50, <2>1, <2>2 DEF ReadPersist
    <3> QED BY <2>1, <3>1, UnmovedStutters
  <2>3. CASE rnew[r] # "PUBLISHED_CORRECTED"
    <3>1. man' = [man EXCEPT ![q] = Outcome(man[q], rnew[r])]
      BY <1>50, <2>1, <2>3 DEF ReadPersist
    <3>2. man[q].state = "PUBLISHING"
      BY <1>50, <2>1, <2>3 DEF ReadPersist, OneAttempt
    <3>3. rnew[r] \in {"PUBLISHED", "FAILED"}
      <4>1. rnew[r] \in {"NONE", "PUBLISHED", "FAILED", "PUBLISHED_CORRECTED"}
        OBVIOUS
      <4>2. rnew[r] # "NONE"
        BY <1>50 DEF ReadPersist
      <4> QED BY <2>3, <4>1, <4>2
    <3> QED BY <2>1, <3>1, <3>2, <3>3, OutcomeIsPromised
  <2> QED BY <2>2, <2>3
<1>51. ASSUME NEW r \in Readers, ReadEvent(r) PROVE UNCHANGED Promise!vars
  BY <1>51, UnmovedStutters DEF ReadEvent, OutsideReader, daemonVars,
        bootVars, providerVars, history, P, Working
<1>52. ASSUME NEW r \in Readers, ReadQueue(r) PROVE UNCHANGED Promise!vars
  BY <1>52, UnmovedStutters DEF ReadQueue, fileVars, OutsideReader,
        daemonVars, bootVars, providerVars, history, P, Working
<1>53. ASSUME NEW r \in Readers, ReadQueueWrite(r) PROVE UNCHANGED Promise!vars
  BY <1>53, UnmovedStutters DEF ReadQueueWrite, OutsideReader, daemonVars,
        bootVars, providerVars, history, P, Working
<1>54. ASSUME NEW r \in Readers, ReadScan(r) PROVE UNCHANGED Promise!vars
  BY <1>54, UnmovedStutters DEF ReadScan, fileVars, OutsideReader,
        daemonVars, bootVars, providerVars, history, P, Working
<1>55. ASSUME NEW r \in Readers, ReadEnd(r) PROVE UNCHANGED Promise!vars
  BY <1>55, UnmovedStutters DEF ReadEnd, fileVars, OutsideReader, daemonVars,
        bootVars, providerVars, history, P, Working
<1>56. ASSUME NEW r \in Readers, NEW i \in Instances, Converge(r, i)
       PROVE UNCHANGED Promise!vars
  BY <1>56, UnmovedStutters DEF Converge, OutsideReader, daemonVars,
        bootVars, providerVars, history, P, Working
<1>57. ASSUME NEW p \in Posts, FirstStage(p) PROVE UNCHANGED Promise!vars
  BY <1>57, UnmovedStutters DEF FirstStage, daemonVars, bootVars, readerVars,
        providerVars, history, P, Working
<1>58. ASSUME NEW p \in Posts, Supersede(p) PROVE UNCHANGED Promise!vars
  BY <1>58, UnmovedStutters DEF Supersede, daemonVars, bootVars, readerVars,
        providerVars, history, P, Working
<1>59. ASSUME NEW p \in Posts, ChangeFiles(p) PROVE UNCHANGED Promise!vars
  BY <1>59, UnmovedStutters DEF ChangeFiles, daemonVars, bootVars,
        readerVars, providerVars, history, P, Working
<1>60. ASSUME NEW p \in Posts, Deliver(p) PROVE UNCHANGED Promise!vars
  BY <1>60, UnmovedStutters DEF Deliver, fileVars, daemonVars, bootVars,
        readerVars, history, P, Working
<1>61. ASSUME NEW p \in Posts, Provider(p) PROVE UNCHANGED Promise!vars
  BY <1>61, UnmovedStutters DEF Provider, fileVars, daemonVars, bootVars,
        readerVars, history, P, Working
<1>62. CASE UNCHANGED vars
  BY <1>62, UnmovedStutters DEF vars, fileVars, daemonVars, bootVars,
        readerVars, providerVars, history, P, Working
<1> QED BY <1>1, <1>2, <1>3, <1>4, <1>5, <1>6, <1>7, <1>8, <1>9, <1>10,
        <1>11, <1>12, <1>13, <1>14, <1>15, <1>16, <1>17, <1>18, <1>19, <1>20,
        <1>21, <1>22, <1>23, <1>24, <1>25, <1>26, <1>27, <1>28, <1>29, <1>30,
        <1>31, <1>32, <1>33, <1>34, <1>35, <1>36, <1>37, <1>38, <1>39, <1>40,
        <1>41, <1>42, <1>43, <1>44, <1>45, <1>46, <1>47, <1>48, <1>49, <1>50,
        <1>51, <1>52, <1>53, <1>54, <1>55, <1>56, <1>57, <1>58, <1>59, <1>60,
        <1>61, <1>62
  DEF Next, DaemonStep, BootStep, ReadStep

-----------------------------------------------------------------------------
(* The invariant holds in every state *)

\* The initial states satisfy the inductive invariant.
LEMMA InitIInv == Init => IInv
<1> SUFFICES ASSUME Init PROVE IInv
  OBVIOUS
<1> USE ConstantsAssumption, FreshTyped DEF Init
<1>1. (CHOOSE p \in Posts : TRUE) \in Posts
  OBVIOUS
<1>2. TypeOK
  BY <1>1 DEF TypeOK, Working, ReceiptStates, RemoteStates, WireStates,
        Dispositions, Verdicts, Terminal
<1>3. Control
  BY DEF Control, Working
<1>4. CopiesAreCurrent
  BY DEF CopiesAreCurrent, Working
<1>5. OneAttempt
  BY DEF OneAttempt, FreshManifest
<1>6. OneNotice
  BY DEF OneNotice
<1> QED BY <1>2, <1>3, <1>4, <1>5, <1>6 DEF IInv

\* The inductive invariant holds in every reachable state.
THEOREM Invariance == Spec => []IInv
<1>1. IInv /\ [Next]_vars => IInv'
  BY TypeStep, ControlStep, CopiesStep, OneAttemptStep, OneNoticeStep DEF IInv
<1> QED BY InitIInv, <1>1, PTL DEF Spec

\* Every reachable state is well typed: in particular every receipt is in a
\* state that transition_receipt and scan_receipts know.
THEOREM TypeCorrect == Spec => []TypeOK
<1>1. IInv => TypeOK
  BY DEF IInv
<1> QED BY Invariance, <1>1, PTL

\* Whoever may write a manifest from an in-memory copy holds the lock of
\* review_post_lock, and the copy is the file.
THEOREM CopiesStayCurrent == Spec => []CopiesAreCurrent
<1>1. IInv => CopiesAreCurrent
  BY DEF IInv
<1> QED BY Invariance, <1>1, PTL

\* The provider is asked to publish a post at most once and only with the
\* attempt consumed on disk, for any number of authorizations and crashes.
THEOREM AtMostOnce == Spec => []AtMostOnePut
<1>1. IInv => AtMostOnePut
  <2> SUFFICES ASSUME IInv, NEW p \in Posts
               PROVE puts[p] <= 1 /\ (puts[p] = 1 => man[p].attempts = 1)
    BY DEF AtMostOnePut
  <2> USE DEF IInv
  <2>1. puts[p] \in {0, 1} /\ (man[p].attempts = 0 => puts[p] = 0)
    BY DEF OneAttempt
  <2>2. man[p] \in Manifest
    BY DEF TypeOK
  <2>3. man[p].attempts \in {0, 1}
    BY <2>2, Zenon DEF Manifest
  <2> QED BY <2>1, <2>3
<1> QED BY Invariance, <1>1, PTL

\* The owner is notified of a post at most once, however many requests there
\* are for it: the try is counted on disk before the message is sent.
THEOREM NoticeAtMostOnce == Spec => []NoticeOnce
<1>1. IInv => NoticeOnce
  BY DEF IInv, OneNotice, NoticeOnce
<1> QED BY Invariance, <1>1, PTL

\* The whole implementation - daemon, crashes, boot reconciliation, concurrent
\* reconciliation commands, provider - keeps the abstract promise.
THEOREM KeepsPromise == Spec => ImplementsPromise
<1>1. Init => Promise!Init
  BY DEF Init, Promise!Init, FreshManifest
<1>2. IInv /\ [Next]_vars => [Promise!Next]_(Promise!vars)
  BY PromiseStep
<1> QED BY Invariance, <1>1, <1>2, PTL DEF Spec, ImplementsPromise, Promise!Spec

=============================================================================
