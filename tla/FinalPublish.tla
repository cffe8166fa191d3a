---------------------------- MODULE FinalPublish ----------------------------
(***************************************************************************)
(* The second-stage ("final") publication of NullOne: the singleton        *)
(* controller daemon, the publication core it runs in-process, the         *)
(* receipts and manifests they keep on disk, the notifier, the GET-only    *)
(* reconciliation command, boot reconciliation, and the provider.          *)
(*                                                                         *)
(* A step ends where the code writes a file, calls the provider or reads   *)
(* state it will act on later; the daemon may crash between any two steps. *)
(* Manifests are whole files: every writer replaces the file by its own    *)
(* in-memory copy (own, rman), which is why review_post_lock matters.      *)
(***************************************************************************)
EXTENDS Naturals, FiniteSets

CONSTANTS
    Posts,          \* review post ids, one manifest each
    StoryPosts,     \* the posts whose manifest has format STORY
    Instances,      \* authorization instances: one per second-stage message
    PostOf,         \* [Instances -> Posts]
    Readers,        \* concurrent runs of nullone-publish-reconcile.py
    Daemon,         \* the controller daemon
    Booters,        \* Daemon, and any separate "boot-reconcile" command
    Nobody,         \* the holder of a free lock
    NoInstance,
    FileStates      \* what may happen to a post's caption and media files

ASSUME ConstantsAssumption ==
    /\ Posts # {}
    /\ StoryPosts \subseteq Posts
    /\ PostOf \in [Instances -> Posts]
    /\ Daemon \in Booters
    /\ Daemon \notin Readers
    /\ Nobody \notin Readers \cup {Daemon}
    /\ NoInstance \notin Instances
    /\ "ok" \in FileStates
    /\ FileStates \subseteq {"ok", "changed", "missing"}

VARIABLES
    (* durable state *)
    man,        \* [Posts -> Manifest]: the manifest files
    files,      \* [Posts -> FileStates]: the approved caption and media
    superseded, \* posts with a Story supersession marker
    rcpt,       \* [Instances -> ReceiptStates]: the receipt files
    ledger,     \* publish-ledger.jsonl: a set of <<post, event>> rows
    queue,      \* posts marked PUBLISHED in candidate-queue.md
    (* processes *)
    lock,       \* [Posts -> holder]: review_post_lock
    pc, inst, own, put, verdict, answer, dq,        \* the daemon
    todo, bcur, plan,                               \* boot reconciliation
    rpc, rpost, rman, rnew, rtodo, rq,              \* the readers
    (* the provider *)
    remote,     \* [Posts -> RemoteStates]: Zernio's truth
    wire,       \* [Posts -> WireStates]: what became of our PUT
    (* history, read by the properties only *)
    puts,       \* [Posts -> number of PUTs issued]
    putBy,      \* [Posts -> the instance that issued the last PUT]
    notices,    \* [Posts -> number of Telegram sends]
    told        \* [Instances -> the last reply to the instance]

fileVars == <<man, files, superseded, rcpt, ledger, queue>>
daemonVars == <<pc, inst, own, put, verdict, answer, dq>>
bootVars == <<todo, bcur, plan>>
readerVars == <<rpc, rpost, rman, rnew, rtodo, rq>>
providerVars == <<remote, wire>>
history == <<puts, putBy, notices, told>>
vars == <<fileVars, lock, daemonVars, bootVars, readerVars, providerVars, history>>

-----------------------------------------------------------------------------
(* Types *)

PubStates == {"NOT_REQUESTED", "PUBLISH_IN_FLIGHT", "PUBLISHING", "PUBLISHED",
              "FAILED", "CHECK_REQUIRED", "READBACK_FAILED", "UNKNOWN"}

\* The fields of publication and approval the control flow looks at. live is
\* live_zernio_post_id, notice/tries the Telegram notification's state and
\* attempts (UNCONFIRMED is FAILED or UNKNOWN: neither is ever retried); source
\* is who last wrote the approval block.
Manifest == [state : PubStates, attempts : {0, 1}, live : BOOLEAN,
             final : BOOLEAN, source : {"none", "telegram", "controller"},
             notice : {"NONE", "SENDING", "SENT", "UNCONFIRMED"},
             tries : {0, 1}]

FreshManifest == [state |-> "NOT_REQUESTED", attempts |-> 0, live |-> FALSE,
                  final |-> FALSE, source |-> "none", notice |-> "NONE",
                  tries |-> 0]

Nonterminal == {"RECEIVED", "EXECUTING"}
Terminal == {"SETTLED_PUBLISHED", "SETTLED_PUBLISHING", "SETTLED_FAILED",
             "SETTLED_CHECK_REQUIRED", "SETTLED_READBACK_FAILED",
             "SETTLED_UNKNOWN", "SETTLED_BLOCKED", "ABANDONED"}
\* TORN is a receipt file that was created but not (fully) written.
ReceiptStates == Nonterminal \cup Terminal \cup {"NONE", "TORN"}

RemoteStates == {"draft", "queued", "published", "failed"}
WireStates == {"none", "sent", "applied", "refused"}
Dispositions == {"none", "accepted", "rejected", "unknown"}
Verdicts == {"PUBLISHED", "PUBLISHING", "FAILED", "CHECK_REQUIRED",
             "READBACK_FAILED", "UNKNOWN"}
Events == {"PUBLISH_ACCEPTED", "PUBLISHED", "PUBLISHED_CORRECTED", "PUBLISHING",
           "FAILED", "CHECK_REQUIRED", "READBACK_FAILED"}

\* Where the daemon is inside one request, holding the post's lock.
Working == {"check", "claimed", "recover", "authorize", "mark", "load",
            "preflight", "consume", "put", "await", "accept", "acceptEvent",
            "readback", "persist", "event", "queueRead", "queueWrite",
            "settle", "settleConsumed", "excBridge", "excOther", "block",
            "notify", "sending", "sent", "reply"}

-----------------------------------------------------------------------------
(* Helpers *)

P == PostOf[inst]

\* find_manifest_by_review_post_id: validation re-reads the approved files. A
\* missing caption raises OSError while attempts is 0 (the brand guard reads
\* it first), BridgeError once the attempt is consumed.
Find(p) == IF files[p] = "ok" THEN "found"
           ELSE IF files[p] = "missing" /\ man[p].attempts = 0 THEN "OSError"
           ELSE "BridgeError"

\* Mutant: only an attempt still in flight is unknown.
SettledLoosely(state) ==
    CASE state = "PUBLISHED" -> "SETTLED_PUBLISHED"
      [] state = "PUBLISHING" -> "SETTLED_PUBLISHING"
      [] state \in {"FAILED", "READBACK_FAILED", "UNKNOWN"} -> "SETTLED_FAILED"
      [] state = "CHECK_REQUIRED" -> "SETTLED_CHECK_REQUIRED"
      [] OTHER -> "SETTLED_PUBLISH_IN_FLIGHT"

\* _settle_from_manifest's mapping; _receipt_state_for agrees with it.
SettledAs(state) ==
    CASE state = "PUBLISHED" -> "SETTLED_PUBLISHED"
      [] state = "PUBLISHING" -> "SETTLED_PUBLISHING"
      [] state = "FAILED" -> "SETTLED_FAILED"
      [] state = "CHECK_REQUIRED" -> "SETTLED_CHECK_REQUIRED"
      [] state = "READBACK_FAILED" -> "SETTLED_READBACK_FAILED"
      [] OTHER -> "SETTLED_UNKNOWN"

\* Mutant: only UNKNOWN is reported as not settled.
CodeUnlessUnknown(state) == IF state = "UNKNOWN" THEN "code3" ELSE "code0"

CodeFor(state) ==
    IF state \in {"PUBLISHED", "PUBLISHING", "FAILED", "CHECK_REQUIRED",
                  "READBACK_FAILED"} THEN "code0" ELSE "code3"

\* Mutant: the manifest's truth overwrites a terminal receipt.
SettledAlways(r, state) == SettledAs(state)

\* transition_receipt as _settle_from_manifest uses it: a terminal receipt is
\* left alone and a missing one is created terminal.
Settled(r, state) == IF r \in Terminal THEN r ELSE SettledAs(state)

\* classify_readback_truth over what one validated GET may return: a draft is
\* unprovable, and a published post may lack platform-level proof.
Classify(r) ==
    CASE r = "draft" -> {"CHECK_REQUIRED"}
      [] r = "queued" -> {"PUBLISHING"}
      [] r = "published" -> {"PUBLISHED", "CHECK_REQUIRED"}
      [] r = "failed" -> {"FAILED"}

\* Mutants: a response that does not come is waited for; a timeout counts as
\* accepted.
AnswersWithoutTimeout(w) ==
    CASE w = "applied" -> {"accepted", "unknown"}
      [] w = "refused" -> {"rejected", "unknown"}
      [] OTHER -> {}
AnswersTimeoutAccepted(w) == {IF w = "refused" THEN "rejected" ELSE "accepted"}

\* promote_once: a documented refusal, an accepted shape, or an ambiguity that
\* may hide either (timeout, 5xx, redirect, malformed body).
Answers(w) ==
    {"unknown"} \cup (CASE w = "applied" -> {"accepted"}
                        [] w = "refused" -> {"rejected"}
                        [] OTHER -> {})

\* What a successful readback makes of the PUT's disposition: only proven
\* delivery overrides a refusal.
Clarified(disposition, truth) ==
    IF disposition = "rejected" /\ truth \notin {"PUBLISHED", "PUBLISHING"}
    THEN "FAILED" ELSE truth

\* Mutant: a failed readback of an ambiguous PUT is a failed publication.
UnclarifiedFails(disposition) ==
    IF disposition = "accepted" THEN "READBACK_FAILED" ELSE "FAILED"

\* What a failed readback makes of it.
Unclarified(disposition) ==
    CASE disposition = "rejected" -> "FAILED"
      [] disposition = "accepted" -> "READBACK_FAILED"
      [] OTHER -> "UNKNOWN"

-----------------------------------------------------------------------------
(* The updates of a manifest, each written back as a whole file *)

\* apply_final_authorization and revoke_final_if_no_publish_attempt
Authorized(m) == [m EXCEPT !.final = TRUE, !.source = "controller"]
Revoked(m) == [m EXCEPT !.final = FALSE, !.source = "none"]

\* execute_loaded: the attempt is owned; the PUT was accepted
Consumed(m) == [m EXCEPT !.attempts = 1, !.state = "PUBLISH_IN_FLIGHT"]
Live(m) == [m EXCEPT !.live = TRUE]

\* _persist_state records the live id, _persist_unknown does not
Outcome(m, state) ==
    [m EXCEPT !.state = state, !.live = IF state = "UNKNOWN" THEN m.live ELSE TRUE]

\* notify: the attempt is claimed before the send. Mutant: counted afterwards.
AttemptedLate(m) == [m EXCEPT !.notice = "SENDING"]
Attempted(m) == [m EXCEPT !.notice = "SENDING", !.tries = 1]
Notified(m, result) == [m EXCEPT !.notice = result, !.tries = 1]

\* A first-stage transition
Stamped(m) == [m EXCEPT !.source = "telegram"]

-----------------------------------------------------------------------------
Init ==
    /\ man = [p \in Posts |-> FreshManifest]
    /\ files = [p \in Posts |-> "ok"]
    /\ superseded = {}
    /\ rcpt = [i \in Instances |-> "NONE"]
    /\ ledger = {}
    /\ queue = {}
    /\ lock = [p \in Posts |-> Nobody]
    /\ pc = "off" /\ inst = NoInstance /\ own = FreshManifest
    /\ put = "none" /\ verdict = "UNKNOWN" /\ answer = "none" /\ dq = {}
    /\ todo = [b \in Booters |-> {}]
    /\ bcur = [b \in Booters |-> NoInstance]
    /\ plan = [b \in Booters |-> "ABANDONED"]
    /\ rpc = [r \in Readers |-> "idle"]
    /\ rpost = [r \in Readers |-> CHOOSE p \in Posts : TRUE]
    /\ rman = [r \in Readers |-> FreshManifest]
    /\ rnew = [r \in Readers |-> "NONE"]
    /\ rtodo = [r \in Readers |-> {}]
    /\ rq = [r \in Readers |-> {}]
    /\ remote = [p \in Posts |-> "draft"]
    /\ wire = [p \in Posts |-> "none"]
    /\ puts = [p \in Posts |-> 0]
    /\ putBy = [p \in Posts |-> NoInstance]
    /\ notices = [p \in Posts |-> 0]
    /\ told = [i \in Instances |-> "none"]

-----------------------------------------------------------------------------
(* The daemon's requests: execute_authorized under review_post_lock *)

\* The end of a request: the reply frame is written and the lock released.
Reply(code) ==
    /\ told' = [told EXCEPT ![inst] = code]
    /\ lock' = [lock EXCEPT ![P] = Nobody]
    /\ pc' = "idle" /\ inst' = NoInstance /\ own' = FreshManifest
    /\ put' = "none" /\ verdict' = "UNKNOWN" /\ answer' = "none" /\ dq' = {}
    /\ UNCHANGED <<puts, putBy, notices>>

\* A step that stays inside the request and touches no file.
Goto(next) ==
    /\ pc' = next
    /\ UNCHANGED <<fileVars, lock, inst, own, bootVars, readerVars, remote, history>>

\* A write of this post's manifest file, from the copy the daemon holds.
Save(m) ==
    /\ own' = m
    /\ man' = [man EXCEPT ![P] = m]

Receipt(state) == rcpt' = [rcpt EXCEPT ![inst] = state]

OutsideDaemon == <<bootVars, readerVars, remote>>
Scratch == <<put, verdict, answer, dq>>

\* A second-stage callback reaches the idle daemon, which blocks on the lock.
Receive(i) ==
    /\ pc = "idle" /\ lock[PostOf[i]] = Nobody
    /\ pc' = "check" /\ inst' = i
    /\ lock' = [lock EXCEPT ![PostOf[i]] = Daemon]
    /\ UNCHANGED <<fileVars, own, Scratch, OutsideDaemon, wire, history>>

\* The manifest cannot be found or validated: the exception leaves the
\* request, wherever it is, and _dispatch answers it.
FindFails ==
    /\ \/ pc \in {"check", "authorize", "load", "settle", "excBridge", "excOther"}
       \/ pc = "recover" /\ ~(rcpt[inst] = "EXECUTING" /\ ~own.final)
       \/ pc = "reply" /\ answer = "byState"
    /\ Find(P) # "found"
    /\ Reply(IF Find(P) = "OSError" THEN "code3" ELSE "code2")
    /\ UNCHANGED <<fileVars, OutsideDaemon, wire>>

Found == Find(P) = "found"

CheckConsumed ==
    /\ pc = "check" /\ Found /\ man[P].attempts = 1
    /\ own' = man[P] /\ pc' = "settleConsumed"
    /\ UNCHANGED <<fileVars, lock, inst, Scratch, OutsideDaemon, wire, history>>

CheckSuperseded ==
    /\ pc = "check" /\ Found /\ man[P].attempts = 0
    /\ P \in StoryPosts \cap superseded
    /\ Reply("code2")
    /\ UNCHANGED <<fileVars, OutsideDaemon, wire>>

\* Mutant: the Story supersession marker is not consulted.
MayProceedSuperseded ==
    /\ pc = "check" /\ Found /\ man[P].attempts = 0

MayProceed ==
    /\ pc = "check" /\ Found /\ man[P].attempts = 0
    /\ P \notin StoryPosts \cap superseded

\* claim_receipt: O_EXCL creation, then the write of its content.
Claim ==
    /\ MayProceed /\ rcpt[inst] = "NONE"
    /\ own' = man[P] /\ Receipt("TORN") /\ pc' = "claimed"
    /\ UNCHANGED <<man, files, superseded, ledger, queue, lock, inst, Scratch,
                   OutsideDaemon, wire, history>>

WriteClaim ==
    /\ pc = "claimed"
    /\ Receipt("RECEIVED") /\ pc' = "authorize"
    /\ UNCHANGED <<man, files, superseded, ledger, queue, lock, inst, own, Scratch,
                   OutsideDaemon, wire, history>>

\* The write fails (OSError) after the file was created.
WriteClaimFails ==
    /\ pc = "claimed"
    /\ Reply("code3")
    /\ UNCHANGED <<fileVars, OutsideDaemon, wire>>

\* An unreadable receipt is a JSONDecodeError, no BridgeError.
ClaimTorn ==
    /\ MayProceed /\ rcpt[inst] = "TORN"
    /\ Reply("code3")
    /\ UNCHANGED <<fileVars, OutsideDaemon, wire>>

ClaimExists ==
    /\ MayProceed /\ rcpt[inst] \notin {"NONE", "TORN"}
    /\ own' = man[P] /\ pc' = "recover"
    /\ UNCHANGED <<fileVars, lock, inst, Scratch, OutsideDaemon, wire, history>>

\* _recover_existing with attempts 0. The stored code of a receipt that is
\* terminal without an attempt is 2, or absent, which reads as 2.
RecoverTerminal ==
    /\ pc = "recover" /\ rcpt[inst] \in Terminal /\ Found
    /\ Reply("code2")
    /\ UNCHANGED <<fileVars, OutsideDaemon, wire>>

Adopt ==
    /\ pc = "recover" /\ Found
    /\ rcpt[inst] = "RECEIVED" \/ (rcpt[inst] = "EXECUTING" /\ own.final)
    /\ own' = man[P] /\ pc' = "authorize"
    /\ UNCHANGED <<fileVars, lock, inst, Scratch, OutsideDaemon, wire, history>>

RecoverRevoked ==
    /\ pc = "recover" /\ rcpt[inst] = "EXECUTING" /\ ~own.final
    /\ Receipt("SETTLED_BLOCKED")
    /\ Reply("code2")
    /\ UNCHANGED <<man, files, superseded, ledger, queue, OutsideDaemon, wire>>

\* apply_final_authorization, then the EXECUTING transition.
Authorize ==
    /\ pc = "authorize" /\ Found
    /\ own.attempts = 0 /\ own.state = "NOT_REQUESTED"
    /\ Save(Authorized(own))
    /\ pc' = "mark"
    /\ UNCHANGED <<files, superseded, rcpt, ledger, queue, lock, inst, Scratch,
                   OutsideDaemon, wire, history>>

MarkExecuting ==
    /\ pc = "mark" /\ rcpt[inst] \in Nonterminal
    /\ Receipt("EXECUTING") /\ pc' = "load"
    /\ UNCHANGED <<man, files, superseded, ledger, queue, lock, inst, own, Scratch,
                   OutsideDaemon, wire, history>>

\* transition_receipt refuses: somebody else made the receipt terminal.
ReceiptGone ==
    /\ \/ pc \in {"mark", "block"}
       \/ pc = "settle" /\ Found
    /\ rcpt[inst] \in Terminal
    /\ Reply("code2")
    /\ UNCHANGED <<fileVars, OutsideDaemon, wire>>

Load ==
    /\ pc = "load" /\ Found
    /\ own' = man[P] /\ pc' = "preflight"
    /\ UNCHANGED <<fileVars, lock, inst, Scratch, OutsideDaemon, wire, history>>

-----------------------------------------------------------------------------
(* The publication core: execute_loaded *)

\* Authorization gate, expectations, credential and remote preflight: all
\* read-only; any doubt is a BridgeError.
Preflight ==
    /\ pc = "preflight"
    /\ \/ /\ own.final /\ own.attempts = 0 /\ own.state = "NOT_REQUESTED"
          /\ remote[P] = "draft" /\ Goto("consume")
       \/ Goto("excBridge")
    /\ UNCHANGED <<Scratch, wire>>

\* Mutant: the attempt is consumed in memory, to be saved with the result.
ConsumeInMemory ==
    /\ pc = "consume"
    /\ own' = Consumed(own)
    /\ pc' = "put"
    /\ UNCHANGED <<fileVars, lock, inst, Scratch, OutsideDaemon, wire, history>>

\* The attempt is consumed on disk before the network call.
Consume ==
    /\ pc = "consume"
    /\ Save(Consumed(own))
    /\ pc' = "put"
    /\ UNCHANGED <<files, superseded, rcpt, ledger, queue, lock, inst, Scratch,
                   OutsideDaemon, wire, history>>

\* A write of the manifest, a ledger or the queue may fail (OSError); it is no
\* BridgeError and reaches _on_core_unexpected.
WriteFails ==
    /\ pc \in {"consume", "accept", "acceptEvent", "persist", "event", "queueWrite"}
    /\ Goto("excOther")
    /\ UNCHANGED <<Scratch, wire>>

Put ==
    /\ pc = "put"
    /\ puts' = [puts EXCEPT ![P] = @ + 1]
    /\ putBy' = [putBy EXCEPT ![P] = inst]
    /\ wire' = [wire EXCEPT ![P] = "sent"]
    /\ pc' = "await"
    /\ UNCHANGED <<fileVars, lock, inst, own, Scratch, OutsideDaemon, notices, told>>

Response ==
    /\ pc = "await"
    /\ put' \in Answers(wire[P])
    /\ Goto(IF put' = "accepted" THEN "accept" ELSE "readback")
    /\ UNCHANGED <<verdict, answer, dq, wire>>

Accepted ==
    /\ pc = "accept"
    /\ Save(Live(own))
    /\ pc' = "acceptEvent"
    /\ UNCHANGED <<files, superseded, rcpt, ledger, queue, lock, inst, Scratch,
                   OutsideDaemon, wire, history>>

AcceptedEvent ==
    /\ pc = "acceptEvent"
    /\ ledger' = ledger \cup {<<P, "PUBLISH_ACCEPTED">>}
    /\ pc' = "readback"
    /\ UNCHANGED <<man, files, superseded, rcpt, queue, lock, inst, own, Scratch,
                   OutsideDaemon, wire, history>>

\* Read-only clarification after the one PUT.
Readback ==
    /\ pc = "readback"
    /\ verdict' \in {Clarified(put, truth) : truth \in Classify(remote[P])}
                     \cup {Unclarified(put)}
    /\ Goto("persist")
    /\ UNCHANGED <<put, answer, dq, wire>>

\* _persist_state, or _persist_unknown, which then raises BridgeError.
Persist ==
    /\ pc = "persist"
    /\ Save(Outcome(own, verdict))
    /\ pc' = IF verdict = "UNKNOWN" THEN "excBridge" ELSE "event"
    /\ UNCHANGED <<files, superseded, rcpt, ledger, queue, lock, inst, Scratch,
                   OutsideDaemon, wire, history>>

Event ==
    /\ pc = "event"
    /\ ledger' = ledger \cup {<<P, verdict>>}
    /\ pc' = IF verdict = "PUBLISHED" THEN "queueRead" ELSE "settle"
    /\ UNCHANGED <<man, files, superseded, rcpt, queue, lock, inst, own, Scratch,
                   OutsideDaemon, wire, history>>

\* mark_queue_published_exact: the whole shared file is read, then rewritten.
QueueRead ==
    /\ pc = "queueRead"
    /\ dq' = queue /\ Goto("queueWrite")
    /\ UNCHANGED <<put, verdict, answer, wire>>

QueueWrite ==
    /\ pc = "queueWrite"
    /\ queue' = dq \cup {P}
    /\ pc' = "settle"
    /\ UNCHANGED <<man, files, superseded, rcpt, ledger, lock, inst, own, Scratch,
                   OutsideDaemon, wire, history>>

-----------------------------------------------------------------------------
(* Settling the receipt, revoking the authorization, notifying *)

\* The normal tail of _invoke_core.
Settle ==
    /\ pc = "settle" /\ Found /\ rcpt[inst] \in Nonterminal
    /\ Receipt(SettledAs(man[P].state))
    /\ answer' = "code0" /\ pc' = "notify"
    /\ UNCHANGED <<man, files, superseded, ledger, queue, lock, inst, own, put,
                   verdict, dq, OutsideDaemon, wire, history>>

\* A request for a post whose attempt is consumed never invokes the core.
SettleConsumed ==
    /\ pc = "settleConsumed" /\ rcpt[inst] # "TORN"
    /\ Receipt(Settled(rcpt[inst], own.state))
    /\ answer' = "byState" /\ pc' = "notify"
    /\ UNCHANGED <<man, files, superseded, ledger, queue, lock, inst, own, put,
                   verdict, dq, OutsideDaemon, wire, history>>

SettleConsumedTorn ==
    /\ pc = "settleConsumed" /\ rcpt[inst] = "TORN"
    /\ Reply("code3")
    /\ UNCHANGED <<fileVars, OutsideDaemon, wire>>

\* _on_core_bridge_error and _on_core_unexpected with the attempt consumed.
SettleError ==
    /\ pc \in {"excBridge", "excOther"} /\ Found /\ man[P].attempts = 1
    /\ Receipt(Settled(rcpt[inst], man[P].state))
    /\ answer' = "code3"
    /\ pc' = IF pc = "excBridge" THEN "notify" ELSE "reply"
    /\ UNCHANGED <<man, files, superseded, ledger, queue, lock, inst, own, put,
                   verdict, dq, OutsideDaemon, wire, history>>

Revoke ==
    /\ pc = "excBridge" /\ Found /\ man[P].attempts = 0
    /\ Save(Revoked(man[P])) /\ pc' = "block"
    /\ UNCHANGED <<files, superseded, rcpt, ledger, queue, lock, inst, Scratch,
                   OutsideDaemon, wire, history>>

Block ==
    /\ pc = "block" /\ rcpt[inst] \in Nonterminal
    /\ Receipt("SETTLED_BLOCKED")
    /\ answer' = "code2" /\ pc' = "notify"
    /\ UNCHANGED <<man, files, superseded, ledger, queue, lock, inst, own, put,
                   verdict, dq, OutsideDaemon, wire, history>>

\* The receipt is left EXECUTING.
RevokeUnexpected ==
    /\ pc = "excOther" /\ Found /\ man[P].attempts = 0
    /\ Save(Revoked(man[P])) /\ answer' = "code3" /\ pc' = "reply"
    /\ UNCHANGED <<files, superseded, rcpt, ledger, queue, lock, inst, put, verdict,
                   dq, OutsideDaemon, wire, history>>

\* notify: at most one attempt per manifest, claimed on disk before the send.
\* Whatever it raises is swallowed by _notify_best_effort.
NotifyClaim ==
    /\ pc = "notify" /\ Found
    /\ man[P].notice # "SENT" /\ man[P].tries = 0
    /\ Save(Attempted(man[P]))
    /\ pc' = "sending"
    /\ UNCHANGED <<files, superseded, rcpt, ledger, queue, lock, inst, Scratch,
                   OutsideDaemon, wire, history>>

\* Already sent or tried, no usable manifest, or no owner id file.
NotifySkip ==
    /\ pc = "notify" /\ Goto("reply")
    /\ UNCHANGED <<Scratch, wire>>

NotifySend ==
    /\ pc = "sending"
    /\ notices' = [notices EXCEPT ![P] = @ + 1]
    /\ pc' = "sent"
    /\ UNCHANGED <<fileVars, lock, inst, own, Scratch, OutsideDaemon, wire,
                   puts, putBy, told>>

NotifyRecord ==
    /\ pc = "sent"
    /\ \E result \in {"SENT", "UNCONFIRMED"} :
           Save(Notified(own, result))
    /\ pc' = "reply"
    /\ UNCHANGED <<files, superseded, rcpt, ledger, queue, lock, inst, Scratch,
                   OutsideDaemon, wire, history>>

Finish ==
    /\ pc = "reply" /\ (answer = "byState" => Found)
    /\ Reply(IF answer = "byState" THEN CodeFor(man[P].state) ELSE answer)
    /\ UNCHANGED <<fileVars, OutsideDaemon, wire>>

DaemonStep ==
    \/ FindFails \/ CheckConsumed \/ CheckSuperseded \/ Claim \/ WriteClaim
    \/ WriteClaimFails \/ ClaimTorn \/ ClaimExists \/ RecoverTerminal \/ Adopt \/ RecoverRevoked
    \/ Authorize \/ MarkExecuting \/ ReceiptGone \/ Load
    \/ Preflight \/ Consume \/ WriteFails \/ Put \/ Response \/ Accepted
    \/ AcceptedEvent \/ Readback \/ Persist \/ Event \/ QueueRead \/ QueueWrite
    \/ Settle \/ SettleConsumed \/ SettleConsumedTorn \/ SettleError
    \/ Revoke \/ Block \/ RevokeUnexpected
    \/ NotifyClaim \/ NotifySkip \/ NotifySend \/ NotifyRecord \/ Finish

-----------------------------------------------------------------------------
(* Crash, restart and boot reconciliation *)

\* The daemon's process dies; the kernel releases its flocks.
Dead ==
    /\ pc' = "off" /\ inst' = NoInstance /\ own' = FreshManifest
    /\ put' = "none" /\ verdict' = "UNKNOWN" /\ answer' = "none" /\ dq' = {}
    /\ lock' = [p \in Posts |-> IF lock[p] = Daemon THEN Nobody ELSE lock[p]]

Crash ==
    /\ pc # "off"
    /\ Dead
    /\ todo' = [todo EXCEPT ![Daemon] = {}]
    /\ bcur' = [bcur EXCEPT ![Daemon] = NoInstance]
    /\ UNCHANGED <<fileVars, plan, readerVars, providerVars, history>>

\* scan_receipts: one unreadable receipt makes the whole scan raise.
BootScan(b) ==
    /\ todo[b] = {} /\ bcur[b] = NoInstance
    /\ \A i \in Instances : rcpt[i] # "TORN"
    /\ todo' = [todo EXCEPT ![b] = {i \in Instances : rcpt[i] \in Nonterminal}]

DaemonStart ==
    /\ pc = "off" /\ BootScan(Daemon)
    /\ pc' = "boot"
    /\ UNCHANGED <<fileVars, lock, inst, own, Scratch, bcur, plan, readerVars,
                   providerVars, history>>

\* The boot-reconcile command: no sentinel, no review_post_lock.
CommandStart(b) ==
    /\ b # Daemon /\ BootScan(b)
    /\ \E i \in Instances : rcpt[i] \in Nonterminal
    /\ UNCHANGED <<fileVars, lock, daemonVars, bcur, plan, readerVars,
                   providerVars, history>>

BootRead(b, i) ==
    /\ i \in todo[b] /\ bcur[b] = NoInstance /\ Find(PostOf[i]) # "OSError"
    /\ todo' = [todo EXCEPT ![b] = @ \ {i}]
    /\ bcur' = [bcur EXCEPT ![b] = i]
    /\ plan' = [plan EXCEPT ![b] =
                  IF Find(PostOf[i]) = "found" /\ man[PostOf[i]].attempts = 1
                  THEN SettledAs(man[PostOf[i]].state) ELSE "ABANDONED"]
    /\ UNCHANGED <<fileVars, lock, daemonVars, readerVars, providerVars, history>>

BootSettle(b) ==
    /\ bcur[b] # NoInstance
    /\ rcpt[bcur[b]] \in Nonterminal \/ plan[b] # "ABANDONED"
    /\ rcpt' = [rcpt EXCEPT ![bcur[b]] = IF @ \in Terminal THEN @ ELSE plan[b]]
    /\ bcur' = [bcur EXCEPT ![b] = NoInstance]
    /\ UNCHANGED <<man, files, superseded, ledger, queue, lock, daemonVars, todo,
                   plan, readerVars, providerVars, history>>

\* An exception leaves reconcile_boot: the process ends where it stands.
BootFails(b) ==
    /\ \/ /\ bcur[b] = NoInstance
          /\ \E i \in todo[b] : Find(PostOf[i]) = "OSError"
       \/ bcur[b] # NoInstance /\ plan[b] = "ABANDONED" /\ rcpt[bcur[b]] \in Terminal
    /\ todo' = [todo EXCEPT ![b] = {}]
    /\ bcur' = [bcur EXCEPT ![b] = NoInstance]
    /\ pc' = IF b = Daemon THEN "off" ELSE pc
    /\ UNCHANGED <<fileVars, lock, inst, own, Scratch, plan, readerVars,
                   providerVars, history>>

\* The READY frame: requests are served from here on.
Ready ==
    /\ pc = "boot" /\ todo[Daemon] = {} /\ bcur[Daemon] = NoInstance
    /\ pc' = "idle"
    /\ UNCHANGED <<fileVars, lock, inst, own, Scratch, bootVars, readerVars,
                   providerVars, history>>

BootStep(b) ==
    (\E i \in Instances : BootRead(b, i)) \/ BootSettle(b) \/ BootFails(b)

-----------------------------------------------------------------------------
(* nullone-publish-reconcile.py: reconcile-one and repair-one *)

\* Only eligible posts take a step; the others are answered without a write.
\* rnew is the ledger row the run will append.
ReadStart(r, p) ==
    /\ rpc[r] = "idle" /\ lock[p] = Nobody
    /\ Find(p) = "found" /\ man[p].attempts = 1
    /\ \/ man[p].state = "PUBLISHING" /\ rnew' = [rnew EXCEPT ![r] = "NONE"]
       \/ /\ man[p].state = "PUBLISHED" /\ man[p].live
          /\ <<p, "PUBLISHED_CORRECTED">> \notin ledger
          /\ rnew' = [rnew EXCEPT ![r] = "PUBLISHED_CORRECTED"]
    /\ lock' = [lock EXCEPT ![p] = r]
    /\ rpc' = [rpc EXCEPT ![r] = "get"]
    /\ rpost' = [rpost EXCEPT ![r] = p]
    /\ rman' = [rman EXCEPT ![r] = man[p]]
    /\ UNCHANGED <<fileVars, daemonVars, bootVars, rtodo, rq, providerVars, history>>

OutsideReader == <<daemonVars, bootVars, providerVars, history>>

\* The run ends, or its process dies: the lock is released either way.
ReadEnd(r) ==
    /\ rpc[r] # "idle"
    /\ rpc' = [rpc EXCEPT ![r] = "idle"]
    /\ rnew' = [rnew EXCEPT ![r] = "NONE"]
    /\ rman' = [rman EXCEPT ![r] = FreshManifest]
    /\ rtodo' = [rtodo EXCEPT ![r] = {}]
    /\ rq' = [rq EXCEPT ![r] = {}]
    /\ lock' = [lock EXCEPT ![rpost[r]] = Nobody]
    /\ UNCHANGED <<fileVars, rpost, OutsideReader>>

\* The one GET. Anything but proven delivery or failure ends the run (ReadEnd).
ReadTruth(r) ==
    /\ rpc[r] = "get"
    /\ \E c \in Classify(remote[rpost[r]]) :
         \/ /\ rnew[r] = "NONE" /\ c \in {"PUBLISHED", "FAILED"}
            /\ rnew' = [rnew EXCEPT ![r] = c]
         \/ /\ rnew[r] = "PUBLISHED_CORRECTED" /\ c = "PUBLISHED"
            /\ UNCHANGED rnew
    /\ rpc' = [rpc EXCEPT ![r] = "persist"]
    /\ UNCHANGED <<fileVars, lock, rpost, rman, rtodo, rq, OutsideReader>>

\* A repair rewrites descriptive fields only.
ReadPersist(r) ==
    /\ rpc[r] = "persist"
    /\ man' = [man EXCEPT ![rpost[r]] =
                 IF rnew[r] = "PUBLISHED_CORRECTED" THEN rman[r]
                 ELSE Outcome(rman[r], rnew[r])]
    /\ rpc' = [rpc EXCEPT ![r] = "event"]
    /\ UNCHANGED <<files, superseded, rcpt, ledger, queue, lock, rpost, rman, rnew,
                   rtodo, rq, OutsideReader>>

ReadEvent(r) ==
    /\ rpc[r] = "event"
    /\ ledger' = ledger \cup {<<rpost[r], rnew[r]>>}
    /\ rpc' = [rpc EXCEPT ![r] = IF rnew[r] = "PUBLISHED" THEN "queueRead" ELSE "scan"]
    /\ UNCHANGED <<man, files, superseded, rcpt, queue, lock, rpost, rman, rnew,
                   rtodo, rq, OutsideReader>>

ReadQueue(r) ==
    /\ rpc[r] = "queueRead"
    /\ rq' = [rq EXCEPT ![r] = queue]
    /\ rpc' = [rpc EXCEPT ![r] = "queueWrite"]
    /\ UNCHANGED <<fileVars, lock, rpost, rman, rnew, rtodo, OutsideReader>>

ReadQueueWrite(r) ==
    /\ rpc[r] = "queueWrite"
    /\ queue' = rq[r] \cup {rpost[r]}
    /\ rpc' = [rpc EXCEPT ![r] = "scan"]
    /\ UNCHANGED <<man, files, superseded, rcpt, ledger, lock, rpost, rman, rnew,
                   rtodo, rq, OutsideReader>>

\* _converge_receipts: an unreadable receipt anywhere means nothing converges.
ReadScan(r) ==
    /\ rpc[r] = "scan"
    /\ \A i \in Instances : rcpt[i] # "TORN"
    /\ rtodo' = [rtodo EXCEPT ![r] =
                   {i \in Instances : PostOf[i] = rpost[r] /\ rcpt[i] # "NONE"}]
    /\ rpc' = [rpc EXCEPT ![r] = "converge"]
    /\ UNCHANGED <<fileVars, lock, rpost, rman, rnew, rq, OutsideReader>>

\* converge_publishing_to_published / _to_failed: the one terminal-to-terminal
\* transition; any other receipt is left alone.
Converge(r, i) ==
    /\ rpc[r] = "converge" /\ i \in rtodo[r]
    /\ rcpt' = [rcpt EXCEPT ![i] =
                  IF @ # "SETTLED_PUBLISHING" THEN @
                  ELSE IF rnew[r] = "FAILED" THEN "SETTLED_FAILED"
                  ELSE "SETTLED_PUBLISHED"]
    /\ rtodo' = [rtodo EXCEPT ![r] = @ \ {i}]
    /\ UNCHANGED <<man, files, superseded, ledger, queue, lock, rpc, rpost, rman, rnew,
                   rq, OutsideReader>>

ReadStep(r) ==
    \/ ReadTruth(r) \/ ReadPersist(r) \/ ReadEvent(r) \/ ReadQueue(r)
    \/ ReadQueueWrite(r) \/ ReadScan(r) \/ \E i \in Instances : Converge(r, i)

-----------------------------------------------------------------------------
(* Other writers of a post's state, and the provider *)

\* A first-stage transition stamps the approval block, under the post's lock.
\* Only the supersession of a Story post ever reads the stamp.
FirstStage(p) ==
    /\ p \in StoryPosts /\ lock[p] = Nobody /\ Find(p) = "found" /\ man[p].source # "telegram"
    /\ man' = [man EXCEPT ![p] = Stamped(man[p])]
    /\ UNCHANGED <<files, superseded, rcpt, ledger, queue, lock, daemonVars, bootVars,
                   readerVars, providerVars, history>>

\* A Story revision supersedes its parent: validated and marked under the
\* parent's lock.
Supersede(p) ==
    /\ p \in StoryPosts \ superseded
    /\ lock[p] = Nobody /\ Find(p) = "found"
    /\ man[p].attempts = 0 /\ man[p].state = "NOT_REQUESTED"
    /\ ~man[p].final /\ man[p].source = "none"
    /\ superseded' = superseded \cup {p}
    /\ UNCHANGED <<man, files, rcpt, ledger, queue, lock, daemonVars, bootVars,
                   readerVars, providerVars, history>>

\* The approved caption or media change, vanish or come back on disk.
ChangeFiles(p) ==
    /\ \E f \in FileStates \ {files[p]} : files' = [files EXCEPT ![p] = f]
    /\ UNCHANGED <<man, superseded, rcpt, ledger, queue, lock, daemonVars, bootVars,
                   readerVars, providerVars, history>>

\* The provider applies the PUT to a draft, or refuses it.
Deliver(p) ==
    /\ wire[p] = "sent"
    /\ \/ /\ remote[p] = "draft"
          /\ wire' = [wire EXCEPT ![p] = "applied"]
          /\ remote' = [remote EXCEPT ![p] = "queued"]
       \/ wire' = [wire EXCEPT ![p] = "refused"] /\ UNCHANGED remote
    /\ UNCHANGED <<fileVars, lock, daemonVars, bootVars, readerVars, history>>

\* Asynchronous delivery; a person may also publish the draft in Zernio's own
\* interface.
Provider(p) ==
    /\ \/ remote[p] = "queued" /\ remote' = [remote EXCEPT ![p] = "published"]
       \/ remote[p] = "queued" /\ remote' = [remote EXCEPT ![p] = "failed"]
       \/ remote[p] = "draft" /\ remote' = [remote EXCEPT ![p] = "published"]
    /\ UNCHANGED <<fileVars, lock, daemonVars, bootVars, readerVars, wire, history>>

-----------------------------------------------------------------------------
Next ==
    \/ \E i \in Instances : Receive(i)
    \/ DaemonStep
    \/ Crash \/ DaemonStart \/ Ready
    \/ \E b \in Booters : CommandStart(b) \/ BootStep(b)
    \/ \E r \in Readers : (\E p \in Posts : ReadStart(r, p)) \/ ReadStep(r) \/ ReadEnd(r)
    \/ \E p \in Posts : FirstStage(p) \/ Supersede(p) \/ ChangeFiles(p)
                        \/ Deliver(p) \/ Provider(p)

Spec == Init /\ [][Next]_vars

\* A process that runs keeps running until it ends or dies: every network call
\* it makes has a finite timeout. Users, restarts and the provider owe nothing.
Fairness ==
    /\ WF_vars(DaemonStep)
    /\ \A r \in Readers : WF_vars(ReadStep(r) \/ ReadEnd(r))

FairSpec == Spec /\ Fairness

-----------------------------------------------------------------------------
(* Properties *)

\* Every variable stays in its type; receipts only take the states of
\* nullone_publish_receipt.py, so every receipt can be read back.
TypeOK ==
    /\ man \in [Posts -> Manifest]
    /\ files \in [Posts -> FileStates]
    /\ superseded \subseteq Posts
    /\ rcpt \in [Instances -> ReceiptStates]
    /\ ledger \subseteq Posts \X Events
    /\ queue \subseteq Posts
    /\ lock \in [Posts -> Readers \cup {Daemon, Nobody}]
    /\ pc \in Working \cup {"off", "boot", "idle"}
    /\ inst \in Instances \cup {NoInstance}
    /\ own \in Manifest
    /\ put \in Dispositions
    /\ verdict \in Verdicts
    /\ answer \in {"none", "code0", "code2", "code3", "byState"}
    /\ dq \subseteq Posts
    /\ todo \in [Booters -> SUBSET Instances]
    /\ bcur \in [Booters -> Instances \cup {NoInstance}]
    /\ plan \in [Booters -> Terminal]
    /\ rpc \in [Readers -> {"idle", "get", "persist", "event", "queueRead",
                            "queueWrite", "scan", "converge"}]
    /\ rpost \in [Readers -> Posts]
    /\ rman \in [Readers -> Manifest]
    /\ rnew \in [Readers -> {"NONE", "PUBLISHED", "FAILED", "PUBLISHED_CORRECTED"}]
    /\ rtodo \in [Readers -> SUBSET Instances]
    /\ rq \in [Readers -> SUBSET Posts]
    /\ remote \in [Posts -> RemoteStates]
    /\ wire \in [Posts -> WireStates]
    /\ puts \in [Posts -> Nat]
    /\ putBy \in [Posts -> Instances \cup {NoInstance}]
    /\ notices \in [Posts -> Nat]
    /\ told \in [Instances -> {"none", "code0", "code2", "code3"}]

\* The lock does its work: whoever may still write a manifest from a copy it
\* read earlier holds the post's lock, and the copy is what is on disk.
CopiesAreCurrent ==
    /\ pc \in Working => lock[P] = Daemon
    /\ pc \in Working \ {"check", "load"} => own = man[P]
    /\ \A r \in Readers :
         /\ rpc[r] # "idle" => lock[rpost[r]] = r
         /\ rpc[r] \in {"get", "persist"} => rman[r] = man[rpost[r]]

\* The provider is asked to publish a post at most once, whatever crashes,
\* redeliveries and fresh confirmations happen, and never before the attempt
\* is consumed on disk (docs/ARCHITECTURE.md:25).
AtMostOnePut ==
    \A p \in Posts : puts[p] <= 1 /\ (puts[p] = 1 => man[p].attempts = 1)

\* Each PUT is made under a live authorization: the instance's receipt is
\* EXECUTING, the final flag stands, the lock is held, no supersession exists.
PutAuthorized ==
    \A p \in Posts : puts'[p] # puts[p] =>
      /\ p = P /\ rcpt[inst] = "EXECUTING" /\ man[p].final
      /\ lock[p] = Daemon /\ p \notin superseded
PutIsAuthorized == [][PutAuthorized]_vars

\* What a settled receipt says of its post, up to the resolution of PUBLISHING;
\* a blocked instance never issued a PUT.
Agrees(i, receipt) ==
    LET state == man[PostOf[i]].state IN
      CASE receipt = "SETTLED_PUBLISHED" -> state = "PUBLISHED"
        [] receipt = "SETTLED_PUBLISHING" -> state \in {"PUBLISHING", "PUBLISHED", "FAILED"}
        [] receipt = "SETTLED_FAILED" -> state = "FAILED"
        [] receipt = "SETTLED_CHECK_REQUIRED" -> state = "CHECK_REQUIRED"
        [] receipt = "SETTLED_READBACK_FAILED" -> state = "READBACK_FAILED"
        [] receipt = "SETTLED_UNKNOWN" -> state \in {"UNKNOWN", "PUBLISH_IN_FLIGHT"}
        [] receipt = "SETTLED_BLOCKED" -> putBy[PostOf[i]] # i
        [] OTHER -> TRUE

\* A settled receipt agrees with the manifest it was settled from.
ReceiptMatches == \A i \in Instances : Agrees(i, rcpt[i])

\* The provider bears out what a manifest in this state claims: PUBLISHED and
\* PUBLISHING are never claimed of a draft, FAILED never of a PUT that was
\* delivered.
BorneOut(p, state) ==
    /\ state = "PUBLISHED" => remote[p] = "published"
    /\ state = "PUBLISHING" => remote[p] # "draft"
    /\ state = "FAILED" => wire[p] = "refused" \/ remote[p] = "failed"

\* What the manifest claims is true at the provider.
TruthfulStates == \A p \in Posts : BorneOut(p, man[p].state)

\* The append-only ledger holds no row the manifest does not stand behind:
\* accepted only if the provider applied the PUT, PUBLISHED only once settled.
LedgerIsTrue ==
    \A p \in Posts :
      /\ <<p, "PUBLISH_ACCEPTED">> \in ledger => wire[p] = "applied"
      /\ <<p, "PUBLISHED">> \in ledger => man[p].state = "PUBLISHED"
      /\ <<p, "PUBLISHED_CORRECTED">> \in ledger => man[p].state = "PUBLISHED"
      /\ <<p, "FAILED">> \in ledger => man[p].state = "FAILED"
      /\ p \in queue => man[p].state = "PUBLISHED"

\* A terminal receipt is dead: nothing moves it again, except that the
\* reconciliation resolves SETTLED_PUBLISHING.
TerminalStays ==
    \A i \in Instances : rcpt[i] \in Terminal =>
      \/ rcpt'[i] = rcpt[i]
      \/ rcpt[i] = "SETTLED_PUBLISHING"
         /\ rcpt'[i] \in {"SETTLED_PUBLISHED", "SETTLED_FAILED"}
DeadStaysDead == [][TerminalStays]_vars

\* A person is told of a post at most once, whatever the number of requests.
NoticeOnce == \A p \in Posts : notices[p] <= 1

\* "Executed to a provider answer" (code 0) is only said of an instance whose
\* receipt is terminal and whose post has a recorded provider answer.
AnsweredIsSettled ==
    \A i \in Instances : told[i] = "code0" =>
        /\ rcpt[i] \in Terminal
        /\ man[PostOf[i]].attempts = 1
        /\ man[PostOf[i]].state \notin {"PUBLISH_IN_FLIGHT", "UNKNOWN"}

\* No post stays locked: every request and every reconciliation ends.
LocksAreReleased == \A p \in Posts : []<>(lock[p] = Nobody)

\* The abstract promise, with the post's manifest as its record.
Promise == INSTANCE AtMostOncePublication WITH
    owned <- {p \in Posts : man[p].attempts = 1},
    calls <- puts,
    outcome <- [p \in Posts |-> man[p].state]

\* The implementation keeps the promise.
ImplementsPromise == Promise!Spec

-----------------------------------------------------------------------------
(* The inductive invariant of the proofs *)

\* Facts about the control state that the other invariants need.
Control ==
    /\ pc \in Working => inst \in Instances
    /\ pc = "event" => verdict # "UNKNOWN"
    /\ \A r \in Readers : rpc[r] \notin {"idle", "get"} => rnew[r] # "NONE"

\* Between the write that consumes the attempt and the write that records its
\* outcome, the manifest says so; elsewhere a zero means that nothing was sent.
OneAttempt ==
    /\ \A p \in Posts :
         /\ man[p].attempts = 0 <=> man[p].state = "NOT_REQUESTED"
         /\ man[p].attempts = 0 => puts[p] = 0
         /\ puts[p] \in {0, 1}
    /\ pc = "consume" => man[P].attempts = 0
    /\ pc = "put" => puts[P] = 0 /\ man[P].state = "PUBLISH_IN_FLIGHT"
    /\ pc \in {"await", "accept", "acceptEvent", "readback", "persist"} =>
         puts[P] = 1 /\ man[P].state = "PUBLISH_IN_FLIGHT"
    /\ \A r \in Readers :
         rpc[r] \in {"get", "persist"} /\ rnew[r] # "PUBLISHED_CORRECTED" =>
           rman[r].state = "PUBLISHING"

\* A notification is sent only after the manifest on disk says it was tried.
OneNotice ==
    /\ \A p \in Posts :
         notices[p] \in {0, 1} /\ (man[p].tries = 0 => notices[p] = 0)
    /\ pc = "sending" => man[P].tries = 1 /\ notices[P] = 0

\* What is inductive: the types, the control state, the lock, the attempt and
\* the notification.
IInv == TypeOK /\ Control /\ CopiesAreCurrent /\ OneAttempt /\ OneNotice

\* A receipt is torn between its creation and the write of its content, and no
\* boot reconciliation works on such a receipt; the daemon's own one is over
\* before it serves a request.
ReceiptLife ==
    /\ pc = "claimed" => rcpt[inst] = "TORN"
    /\ \A b \in Booters :
         /\ \A i \in todo[b] : rcpt[i] \notin {"NONE", "TORN"}
         /\ bcur[b] # NoInstance => rcpt[bcur[b]] \notin {"NONE", "TORN"}
    /\ pc # "boot" => todo[Daemon] = {} /\ bcur[Daemon] = NoInstance

\* What the request knows of the attempt and of its authorization.
RequestFacts ==
    /\ pc \in {"claimed", "recover", "block"} => man[P].attempts = 0
    /\ pc \in {"event", "queueRead", "queueWrite", "settle", "settleConsumed"} =>
         man[P].attempts = 1
    /\ pc \in {"consume", "put"} => man[P].final
    /\ superseded \subseteq StoryPosts
    /\ pc \in {"claimed", "recover", "authorize", "mark", "load", "preflight",
              "consume", "put"} => P \notin superseded
    /\ \A p \in Posts : puts[p] = 0 => putBy[p] = NoInstance

\* What the daemon holds in memory of the outcome is true: the disposition of
\* the PUT, the verdict, the copy of the queue file.
OutcomeFacts ==
    /\ \A p \in Posts : wire[p] = "none" <=> puts[p] = 0
    /\ pc \in {"accept", "acceptEvent"} => put = "accepted"
    /\ pc \in {"accept", "acceptEvent", "readback", "persist"} =>
         /\ put = "accepted" => wire[P] = "applied"
         /\ put = "rejected" => wire[P] = "refused"
    /\ pc = "persist" => BorneOut(P, verdict)
    /\ pc = "event" => man[P].state = verdict
    /\ pc \in {"queueRead", "queueWrite"} => man[P].state = "PUBLISHED"
    /\ pc = "settle" => man[P].state \in Verdicts \ {"UNKNOWN"}
    /\ \A p \in dq : man[p].state = "PUBLISHED"

\* What reader r holds in memory is true: the row it will append, the copy of
\* the queue file, the receipts it found for its post.
ReaderFacts(r) ==
    /\ \A p \in rq[r] : man[p].state = "PUBLISHED"
    /\ rpc[r] \in {"get", "persist"} /\ rnew[r] = "PUBLISHED_CORRECTED" =>
         man[rpost[r]].state = "PUBLISHED"
    /\ rpc[r] = "persist" => BorneOut(rpost[r], rnew[r])
    /\ rpc[r] \in {"event", "queueRead", "queueWrite", "scan", "converge"} =>
         man[rpost[r]].state = IF rnew[r] = "FAILED" THEN "FAILED" ELSE "PUBLISHED"
    /\ rpc[r] \in {"queueRead", "queueWrite"} => rnew[r] = "PUBLISHED"
    /\ rpc[r] = "idle" => rtodo[r] = {}
    /\ \A i \in rtodo[r] : PostOf[i] = rpost[r]

\* An answer is prepared once the receipt is terminal and the attempt consumed.
AnswerFacts ==
    /\ answer # "none" => pc \in {"notify", "sending", "sent", "reply"}
    /\ answer \in {"code0", "byState"} =>
         rcpt[inst] \in Terminal /\ man[P].attempts = 1
    /\ answer = "code0" => man[P].state \notin {"PUBLISH_IN_FLIGHT", "UNKNOWN"}

\* What is inductive for any set of boot-reconcile commands.
OutcomeInv ==
    /\ IInv /\ ReceiptLife /\ RequestFacts /\ OutcomeFacts /\ AnswerFacts
    /\ \A r \in Readers : ReaderFacts(r)
    /\ TruthfulStates /\ LedgerIsTrue /\ AnsweredIsSettled

\* Without a separate command nobody but the request touches its receipt, and
\* no receipt of the post is settled while the PUT is under way.
ReceiptFacts ==
    /\ pc \in {"load", "preflight", "consume", "put"} => rcpt[inst] = "EXECUTING"
    /\ pc \in {"put", "await", "accept", "acceptEvent", "readback", "persist"} =>
         \A i \in Instances : PostOf[i] = P => rcpt[i] # "SETTLED_UNKNOWN"
    /\ bcur[Daemon] # NoInstance => Agrees(bcur[Daemon], plan[Daemon])

\* What is inductive when only the daemon reconciles at boot.
SoloInv == OutcomeInv /\ ReceiptFacts /\ ReceiptMatches

-----------------------------------------------------------------------------
(* What docs and comments say and the code does not do (violation runs) *)

\* nullone_publish_receipt.py:20-21, "All writes are atomic": no receipt file
\* is left half-written once nobody is writing it.
NoTornReceipt == \A i \in Instances : rcpt[i] = "TORN" => pc = "claimed" /\ inst = i

\* nullone_final_publish_controller.py:32-35, "2 = BLOCKED before any attempt
\* (attempts stays 0)".
Code2MeansNoAttempt ==
    [][(pc' = "idle" /\ pc \in Working /\ told'[inst] = "code2") =>
         man[P].attempts = 0]_vars

\* social/STATE_RULES.md:33, "PUBLISHED is a valid terminal candidate status":
\* the queue file keeps every PUBLISHED mark.
QueueKeepsPublished == [][queue \subseteq queue']_vars
=============================================================================
