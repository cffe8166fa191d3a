# Formal models of NullOne

NullOne turns monitored news into social posts: *monitor → verify → score →
draft → render → Zernio draft → Telegram preview → first approval → second
("final") confirmation → publication → recorded result*. Paths below are
relative to the repository; `S/` stands for `workspace/social/ops/scripts/`.

## 1. The system

Everything durable is a file: one manifest (JSON) per post, one receipt per
authorization, append-only JSONL ledgers, a Markdown candidate queue, and marker
files. Processes are short-lived commands started by the OpenClaw gateway or a
scheduler, plus one resident daemon. They share the files under `flock`s.

| Component | State it keeps | Operations | Hard behaviour | What makes it correct |
|---|---|---|---|---|
| Final-publish controller `S/nullone_final_publish_controller.py` with the core `S/nullone-publish-bridge.py` and `S/nullone-publisher-run.py` | manifest.publication/approval, receipts | execute_authorized, recovery, boot reconciliation | crash between any two writes; redelivery; fresh confirmations; errors after the PUT | one PUT per post; the PUT only under a live authorization; replies that agree with the record |
| Receipts `S/nullone_publish_receipt.py` | one file per authorization instance | claim, transition, converge, scan | creation and write are two steps | terminal receipts stay terminal |
| Zernio publish adapter `S/nullone_zernio_publish_adapter.py` | none (provider state is remote) | preflight, promote_once, readback | timeouts that hide a delivered PUT; asynchronous delivery | the record never claims more than was seen |
| Reconciliation `S/nullone-publish-reconcile.py` | manifest, ledgers, receipts | reconcile-one, repair-one, scan-eligible | runs beside the daemon | only PUBLISHING is resolved, by proof |
| Notifier `S/nullone-publish-notify.py` | manifest notification fields | notify | crash or timeout around the send | at most one message per post |
| Ledgers, queue `S/nullone_state.py` | publish-ledger, topic-ledger, approval ledger, candidate-queue.md | append once, mark published | whole-file rewrite of a shared file | the cadence counts what happened |
| Supersession and lock `S/nullone_story_supersession.py` | marker file, lock file per post | mark, require, review_post_lock | a revision racing a publication | a superseded Story is never published |
| Final-publish plugin `plugins/nullone-final-publish` | the daemon link, pending requests | spawn, ready, request, death | late replies and late exits | one reply per request, a link that recovers |
| First-stage approval `S/nullone_approval_controller.py`, `S/nullone_approval_durable.py` | manifest.approval.stage, pending ledger event | callback, sweep | kill after 10 s, redelivery, replay | stage and ledger agree |
| Draft creation `S/nullone_zernio_draft_adapter.py`, `S/nullone-draft-bridge.py`, `S/nullone_draft_bridge_action.py` | manifest.review, media, a lock file, audit rows | create_review_draft; the button; the completion pass | an unclear POST; stale lock files; several callers | one draft per manifest, and "created" only for a real one |
| Draft Factory `S/nullone_claude_draft_provider.py`, `S/nullone_draft_candidate_fallback.py`, `S/nullone-draft-factory-run.py`, `S/nullone_draft_recovery.py` | dated inputs, receipts, render records, manifests, the queue entry, delivery receipts | select, evaluate, produce, render, bridge, flip, notify, recover | crash and retry on another day; Morning edits the queue | one draft per candidate, true cards and reports |
| Packaging policy `S/nullone_packaging_policy.py` | none | the decision table, asset validation | — | a draft follows its recorded decision |
| Main draft pipeline `S/nullone_main_draft_pipeline.py`, Story pipeline `S/nullone_story_pipeline.py` | request lock, finalized spec, manifest | run | killed between spec, manifest, call and preview | one draft per request |
| Breaking news `S/nullone_breaking_identity.py`, `_router.py`, `_dispatch.py`, `_workflow.py` | draft-set records, results | identify, route, reserve, dispatch, continue | overlapping occurrences of one development; killed runs | one draft per development and format; Story first |
| Breaking radar and spool `S/nullone-breaking-scan.py`, `nullone-breaking-consume.py`, `nullone_claude_radar_provider.py` | staging files, handoffs, scan receipts | commit, record empty, sweep | the commit's two writes; overlapping cycles | only what is committed is consumed, unchanged |
| Cadence `S/nullone_cadence_*.py` | none (reads ledgers and manifests) | decide | day boundaries, limits | no more drafts than a day should have |
| Scheduling `S/nullone_sched*.py`, `nullone-scheduled-wakeup.py`, `nullone-scheduled-run.py` | occurrence locks, results | wake up, resolve, dispatch, replay | duplicate, early and late wake-ups | one result per occurrence |
| Run outcomes and failure notices `S/nullone_run_outcome.py`, `nullone_failure_notify.py` | result files, notification records | emit once, notify | crash around the alert | every failure told at most once, no success told |
| Morning `S/nullone_morning_workflow.py`, `nullone_editorial_runtime.py`, `nullone_morning_persistence.py` | board, handoff, queue section, topic rows | attempt, persist | an agent that outlives its caller | success is backed by artifacts; Story only after it |
| Analytics `S/nullone_analytics_*.py` | raw file and report of a day | collect, commit the pair | the second replacement fails | the pair is of one edition |
| Model providers, heartbeat, release CLI, restore drill, renderers | reports, alert list, releases | — | model output, subprocesses | see `PROJECT.json` |

How they interact: the plugin spawns the daemon and sends it authenticated
request frames; the daemon runs the publication core *in-process*, calls the
notifier, and writes manifest, receipt, ledgers and queue while it holds the
post's `review_post_lock`. The reconciliation command, the first-stage approval
command and Story revisions take the same lock; `boot-reconcile` and the
notifier's own command line do not. Drafts come from three producers: the Draft
Factory, which calls the draft bridge once per manifest and leaves the rest to
its completion pass and to a button; the scheduled Story workflow, which reads
the handoff of a successful Morning; and Breaking news, which is fed by the
sweep of the radar's spool. Each of them starts the draft bridge as a child
process, which a killed parent does not take along.

`PROJECT.json` lists every component with its status, and every hazard with its
source line and the properties that watch it.

## 2. Plan

1. `FinalPublish` + `AtMostOncePublication` (done): the publication itself, with
   its inductive invariant and the refinement proved.
2. `Approval` (done): the first-stage decision; every property proved.
3. `DraftBridge`, `DraftFactory`, `PackagingPolicy` (done): from a candidate to a
   review draft and its card.
4. `BreakingPolicy`, `BreakingDispatch` (done): from a committed assessment to the
   drafts of a development.
5. `ScheduledRuns`, `BreakingSpool`, composed in `ScheduledMC` (done): wake-ups,
   Morning, Story, Analytics, alerts; the radar and its spool.
6. Proofs (done): every safety property the passing runs check is a theorem.
7. `OneReviewDraft`, `OneOutcome` (done): what all producers promise of review
   drafts, and the scheduler of its runs; four modules implement the first, one the
   second, by refinement, checked and proved.
8. Next, modules: `DaemonLink` (the plugin's link to the daemon, its timeouts and
   late events), Story revisions against publication, `Release` (deploy, switch,
   roll back).

## 3. The modules and the code

### FinalPublish

State. `man` is the set of manifest files, `rcpt` the receipt files, `ledger`
the rows of publish-ledger.jsonl, `queue` the PUBLISHED marks of
candidate-queue.md, `files` what became of the approved caption and media,
`superseded` the Story markers, `lock` the `review_post_lock` of each post.
`pc, inst, own, put, verdict, answer, dq` are the daemon's place and memory;
`todo, bcur, plan` belong to the boot reconciliations, `rpc ... rq` to the runs
of the reconciliation command. `remote` and `wire` are the provider. `puts`,
`putBy`, `notices` and `told` are history: no guard reads them.

A step ends wherever the code writes a file, talks to somebody, or reads what it
will use later; a crash may fall between any two steps. A write of a manifest
replaces the file by the writer's *copy* (`Save`), as `atomic_write_json` does:
that the copy is still current is proved, not assumed.

| Code | Actions |
|---|---|
| `_dispatch`, `execute_authorized`, `_execute_locked` | Receive, FindFails, CheckConsumed, CheckSuperseded, Finish |
| `claim_receipt` | Claim, WriteClaim, WriteClaimFails, ClaimTorn, ClaimExists |
| `_recover_existing`, `_adopt` | RecoverTerminal, Adopt, RecoverRevoked |
| `apply_final_authorization`, `_invoke_core`, `execute_loaded` | Authorize, MarkExecuting, ReceiptGone, Load, Preflight, Consume, Put, Response, Accepted, AcceptedEvent, Readback, Persist, Event, QueueRead, QueueWrite, WriteFails |
| `_settle_from_manifest`, `revoke_final_if_no_publish_attempt` | Settle, SettleConsumed, SettleConsumedTorn, SettleError, Revoke, RevokeUnexpected, Block |
| `notify` | NotifyClaim, NotifySkip, NotifySend, NotifyRecord |
| the process itself | Crash, DaemonStart, BootRead, BootSettle, BootFails, Ready; CommandStart for the separate command |
| `nullone-publish-reconcile.py` | ReadStart, ReadStep (one disjunct per step), ReadEnd |
| other writers | FirstStage (approval), Supersede (Story revision), ChangeFiles |
| Zernio | Deliver, Provider (external) |

`AtMostOncePublication` is the promise without processes or files: a post is
owned once, called once, recorded once, and only PUBLISHING may be resolved
later. `Promise` in FinalPublish instantiates it: owned posts are those with
`attempts = 1`, calls are the PUTs, the outcome is `publication.state`.

### Approval

State. `man` holds the approval fields of each manifest, `rows` the
APPROVAL_DECISION rows, `lock` the same per-post lock, `card` the posts whose
confirmation card was shown. `pc, post, copy` are the processes, clicks and
sweeps alike; `action, result` the clicks' button and answer, `todo` what a sweep
has still to visit. `moved`, `did` and `promised` are history.

| Code | Actions |
|---|---|
| `handleApprovalFirstStage`, `runApprovalCallback` | Press, Exit, Tell, Dies |
| `handle_durable_approval_callback` | Enter, Decide, Persist, PersistFails |
| `_TRANSITIONS`, `handle_approval_callback` | Target, Transition, Decide |
| `_flush_pending_ledger_event`, `record_approval_decision` | FlushRow, FlushClear, FlushFails |
| `recover_pending_ledger_events` | SweepStart, SweepNext, SweepTake, SweepDies |
| the second stage, as the first one sees it | SecondStage |

The stage write and its marker are one step, since they are one
`atomic_write_json`; the ledger row and the clearing are one step each and may
fail or be cut off. The lock is free when a process ends, and the answer is sent
afterwards (Tell): other clicks may come in between. Expiry is a verdict that may
come at any time, which covers every calendar.

### DraftBridge

One manifest and everybody who may run its bridge: the factory's command line
(`cli`), which takes no lock, the completion pass (`backstop`) and presses of the
button, which go through the action and its lock file. `manifest` is the file,
`w[p].copy` what a process read, `posts` and `drafts` are Zernio, `lock` is the lock
file with the process that made it and whether its content was written, `audit`
and `answer` what was reported. `crashes, overlap, reclaimed` are history.

| Code | Actions |
|---|---|
| `handle_request` | Replay, Acquire, Reclaim, Recreate, Stamp, Recheck, Answer, Release |
| `nullone-draft-bridge.py` `execute`, `create_review_draft` | Load, EnsurePublicMedia, Preflight, PersistAttempt, CreateDraft, Readback, PersistUnknown, PersistCreated, Verify |
| callers, kills | RunCommand, RunBackstop, Click, Kill |

### OneReviewDraft and OneOutcome

The two promises, without processes, files or locks. In `OneReviewDraft` a piece of
work has a `review`, what is recorded of its one create attempt, and `drafts`, those
it made at Zernio. Its one action lets a bridge come some way: spend the attempt,
make a draft or not, record the outcome. Only NOT_CREATED and CREATE_IN_FLIGHT are
ever left, there is never a second draft, and DRAFT_CREATED comes with one. In
`OneOutcome` an occurrence gets one outcome (`Conclude`), a failed one, and no
other, is reserved for an alert (`Reserve`), and the alert leaves once, after that
(`Alert`). The modules below give them their state:

| Module | Its works | `review` and `drafts` |
|---|---|---|
| DraftBridge (`Promise`) | the manifest | `manifest.state`, `drafts`; for the steps taken while no two bridges overlap, since the code promises nothing of the others |
| DraftFactory (`Promise`) | the candidates | the state of a candidate's manifest, of whichever day; its drafts of all days |
| BreakingDispatch (`Promise`) | development and kind of post | the review of the one manifest among all requests for it; the drafts of all of them |
| ScheduledRuns (`Drafting`) | the candidates of Story | `work[c].review`, `drafts[c]` |

`Telling` in ScheduledRuns is OneOutcome: `result` is the outcome, an occurrence with
a notification record is reserved, `alerts` counts what was sent.

### PackagingPolicy and DraftFactory

`PackagingPolicy` is the decision table as operators over a request (`EvaluatePackaging`),
with the gates of the evaluator (`GroundingUnmet`) and of the renderer (`Renderable`).
`DraftFactory` runs cycles over a queue with it. Dated files are keyed by
`<<day, candidate>>` (`request`, `asset`, `manifest`, `delivery`, `ledger`, `report`),
undated ones by the candidate (`receipt`, `record`, `entry`): this is what a second
cycle on another day finds. `cyc` is the one running cycle.

| Code | Actions |
|---|---|
| `nullone_claude_draft_provider.py` stages | StartCycle, Select, Evaluate, Classify, Produce, Render, BuildManifest, Ready, Bridge, FlipCheck, FlipReplace, Notify, Send, WriteProof, Complete, WriteReport |
| `nullone_draft_candidate_fallback.py`, asset resolution | NextCandidate, Record, WriteAsset, Exhausted |
| `nullone-draft-factory-run.py` | Backstop, StageFails, CycleCrash |
| `nullone_draft_recovery.py` | Recover with DeliveryClaim, Recoverable |
| others | Click (button), MorningEdits, NextDay |

### BreakingPolicy and BreakingDispatch

`EvaluateIdentity` and `EvaluateRouting` are the two pure decisions, over a *view*
of the repository (manifests, ledger row, queue row, related topics). Texts and
links are abstracted to developments (`DevelopmentOf`) and events (`EventOf`); a
manifest, row or topic is first reduced to its kind, as the code does, and the
governing kind decides. `BreakingDispatch` lets occurrences, and an operator, run
them: `set` and `holder` are the draft-set records and locks, `work` the manifest
of each production request, `child` the bridges running, `drafts` and `sent` what
reached Zernio and the owner, `result` the occurrence's outcome.

| Code | Actions |
|---|---|
| `nullone_breaking_workflow.py` | Identify, Route, Emit |
| `reserve_draft_set`, `dispatch_draft_set`, `continue_unattempted_target` | Reserve, Permit (recheck), Leave, Continue |
| Story and main pipelines | Finalize, Build, Connected, Preview, Classify |
| the bridge as a child | Attempt, Answer, Killed |
| others | Crash, Owner, Fill (another producer) |

`requested` and `killed` are histories, which no guard reads: the drafts an
occurrence's routing asked for, and who was killed. They let `SucceededWasSeen` say
of a result whether it names every draft that was asked for (`Accounted`).

### ScheduledRuns, BreakingSpool, ScheduledMC

`ScheduledRuns` is what follows a wake-up. `Resolve` is the occurrence authority:
the latest slot of the day that is due. `holder`, `result`, `note` are the run
lock, the persisted result and the notification record of each occurrence;
`board, handoff, queue, topics` are Morning's artifacts of each day, `agent` the
files a running agent may still write, the one without a parent being `Stray`. A
handoff is a sequence of entries, each a candidate with its editorial status and
whether Story may have it; it may be empty. READY, NEW and RESEARCHING candidates
are queued, DEFERRED and REJECTED ones only get a row `<<day, candidate, FALSE>>` in
`topics`; where nothing is queueable no section is written (`queue[d] = None`) and
Morning succeeds all the same. The variables `work, child, drafts, sent` are
Story's, `pair` Analytics'.

| Code | Actions |
|---|---|
| wake-up, registry, authority, dispatch | WakeUp, Acquire, Leave |
| `emit_result_once`, `notify_if_required` | Emit, Reserve, Send, Record |
| Morning | Attempt, AgentWrites, AgentEnds, StrayEnds, PersistQueue, PersistRows |
| Story | Prove, Cadence, Request, BridgeCalls, BridgeEnds, Connected, Look, Preview, Owner |
| Analytics | Collect, CommitRaw, CommitReport |
| a killed process | Crash |

`BreakingSpool` is the radar cycle (Answer, Stage, Read, Enter, Write, List,
RecordEmpty, Kill, NextScan) and the sweep (SweepStarts, SweepReads, SweepRuns,
SweepEnds) over handoffs and receipts; a handoff is its `version`, so that two
assessments of one candidate differ. `ScheduledMC` composes both. They share no
file; a behaviour therefore runs one of them (`MCInit`), since a state of both at
once would show nothing about either. An absent file is `None` in the one module,
`Absent` in the other.

## 4. What is checked

| Run | Instance | Shows |
|---|---|---|
| publish_daemon | 1 post, 2 second-stage messages, redelivered freely, daemon crashes anywhere | one PUT, one notice, code 0 only for a settled outcome, the abstract promise |
| publish_reconcile | 1 Story post, 1 authorization, 1 reconciliation command, supersession, changed and missing files | receipts, states and ledger agree with the manifest and the provider; terminal receipts stay terminal; no PUT without authority |
| publish_command | as above without damage, plus a boot-reconcile command beside the live daemon, fair processes | the inductive invariants of the proofs (`IInv`, `OutcomeInv`), type correctness included, survive the command that takes no lock; every lock is released |
| approval | 1 post, 2 clicks at a time, 1 sweep, second stage, kills and failed writes anywhere | audit, ledger, answers, promises, terminal stages, no publication without approval |
| draft_bridge | 1 manifest, command line, completion pass, 2 presses, 2 kills | the inductive invariant of the proofs; one create request, the lock file excludes, created is real; alone, a bridge keeps the promise of OneReviewDraft |
| draft_factory | 2 candidates, 2 days, 2 cycles, presses, recovery, an edit of the queue, kills and failures anywhere | the inductive invariant of the proofs; OneReviewDraft for every candidate, true cards and reports, production only under the receipt, every cycle ends |
| breaking | 2 occurrences sharing a candidate, a development or an event, 3 pairs of assessments, 3 histories, an operator, a kill, a slot filled by another producer | the inductive invariant of the proofs; OneReviewDraft for the Story and the main of every development, a success names every draft asked for and each was shown (a killed occurrence's replay apart), consumed attempts stay visible, every occurrence is settled |
| scheduled | 6 agendas of up to 3 wake-ups over 2 days for 2 processes, 2 candidates, 4 handoffs, a kill; 2 radar cycles over 2 scan slots, 3 answers, a kill, the sweep | the inductive invariant of the proofs; OneReviewDraft for every Story, OneOutcome for every occurrence, no success without artifacts or with an unrecorded handoff, no Story without its Morning, nothing consumed but what was committed, every run ends |
| publish_torn, publish_code2, publish_queue, approval_lost | small instances | four sentences of the documentation that the code does not keep (section 6) |

Why these bounds. *Publication, approval*: posts are independent but for the queue
file, the boot scan and the daemon being one: the queue run has two posts, the
others need one. Two authorizations of one post suffice for every race of
messages, since the daemon handles one at a time and all that a former one leaves
behind is on disk; one message may also be delivered any number of times. Crashes,
restarts, readbacks, clicks and sweeps are not bounded at all. `attempts` and
`tries` are 0 or 1 because `validate_manifest` accepts nothing else.

*Draft bridge*: manifests are independent; three actions meet at a lock file, two
of which may find it stale at once, and after two kills a third still comes
(`MaxCrashes = 2`). *Draft factory*: the second cycle is the retry of the first, on
the same or the next day; what a third would find, the second leaves behind. Two
candidates make the ranking and the fallback walk real. *Breaking*: every rule is
about one development and another occurrence of it; the scans are the pairs that
differ in severity, in candidate and in claim, the histories a queue row, a topic
row and nothing. `StoryMax = MainMax = 1` puts the load at its limit. One kill
suffices to leave each intermediate state behind; the bridge dies freely.
*Scheduled*: the agendas are a duplicated Morning, both Story slots of a day, a
Story before its Morning and again after it, one a day late, and an early and a
duplicated Analytics; two wakers let any two of them overlap. `MaxAttempts = 2` is
one retry. The four handoffs are the empty one, one with nothing to queue, one with
both candidates ready, and one whose second is queued but not for Story. *Spool*: the second cycle is the retry or the overlap, in the same or the next
slot; the answers have nothing, one candidate, and that one reassessed with another.

`CHECK_DEADLOCK FALSE`: in the FinalPublish instances a crash inside
`claim_receipt` leaves a receipt no scan accepts, and from then on no daemon
starts; where no other process exists the system really stops. The draft, breaking
and scheduled instances end when their presses, cycles, occurrences or agendas
are used up. Approval has no such state and is checked for deadlock.

publish_queue uses SYMMETRY, exchanging the posts together with their
authorizations (every definition treats them alike, and `Posts`, `Instances` and
`PostOf` are invariant), and a VIEW without the history, which no guard reads and
the property does not mention. It searches for a counterexample, so that a
smaller state space could only miss one. publish_daemon, approval, approval_lost
and draft_bridge exchange messages or clicks, which no definition tells apart; no
run with a liveness property uses symmetry.

Fairness. `FinalPublish!FairSpec`: weak fairness of the daemon's steps and of each
reconciliation run's: once running they go on, because each network call,
subprocess and lock wait in the code has a timeout or a holder that is itself
fair. `Answers` always contains "unknown" since the PUT has a timeout, and
`LocksAreReleased` fails without it (its mutant). DraftFactory: weak fairness of
the cycle's steps, each of which is bounded by a subprocess timeout.
BreakingDispatch and ScheduledRuns: weak fairness of `Progress`, the disjunction of
all processes' steps and of the end of a bridge (it has a deadline): while
something is under way, something moves. This is weaker than fairness of each
process, and enough because no process has a cycle of steps. Nothing is assumed of
users, wake-ups, restarts, crashes, agents without a parent, file damage or the
provider.

## 5. What is proved

TLAPS proves, for any number of posts, authorizations, reconciliation commands
and boot-reconcile commands, from `ConstantsAssumption` alone
(`FinalPublishProofs`):

- `Invariance`, `TypeCorrect`, `CopiesStayCurrent`: `Spec => []IInv` and its
  parts. IInv is needed because `AtMostOnePut` is not inductive: it says nothing
  of a daemon about to PUT. The argument runs: a process with a copy holds the
  lock of its post; writers take the lock; hence copies are current; hence no
  write brings `attempts = 0` back; hence the place before the PUT is reached
  once per post.
- `AtMostOnce`, `NoticeAtMostOnce`: at most one PUT and one notice per post.
- `KeepsPromise`: every step of FinalPublish is a step or a stutter of
  `AtMostOncePublication`.

From `ApprovalAssumption` alone, for any number of posts, simultaneous clicks and
sweeps (`ApprovalProofs`): `Invariance` and, from it, every property the run
`approval` checks. `StageIsAudited` needs `Markers`: a marker is cleared only by
a process that saw its row appended, and `CopiesAreCurrent`: the marker it
clears is the one it appended. `AcceptedStands` needs `ClickFacts`: a click that
may still be told "accepted" has its terminal stage on disk, and no step moves
one (`DecisionsStep`). `PublicationWasApproved` needs `Approvals`: the card
follows an approval.

From `BridgeAssumption` alone, for any number of presses and of killed processes
(`DraftBridgeProofs`): `Invariance` and, from it, every property the run
`draft_bridge` checks. `LockExcludes` needs `LockNames`: until a lock is broken,
whoever is past it is named in it, so two actions inside would be two names.
`OneCreate` needs `Alone` and `Copies`: without overlap one worker is inside and
its copy is the file, so that the place before the request is reached only by
spending an unspent attempt on disk (`Requests`); `SpentForEver` follows from
the same. `KeptPromise` is the refinement of `OneReviewDraft`, step by step: the bridge
writes its manifest where it is inside, with a copy that is the file, and a draft is
made where `Requests` counts none yet. Its hypothesis `overlap' = {}` is in the
property and cannot be dropped: the command line takes no lock, and beside a press it can
write a stale copy back, with the attempt unspent again. `CreatedIsReal` needs
`Traces`: the code and the places behind a clear answer have a draft behind them.

`FinalPublishOutcomeProofs` goes on from `FinalPublishProofs` to what is recorded of
a publication. `OutcomeInvariance` holds with any number of boot-reconcile commands,
and `ManifestsAreTruthful`, `LedgerStaysTrue`, `AnswersAreSettled` and
`TerminalReceiptsAreDead` follow. The argument: a publication only moves from
NOT_REQUESTED to PUBLISH_IN_FLIGHT, to an outcome, and from PUBLISHING to PUBLISHED
or FAILED, and the provider's published and failed are final
(`PublicationMoves`, `ReceiptMoves`, `ProviderMoves`); so what the daemon
(`OutcomeFacts`) or a reconciliation (`ReaderFacts`) holds in memory of an outcome
stays true until it is written. `SoloInvariance`, `ReceiptsMatch` and
`PutsAreAuthorized` have the hypothesis `Booters = {Daemon}`: no boot-reconcile
command of its own. It is the normal deployment, where the daemon reconciles before
it serves, and it cannot be dropped: that command can mark a receipt ABANDONED
under the request that executes it.

From `SpoolAssumption` (`BreakingSpoolProofs`), for any slots, answers and radar
cycles: `SpoolInvariance`, and from it `HandoversAreCommitted`, the property
`ConsumedIsCommitted` that the run `scheduled` checks. A handoff file is written
once and never replaced; a receipt only grows, and lists a candidate after its file
is there; what the sweep has left of a directory is listed in its receipt.

From `ScheduleAssumption` and `NoneAssumption` (`ScheduledRunsProofs`), for any
agendas, slots, processes and handoffs: `Invariance` and, from it, `ToldAtMostOnce`,
`SuccessIsBacked`, `StoriesAreProven`, and `KeepsPromises`, the refinement of
`OneReviewDraft` and of `OneOutcome`. `RunFacts` says that whoever works in an
occurrence holds its run lock and that there is no result yet; `SendFacts` that an
alert belongs to the one process that reserved it. `Backed` and `Proven` are stable:
no step but that of the occurrence's own run takes from its artifacts. `WorkFacts`
lets one process at a time between a Story's request and its preview. For the
promises, `RunFacts` also says that an alert is sent only where its reservation is on
disk, and `WorkFacts` that an attempt not spent is still NOT_CREATED and that a bridge
whose call is out has CREATE_IN_FLIGHT to settle: without them a step of the bridge
could start from an outcome already recorded. `SectionWritten`, that a row of a
queued candidate has its section, holds whoever is killed. That the day's handoff is
`Recorded`, its queueable candidates in the queue and a row for each of its
candidates, cannot be had after a kill, since an agent may outlive a killed Morning
and replace its handoff; nor what `MorningFacts` and `QueueFacts` say for
`crashes = 0`, that section and rows of a day come from the one run whose result
stands, which is why no older row is in the way of a new one. Nothing is assumed of
a handoff but what `validate_handoff` checks (`ValidHandoff`).

From `BreakingAssumption` and `NoneAssumption` (`BreakingDispatchProofs`), for any
occurrences, assessments, developments and histories: `Invariance` and, from it,
`OneDraft`, `SuccessesWereSeen`, `AttemptsStayVisible` and `KeepsThePromise`, the
refinement of `OneReviewDraft`. Who is `Inside` holds the
lock of his development's set, and the set carries his decision (`InsideFacts`,
`HolderFacts`), so the recheck decides for everybody. A target that is PENDING or
BLOCKED is `Fresh`: no create call was made for its request and none is under way;
that is what lets it be dispatched. `KeyFacts` ties a request to the set of its
development and each manifest's call to its child. SUCCEEDED is never left
(`Achieved`), hence results stay backed: this much is `Coherent`. `RequestsAccounted`
adds the histories: who works on a target asked for exactly what its decision asks
for, and a set recorded as succeeded has all of its targets shown, so a success names
them all. For the refinement a development and a kind
of post are one piece of work although several occurrences may ask for it, each with
a request of its own: the set's decision fixes which request may ever have a manifest
(`Sole`), so a step of one bridge is a step of its work (`Moves`) and a stutter
of all others (`Quiet`). `AccelerationIsEarned` is about the policy alone, for every
assessment, repository and load: a routing is always one a dispatcher accepts
(`Licensed`), and only a verified, safe, uncovered development with a free Story slot
is accelerated, of a candidate without a trace and an event that is new or whose
history is settled.

From `DraftAssumption` (`DraftFactoryProofs`), for any candidates, offers, texts, days
and cycles: `Invariance` and, from it, `OneDraft`, `CardsAreTrue`,
`RecoveryInventsNothing`, `ManifestsStandOnReceipts`, and `KeepsThePromise`, the
refinement of `OneReviewDraft`. `OneDraftPerCandidate` is not
inductive: it rests on `Produced`, that a manifest stands on the undated receipt and
on the render record of its own day, so that two days of one candidate cannot both
have a manifest, and on `Spent`, that a draft costs the manifest its one attempt.
The refinement rests on the same two: what is said of a candidate is what its one
manifest says (`Viewed`), whichever day it is of.
`Produced` in turn needs `Inputs` (an asset is written once, after its request) and
what the cycle knows of its candidate at each step (`CycleFacts`). `Delivered` orders
draft, marker, card and claim. `DraftsAreSupported` adds what this says of the
packaging policy: a draft at Zernio has a verified request, and a picture where its
layout or its subject promises one. `PackagingIsSound` is about the policy alone:
it decides every request, within its own rules.

The step lemmas have one numbered step, or one lemma, per action of Next. In
`FinalPublishProofs` and `ApprovalProofs` that is per conjunct of the invariant; in
`DraftBridgeProofs` and `BreakingDispatchProofs` lemmas first say what an action does
to the fields, and the steps distinguish those effects; in `DraftFactoryProofs` frame
lemmas (`InputsKept`, `ProducedKept`, `SpentKept`, `DeliveredKept`) leave each
action what it changes.

TLC evaluates the assumptions named above in the runs of their modules. Those
on `None` and on other markers only say that an absent file differs from every
present one; the others are what configuration and code fix (slots within a day, a
finite queue, bounds that are natural numbers).

`SpentStaysSpent`, `OneDraftPerCandidate`, `OneDraftPerTarget` and `ToldOnce` are proved
as theorems of their own (`SpentForEver`, `OneDraft` twice, `ToldAtMostOnce`). The runs
check the promises in their place.

Only model-checked: `LocksAreReleased`, `EveryCycleEnds`, `EveryOccurrenceIsSettled`
and `EveryRunEnds`, as liveness under fairness is out of the prover's reach. That
constants such as `MaxCycles` bound an instance limits the runs only: the theorems
hold for every value of them.

## 6. Where code and documentation differ

Shown by a run:

- publish_torn: `claim_receipt` creates the receipt and writes it in two steps;
  the module says "All writes are atomic". A torn receipt stops every later boot.
- publish_code2: a BridgeError after the PUT is answered with code 2, "BLOCKED
  before any attempt (attempts stays 0)".
- publish_queue: candidate-queue.md is rewritten whole under per-post locks; a
  PUBLISHED mark ("a valid terminal candidate status") can be lost.
- approval_lost: a marker whose flush failed is overwritten by the next move,
  although it is "recovered later ... never lost".

Met while modelling; the models do what the code does:

- *Publication.* With a boot-reconcile command beside a live daemon a receipt may
  become ABANDONED under a running request, so `ReceiptMatches` is checked without
  that command and leaves ABANDONED open. A crash between outcome and ledger append
  leaves a PUBLISHED manifest without its row, so `LedgerIsTrue` has one direction.
  The second stage looks at no stage: a confirmation card once shown publishes a
  draft rejected later. An approval process killed by somebody else after its write
  is reported by the plugin as if nothing had changed.
- *Draft bridge.* The factory's command line takes no lock, so a press of the
  button beside it can send a second create request (with the same x-request-id);
  `OneCreate` excludes overlapping sections. A process that dies between making
  and filling the lock file leaves one no later caller may break. `_blocked` says
  that no external call was made, and is also used after a POST
  (`nullone_draft_bridge_action.py:207`).
- *Draft factory.* The queue flip compares the file with what it read before it
  replaces it, "so a concurrent queue edit cannot be silently discarded by this
  cycle" (`nullone_draft_candidate_queue.py:200`); an edit between that comparison and
  the replacement is discarded. A ranking exhausted after a receipt conflict raises KeyError in
  `aggregate_exhaustion_reason` (`nullone_draft_candidate_fallback.py:305`): the cycle dies. A
  draft the completion pass created leaves its candidate READY and without a card. A
  render record of one day blocks the candidate on later days, a crash between
  request and asset on the same day.
- *Breaking.* A run killed after its manifest exists and before the outcome is
  recorded finds that manifest on its replay, takes itself for a duplicate
  (SUPPRESS_DUPLICATE) and persists a success without action: the owner may never
  have seen the draft, the set stays DISPATCH_IN_FLIGHT and nobody is told. The
  deployment document says that a recovered DISPATCH_IN_FLIGHT is UNKNOWN with
  reconciliation required, and SUCCEEDED only when every requested draft was shown
  (`docs/deployment/63-breaking-workflow-deployment.md:128-130, 141-143`); the
  dispatch says "Never SUCCEEDED" of a draft without its preview
  (`nullone_breaking_dispatch.py:910-919`), but the replay is not dispatched. The
  model reaches it by identity, route, reservation, permission, text, manifest, a
  kill, and identity, route and result again; `SucceededWasSeen` excepts exactly these results, of a killed
  occurrence and without artifacts, and `UnsettledIsVisible` speaks of the set. A target
  blocked after its manifest exists can never be continued. A linked READY queue row
  replaces the unresolved mark of a REVIEW_UNKNOWN manifest
  (`nullone_breaking_identity.py`, resurfacing). Story load is checked before it is
  used, by developments with different locks: two of them can exceed a maximum, and
  drafts in flight do not count. Expiry of a review applies to any stored pending of
  an earlier day, not to "unapproved" ones only. In production the story recheck has
  no provider for main targets, so that a follow-up's main target is always blocked.
- *Spool.* A scan directory without a receipt ends every sweep; a retry that finds
  nothing after a crash between handoff and receipt makes the directory
  inconsistent for ever. Staging files are named by the candidate only: an
  overlapping cycle may commit the other one's assessment.
- *Scheduled runs.* With only the board left by a crash Morning calls the provider
  again, although its comment (`nullone_editorial_runtime.py:358`) says never. An
  agent whose parent was killed may replace the handoff after Morning succeeded, so
  `DraftsAreProven` leaves its contents open once a process was killed. A candidate id
  that is the prefix of a queued one is not queued. A Story that died after an
  unclear draft is followed by a draft of the next candidate; one that died before
  its preview by NO_ACTION: the owner never sees that draft. A second bridge for the
  same manifest makes the run report a failure while the first may still create the
  draft. A run across midnight uses the slot's date for the handoff and the clock's
  for the cadence. An alert cut off between reservation and sending is never sent.

## 7. What is abstracted and what is not modelled

Appends to the JSONL ledgers are atomic (a torn line is a listed hazard). The
comparison of remote and approved post, the field checks of Zernio's answers, the
brand rules and the field checks of manifests are single nondeterministic
verdicts. HMAC framing, secrets, the wording of messages and prompts, logging, the
sender checks that come before any state are left out.

- *DraftFactory*: one cycle at a time; a button press, an edit of the queue and the
  end of the day come between the steps where they matter (idle, ready, bridge,
  flip, completion); recovery is one step; a candidate's request is chosen when it
  is first read. A lock is never stale by age: its holder is killed after 600 s, the
  age limit is 1800 s.
- *BreakingDispatch*: one day, so that nothing expires; another producer's draft
  may take a slot between two reads of the load; a call to Zernio counts as a draft;
  a run that wrote nothing dies as if it had not begun; `prior_developments` is
  left out, since production passes none; a continuation comes after a blocked result.
- *ScheduledRuns*: time advances with the wake-ups; the notification lock is folded
  into one check-and-write; spacing, quiet hours and unreadable state are
  verdicts; spec, picture and manifest of a Story are one step; at most one agent
  without a parent; rank is the place in the handoff; the rows of a handoff are
  appended in one step; spool staging of all items is one step and one sweep runs at
  a time.
- *Not modelled*: the plugin's link and callback routing, publish frames and the
  secret, Story revisions as a pipeline of their own, the weekly strategy report,
  the heartbeat (read-only checks), the table of model providers and the parsing of
  their answers, the release command line, the restore drill and the renderers.
  `PROJECT.json` gives the reason for each.
