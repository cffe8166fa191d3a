---------------------------- MODULE DraftBridge ----------------------------
(***************************************************************************)
(* The bridge that creates the one Zernio review draft of one manifest.    *)
(* Three kinds of process run it: the factory's command line, which takes  *)
(* no lock; the wrapper's completion pass and the presses of a Telegram    *)
(* button, which go through the action and its lock file.  Each works on a *)
(* copy of the manifest it read once and writes that copy back at every    *)
(* step.  Any of them may be killed between two steps.                     *)
(***************************************************************************)
EXTENDS Naturals

CONSTANTS
    Clicks,         \* presses of the draft-bridge button, one process each
    MaxCrashes,     \* processes killed (bound)
    None, Dead      \* nobody; the owner of a lock whose process is gone

Actions == Clicks \cup {"backstop"}     \* the callers of handle_request
Workers == Actions \cup {"cli"}

ASSUME BridgeAssumption ==
    /\ Clicks \cap {"backstop", "cli"} = {}
    /\ MaxCrashes \in Nat
    /\ None \notin Workers /\ Dead \notin Workers /\ None # Dead

VARIABLES
    manifest,       \* its review block, and whether the media have public URLs
    posts, drafts,  \* POST /posts Zernio received, drafts that exist there
    w,              \* [Workers -> a run of the bridge]
    lock,           \* the action's lock file
    audit,          \* statuses in the action's audit file
    answer,         \* [Actions -> what the action printed]
    crashes, overlap, reclaimed     \* history: kills, sections that overlapped,
                                    \* whether a lock was ever broken

vars == <<manifest, posts, drafts, w, lock, audit, answer, crashes, overlap, reclaimed>>

ReviewStates == {"NOT_CREATED", "CREATE_IN_FLIGHT", "REVIEW_UNKNOWN", "DRAFT_CREATED"}
Manifest == [attempts : 0..1, state : ReviewStates, draft : BOOLEAN, public : BOOLEAN]
NewManifest == [attempts |-> 0, state |-> "NOT_CREATED", draft |-> FALSE, public |-> FALSE]

\* What a check of Zernio's answer proves: the account, media and post checks
\* of the preflight, the body of the 201, the readback field by field.
PreflightVerdicts == {"fit", "unfit"}
CreateVerdicts == {"created", "unclear"}
ReadbackVerdicts == {"matches", "unclear"}

Inside == {"media", "preflight", "attempt", "post", "readback", "unknown", "created"}
Locked == Inside \cup {"stamp", "recheck", "load", "verify", "answer", "release"}
WorkerPcs == Locked \cup {"idle", "replay", "acquire", "reclaim", "recreate", "gone"}
Run == [pc : WorkerPcs, copy : Manifest, code : BOOLEAN]
Statuses == {"COMPLETED", "BLOCKED", "BUSY"}
Free == [by |-> None, stamped |-> FALSE]
Held(p) == [by |-> p, stamped |-> FALSE]

Init ==
    /\ manifest = NewManifest /\ posts = 0 /\ drafts = 0
    /\ w = [p \in Workers |-> [pc |-> "idle", copy |-> NewManifest, code |-> FALSE]]
    /\ lock = Free /\ audit = {} /\ answer = [p \in Actions |-> "NONE"]
    /\ crashes = 0 /\ overlap = {} /\ reclaimed = FALSE

Created(m) == m.state = "DRAFT_CREATED" /\ m.draft
NotCreated(m) == m.attempts = 0 /\ m.state = "NOT_CREATED" /\ ~m.draft
Step(p, pc) == w' = [w EXCEPT ![p].pc = pc]
\* Leave create_review_draft: the command line exits, the action answers.
Leave(p) == IF p = "cli" THEN "gone" ELSE "answer"
-----------------------------------------------------------------------------
(* The callers.                                                            *)

\* The cycle that built the manifest runs the command line for it once.
RunCommand ==
    /\ w["cli"].pc = "idle" /\ w["backstop"].pc = "idle"
    /\ Step("cli", "load")
    /\ UNCHANGED <<manifest, posts, drafts, lock, audit, answer, crashes, overlap, reclaimed>>

\* The completion pass, once the command line returned, was killed by its
\* timeout or never ran; only a manifest that still permits creation.
RunBackstop ==
    /\ w["backstop"].pc = "idle" /\ w["cli"].pc \in {"idle", "gone"}
    /\ NotCreated(manifest)
    /\ Step("backstop", "replay")
    /\ UNCHANGED <<manifest, posts, drafts, lock, audit, answer, crashes, overlap, reclaimed>>

Click(p) ==
    /\ p \in Clicks /\ w[p].pc = "idle"
    /\ Step(p, "replay")
    /\ UNCHANGED <<manifest, posts, drafts, lock, audit, answer, crashes, overlap, reclaimed>>

\* The answer is written only behind its audit row; without the row it is
\* BLOCKED.  A busy answer does not look whether the row was written.
Say(p, status) ==
    \/ audit' = audit \cup {status} /\ answer' = [answer EXCEPT ![p] = status]
    \/ UNCHANGED audit
       /\ answer' = [answer EXCEPT ![p] = IF status = "BUSY" THEN "BUSY" ELSE "BLOCKED"]

(* handle_request. *)

\* A created draft is replayed without a lock.
Replay(p) ==
    /\ w[p].pc = "replay"
    /\ IF Created(manifest)
       THEN Step(p, "gone") /\ Say(p, "COMPLETED")
       ELSE Step(p, "acquire") /\ UNCHANGED <<audit, answer>>
    /\ UNCHANGED <<manifest, posts, drafts, lock, crashes, overlap, reclaimed>>

Busy(p) == Step(p, "gone") /\ Say(p, "BUSY")

\* Mutant: the file is created without O_EXCL.
AcquireShared(p) ==
    /\ w[p].pc = "acquire"
    /\ lock' = Held(p) /\ Step(p, "stamp")
    /\ UNCHANGED <<manifest, posts, drafts, audit, answer, crashes, overlap, reclaimed>>

\* O_EXCL create; an existing file is broken only if it names a process that
\* is gone.  An empty file names nobody and is never broken.
Acquire(p) ==
    /\ w[p].pc = "acquire"
    /\ \/ /\ lock = Free /\ lock' = Held(p) /\ Step(p, "stamp")
          /\ UNCHANGED <<audit, answer>>
       \/ /\ lock = [by |-> Dead, stamped |-> TRUE] /\ Step(p, "reclaim")
          /\ UNCHANGED <<lock, audit, answer>>
       \/ /\ lock \notin {Free, [by |-> Dead, stamped |-> TRUE]} /\ Busy(p)
          /\ UNCHANGED lock
    /\ UNCHANGED <<manifest, posts, drafts, crashes, overlap, reclaimed>>

\* The unlink removes whatever lies there by now.
Reclaim(p) ==
    /\ w[p].pc = "reclaim"
    /\ IF lock = Free
       THEN Busy(p) /\ UNCHANGED <<lock, reclaimed>>
       ELSE /\ lock' = Free /\ reclaimed' = TRUE /\ Step(p, "recreate")
            /\ UNCHANGED <<audit, answer>>
    /\ UNCHANGED <<manifest, posts, drafts, crashes, overlap>>

Recreate(p) ==
    /\ w[p].pc = "recreate"
    /\ IF lock = Free
       THEN lock' = Held(p) /\ Step(p, "stamp") /\ UNCHANGED <<audit, answer>>
       ELSE Busy(p) /\ UNCHANGED lock
    /\ UNCHANGED <<manifest, posts, drafts, crashes, overlap, reclaimed>>

\* The second of the two system calls that make a lock file; a failed write
\* removes the file again.
Stamp(p) ==
    /\ w[p].pc = "stamp"
    /\ \/ /\ lock' = IF lock = Held(p) THEN [by |-> p, stamped |-> TRUE] ELSE lock
          /\ Step(p, "recheck") /\ UNCHANGED <<audit, answer>>
       \/ lock' = Free /\ Busy(p)
    /\ UNCHANGED <<manifest, posts, drafts, crashes, overlap, reclaimed>>

\* Under the lock: replay what a winner did, refuse what is consumed.
Recheck(p) ==
    /\ w[p].pc = "recheck"
    /\ \/ Created(manifest) /\ Step(p, "release") /\ Say(p, "COMPLETED")
       \/ /\ ~Created(manifest) /\ ~NotCreated(manifest)
          /\ Step(p, "release") /\ Say(p, "BLOCKED")
       \/ NotCreated(manifest) /\ Step(p, "load") /\ UNCHANGED <<audit, answer>>
    /\ UNCHANGED <<manifest, posts, drafts, lock, crashes, overlap, reclaimed>>

\* Ground truth re-read: exit code and manifest must agree.
Answer(p) ==
    /\ w[p].pc = "answer"
    /\ Step(p, "release")
    /\ Say(p, IF w[p].code /\ Created(manifest) THEN "COMPLETED" ELSE "BLOCKED")
    /\ UNCHANGED <<manifest, posts, drafts, lock, crashes, overlap, reclaimed>>

\* _release_lock unlinks the file whoever made it.
Release(p) ==
    /\ w[p].pc = "release"
    /\ lock' = Free /\ Step(p, "gone")
    /\ UNCHANGED <<manifest, posts, drafts, audit, answer, crashes, overlap, reclaimed>>
-----------------------------------------------------------------------------
(* nullone-draft-bridge.execute and ZernioDraftProvider.create_review_draft. *)

\* Mutant: the state of the manifest is not looked at again.
LoadUnchecked(p) ==
    /\ w[p].pc = "load"
    /\ w' = [w EXCEPT ![p].pc = "media", ![p].copy = manifest]
    /\ UNCHANGED <<manifest, posts, drafts, lock, audit, answer, crashes, overlap, reclaimed>>

\* The copy is read, the authority and the secret are checked; any refusal
\* leaves before the provider.
Load(p) ==
    /\ w[p].pc = "load"
    /\ \/ /\ NotCreated(manifest)
          /\ w' = [w EXCEPT ![p].pc = "media", ![p].copy = manifest]
          /\ overlap' = overlap \cup
               {IF "cli" \in {p, q} THEN "cli" ELSE "action" :
                   q \in {q \in Workers \ {p} : w[q].pc \in Inside}}
       \/ Step(p, Leave(p)) /\ UNCHANGED overlap
    /\ UNCHANGED <<manifest, posts, drafts, lock, audit, answer, crashes, reclaimed>>

\* Presign and upload what has no public URL yet, then persist the URLs.
EnsurePublicMedia(p) ==
    /\ w[p].pc = "media"
    /\ \/ /\ w' = [w EXCEPT ![p].pc = "preflight", ![p].copy.public = TRUE]
          /\ manifest' = IF w[p].copy.public THEN manifest
                         ELSE [w[p].copy EXCEPT !.public = TRUE]
       \/ Step(p, Leave(p)) /\ UNCHANGED manifest
    /\ UNCHANGED <<posts, drafts, lock, audit, answer, crashes, overlap, reclaimed>>

\* Read-only requests while the attempt is still unspent.
Preflight(p) ==
    /\ w[p].pc = "preflight"
    /\ \E verdict \in PreflightVerdicts :
         Step(p, IF verdict = "fit" THEN "attempt" ELSE Leave(p))
    /\ UNCHANGED <<manifest, posts, drafts, lock, audit, answer, crashes, overlap, reclaimed>>

\* Mutant: the attempt is spent in the copy and written with the outcome.
PersistAttemptLater(p) ==
    /\ w[p].pc = "attempt"
    /\ w' = [w EXCEPT ![p].pc = "post",
                      ![p].copy = [@ EXCEPT !.attempts = 1, !.state = "CREATE_IN_FLIGHT"]]
    /\ UNCHANGED <<manifest, posts, drafts, lock, audit, answer, crashes, overlap, reclaimed>>

\* The attempt is spent on disk before the request leaves.
PersistAttempt(p) ==
    /\ w[p].pc = "attempt"
    /\ LET spent == [w[p].copy EXCEPT !.attempts = 1, !.state = "CREATE_IN_FLIGHT"] IN
         manifest' = spent /\ w' = [w EXCEPT ![p].pc = "post", ![p].copy = spent]
    /\ UNCHANGED <<posts, drafts, lock, audit, answer, crashes, overlap, reclaimed>>

\* Mutant: any 2xx answer is taken for a created draft.
CreateDraftOptimist(p) ==
    /\ w[p].pc = "post"
    /\ posts' = posts + 1
    /\ drafts' \in {drafts, drafts + 1}
    /\ Step(p, "readback")
    /\ UNCHANGED <<manifest, lock, audit, answer, crashes, overlap, reclaimed>>

\* The one POST /posts: Zernio may create the draft, and only a clear 201 with
\* the documented body says so.
CreateDraft(p) ==
    /\ w[p].pc = "post"
    /\ posts' = posts + 1
    /\ \E made \in BOOLEAN, verdict \in CreateVerdicts :
        /\ verdict = "created" => made
        /\ drafts' = IF made THEN drafts + 1 ELSE drafts
        /\ Step(p, IF verdict = "created" THEN "readback" ELSE "unknown")
    /\ UNCHANGED <<manifest, lock, audit, answer, crashes, overlap, reclaimed>>

\* One GET of the created post; anything but a full match proves nothing.
Readback(p) ==
    /\ w[p].pc = "readback"
    /\ \E verdict \in ReadbackVerdicts :
         Step(p, IF verdict = "matches" THEN "created" ELSE "unknown")
    /\ UNCHANGED <<manifest, posts, drafts, lock, audit, answer, crashes, overlap, reclaimed>>

PersistUnknown(p) ==
    /\ w[p].pc = "unknown"
    /\ manifest' = [w[p].copy EXCEPT !.state = "REVIEW_UNKNOWN"]
    /\ Step(p, Leave(p))
    /\ UNCHANGED <<posts, drafts, lock, audit, answer, crashes, overlap, reclaimed>>

PersistCreated(p) ==
    /\ w[p].pc = "created"
    /\ manifest' = [w[p].copy EXCEPT !.state = "DRAFT_CREATED", !.draft = TRUE]
    /\ Step(p, "verify")
    /\ UNCHANGED <<posts, drafts, lock, audit, answer, crashes, overlap, reclaimed>>

\* The bridge reads the manifest again and exits 0 only if it is created.
Verify(p) ==
    /\ w[p].pc = "verify"
    /\ w' = [w EXCEPT ![p].pc = Leave(p), ![p].code = Created(manifest)]
    /\ UNCHANGED <<manifest, posts, drafts, lock, audit, answer, crashes, overlap, reclaimed>>
-----------------------------------------------------------------------------
\* A click is killed by the plugin's timeout, the command line by its helper
\* timeout, anything by a restart.  A process that dies leaves its lock file.
Kill(p) ==
    /\ crashes < MaxCrashes /\ crashes' = crashes + 1
    /\ w[p].pc \notin {"idle", "gone"}
    /\ Step(p, "gone")
    /\ lock' = IF lock.by = p THEN [lock EXCEPT !.by = Dead] ELSE lock
    /\ UNCHANGED <<manifest, posts, drafts, audit, answer, overlap, reclaimed>>

BridgeStep(p) ==
    \/ Load(p) \/ EnsurePublicMedia(p) \/ Preflight(p) \/ PersistAttempt(p)
    \/ CreateDraft(p) \/ Readback(p) \/ PersistUnknown(p) \/ PersistCreated(p) \/ Verify(p)

ActionStep(p) ==
    \/ Replay(p) \/ Acquire(p) \/ Reclaim(p) \/ Recreate(p) \/ Stamp(p)
    \/ Recheck(p) \/ Answer(p) \/ Release(p)

Next ==
    \/ RunCommand \/ RunBackstop
    \/ \E p \in Actions : Click(p) \/ ActionStep(p)
    \/ \E p \in Workers : BridgeStep(p) \/ Kill(p)

Spec == Init /\ [][Next]_vars
-----------------------------------------------------------------------------
(* Properties.                                                             *)

TypeOK ==
    /\ manifest \in Manifest /\ posts \in Nat /\ drafts \in Nat
    /\ w \in [Workers -> Run]
    /\ lock \in [by : Workers \cup {None, Dead}, stamped : BOOLEAN]
    /\ audit \subseteq Statuses /\ answer \in [Actions -> Statuses \cup {"NONE"}]
    /\ crashes \in Nat /\ overlap \subseteq {"cli", "action"} /\ reclaimed \in BOOLEAN

\* Unless two bridges really worked at the same time, Zernio receives at most
\* one create request, and none while the manifest still permits one: however
\* processes die and whoever comes next, a spent attempt is never repeated.
OneCreate ==
    overlap = {} => /\ posts <= 1 /\ drafts <= posts
                    /\ manifest.attempts = 0 => posts = 0

\* Two runs of the action work at the same time only after a stale lock was
\* broken: the lock file, its two-step creation and its release by path
\* exclude every other pair.
LockExcludes == "action" \in overlap => reclaimed

\* Nothing says created without a draft at Zernio: not the manifest, not the
\* answer to the owner, whatever overlapped; and a completed answer is audited.
CreatedIsReal ==
    /\ manifest.draft \/ manifest.state = "DRAFT_CREATED" => drafts >= 1
    /\ \A p \in Actions : answer[p] = "COMPLETED" => drafts >= 1 /\ "COMPLETED" \in audit

\* A bridge that worked alone is never undone: the attempt stays spent and a
\* created draft stays recorded, although every writer replaces the whole file
\* by its own copy.
StaysSpent ==
    overlap' = {} =>
        /\ manifest'.attempts >= manifest.attempts
        /\ Created(manifest) => Created(manifest')
SpentStaysSpent == [][StaysSpent]_vars

\* The promise of a single review draft, with the one manifest as the work.
Promise == INSTANCE OneReviewDraft WITH
    Works <- {"manifest"},
    review <- [m \in {"manifest"} |-> manifest.state],
    drafts <- [m \in {"manifest"} |-> drafts]

\* Every step of a bridge that works alone keeps the promise, whatever locks are
\* broken and processes killed around it.
KeepsPromise == Promise!Init /\ [][overlap' = {} => [Promise!Next]_(Promise!vars)]_vars
-----------------------------------------------------------------------------
(* The inductive invariant behind these properties.                        *)

\* Who breaks a lock is remembered, and until then whoever is past the lock has
\* its name in it.  The command line never takes part.
LockNames ==
    /\ \A p \in Actions : w[p].pc = "recreate" => reclaimed
    /\ ~reclaimed => \A p \in Actions : w[p].pc \in Locked => lock.by = p
    /\ w["cli"].pc \in Inside \cup {"idle", "load", "verify", "gone"}

Alone ==
    overlap = {} => \A p, q \in Workers : w[p].pc \in Inside /\ w[q].pc \in Inside => p = q

\* What the copy says at each place, and that it is current when its owner is alone.
Copies ==
    \A p \in Workers :
        /\ w[p].pc \in {"media", "preflight", "attempt"} => NotCreated(w[p].copy)
        /\ w[p].pc \in {"post", "readback", "unknown", "created"} =>
              w[p].copy.attempts = 1 /\ w[p].copy.state = "CREATE_IN_FLIGHT" /\ ~w[p].copy.draft
        /\ overlap = {} /\ w[p].pc \in Inside => w[p].copy = manifest

\* A request is sent from a spent attempt, which had sent none.
Requests ==
    /\ OneCreate
    /\ overlap = {} => \A p \in Workers : w[p].pc = "post" => posts = 0

\* Every trace of a created draft has a draft behind it.
Traces ==
    /\ CreatedIsReal
    /\ \A p \in Workers : w[p].code \/ w[p].pc \in {"readback", "created"} => drafts >= 1

\* The inductive invariant: the properties above with what makes them hold step
\* by step, that is the names in the lock and the copies that are current.
IInv == TypeOK /\ LockNames /\ LockExcludes /\ Alone /\ Copies /\ Requests /\ Traces
=============================================================================
