------------------------------ MODULE Approval ------------------------------
(***************************************************************************)
(* The first-stage decision on a review draft: a Telegram button starts    *)
(* one short-lived process that takes the post's lock, moves the stage in  *)
(* the manifest and appends an audit row.  The row is announced by a       *)
(* marker in the very write that moves the stage; whoever meets the marker *)
(* later, a next click or the sweep the plugin starts when it registers,   *)
(* catches the ledger up.  Processes may be killed between any two steps.  *)
(***************************************************************************)
EXTENDS Naturals, FiniteSets

CONSTANTS
    Posts,
    Clicks,     \* button presses that may be under way at the same time
    Sweeps,     \* runs of "recover-pending" that may be under way
    Nobody,     \* the holder of a free lock
    NoMarker

Procs == Clicks \cup Sweeps

Stages == {"DRAFT_READY", "AWAITING", "REJECTED", "REVISION"}
Actions == {"approve", "reject", "revise", "back"}
Decisions == Stages \X Stages

ASSUME ApprovalAssumption ==
    /\ Posts # {}
    /\ Clicks \cap Sweeps = {}
    /\ Nobody \notin Procs
    /\ NoMarker \notin Decisions

VARIABLES
    man,        \* [Posts -> Manifest]
    rows,       \* APPROVAL_DECISION rows of topic-ledger.jsonl: <<post, from, to>>
    lock,       \* [Posts -> Procs \cup {Nobody}]: review_post_lock
    card,       \* posts whose confirmation card (publish, back) was shown
    pc, post, copy,             \* the processes: place, post, manifest in memory
    action, result,             \* the clicks: button, answer
    todo,                       \* the sweeps: posts still to visit
    (* history, read by the properties only *)
    moved,      \* the stage moves made so far: <<post, from, to>>
    did,        \* [Clicks -> did the click under way move the stage]
    promised    \* the rejections and revisions the owner was told are accepted

durable == <<man, rows, card>>
clickVars == <<action, result>>
history == <<moved, did, promised>>
vars == <<durable, lock, pc, post, copy, clickVars, todo, history>>

\* The fields the decision reads. stage is ABSENT in a manifest no durable
\* decision was recorded in; first is approval.first_stage, final is
\* final_publish, attempted says that publication.attempts is 1.
Manifest == [stage : Stages \cup {"ABSENT"}, first : BOOLEAN, final : BOOLEAN,
             attempted : BOOLEAN, marker : Decisions \cup {NoMarker}]

FreshManifest == [stage |-> "ABSENT", first |-> FALSE, final |-> FALSE,
                  attempted |-> FALSE, marker |-> NoMarker]

\* Every REJECTED_ outcome and PERSISTENCE_FAILED say that nothing changed;
\* TRANSITIONED and CONVERGED read the same.
Results == {"none", "accepted", "refused"}

-----------------------------------------------------------------------------
(* The decision *)

\* approval_stage: an old manifest counts as untouched only if nothing in it
\* speaks of a decision.
LegacyUnsafe(m) == m.stage = "ABSENT" /\ (m.attempted \/ m.final \/ m.first)
StageOf(m) == IF m.stage = "ABSENT" THEN "DRAFT_READY" ELSE m.stage

Target(a) == CASE a = "approve" -> "AWAITING"
               [] a = "reject" -> "REJECTED"
               [] a = "revise" -> "REVISION"
               [] OTHER -> "DRAFT_READY"

\* Mutant: a rejected draft may be taken up again.
TransitionAlways(stage, a) == Target(a)

\* _TRANSITIONS: the stage after the action, or none. Rejection and revision
\* are terminal and only affirm themselves.
Transition(stage, a) ==
    IF stage \in {"DRAFT_READY", "AWAITING"} THEN Target(a)
    ELSE IF stage = Target(a) \/ a = "back" THEN stage
    ELSE "none"

\* The one write of a transition: the stage and the marker together.
Moved(m, to) == [m EXCEPT !.stage = to, !.first = TRUE, !.marker = <<StageOf(m), to>>]
Cleared(m) == [m EXCEPT !.marker = NoMarker]

\* The second stage's writes: authorization, attempt, revocation.
Worked(m, final, attempted) ==
    [m EXCEPT !.first = TRUE, !.final = final, !.attempted = attempted]

\* The row's identity is the post and the stage it reached.
RowOf(p, m) == <<p, m.marker[1], m.marker[2]>>
Recorded(p, m) == \E from \in Stages : <<p, from, m.marker[2]>> \in rows

-----------------------------------------------------------------------------
Init ==
    \* A manifest from before this record may carry an old first-stage mark.
    /\ man \in [Posts -> {FreshManifest, [FreshManifest EXCEPT !.first = TRUE]}]
    /\ rows = {}
    /\ lock = [p \in Posts |-> Nobody]
    /\ card = {p \in Posts : man[p].first}
    /\ pc = [x \in Procs |-> "idle"]
    /\ post = [x \in Procs |-> CHOOSE p \in Posts : TRUE]
    /\ copy = [x \in Procs |-> FreshManifest]
    /\ action = [c \in Clicks |-> "reject"]
    /\ result = [c \in Clicks |-> "none"]
    /\ todo = [s \in Sweeps |-> {}]
    /\ moved = {}
    /\ did = [c \in Clicks |-> FALSE]
    /\ promised = {}

At(x, here) == pc[x] = here
Goto(x, there) == pc' = [pc EXCEPT ![x] = there]

\* A process ends, by itself or killed: the kernel releases its lock.
Ends(x, there) ==
    /\ Goto(x, there)
    /\ lock' = [p \in Posts |-> IF lock[p] = x THEN Nobody ELSE lock[p]]
    /\ copy' = [copy EXCEPT ![x] = FreshManifest]

-----------------------------------------------------------------------------
(* A click: handleApprovalFirstStage and the process it spawns *)

\* The preview's buttons stay live; "back" is a button of the card.
Press(c, p, a) ==
    /\ At(c, "idle")
    /\ a = "back" => p \in card
    /\ Goto(c, "spawned")
    /\ post' = [post EXCEPT ![c] = p]
    /\ action' = [action EXCEPT ![c] = a]
    /\ UNCHANGED <<durable, lock, copy, result, todo, moved, did, promised>>

\* The answer is printed and the lock released at the end.
Answer(c, text) ==
    /\ result' = [result EXCEPT ![c] = text]
    /\ Goto(c, "exit")

\* review_post_lock, then find_manifest_by_review_post_id, which fails on a
\* manifest that does not validate; a marker left behind is flushed first.
Enter(c) ==
    /\ At(c, "spawned") /\ lock[post[c]] = Nobody
    /\ lock' = [lock EXCEPT ![post[c]] = c]
    /\ \/ /\ copy' = [copy EXCEPT ![c] = man[post[c]]]
          /\ Goto(c, IF man[post[c]].marker = NoMarker THEN "decide" ELSE "row")
          /\ UNCHANGED result
       \/ Answer(c, "refused") /\ UNCHANGED copy
    /\ UNCHANGED <<durable, post, action, todo, history>>

\* handle_approval_callback on the stage read under the lock. Every button is
\* refused in a wrong state, on an unsafe old manifest, and once the editorial
\* day of the draft has passed, which may be any time: today's date is read here.
Decide(c) ==
    LET m == copy[c]
        to == Transition(StageOf(m), action[c])
    IN /\ At(c, "decide")
       /\ \/ Answer(c, "refused")
          \/ ~LegacyUnsafe(m) /\ to = StageOf(m) /\ Answer(c, "accepted")
          \/ /\ ~LegacyUnsafe(m) /\ to \notin {"none", StageOf(m)}
             /\ Goto(c, "persist") /\ UNCHANGED result
       /\ UNCHANGED <<durable, lock, post, copy, action, todo, history>>

\* Mutant: the answer is decided before the write.
PersistLater(c) ==
    /\ At(c, "persist")
    /\ Answer(c, "accepted")
    /\ UNCHANGED <<durable, lock, post, copy, action, todo, history>>

\* _persist_transition: the atomic write that commits the move.
Persist(c) ==
    LET p == post[c]
        to == Transition(StageOf(copy[c]), action[c])
    IN /\ At(c, "persist")
       /\ copy' = [copy EXCEPT ![c] = Moved(copy[c], to)]
       /\ man' = [man EXCEPT ![p] = Moved(copy[c], to)]
       /\ moved' = moved \cup {<<p, StageOf(copy[c]), to>>}
       /\ did' = [did EXCEPT ![c] = TRUE]
       /\ result' = [result EXCEPT ![c] = "accepted"]
       /\ Goto(c, "row")
       /\ UNCHANGED <<rows, card, lock, post, action, todo, promised>>

\* Mutants: the failure is not reported; the row is written all the same.
PersistFailsSilently(c) ==
    /\ At(c, "persist")
    /\ Answer(c, "accepted")
    /\ UNCHANGED <<durable, lock, post, copy, action, todo, history>>
PersistFailsRecorded(c) ==
    /\ At(c, "persist")
    /\ copy' = [copy EXCEPT ![c] = Moved(copy[c], Transition(StageOf(copy[c]), action[c]))]
    /\ result' = [result EXCEPT ![c] = "refused"]
    /\ Goto(c, "row")
    /\ UNCHANGED <<durable, lock, post, action, todo, history>>

PersistFails(c) ==
    /\ At(c, "persist")
    /\ Answer(c, "refused")
    /\ UNCHANGED <<durable, lock, post, copy, action, todo, history>>

\* The process ends and the lock is free; the plugin has its answer.
Exit(c) ==
    /\ At(c, "exit") /\ Ends(c, "reply")
    /\ UNCHANGED <<durable, post, clickVars, todo, history>>

\* The click is over; what it knew is forgotten.
Forget(c) ==
    /\ action' = [action EXCEPT ![c] = "reject"]
    /\ result' = [result EXCEPT ![c] = "none"]
    /\ did' = [did EXCEPT ![c] = FALSE]

\* The process cannot start, fails before its decision, or is killed: by the
\* plugin after 10 s, which then says that it does not know, or by anybody else,
\* and then the plugin says that nothing changed.
Dies(c) ==
    /\ pc[c] \notin {"idle", "reply"} /\ Ends(c, "idle")
    /\ Forget(c)
    /\ UNCHANGED <<durable, post, todo, moved, promised>>

\* sendReply, when other clicks may have decided anew: an approval shows the
\* confirmation card. If the plugin is gone, or the sending fails, the owner
\* hears nothing.
Tell(c) ==
    /\ At(c, "reply") /\ Goto(c, "idle")
    /\ Forget(c)
    /\ \/ UNCHANGED <<card, promised>>
       \/ /\ result[c] = "accepted" /\ action[c] = "approve"
          /\ card' = card \cup {post[c]} /\ UNCHANGED promised
       \/ /\ result[c] = "accepted" /\ action[c] \in {"reject", "revise"}
          /\ promised' = promised \cup {<<post[c], action[c]>>} /\ UNCHANGED card
    /\ UNCHANGED <<man, rows, lock, post, copy, todo, moved>>

-----------------------------------------------------------------------------
(* _flush_pending_ledger_event, in a click or in a sweep *)

\* After the flush a click that has not decided yet decides; otherwise it is
\* done. A sweep goes on to its next post. The answer does not depend on it.
AfterFlush(x) ==
    IF x \in Sweeps THEN "next"
    ELSE IF result[x] = "none" THEN "decide" ELSE "exit"

\* record_approval_decision through append_jsonl_once.
FlushRow(x) ==
    /\ At(x, "row")
    /\ rows' = IF Recorded(post[x], copy[x]) THEN rows
               ELSE rows \cup {RowOf(post[x], copy[x])}
    /\ Goto(x, "clear")
    /\ UNCHANGED <<man, card, lock, post, copy, clickVars, todo, history>>

FlushClear(x) ==
    /\ At(x, "clear")
    /\ copy' = [copy EXCEPT ![x] = Cleared(copy[x])]
    /\ man' = [man EXCEPT ![post[x]] = Cleared(copy[x])]
    /\ Goto(x, AfterFlush(x))
    /\ UNCHANGED <<rows, card, lock, post, clickVars, todo, history>>

\* Mutant: a failed append does not keep the marker from being cleared.
FlushFailsCleared(x) ==
    /\ At(x, "row")
    /\ Goto(x, "clear")
    /\ UNCHANGED <<durable, lock, post, copy, clickVars, todo, history>>

\* Either write may fail; the failure is swallowed and the marker stays.
FlushFails(x) ==
    /\ pc[x] \in {"row", "clear"}
    /\ Goto(x, AfterFlush(x))
    /\ UNCHANGED <<durable, lock, post, copy, clickVars, todo, history>>

-----------------------------------------------------------------------------
(* recover_pending_ledger_events *)

\* The scan reads without any lock; what it finds is read again under it.
SweepStart(s) ==
    /\ At(s, "idle")
    /\ \E p \in Posts : man[p].marker # NoMarker
    /\ todo' = [todo EXCEPT ![s] = {p \in Posts : man[p].marker # NoMarker}]
    /\ Goto(s, "next")
    /\ UNCHANGED <<durable, lock, post, copy, clickVars, history>>

\* Between two posts no lock is held.
SweepNext(s) ==
    /\ At(s, "next")
    /\ lock' = [p \in Posts |-> IF lock[p] = s THEN Nobody ELSE lock[p]]
    /\ copy' = [copy EXCEPT ![s] = FreshManifest]
    /\ Goto(s, IF todo[s] = {} THEN "idle" ELSE "take")
    /\ UNCHANGED <<durable, post, clickVars, todo, history>>

\* A marker flushed meanwhile, or a manifest no longer found, is passed over.
SweepTake(s, p) ==
    /\ At(s, "take") /\ p \in todo[s] /\ lock[p] = Nobody
    /\ todo' = [todo EXCEPT ![s] = @ \ {p}]
    /\ \/ /\ man[p].marker # NoMarker
          /\ lock' = [lock EXCEPT ![p] = s]
          /\ post' = [post EXCEPT ![s] = p]
          /\ copy' = [copy EXCEPT ![s] = man[p]]
          /\ Goto(s, "row")
       \/ Goto(s, "next") /\ UNCHANGED <<lock, post, copy>>
    /\ UNCHANGED <<durable, clickVars, history>>

\* Killed after 30 s, or by an unexpected error.
SweepDies(s) ==
    /\ ~At(s, "idle")
    /\ Ends(s, "idle")
    /\ todo' = [todo EXCEPT ![s] = {}]
    /\ UNCHANGED <<durable, post, clickVars, history>>

-----------------------------------------------------------------------------
(* Around the decision *)

\* Mutant: the second stage does not wait for the card.
SecondStageUnasked(p) ==
    /\ lock[p] = Nobody /\ ~man[p].attempted
    /\ man' = [man EXCEPT ![p] = Worked(man[p], TRUE, TRUE)]
    /\ UNCHANGED <<rows, card, lock, pc, post, copy, clickVars, todo, history>>

\* The second stage (FinalPublish) works on the manifest under the same lock
\* and leaves the stage and the marker alone: it authorizes, consumes the
\* attempt, or revokes. It needs no stage, only the card's button.
SecondStage(p) ==
    /\ p \in card /\ lock[p] = Nobody /\ ~man[p].attempted
    /\ \E final, attempted \in BOOLEAN :
         /\ attempted => final
         /\ man' = [man EXCEPT ![p] = Worked(man[p], final, attempted)]
    /\ UNCHANGED <<rows, card, lock, pc, post, copy, clickVars, todo, history>>

ClickStep(c) == Enter(c) \/ Decide(c) \/ Persist(c) \/ PersistFails(c) \/ Exit(c) \/ Tell(c)
SweepStep(s) == SweepNext(s) \/ \E p \in Posts : SweepTake(s, p)
Flush(x) == FlushRow(x) \/ FlushClear(x) \/ FlushFails(x)

Next ==
    \/ \E c \in Clicks :
         \/ \E p \in Posts, a \in Actions : Press(c, p, a)
         \/ ClickStep(c) \/ Dies(c)
    \/ \E s \in Sweeps : SweepStart(s) \/ SweepStep(s) \/ SweepDies(s)
    \/ \E x \in Procs : Flush(x)
    \/ \E p \in Posts : SecondStage(p)

Spec == Init /\ [][Next]_vars

-----------------------------------------------------------------------------
(* Properties *)

Approved(p) == \E from \in Stages : <<p, from, "AWAITING">> \in moved

\* What an accepted click can still count on once others may click.
Backed(c) ==
    /\ action[c] = "approve" => Approved(post[c]) /\ man[post[c]].stage # "ABSENT"
    /\ action[c] \in {"reject", "revise"} => man[post[c]].stage = Target(action[c])

\* Every variable stays in its type: in particular the stage on disk is always
\* one that approval_stage accepts.
TypeOK ==
    /\ man \in [Posts -> Manifest]
    /\ rows \subseteq Posts \X Stages \X Stages
    /\ lock \in [Posts -> Procs \cup {Nobody}]
    /\ card \subseteq Posts
    /\ pc \in [Procs -> {"idle", "spawned", "decide", "persist", "row", "clear",
                         "exit", "reply", "next", "take"}]
    /\ post \in [Procs -> Posts]
    /\ copy \in [Procs -> Manifest]
    /\ action \in [Clicks -> Actions]
    /\ result \in [Clicks -> Results]
    /\ todo \in [Sweeps -> SUBSET Posts]
    /\ moved \subseteq Posts \X Stages \X Stages
    /\ did \in [Clicks -> BOOLEAN]
    /\ promised \subseteq Posts \X {"reject", "revise"}

\* The stage a post is in is never without its audit: its row is in the ledger
\* or its marker in the manifest, whoever crashed, failed or swept meanwhile.
StageIsAudited ==
    \A p \in Posts : man[p].stage # "ABSENT" =>
        \/ man[p].marker # NoMarker /\ man[p].marker[2] = man[p].stage
        \/ \E from \in Stages : <<p, from, man[p].stage>> \in rows

\* The ledger tells of no move that was not made.
RowsHappened == rows \subseteq moved

\* Rejection and revision stand for ever, on disk.
TerminalStays ==
    \A p \in Posts : man[p].stage \in {"REJECTED", "REVISION"} =>
        man'[p].stage = man[p].stage
DecisionsStand == [][TerminalStays]_vars

\* Who was told that a rejection or a revision request was accepted can rely
\* on it after any restart.
AcceptedStands == \A d \in promised : man[d[1]].stage = Target(d[2])

\* A process that refuses changed nothing, whatever failed on its way. What it
\* accepted is done when it answers, and when the answer is sent, after other
\* clicks perhaps, a rejection or a revision still stands and an approval was
\* given ("back" also affirms a terminal stage).
AnswersAreHonest ==
    \A c \in Clicks :
        /\ result[c] = "refused" => ~did[c]
        /\ result[c] = "accepted" /\ At(c, "exit") =>
             action[c] = "back" \/ StageOf(man[post[c]]) = Target(action[c])
        /\ result[c] = "accepted" /\ At(c, "reply") => Backed(c)

\* No post is published that nobody ever approved, but for old manifests.
PublicationWasApproved ==
    \A p \in Posts : man[p].attempted /\ man[p].stage # "ABSENT" => Approved(p)

-----------------------------------------------------------------------------
(* The inductive invariant of the proofs *)

\* The lock does its work: a process between reading the manifest and its last
\* write holds the post's lock, and its copy is what is on disk.
CopiesAreCurrent ==
    \A x \in Procs :
        pc[x] \in {"decide", "persist", "row", "clear"} =>
            lock[post[x]] = x /\ copy[x] = man[post[x]]

\* The marker speaks of a move that was made, and is cleared only after its row.
Markers ==
    /\ \A p \in Posts : man[p].marker # NoMarker => RowOf(p, man[p]) \in moved
    /\ \A x \in Procs :
         /\ pc[x] \in {"row", "clear"} => copy[x].marker # NoMarker
         /\ pc[x] = "clear" => Recorded(post[x], copy[x])

\* What a click knows at each place.
ClickFacts ==
    \A c \in Clicks :
        /\ pc[c] \in {"idle", "spawned", "decide", "persist"} => result[c] = "none"
        /\ pc[c] \in {"row", "clear"} => result[c] \in {"none", "accepted"}
        /\ result[c] # "accepted" => ~did[c]
        /\ result[c] = "accepted" /\ pc[c] # "reply" =>
             /\ lock[post[c]] = c
             /\ action[c] = "back" \/ StageOf(man[post[c]]) = Target(action[c])
        /\ result[c] = "accepted" /\ pc[c] = "reply" => Backed(c)
        /\ pc[c] = "persist" =>
             /\ ~LegacyUnsafe(copy[c])
             /\ Transition(StageOf(copy[c]), action[c]) \notin {"none", StageOf(copy[c])}

\* The card follows an approval, or comes with an old manifest.
Approvals ==
    \A p \in Posts :
        /\ man[p].attempted \/ man[p].final => p \in card
        /\ p \in card => man[p].stage # "ABSENT" \/ man[p].first
        /\ man[p].stage = "AWAITING" \/ (p \in card /\ man[p].stage # "ABSENT") =>
             Approved(p)

IInv == /\ TypeOK /\ CopiesAreCurrent /\ Markers /\ ClickFacts /\ Approvals
        /\ StageIsAudited /\ RowsHappened /\ AcceptedStands /\ AnswersAreHonest

-----------------------------------------------------------------------------
(* What comments say and the code does not do (violation runs) *)

\* nullone_approval_durable.py:331-336, "the marker stays on the manifest and is
\* recovered later ... never lost": every stage a post reached has its row, or
\* the marker that will bring it.
NoDecisionLost ==
    \A d \in moved :
        \/ \E from \in Stages : <<d[1], from, d[3]>> \in rows
        \/ man[d[1]].marker # NoMarker /\ man[d[1]].marker[2] = d[3]
=============================================================================
