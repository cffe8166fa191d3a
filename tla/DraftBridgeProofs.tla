-------------------------- MODULE DraftBridgeProofs --------------------------
(***************************************************************************)
(* Machine-checked proofs about DraftBridge, for any number of presses and *)
(* of killed processes.                                                    *)
(*                                                                         *)
(* The argument: whoever is past the lock has its name in it until         *)
(* somebody breaks a lock (LockNames), so two actions inside are           *)
(* remembered as a broken lock.  A worker that is alone has a current copy *)
(* (Alone, Copies), so its writes never undo a spent attempt, and the      *)
(* place before the request is reached only from an unspent one            *)
(* (Requests).  That something was created is written only behind a clear  *)
(* answer (Traces).                                                        *)
(***************************************************************************)
EXTENDS DraftBridge, TLAPS

-----------------------------------------------------------------------------
(* What the actions do to a worker *)

\* Worker p goes to place c; the others stay as they are.
Goes(p, c) ==
    /\ w' \in [Workers -> Run]
    /\ w'[p].pc = c
    /\ \A q \in Workers : q # p => w'[q] = w[q]

Keeps(p) == w'[p].copy = w[p].copy /\ w'[p].code = w[p].code

LEMMA ActionsWork ==
    /\ Actions \subseteq Workers /\ "cli" \in Workers /\ "cli" \notin Actions
    /\ "backstop" \in Actions /\ Clicks \subseteq Actions
    /\ \A p \in Workers : p = "cli" \/ p \in Actions
    /\ None \notin Workers /\ Dead \notin Workers
BY BridgeAssumption DEF Actions, Workers

LEMMA RunFields ==
    ASSUME NEW r \in Run
    PROVE  r.pc \in WorkerPcs /\ r.copy \in Manifest /\ r.code \in BOOLEAN
BY Zenon DEF Run

LEMMA ManifestFields ==
    ASSUME NEW m \in Manifest
    PROVE  /\ m.attempts \in 0..1 /\ m.state \in ReviewStates
           /\ m.draft \in BOOLEAN /\ m.public \in BOOLEAN
BY Zenon DEF Manifest

LEMMA NewFields == NewManifest \in Manifest /\ NotCreated(NewManifest)
BY DEF NewManifest, Manifest, NotCreated, ReviewStates

\* The four writes of a manifest: what they change and what they leave alone.
LEMMA PublicFields ==
    ASSUME NEW m \in Manifest
    PROVE  /\ [m EXCEPT !.public = TRUE] \in Manifest
           /\ [m EXCEPT !.public = TRUE].attempts = m.attempts
           /\ [m EXCEPT !.public = TRUE].state = m.state
           /\ [m EXCEPT !.public = TRUE].draft = m.draft
           /\ m.public => [m EXCEPT !.public = TRUE] = m
<1>1. /\ [m EXCEPT !.public = TRUE] \in Manifest
      /\ [m EXCEPT !.public = TRUE].attempts = m.attempts
      /\ [m EXCEPT !.public = TRUE].state = m.state
      /\ [m EXCEPT !.public = TRUE].draft = m.draft
  BY Zenon DEF Manifest
<1>2. ASSUME m.public PROVE [m EXCEPT !.public = TRUE] = m
  BY <1>2, SMT DEF Manifest
<1> QED BY <1>1, <1>2

LEMMA SpentFields ==
    ASSUME NEW m \in Manifest
    PROVE  LET spent == [m EXCEPT !.attempts = 1, !.state = "CREATE_IN_FLIGHT"]
           IN  /\ spent \in Manifest /\ spent.attempts = 1
               /\ spent.state = "CREATE_IN_FLIGHT" /\ spent.draft = m.draft
<1>1. 1 \in 0..1 /\ "CREATE_IN_FLIGHT" \in ReviewStates
  BY DEF ReviewStates
<1> QED BY <1>1, Zenon DEF Manifest

LEMMA UnknownFields ==
    ASSUME NEW m \in Manifest
    PROVE  LET unknown == [m EXCEPT !.state = "REVIEW_UNKNOWN"]
           IN  /\ unknown \in Manifest /\ unknown.attempts = m.attempts
               /\ unknown.state = "REVIEW_UNKNOWN" /\ unknown.draft = m.draft
<1>1. "REVIEW_UNKNOWN" \in ReviewStates
  BY DEF ReviewStates
<1> QED BY <1>1, Zenon DEF Manifest

LEMMA CreatedFields ==
    ASSUME NEW m \in Manifest
    PROVE  LET created == [m EXCEPT !.state = "DRAFT_CREATED", !.draft = TRUE]
           IN  created \in Manifest /\ created.attempts = m.attempts /\ Created(created)
<1>1. "DRAFT_CREATED" \in ReviewStates
  BY DEF ReviewStates
<1> QED BY <1>1, Zenon DEF Manifest, Created

LEMMA Stepping ==
    ASSUME TypeOK, NEW p \in Workers, NEW c \in WorkerPcs, Step(p, c)
    PROVE  Goes(p, c) /\ Keeps(p)
<1>1. w \in [Workers -> Run] /\ w' = [w EXCEPT ![p].pc = c]
  BY DEF TypeOK, Step
<1>2. w[p] \in Run
  BY <1>1
<1>3. w' = [w EXCEPT ![p] = [w[p] EXCEPT !.pc = c]]
  BY <1>1
<1>4. /\ [w[p] EXCEPT !.pc = c] \in Run /\ [w[p] EXCEPT !.pc = c].pc = c
      /\ [w[p] EXCEPT !.pc = c].copy = w[p].copy /\ [w[p] EXCEPT !.pc = c].code = w[p].code
  BY <1>2, Zenon DEF Run
<1> QED BY <1>1, <1>3, <1>4, Zenon DEF Goes, Keeps

LEMMA LeaveTyped == \A p \in Workers : /\ Leave(p) \in WorkerPcs \ Inside
                                       /\ p = "cli" => Leave(p) = "gone"
                                       /\ p \in Actions => Leave(p) = "answer"
BY ActionsWork DEF Leave, WorkerPcs, Locked, Inside

\* The bridge is left before the request, whatever refused it.
Refuses(p) ==
    /\ w[p].pc \in Inside \cup {"load"} /\ Goes(p, Leave(p)) /\ Keeps(p)
    /\ UNCHANGED <<manifest, posts, drafts, lock, audit, answer, crashes, overlap, reclaimed>>

\* Entering: the copy is the manifest, and whoever is inside is overlapped.
Enters(p) ==
    /\ w[p].pc = "load" /\ NotCreated(manifest)
    /\ Goes(p, "media") /\ w'[p].copy = manifest /\ w'[p].code = w[p].code
    /\ overlap' = overlap \cup {IF "cli" \in {p, q} THEN "cli" ELSE "action" :
                                   q \in {q \in Workers \ {p} : w[q].pc \in Inside}}
    /\ UNCHANGED <<manifest, posts, drafts, lock, audit, answer, crashes, reclaimed>>

LEMMA LoadIs ==
    ASSUME TypeOK, NEW p \in Workers, Load(p)
    PROVE  Enters(p) \/ Refuses(p)
<1>1. w \in [Workers -> Run] /\ w[p] \in Run /\ manifest \in Manifest
  BY DEF TypeOK
<1>2. CASE NotCreated(manifest) /\ w' = [w EXCEPT ![p].pc = "media", ![p].copy = manifest]
            /\ overlap' = overlap \cup {IF "cli" \in {p, q} THEN "cli" ELSE "action" :
                                   q \in {q \in Workers \ {p} : w[q].pc \in Inside}}
  <2> DEFINE r == [w[p] EXCEPT !.pc = "media", !.copy = manifest]
  <2>1. "media" \in WorkerPcs
    BY DEF WorkerPcs, Locked, Inside
  <2>2. r \in Run /\ r.pc = "media" /\ r.copy = manifest /\ r.code = w[p].code
    BY <1>1, <2>1, Zenon DEF Run
  <2>3. w' = [w EXCEPT ![p] = r]
    BY <1>1, <1>2
  <2>4. Goes(p, "media") /\ w'[p].copy = manifest /\ w'[p].code = w[p].code
    BY <1>1, <2>2, <2>3, Zenon DEF Goes
  <2> QED BY <1>2, <2>4, Zenon DEF Enters, Load
<1>3. CASE w[p].pc = "load" /\ Step(p, Leave(p)) /\ UNCHANGED overlap
  BY <1>3, LeaveTyped, Stepping, Zenon DEF Load, Refuses
<1> QED BY <1>2, <1>3, Zenon DEF Load

\* Inside the section: the eight steps that matter, in terms of fields.
Uploads(p) ==
    /\ w[p].pc = "media"
    /\ Goes(p, "preflight") /\ w'[p].code = w[p].code
    /\ w'[p].copy.attempts = w[p].copy.attempts
    /\ w'[p].copy.state = w[p].copy.state /\ w'[p].copy.draft = w[p].copy.draft
    /\ \/ manifest' = manifest /\ w'[p].copy = w[p].copy
       \/ manifest' = w'[p].copy
    /\ UNCHANGED <<posts, drafts, lock, audit, answer, crashes, overlap, reclaimed>>

LEMMA MediaIs ==
    ASSUME TypeOK, NEW p \in Workers, EnsurePublicMedia(p)
    PROVE  Uploads(p) \/ Refuses(p)
<1>1. w \in [Workers -> Run] /\ w[p] \in Run /\ w[p].copy \in Manifest
  BY RunFields DEF TypeOK
<1>2. CASE /\ w' = [w EXCEPT ![p].pc = "preflight", ![p].copy.public = TRUE]
            /\ manifest' = IF w[p].copy.public THEN manifest
                           ELSE [w[p].copy EXCEPT !.public = TRUE]
  <2> DEFINE k == [w[p].copy EXCEPT !.public = TRUE]
             r == [w[p] EXCEPT !.pc = "preflight", !.copy = k]
  <2>1. "preflight" \in WorkerPcs
    BY DEF WorkerPcs, Locked, Inside
  <2>2. /\ k \in Manifest /\ k.attempts = w[p].copy.attempts /\ k.state = w[p].copy.state
        /\ k.draft = w[p].copy.draft /\ (w[p].copy.public => k = w[p].copy)
    BY <1>1, PublicFields
  <2>3. r \in Run /\ r.pc = "preflight" /\ r.copy = k /\ r.code = w[p].code
    BY <1>1, <2>1, <2>2, Zenon DEF Run
  <2>4. w' = [w EXCEPT ![p] = r]
    BY <1>1, <1>2
  <2>5. Goes(p, "preflight") /\ w'[p].copy = k /\ w'[p].code = w[p].code
    BY <1>1, <2>3, <2>4, Zenon DEF Goes
  <2>6. (manifest' = manifest /\ w'[p].copy = w[p].copy) \/ manifest' = w'[p].copy
    BY <1>2, <2>2, <2>5
  <2> QED BY <2>2, <2>5, <2>6, Zenon DEF Uploads, EnsurePublicMedia
<1>3. CASE Step(p, Leave(p)) /\ UNCHANGED manifest
  <2>1. w[p].pc \in Inside
    BY DEF EnsurePublicMedia, Inside
  <2> QED BY <1>3, <2>1, LeaveTyped, Stepping, Zenon DEF EnsurePublicMedia, Refuses
<1> QED BY <1>2, <1>3, Zenon DEF EnsurePublicMedia

\* A step from one place of the section to another that writes nothing.
Passes(p, from, to) ==
    /\ w[p].pc = from /\ Goes(p, to) /\ Keeps(p)
    /\ UNCHANGED <<manifest, posts, drafts, lock, audit, answer, crashes, overlap, reclaimed>>

LEMMA PreflightIs ==
    ASSUME TypeOK, NEW p \in Workers, Preflight(p)
    PROVE  Passes(p, "preflight", "attempt") \/ Refuses(p)
<1>1. "attempt" \in WorkerPcs
  BY DEF WorkerPcs, Locked, Inside
<1>2. CASE Step(p, "attempt")
  BY <1>1, <1>2, Stepping, Zenon DEF Passes, Preflight
<1>3. CASE Step(p, Leave(p))
  <2>1. w[p].pc \in Inside
    BY DEF Preflight, Inside
  <2> QED BY <1>3, <2>1, LeaveTyped, Stepping, Zenon DEF Preflight, Refuses
<1> QED BY <1>2, <1>3, Zenon DEF Preflight

Spends(p) ==
    /\ w[p].pc = "attempt" /\ Goes(p, "post") /\ w'[p].code = w[p].code
    /\ manifest' \in Manifest /\ w'[p].copy = manifest'
    /\ manifest'.attempts = 1 /\ manifest'.state = "CREATE_IN_FLIGHT"
    /\ manifest'.draft = w[p].copy.draft
    /\ UNCHANGED <<posts, drafts, lock, audit, answer, crashes, overlap, reclaimed>>

LEMMA AttemptIs ==
    ASSUME TypeOK, NEW p \in Workers, PersistAttempt(p)
    PROVE  Spends(p)
<1> DEFINE spent == [w[p].copy EXCEPT !.attempts = 1, !.state = "CREATE_IN_FLIGHT"]
           r == [w[p] EXCEPT !.pc = "post", !.copy = spent]
<1>1. w \in [Workers -> Run] /\ w[p] \in Run /\ w[p].copy \in Manifest
  BY RunFields DEF TypeOK
<1>2. manifest' = spent /\ w' = [w EXCEPT ![p].pc = "post", ![p].copy = spent]
  BY Zenon DEF PersistAttempt
<1>3. /\ spent \in Manifest /\ spent.attempts = 1
      /\ spent.state = "CREATE_IN_FLIGHT" /\ spent.draft = w[p].copy.draft
  BY <1>1, SpentFields
<1>4. "post" \in WorkerPcs
  BY DEF WorkerPcs, Locked, Inside
<1>5. r \in Run /\ r.pc = "post" /\ r.copy = spent /\ r.code = w[p].code
  BY <1>1, <1>3, <1>4, Zenon DEF Run
<1>6. w' = [w EXCEPT ![p] = r]
  BY <1>1, <1>2
<1>7. Goes(p, "post") /\ w'[p].copy = spent /\ w'[p].code = w[p].code
  BY <1>1, <1>5, <1>6, Zenon DEF Goes
<1> QED BY <1>2, <1>3, <1>7, Zenon DEF Spends, PersistAttempt

\* One request more; only a draft that exists is read back.
Sends(p) ==
    /\ w[p].pc = "post" /\ posts' = posts + 1
    /\ drafts' \in {drafts, drafts + 1}
    /\ \/ Goes(p, "unknown")
       \/ Goes(p, "readback") /\ drafts' = drafts + 1
    /\ Keeps(p)
    /\ UNCHANGED <<manifest, lock, audit, answer, crashes, overlap, reclaimed>>

LEMMA CreateIs ==
    ASSUME TypeOK, NEW p \in Workers, CreateDraft(p)
    PROVE  Sends(p)
<1>1. PICK made \in BOOLEAN, verdict \in CreateVerdicts :
        /\ verdict = "created" => made
        /\ drafts' = IF made THEN drafts + 1 ELSE drafts
        /\ Step(p, IF verdict = "created" THEN "readback" ELSE "unknown")
  BY Zenon DEF CreateDraft
<1>2. "readback" \in WorkerPcs /\ "unknown" \in WorkerPcs
  BY DEF WorkerPcs, Locked, Inside
<1>3. drafts' \in {drafts, drafts + 1}
  BY <1>1
<1>4. CASE verdict = "created"
  <2>1. Goes(p, "readback") /\ Keeps(p) /\ drafts' = drafts + 1
    BY <1>1, <1>2, <1>4, Stepping, Zenon
  <2> QED BY <1>3, <2>1, Zenon DEF Sends, CreateDraft
<1>5. CASE verdict # "created"
  <2>1. Goes(p, "unknown") /\ Keeps(p)
    BY <1>1, <1>2, <1>5, Stepping, Zenon
  <2> QED BY <1>3, <2>1, Zenon DEF Sends, CreateDraft
<1> QED BY <1>4, <1>5

LEMMA ReadbackIs ==
    ASSUME TypeOK, NEW p \in Workers, Readback(p)
    PROVE  Passes(p, "readback", "created") \/ Passes(p, "readback", "unknown")
<1>1. "created" \in WorkerPcs /\ "unknown" \in WorkerPcs
  BY DEF WorkerPcs, Locked, Inside
<1>2. CASE Step(p, "created")
  BY <1>1, <1>2, Stepping, Zenon DEF Passes, Readback
<1>3. CASE Step(p, "unknown")
  BY <1>1, <1>3, Stepping, Zenon DEF Passes, Readback
<1> QED BY <1>2, <1>3, Zenon DEF Readback

\* The outcome is written from the copy.
Writes(p, from, c) ==
    /\ w[p].pc = from /\ Goes(p, c) /\ Keeps(p) /\ c \in WorkerPcs \ Inside
    /\ manifest' \in Manifest /\ manifest'.attempts = w[p].copy.attempts
    /\ UNCHANGED <<posts, drafts, lock, audit, answer, crashes, overlap, reclaimed>>

Doubts(p) ==
    /\ Writes(p, "unknown", Leave(p))
    /\ manifest'.state = "REVIEW_UNKNOWN" /\ manifest'.draft = w[p].copy.draft

Confirms(p) == Writes(p, "created", "verify") /\ Created(manifest')

LEMMA UnknownIs ==
    ASSUME TypeOK, NEW p \in Workers, PersistUnknown(p)
    PROVE  Doubts(p)
<1>1. w[p].copy \in Manifest
  BY RunFields DEF TypeOK
<1>2. /\ manifest' \in Manifest /\ manifest'.attempts = w[p].copy.attempts
      /\ manifest'.state = "REVIEW_UNKNOWN" /\ manifest'.draft = w[p].copy.draft
  BY <1>1, UnknownFields DEF PersistUnknown
<1>3. Leave(p) \in WorkerPcs \ Inside
  BY LeaveTyped
<1>4. Goes(p, Leave(p)) /\ Keeps(p)
  BY <1>3, Stepping, Zenon DEF PersistUnknown
<1> QED BY <1>2, <1>3, <1>4, Zenon DEF Doubts, Writes, PersistUnknown

LEMMA CreatedIs ==
    ASSUME TypeOK, NEW p \in Workers, PersistCreated(p)
    PROVE  Confirms(p)
<1>1. w[p].copy \in Manifest
  BY RunFields DEF TypeOK
<1>2. /\ manifest' \in Manifest /\ manifest'.attempts = w[p].copy.attempts
      /\ Created(manifest')
  BY <1>1, CreatedFields DEF PersistCreated
<1>3. "verify" \in WorkerPcs \ Inside
  BY DEF WorkerPcs, Locked, Inside
<1>4. Goes(p, "verify") /\ Keeps(p)
  BY <1>3, Stepping, Zenon DEF PersistCreated
<1> QED BY <1>2, <1>3, <1>4, Zenon DEF Confirms, Writes, PersistCreated

\* The bridge looks at the manifest again.
Verifies(p) ==
    /\ w[p].pc = "verify" /\ Goes(p, Leave(p)) /\ w'[p].copy = w[p].copy
    /\ w'[p].code = Created(manifest)
    /\ UNCHANGED <<manifest, posts, drafts, lock, audit, answer, crashes, overlap, reclaimed>>

LEMMA VerifyIs ==
    ASSUME TypeOK, NEW p \in Workers, Verify(p)
    PROVE  Verifies(p)
<1> DEFINE r == [w[p] EXCEPT !.pc = Leave(p), !.code = Created(manifest)]
<1>1. w \in [Workers -> Run] /\ w[p] \in Run /\ manifest \in Manifest
  BY DEF TypeOK
<1>2. Created(manifest) \in BOOLEAN /\ Leave(p) \in WorkerPcs
  BY LeaveTyped DEF Created
<1>3. r \in Run /\ r.pc = Leave(p) /\ r.copy = w[p].copy /\ r.code = Created(manifest)
  BY <1>1, <1>2, Zenon DEF Run
<1>4. w' = [w EXCEPT ![p] = r]
  BY <1>1, Zenon DEF Verify
<1>5. Goes(p, Leave(p)) /\ w'[p].copy = w[p].copy /\ w'[p].code = Created(manifest)
  BY <1>1, <1>3, <1>4, Zenon DEF Goes
<1> QED BY <1>5, Zenon DEF Verifies, Verify

-----------------------------------------------------------------------------
(* The callers, the lock and the kill *)

LEMMA LockTyped ==
    /\ Free \in [by : Workers \cup {None, Dead}, stamped : BOOLEAN] /\ Free.by = None
    /\ \A p \in Workers : /\ Held(p) \in [by : Workers \cup {None, Dead}, stamped : BOOLEAN]
                          /\ Held(p).by = p
                          /\ [by |-> p, stamped |-> TRUE] \in
                                [by : Workers \cup {None, Dead}, stamped : BOOLEAN]
BY DEF Free, Held

\* A process is started.
Calls(p) ==
    /\ w[p].pc = "idle" /\ Goes(p, IF p = "cli" THEN "load" ELSE "replay") /\ Keeps(p)
    /\ UNCHANGED <<manifest, posts, drafts, lock, audit, answer, crashes, overlap, reclaimed>>

LEMMA CallsAre ==
    ASSUME TypeOK, RunCommand \/ RunBackstop \/ \E p \in Actions : Click(p)
    PROVE  \E p \in Workers : Calls(p)
<1>1. "load" \in WorkerPcs /\ "replay" \in WorkerPcs
  BY DEF WorkerPcs, Locked, Inside
<1>2. CASE RunCommand
  BY <1>1, <1>2, ActionsWork, Stepping, Zenon DEF RunCommand, Calls
<1>3. CASE RunBackstop
  BY <1>1, <1>3, ActionsWork, Stepping, Zenon DEF RunBackstop, Calls
<1>4. CASE \E p \in Actions : Click(p)
  <2>1. PICK p \in Actions : Click(p)
    BY <1>4
  <2>2. p \in Workers /\ p # "cli"
    BY ActionsWork
  <2> QED BY <1>1, <2>1, <2>2, Stepping, Zenon DEF Click, Calls
<1> QED BY <1>2, <1>3, <1>4

\* A process is gone and its name in the lock file with it.
Dies(p) ==
    /\ Goes(p, "gone") /\ Keeps(p)
    /\ lock' \in [by : Workers \cup {None, Dead}, stamped : BOOLEAN]
    /\ lock.by # p => lock' = lock
    /\ crashes' = crashes + 1
    /\ UNCHANGED <<manifest, posts, drafts, audit, answer, overlap, reclaimed>>

LEMMA KillIs ==
    ASSUME TypeOK, NEW p \in Workers, Kill(p)
    PROVE  Dies(p)
<1>1. "gone" \in WorkerPcs
  BY DEF WorkerPcs
<1>2. Goes(p, "gone") /\ Keeps(p)
  BY <1>1, Stepping, Zenon DEF Kill
<1>3. lock \in [by : Workers \cup {None, Dead}, stamped : BOOLEAN]
  BY DEF TypeOK
<1>4. [lock EXCEPT !.by = Dead] \in [by : Workers \cup {None, Dead}, stamped : BOOLEAN]
  BY <1>3
<1>5. lock' = IF lock.by = p THEN [lock EXCEPT !.by = Dead] ELSE lock
  BY Zenon DEF Kill
<1>6. lock' \in [by : Workers \cup {None, Dead}, stamped : BOOLEAN] /\ (lock.by # p => lock' = lock)
  BY <1>3, <1>4, <1>5
<1> QED BY <1>2, <1>6, Zenon DEF Kill, Dies

\* What an action says: nothing, or a status that is completed only behind a
\* created manifest.
Says(p) ==
    \/ UNCHANGED <<audit, answer>>
    \/ \E status \in Statuses : Say(p, status) /\ (status = "COMPLETED" => Created(manifest))

\* What an action does to the lock file on its way to c.
Locking(p, c) ==
    \/ UNCHANGED <<lock, reclaimed>> /\ (c \in Locked => w[p].pc \in Locked) /\ c # "recreate"
    \/ lock.by = None /\ lock' = Held(p) /\ c = "stamp" /\ UNCHANGED reclaimed
    \/ lock' = Free /\ c = "recreate" /\ reclaimed' = TRUE
    \/ w[p].pc = "stamp" /\ c = "recheck" /\ lock'.by = lock.by /\ UNCHANGED reclaimed
    \/ w[p].pc \in {"stamp", "release"} /\ c = "gone" /\ lock' = Free /\ UNCHANGED reclaimed

Acts(p) ==
    \E c \in WorkerPcs \ Inside :
        /\ Goes(p, c) /\ Keeps(p) /\ w[p].pc \notin Inside
        /\ lock' \in [by : Workers \cup {None, Dead}, stamped : BOOLEAN]
        /\ Locking(p, c) /\ Says(p)
        /\ UNCHANGED <<manifest, posts, drafts, crashes, overlap>>

\* An action that goes to c and leaves the lock file alone.
LEMMA Unlocking ==
    ASSUME TypeOK, NEW p \in Actions, NEW c \in WorkerPcs \ Inside, Step(p, c), Says(p),
           w[p].pc \notin Inside, c \in Locked => w[p].pc \in Locked, c # "recreate",
           UNCHANGED <<manifest, posts, drafts, lock, crashes, overlap, reclaimed>>
    PROVE  Acts(p)
<1>1. p \in Workers
  BY ActionsWork
<1>2. Goes(p, c) /\ Keeps(p)
  BY <1>1, Stepping, Zenon
<1>3. lock' \in [by : Workers \cup {None, Dead}, stamped : BOOLEAN]
  BY DEF TypeOK
<1>4. Locking(p, c)
  BY Zenon DEF Locking
<1> QED BY <1>2, <1>3, <1>4, Zenon DEF Acts

\* An action that changes the lock file on its way to c.
LEMMA Acting ==
    ASSUME NEW p \in Actions, NEW c \in {"stamp", "recreate", "recheck", "gone"},
           NEW from \in {"acquire", "reclaim", "recreate", "stamp", "release"},
           w[p].pc = from, Goes(p, c), Keeps(p),
           lock' \in [by : Workers \cup {None, Dead}, stamped : BOOLEAN],
           Locking(p, c), Says(p), UNCHANGED <<manifest, posts, drafts, crashes, overlap>>
    PROVE  Acts(p)
<1>1. c \in WorkerPcs \ Inside /\ w[p].pc \notin Inside
  BY DEF WorkerPcs, Locked, Inside
<1> QED BY <1>1, Zenon DEF Acts

\* A busy answer is always allowed.
LEMMA BusyIs ==
    ASSUME TypeOK, NEW p \in Actions, Busy(p), w[p].pc \notin Inside,
           UNCHANGED <<manifest, posts, drafts, lock, crashes, overlap, reclaimed>>
    PROVE  Acts(p)
<1>1. "gone" \in WorkerPcs \ Inside /\ "gone" \notin Locked
  BY DEF WorkerPcs, Locked, Inside
<1>2. Says(p) /\ Step(p, "gone")
  BY DEF Says, Busy, Statuses
<1> QED BY <1>1, <1>2, Unlocking, Zenon

LEMMA ActionIs ==
    ASSUME TypeOK, NEW p \in Actions, ActionStep(p)
    PROVE  Acts(p)
<1>0. /\ p \in Workers /\ lock \in [by : Workers \cup {None, Dead}, stamped : BOOLEAN]
      /\ \A c \in {"idle", "replay", "acquire", "reclaim", "recreate", "stamp", "recheck",
                   "load", "answer", "release", "gone"} : c \in WorkerPcs \ Inside
      /\ \A c \in {"stamp", "recheck", "load", "answer", "release"} : c \in Locked
      /\ \A c \in {"idle", "replay", "acquire", "reclaim", "recreate", "gone"} : c \notin Locked
      /\ \A s \in {"COMPLETED", "BLOCKED", "BUSY"} : s \in Statuses
  BY ActionsWork DEF TypeOK, WorkerPcs, Locked, Inside, Statuses
<1>1. CASE Replay(p)
  <2>1. CASE Created(manifest)
    <3>1. Says(p)
      BY <1>0, <1>1, <2>1, Zenon DEF Replay, Says
    <3> QED BY <1>0, <1>1, <2>1, <3>1, Unlocking, Zenon DEF Replay
  <2>2. CASE ~Created(manifest)
    <3>1. Says(p)
      BY <1>1, <2>2, Zenon DEF Replay, Says
    <3> QED BY <1>0, <1>1, <2>2, <3>1, Unlocking, Zenon DEF Replay
  <2> QED BY <2>1, <2>2
<1>2. CASE Acquire(p)
  <2>1. CASE lock = Free /\ lock' = Held(p) /\ Step(p, "stamp") /\ UNCHANGED <<audit, answer>>
    <3>1. Goes(p, "stamp") /\ Keeps(p)
      BY <1>0, <2>1, Stepping, Zenon
    <3>2. Locking(p, "stamp") /\ Says(p)
      BY <1>2, <2>1, LockTyped, Zenon DEF Locking, Says, Acquire
    <3> QED BY <1>0, <1>2, <2>1, <3>1, <3>2, LockTyped, Acting, Zenon DEF Acquire
  <2>2. CASE Step(p, "reclaim") /\ UNCHANGED <<lock, audit, answer>>
    <3>1. Says(p)
      BY <2>2, Zenon DEF Says
    <3> QED BY <1>0, <1>2, <2>2, <3>1, Unlocking, Zenon DEF Acquire
  <2>3. CASE Busy(p) /\ UNCHANGED lock
    BY <1>0, <1>2, <2>3, BusyIs, Zenon DEF Acquire
  <2> QED BY <1>2, <2>1, <2>2, <2>3, Zenon DEF Acquire
<1>3. CASE Reclaim(p)
  <2>1. CASE Busy(p) /\ UNCHANGED <<lock, reclaimed>>
    BY <1>0, <1>3, <2>1, BusyIs, Zenon DEF Reclaim
  <2>2. CASE lock' = Free /\ reclaimed' = TRUE /\ Step(p, "recreate") /\ UNCHANGED <<audit, answer>>
    <3>1. Goes(p, "recreate") /\ Keeps(p)
      BY <1>0, <2>2, Stepping, Zenon
    <3>2. Locking(p, "recreate") /\ Says(p)
      BY <2>2, Zenon DEF Locking, Says
    <3> QED BY <1>0, <1>3, <2>2, <3>1, <3>2, LockTyped, Acting, Zenon DEF Reclaim
  <2> QED BY <1>3, <2>1, <2>2, Zenon DEF Reclaim
<1>4. CASE Recreate(p)
  <2>1. CASE lock = Free /\ lock' = Held(p) /\ Step(p, "stamp") /\ UNCHANGED <<audit, answer>>
    <3>1. Goes(p, "stamp") /\ Keeps(p)
      BY <1>0, <2>1, Stepping, Zenon
    <3>2. Locking(p, "stamp") /\ Says(p)
      BY <1>4, <2>1, LockTyped, Zenon DEF Locking, Says, Recreate
    <3> QED BY <1>0, <1>4, <2>1, <3>1, <3>2, LockTyped, Acting, Zenon DEF Recreate
  <2>2. CASE Busy(p) /\ UNCHANGED lock
    BY <1>0, <1>4, <2>2, BusyIs, Zenon DEF Recreate
  <2> QED BY <1>4, <2>1, <2>2, Zenon DEF Recreate
<1>5. CASE Stamp(p)
  <2>1. CASE /\ lock' = IF lock = Held(p) THEN [by |-> p, stamped |-> TRUE] ELSE lock
             /\ Step(p, "recheck") /\ UNCHANGED <<audit, answer>>
    <3>1. Goes(p, "recheck") /\ Keeps(p)
      BY <1>0, <2>1, Stepping, Zenon
    <3>2. lock' \in [by : Workers \cup {None, Dead}, stamped : BOOLEAN] /\ lock'.by = lock.by
      <4>1. CASE lock = Held(p)
        BY <1>0, <2>1, <4>1 DEF Held
      <4>2. CASE lock # Held(p)
        BY <1>0, <2>1, <4>2
      <4> QED BY <4>1, <4>2
    <3>3. Locking(p, "recheck") /\ Says(p)
      BY <1>5, <2>1, <3>2, Zenon DEF Locking, Says, Stamp
    <3> QED BY <1>0, <1>5, <3>1, <3>2, <3>3, Acting, Zenon DEF Stamp
  <2>2. CASE lock' = Free /\ Busy(p)
    <3>1. Goes(p, "gone") /\ Keeps(p)
      BY <1>0, <2>2, Stepping, Zenon DEF Busy
    <3>2. Locking(p, "gone") /\ Says(p)
      <4>1. w[p].pc \in {"stamp", "release"} /\ UNCHANGED reclaimed
        BY <1>5 DEF Stamp
      <4>2. Says(p)
        BY <2>2 DEF Says, Busy, Statuses
      <4> QED BY <2>2, <4>1, <4>2, Zenon DEF Locking
    <3> QED BY <1>0, <1>5, <2>2, <3>1, <3>2, LockTyped, Acting, Zenon DEF Stamp
  <2> QED BY <1>5, <2>1, <2>2, Zenon DEF Stamp
<1>6. CASE Recheck(p)
  <2>1. CASE Created(manifest) /\ Step(p, "release") /\ Say(p, "COMPLETED")
    <3>1. Says(p)
      BY <1>0, <2>1, Zenon DEF Says
    <3> QED BY <1>0, <1>6, <2>1, <3>1, Unlocking, Zenon DEF Recheck
  <2>2. CASE Step(p, "release") /\ Say(p, "BLOCKED")
    <3>1. Says(p)
      BY <1>0, <2>2 DEF Says
    <3> QED BY <1>0, <1>6, <2>2, <3>1, Unlocking, Zenon DEF Recheck
  <2>3. CASE Step(p, "load") /\ UNCHANGED <<audit, answer>>
    <3>1. Says(p)
      BY <2>3, Zenon DEF Says
    <3> QED BY <1>0, <1>6, <2>3, <3>1, Unlocking, Zenon DEF Recheck
  <2> QED BY <1>6, <2>1, <2>2, <2>3, Zenon DEF Recheck
<1>7. CASE Answer(p)
  <2>1. Says(p)
    <3>1. CASE w[p].code /\ Created(manifest)
      BY <1>0, <1>7, <3>1, Zenon DEF Says, Answer
    <3>2. CASE ~(w[p].code /\ Created(manifest))
      <4>1. Say(p, "BLOCKED")
        BY <1>7, <3>2, Zenon DEF Answer
      <4> QED BY <1>0, <4>1 DEF Says
    <3> QED BY <3>1, <3>2
  <2> QED BY <1>0, <1>7, <2>1, Unlocking, Zenon DEF Answer
<1>8. CASE Release(p)
  <2>1. Goes(p, "gone") /\ Keeps(p)
    BY <1>0, <1>8, Stepping, Zenon DEF Release
  <2>2. Locking(p, "gone") /\ Says(p)
    <3>1. w[p].pc \in {"stamp", "release"}
      BY <1>8 DEF Release
    <3> QED BY <1>8, <3>1, Zenon DEF Locking, Says, Release
  <2> QED BY <1>0, <1>8, <2>1, <2>2, LockTyped, Acting, Zenon DEF Release
<1> QED BY <1>1, <1>2, <1>3, <1>4, <1>5, <1>6, <1>7, <1>8, Zenon DEF ActionStep

-----------------------------------------------------------------------------
(* One lemma per conjunct of the invariant: every step preserves it *)

\* The steps of a bridge, its entry and its end included.
Works(p) ==
    \/ Refuses(p) \/ Enters(p) \/ Uploads(p) \/ Passes(p, "preflight", "attempt")
    \/ Spends(p) \/ Sends(p) \/ Passes(p, "readback", "created")
    \/ Passes(p, "readback", "unknown") \/ Doubts(p) \/ Confirms(p) \/ Verifies(p)

\* What a step is, for whoever takes it.
LEMMA StepKinds ==
    ASSUME TypeOK, Next
    PROVE  \E p \in Workers : Calls(p) \/ Dies(p) \/ (p \in Actions /\ Acts(p)) \/ Works(p)
<1>1. CASE RunCommand \/ RunBackstop \/ \E p \in Actions : Click(p)
  BY <1>1, CallsAre, Zenon
<1>2. CASE \E p \in Actions : ActionStep(p)
  BY <1>2, ActionsWork, ActionIs, Zenon
<1>3. CASE \E p \in Workers : Kill(p)
  BY <1>3, KillIs, Zenon
<1>4. CASE \E p \in Workers : BridgeStep(p)
  <2>1. PICK p \in Workers : BridgeStep(p)
    BY <1>4
  <2>2. Works(p)
    BY <2>1, LoadIs, MediaIs, PreflightIs, AttemptIs, CreateIs, ReadbackIs, UnknownIs,
       CreatedIs, VerifyIs, Zenon DEF BridgeStep, Works
  <2> QED BY <2>2, Zenon
<1> QED BY <1>1, <1>2, <1>3, <1>4, Zenon DEF Next

\* Where a bridge goes, and that it looks at no lock.
LEMMA WorkMoves ==
    ASSUME NEW p \in Workers, Works(p)
    PROVE  /\ w[p].pc \in Inside \cup {"load", "verify"}
           /\ \E c \in Inside \cup {"verify", Leave(p)} : Goes(p, c)
           /\ UNCHANGED <<lock, audit, answer, crashes, reclaimed>>
<1>1. /\ \A c \in {"media", "preflight", "attempt", "post", "readback", "unknown", "created"} :
            c \in Inside
  BY DEF Inside
<1> QED
  BY <1>1, Zenon DEF Works, Refuses, Enters, Uploads, Passes, Spends, Sends, Doubts,
     Confirms, Writes, Verifies

\* Steps that leave the section, or never were in it, leave its stores alone.
Elsewhere(p) ==
    /\ \E c \in WorkerPcs \ Inside : Goes(p, c)
    /\ w'[p].copy = w[p].copy
    /\ UNCHANGED <<manifest, posts, drafts, overlap>>

LEMMA Elsewheres ==
    ASSUME NEW p \in Workers,
           Calls(p) \/ Dies(p) \/ (p \in Actions /\ Acts(p)) \/ Refuses(p) \/ Verifies(p)
    PROVE  Elsewhere(p)
<1>1. "load" \in WorkerPcs \ Inside /\ "replay" \in WorkerPcs \ Inside
      /\ "gone" \in WorkerPcs \ Inside /\ Leave(p) \in WorkerPcs \ Inside
  BY LeaveTyped DEF WorkerPcs, Locked, Inside
<1>2. (IF p = "cli" THEN "load" ELSE "replay") \in WorkerPcs \ Inside
  BY <1>1
<1> QED BY <1>1, <1>2, Zenon DEF Elsewhere, Calls, Dies, Acts, Refuses, Verifies, Keeps

LEMMA TypesStep ==
    ASSUME TypeOK, [Next]_vars
    PROVE  TypeOK'
<1>1. CASE UNCHANGED vars
  BY <1>1 DEF vars, TypeOK
<1>2. CASE Next
  <2>1. PICK p \in Workers :
           Calls(p) \/ Dies(p) \/ (p \in Actions /\ Acts(p)) \/ Works(p)
    BY <1>2, StepKinds
  <2>2. w[p].copy \in Manifest /\ w' \in [Workers -> Run] /\ w'[p].copy \in Manifest
    <3>1. w[p] \in Run
      BY DEF TypeOK
    <3>2. \E c : Goes(p, c)
      BY <2>1, WorkMoves, Zenon DEF Calls, Dies, Acts
    <3>3. w' \in [Workers -> Run] /\ w'[p] \in Run
      BY <3>2 DEF Goes
    <3> QED BY <3>1, <3>3, RunFields
  <2>3. manifest' \in Manifest
    <3>1. manifest \in Manifest
      BY DEF TypeOK
    <3> QED
      BY <2>1, <2>2, <3>1, Zenon DEF Calls, Dies, Acts, Works, Refuses, Enters, Uploads,
         Passes, Spends, Sends, Doubts, Confirms, Writes, Verifies
  <2>4. posts' \in Nat /\ drafts' \in Nat /\ crashes' \in Nat
    <3>1. posts \in Nat /\ drafts \in Nat /\ crashes \in Nat
      BY DEF TypeOK
    <3>2. posts' \in {posts, posts + 1} /\ drafts' \in {drafts, drafts + 1}
          /\ crashes' \in {crashes, crashes + 1}
      BY <2>1, Zenon DEF Calls, Dies, Acts, Works, Refuses, Enters, Uploads,
         Passes, Spends, Sends, Doubts, Confirms, Writes, Verifies
    <3> QED BY <3>1, <3>2
  <2>5. lock' \in [by : Workers \cup {None, Dead}, stamped : BOOLEAN] /\ reclaimed' \in BOOLEAN
    <3>1. lock \in [by : Workers \cup {None, Dead}, stamped : BOOLEAN] /\ reclaimed \in BOOLEAN
      BY DEF TypeOK
    <3>2. CASE Calls(p) \/ Dies(p) \/ Works(p)
      BY <3>1, <3>2, WorkMoves, Zenon DEF Calls, Dies
    <3>3. CASE Acts(p)
      BY <3>1, <3>3, Zenon DEF Acts, Locking
    <3> QED BY <2>1, <3>2, <3>3
  <2>6. audit' \subseteq Statuses /\ answer' \in [Actions -> Statuses \cup {"NONE"}]
    <3>1. audit \subseteq Statuses /\ answer \in [Actions -> Statuses \cup {"NONE"}]
      BY DEF TypeOK
    <3>2. CASE UNCHANGED <<audit, answer>>
      BY <3>1, <3>2
    <3>3. CASE p \in Actions /\ \E status \in Statuses : Say(p, status)
      <4>1. PICK status \in Statuses : Say(p, status)
        BY <3>3
      <4> QED BY <3>1, <3>3, <4>1 DEF Say, Statuses
    <3>4. UNCHANGED <<audit, answer>> \/ (p \in Actions /\ \E status \in Statuses : Say(p, status))
      BY <2>1, WorkMoves, Zenon DEF Calls, Dies, Acts, Says
    <3> QED BY <3>2, <3>3, <3>4
  <2>7. overlap' \subseteq {"cli", "action"}
    <3>1. overlap \subseteq {"cli", "action"}
      BY DEF TypeOK
    <3>2. CASE Enters(p)
      BY <3>1, <3>2 DEF Enters
    <3>3. CASE ~Enters(p)
      BY <2>1, <3>1, <3>3, Zenon DEF Calls, Dies, Acts, Works, Refuses, Uploads,
         Passes, Spends, Sends, Doubts, Confirms, Writes, Verifies
    <3> QED BY <3>2, <3>3
  <2> QED BY <2>2, <2>3, <2>4, <2>5, <2>6, <2>7, Zenon DEF TypeOK
<1> QED BY <1>1, <1>2

\* Two actions past the lock are two names in it, so it was broken before.
LEMMA LockNamesStep ==
    ASSUME TypeOK, LockNames, [Next]_vars
    PROVE  LockNames' /\ (reclaimed => reclaimed')
<1>1. CASE UNCHANGED vars
  BY <1>1 DEF vars, LockNames
<1>2. CASE Next
  <2>1. PICK p \in Workers :
           Calls(p) \/ Dies(p) \/ (p \in Actions /\ Acts(p)) \/ Works(p)
    BY <1>2, StepKinds
  <2>2. /\ \A c \in {"idle", "replay", "acquire", "reclaim", "recreate", "gone"} : c \notin Locked
        /\ \A c \in Inside \cup {"stamp", "recheck", "load", "verify", "answer", "release"} : c \in Locked
        /\ "replay" \notin Inside \cup {"idle", "load", "verify", "gone"}
        /\ "recreate" \notin Inside \cup {"load", "verify", "gone", "answer"}
    BY DEF Locked, Inside
  <2>3. CASE Calls(p)
    BY <2>2, <2>3, ActionsWork, Zenon DEF LockNames, Calls, Goes
  <2>4. CASE Dies(p)
    <3>1. \A q \in Actions : w'[q].pc \in Locked /\ lock.by = q => lock'.by = q
      BY <2>2, <2>4, Zenon DEF Dies, Goes
    <3> QED BY <2>2, <2>4, <3>1, ActionsWork, Zenon DEF LockNames, Dies, Goes
  <2>5. CASE p \in Actions /\ Acts(p)
    <3>1. PICK c \in WorkerPcs \ Inside : Goes(p, c) /\ Locking(p, c)
      BY <2>5, Zenon DEF Acts
    <3>2. p # "cli" /\ w'["cli"] = w["cli"]
      BY <2>5, <3>1, ActionsWork, Zenon DEF Goes
    <3>3. \A q \in Actions : q \in Workers /\ q # None
      BY ActionsWork
    <3>4. CASE UNCHANGED <<lock, reclaimed>> /\ (c \in Locked => w[p].pc \in Locked) /\ c # "recreate"
      BY <2>5, <3>1, <3>2, <3>3, <3>4, Zenon DEF LockNames, Goes
    <3>5. CASE lock.by = None /\ lock' = Held(p) /\ c = "stamp" /\ UNCHANGED reclaimed
      <4>1. ~reclaimed => \A q \in Actions : w[q].pc \notin Locked
        BY <3>3, <3>5, Zenon DEF LockNames
      <4>2. lock'.by = p
        BY <2>5, <3>3, <3>5, LockTyped, Zenon
      <4>3. c # "recreate"
        BY <3>5
      <4> QED BY <2>5, <3>1, <3>2, <3>3, <3>5, <4>1, <4>2, <4>3, Zenon DEF LockNames, Goes
    <3>6. CASE lock' = Free /\ c = "recreate" /\ reclaimed' = TRUE
      BY <2>5, <3>1, <3>2, <3>3, <3>6, Zenon DEF LockNames, Goes
    <3>7. CASE w[p].pc = "stamp" /\ c = "recheck" /\ lock'.by = lock.by /\ UNCHANGED reclaimed
      BY <2>2, <2>5, <3>1, <3>2, <3>3, <3>7, Zenon DEF LockNames, Goes
    <3>8. CASE w[p].pc \in {"stamp", "release"} /\ c = "gone" /\ lock' = Free /\ UNCHANGED reclaimed
      <4>1. ~reclaimed => \A q \in Actions : q # p => w[q].pc \notin Locked
        BY <2>2, <2>5, <3>8, Zenon DEF LockNames
      <4> QED BY <2>2, <2>5, <3>1, <3>2, <3>3, <3>8, <4>1, Zenon DEF LockNames, Goes
    <3> QED BY <3>1, <3>4, <3>5, <3>6, <3>7, <3>8, Zenon DEF Locking
  <2>6. CASE Works(p)
    <3>1. PICK c \in Inside \cup {"verify", Leave(p)} : Goes(p, c)
      BY <2>6, WorkMoves
    <3>2. UNCHANGED <<lock, reclaimed>> /\ w[p].pc \in Locked
      BY <2>2, <2>6, WorkMoves, Zenon
    <3>3. c # "recreate" /\ (p = "cli" => c \in Inside \cup {"verify", "gone"})
      BY <2>1, <2>2, <3>1, LeaveTyped, ActionsWork, Zenon
    <3> QED BY <2>1, <2>2, <3>1, <3>2, <3>3, ActionsWork, Zenon DEF LockNames, Goes
  <2> QED BY <2>1, <2>3, <2>4, <2>5, <2>6
<1> QED BY <1>1, <1>2

LEMMA LockExcludesStep ==
    ASSUME TypeOK, LockNames, LockExcludes, [Next]_vars
    PROVE  LockExcludes'
<1>1. reclaimed => reclaimed'
  BY LockNamesStep
<1>2. CASE UNCHANGED vars
  BY <1>2 DEF vars, LockExcludes
<1>3. CASE Next
  <2>1. PICK p \in Workers :
           Calls(p) \/ Dies(p) \/ (p \in Actions /\ Acts(p)) \/ Works(p)
    BY <1>3, StepKinds
  <2>2. CASE Enters(p)
    <3>1. SUFFICES ASSUME "action" \in overlap', "action" \notin overlap PROVE reclaimed
      BY <1>1 DEF LockExcludes
    <3>2. PICK q \in Workers \ {p} : w[q].pc \in Inside /\ "cli" \notin {p, q}
      BY <2>2, <3>1 DEF Enters
    <3>3. p \in Actions /\ q \in Actions /\ p # q
      BY <3>2, ActionsWork
    <3>4. w[p].pc \in Locked /\ w[q].pc \in Locked
      BY <2>2, <3>2 DEF Enters, Locked
    <3> QED BY <3>3, <3>4, Zenon DEF LockNames
  <2>3. CASE ~Enters(p)
    <3>1. overlap' = overlap
      BY <2>1, <2>3, Zenon DEF Calls, Dies, Acts, Works, Refuses, Uploads,
         Passes, Spends, Sends, Doubts, Confirms, Writes, Verifies
    <3> QED BY <1>1, <3>1 DEF LockExcludes
  <2> QED BY <2>2, <2>3
<1> QED BY <1>2, <1>3

\* A step inside the section by p: nobody else comes in.
LEMMA AloneStep ==
    ASSUME TypeOK, Alone, [Next]_vars
    PROVE  Alone' /\ (overlap' = {} => overlap = {})
<1>1. CASE UNCHANGED vars
  BY <1>1 DEF vars, Alone
<1>2. CASE Next
  <2>1. PICK p \in Workers :
           Calls(p) \/ Dies(p) \/ (p \in Actions /\ Acts(p)) \/ Works(p)
    BY <1>2, StepKinds
  <2>2. CASE Enters(p)
    <3>1. SUFFICES ASSUME overlap' = {} PROVE Alone' /\ overlap = {}
      BY DEF Alone
    <3>2. overlap = {} /\ \A q \in Workers \ {p} : w[q].pc \notin Inside
      BY <2>2, <3>1 DEF Enters
    <3>3. \A q \in Workers \ {p} : w'[q].pc \notin Inside
      BY <2>2, <3>2 DEF Enters, Goes
    <3> QED BY <3>2, <3>3 DEF Alone
  <2>3. CASE Elsewhere(p)
    <3>1. \A q \in Workers : w'[q].pc \in Inside => w[q].pc \in Inside
      BY <2>3 DEF Elsewhere, Goes
    <3> QED BY <2>3, <3>1 DEF Alone, Elsewhere
  <2>4. CASE ~Enters(p) /\ ~Elsewhere(p)
    <3>1. Uploads(p) \/ Passes(p, "preflight", "attempt") \/ Spends(p) \/ Sends(p)
          \/ Passes(p, "readback", "created") \/ Passes(p, "readback", "unknown")
          \/ Doubts(p) \/ Confirms(p)
      BY <2>1, <2>4, Elsewheres, Zenon DEF Works
    <3>2. w[p].pc \in Inside
      <4>1. \A c \in {"media", "preflight", "attempt", "post", "readback", "unknown", "created"} : c \in Inside
        BY DEF Inside
      <4> QED
        BY <3>1, <4>1, Zenon DEF Uploads, Passes, Spends, Sends, Doubts, Confirms, Writes
    <3>3. overlap' = overlap /\ \E c : Goes(p, c)
      BY <3>1, Zenon DEF Uploads, Passes, Spends, Sends, Doubts, Confirms, Writes
    <3>4. \A q \in Workers : w'[q].pc \in Inside => w[q].pc \in Inside
      BY <3>2, <3>3 DEF Goes
    <3> QED BY <3>3, <3>4 DEF Alone
  <2> QED BY <2>2, <2>3, <2>4
<1> QED BY <1>1, <1>2

\* The steps that stay in the section or write its outcome.
Strides(p) ==
    \/ Uploads(p) \/ Passes(p, "preflight", "attempt") \/ Spends(p) \/ Sends(p)
    \/ Passes(p, "readback", "created") \/ Passes(p, "readback", "unknown")
    \/ Doubts(p) \/ Confirms(p)

\* Every step is one of three kinds; a stride is taken by whoever is inside, and
\* when nothing overlaps by nobody else.
LEMMA ThreeKinds ==
    ASSUME TypeOK, Next
    PROVE  \E p \in Workers : Elsewhere(p) \/ Enters(p) \/ Strides(p)
<1>1. PICK p \in Workers :
         Calls(p) \/ Dies(p) \/ (p \in Actions /\ Acts(p)) \/ Works(p)
  BY StepKinds
<1> QED BY <1>1, Elsewheres, Zenon DEF Works, Strides

LEMMA StrideFacts ==
    ASSUME TypeOK, Alone, Copies, NEW p \in Workers, Strides(p)
    PROVE  /\ w[p].pc \in Inside /\ overlap' = overlap
           /\ \A q \in Workers : q # p => w'[q] = w[q]
           /\ overlap = {} => /\ w[p].copy = manifest
                              /\ \A q \in Workers : q # p => w[q].pc \notin Inside
<1>1. \A c \in {"media", "preflight", "attempt", "post", "readback", "unknown", "created"} : c \in Inside
  BY DEF Inside
<1>2. w[p].pc \in Inside /\ overlap' = overlap /\ \E c : Goes(p, c)
  BY <1>1, Zenon DEF Strides, Uploads, Passes, Spends, Sends, Doubts, Confirms, Writes
<1>3. \A q \in Workers : q # p => w'[q] = w[q]
  BY <1>2, Zenon DEF Goes
<1>4. overlap = {} => w[p].copy = manifest
  BY <1>2, Zenon DEF Copies
<1>5. overlap = {} => \A q \in Workers : q # p => w[q].pc \notin Inside
  BY <1>2, Zenon DEF Alone
<1> QED BY <1>2, <1>3, <1>4, <1>5

\* What the copy of one worker says, for a worker that did not move.
CopyFits(q) ==
    /\ w[q].pc \in {"media", "preflight", "attempt"} => NotCreated(w[q].copy)
    /\ w[q].pc \in {"post", "readback", "unknown", "created"} =>
          w[q].copy.attempts = 1 /\ w[q].copy.state = "CREATE_IN_FLIGHT" /\ ~w[q].copy.draft
    /\ overlap = {} /\ w[q].pc \in Inside => w[q].copy = manifest

LEMMA CopiesStep ==
    ASSUME TypeOK, Alone, Copies, [Next]_vars
    PROVE  Copies'
<1>0. \A q \in Workers : CopyFits(q)
  BY Zenon DEF Copies, CopyFits
<1>1. SUFFICES ASSUME NEW q \in Workers PROVE CopyFits(q)'
  BY Zenon DEF Copies, CopyFits
<1>2. CASE UNCHANGED vars
  BY <1>0, <1>2 DEF vars, CopyFits, NotCreated
<1>3. CASE Next
  <2>1. PICK p \in Workers : Elsewhere(p) \/ Enters(p) \/ Strides(p)
    BY <1>3, ThreeKinds
  <2>2. CASE Elsewhere(p)
    <3>1. CASE q = p
      <4>1. w'[q].pc \notin Inside
        BY <2>2, <3>1, Zenon DEF Elsewhere, Goes
      <4> QED BY <4>1 DEF CopyFits, Inside
    <3>2. CASE q # p
      <4>1. w'[q] = w[q] /\ manifest' = manifest /\ overlap' = overlap
        BY <2>2, <3>2, Zenon DEF Elsewhere, Goes
      <4> QED BY <1>0, <4>1 DEF CopyFits, NotCreated
    <3> QED BY <3>1, <3>2
  <2>3. CASE Enters(p)
    <3>1. CASE q = p
      BY <2>3, <3>1 DEF Enters, Goes, CopyFits, NotCreated
    <3>2. CASE q # p
      <4>1. w'[q] = w[q]
        BY <2>3, <3>2, Zenon DEF Enters, Goes
      <4>2. overlap' = {} => w[q].pc \notin Inside
        BY <2>3, <3>2 DEF Enters
      <4> QED BY <1>0, <4>1, <4>2 DEF CopyFits, NotCreated
    <3> QED BY <3>1, <3>2
  <2>4. CASE Strides(p)
    <3>1. CASE q # p
      <4>1. w'[q] = w[q] /\ overlap' = overlap /\ (overlap = {} => w[q].pc \notin Inside)
        BY <2>4, <3>1, StrideFacts, Zenon
      <4> QED BY <1>0, <4>1 DEF CopyFits, NotCreated
    <3>2. CASE q = p /\ Uploads(p)
      <4>1. NotCreated(w[p].copy) /\ w'[p].pc = "preflight" /\ overlap' = overlap
        BY <1>0, <3>2 DEF Uploads, Goes, CopyFits
      <4>2. NotCreated(w'[p].copy)
        BY <3>2, <4>1 DEF Uploads, NotCreated
      <4>3. overlap' = {} => w'[p].copy = manifest'
        BY <2>4, <3>2, <4>1, StrideFacts, Zenon DEF Uploads
      <4> QED BY <3>2, <4>1, <4>2, <4>3 DEF CopyFits, NotCreated
    <3>3. CASE q = p /\ Passes(p, "preflight", "attempt")
      <4>1. NotCreated(w[p].copy) /\ w'[p].pc = "attempt" /\ overlap' = overlap
        BY <1>0, <3>3 DEF Passes, Goes, CopyFits
      <4>2. w'[p].copy = w[p].copy /\ manifest' = manifest
        BY <3>3, Zenon DEF Passes, Keeps
      <4>3. overlap' = {} => w'[p].copy = manifest'
        BY <2>4, <4>1, <4>2, StrideFacts, Zenon
      <4> QED BY <3>3, <4>1, <4>2, <4>3 DEF CopyFits, NotCreated
    <3>4. CASE q = p /\ Spends(p)
      <4>1. ~w[p].copy.draft
        BY <1>0, <3>4 DEF Spends, CopyFits, NotCreated
      <4> QED BY <3>4, <4>1 DEF Spends, Goes, CopyFits
    <3>5. CASE q = p /\ (Sends(p) \/ Passes(p, "readback", "created") \/ Passes(p, "readback", "unknown"))
      <4>1. w[p].pc \in {"post", "readback"} /\ w'[p].pc \in {"readback", "unknown", "created"}
        BY <3>5 DEF Sends, Passes, Goes
      <4>2. w'[p].copy = w[p].copy /\ manifest' = manifest /\ overlap' = overlap
        BY <3>5, Zenon DEF Sends, Passes, Keeps
      <4>3. overlap = {} => w[p].copy = manifest
        BY <2>4, StrideFacts, Zenon
      <4> QED BY <1>0, <3>5, <4>1, <4>2, <4>3 DEF CopyFits
    <3>6. CASE q = p /\ (Doubts(p) \/ Confirms(p))
      <4>1. w'[p].pc \notin Inside
        BY <3>6, Zenon DEF Doubts, Confirms, Writes, Goes
      <4> QED BY <3>6, <4>1 DEF CopyFits, Inside
    <3> QED BY <2>4, <3>1, <3>2, <3>3, <3>4, <3>5, <3>6, Zenon DEF Strides
  <2> QED BY <2>1, <2>2, <2>3, <2>4
<1> QED BY <1>2, <1>3

\* The request leaves from a spent attempt, and nobody else had sent one.
LEMMA RequestsStep ==
    ASSUME TypeOK, Alone, Copies, Requests, [Next]_vars
    PROVE  Requests'
<1>0. posts \in Nat /\ drafts \in Nat /\ \A q \in Workers : CopyFits(q)
  BY Zenon DEF TypeOK, Copies, CopyFits
<1>1. CASE UNCHANGED vars
  BY <1>1 DEF vars, Requests, OneCreate
<1>2. CASE Next
  <2>1. PICK p \in Workers : Elsewhere(p) \/ Enters(p) \/ Strides(p)
    BY <1>2, ThreeKinds
  <2>2. CASE Elsewhere(p) \/ Enters(p)
    <3>1. overlap' = {} => overlap = {}
      BY <1>2, AloneStep
    <3>2. UNCHANGED <<manifest, posts, drafts>>
      BY <2>2, Zenon DEF Elsewhere, Enters
    <3>3. \A q \in Workers : w'[q].pc = "post" => w[q].pc = "post"
      <4>1. "post" \in Inside
        BY DEF Inside
      <4> QED BY <2>2, <4>1, Zenon DEF Elsewhere, Enters, Goes
    <3> QED BY <3>1, <3>2, <3>3, Zenon DEF Requests, OneCreate
  <2>3. CASE Strides(p)
    <3>1. SUFFICES ASSUME overlap = {}
                   PROVE  /\ posts' <= 1 /\ drafts' <= posts'
                          /\ manifest'.attempts = 0 => posts' = 0
                          /\ \A q \in Workers : w'[q].pc = "post" => posts' = 0
      BY <2>3, StrideFacts, Zenon DEF Requests, OneCreate
    <3>2. /\ posts <= 1 /\ drafts <= posts /\ (manifest.attempts = 0 => posts = 0)
          /\ \A q \in Workers : w[q].pc = "post" => posts = 0
      BY <3>1, Zenon DEF Requests, OneCreate
    <3>3. /\ w[p].copy = manifest
          /\ \A q \in Workers : q # p => w'[q] = w[q] /\ w[q].pc # "post"
      <4>1. "post" \in Inside
        BY DEF Inside
      <4> QED BY <2>3, <3>1, <4>1, StrideFacts, Zenon
    <3>4. CASE Uploads(p) \/ Passes(p, "preflight", "attempt")
               \/ Passes(p, "readback", "created") \/ Passes(p, "readback", "unknown")
      <4>1. manifest'.attempts = manifest.attempts /\ posts' = posts /\ drafts' = drafts
            /\ w'[p].pc # "post"
        BY <3>3, <3>4 DEF Uploads, Passes, Goes, Keeps
      <4> QED BY <3>2, <3>3, <4>1
    <3>5. CASE Spends(p)
      <4>1. posts = 0
        BY <1>0, <3>2, <3>3, <3>5 DEF Spends, CopyFits, NotCreated
      <4>2. posts' = posts /\ drafts' = drafts /\ manifest'.attempts = 1
        BY <3>5, Zenon DEF Spends
      <4> QED BY <3>2, <4>1, <4>2
    <3>6. CASE Sends(p)
      <4>1. posts = 0 /\ manifest.attempts = 1 /\ manifest' = manifest
        BY <1>0, <3>2, <3>3, <3>6 DEF Sends, CopyFits
      <4>2. posts' = posts + 1 /\ drafts' \in {drafts, drafts + 1} /\ w'[p].pc # "post"
        BY <3>6 DEF Sends, Goes
      <4> QED BY <1>0, <3>2, <3>3, <4>1, <4>2
    <3>7. CASE Doubts(p) \/ Confirms(p)
      <4>1. manifest'.attempts = 1 /\ posts' = posts /\ drafts' = drafts
        BY <1>0, <3>7 DEF Doubts, Confirms, Writes, CopyFits
      <4>2. w'[p].pc # "post"
        BY <3>7 DEF Doubts, Confirms, Writes, Goes, Inside
      <4> QED BY <3>2, <3>3, <4>1, <4>2
    <3> QED BY <2>3, <3>4, <3>5, <3>6, <3>7, Zenon DEF Strides
  <2> QED BY <2>1, <2>2, <2>3
<1> QED BY <1>1, <1>2

\* Drafts never vanish, and a trace is left only where one was seen.
LEMMA TracesStep ==
    ASSUME TypeOK, Alone, Copies, Traces, [Next]_vars
    PROVE  Traces'
<1>0. posts \in Nat /\ drafts \in Nat /\ \A q \in Workers : CopyFits(q)
  BY Zenon DEF TypeOK, Copies, CopyFits
<1> DEFINE Marked(m) == m.draft \/ m.state = "DRAFT_CREATED"
           Traced(q) == w[q].code \/ w[q].pc \in {"readback", "created"}
           Told(q) == answer[q] = "COMPLETED"
<1>1. CASE UNCHANGED vars
  BY <1>1 DEF vars, Traces, CreatedIsReal
<1>2. CASE Next
  <2>1. PICK p \in Workers :
           Calls(p) \/ Dies(p) \/ (p \in Actions /\ Acts(p)) \/ Works(p)
    BY <1>2, StepKinds
  <2>2. drafts' >= drafts
    <3>1. drafts' \in {drafts, drafts + 1}
      BY <2>1, Zenon DEF Calls, Dies, Acts, Works, Refuses, Enters, Uploads,
         Passes, Spends, Sends, Doubts, Confirms, Writes, Verifies
    <3> QED BY <1>0, <3>1
  <2>3. Marked(manifest') => drafts' >= 1
    <3>1. CASE manifest' = manifest
      <4>1. Marked(manifest) => drafts >= 1
        BY Zenon DEF Traces, CreatedIsReal
      <4>2. drafts' \in Nat
        BY <1>2, TypesStep DEF TypeOK
      <4> QED BY <1>0, <2>2, <3>1, <4>1, <4>2
    <3>2. CASE Uploads(p) /\ manifest' # manifest
      <4>1. manifest' = w'[p].copy /\ NotCreated(w[p].copy)
        BY <1>0, <3>2 DEF Uploads, CopyFits
      <4> QED BY <3>2, <4>1 DEF Uploads, NotCreated
    <3>3. CASE Spends(p)
      BY <1>0, <3>3 DEF Spends, CopyFits, NotCreated
    <3>4. CASE Doubts(p)
      BY <1>0, <3>4 DEF Doubts, Writes, CopyFits
    <3>5. CASE Confirms(p)
      <4>1. drafts >= 1 /\ drafts' = drafts
        BY <3>5 DEF Confirms, Writes, Traces
      <4> QED BY <4>1
    <3> QED
      BY <2>1, <3>1, <3>2, <3>3, <3>4, <3>5, Zenon DEF Calls, Dies, Acts, Works, Refuses,
         Enters, Passes, Sends, Verifies
  <2>4. \A q \in Workers : Traced(q)' => drafts' >= 1
    <3>1. \A q \in Workers : Traced(q) => drafts >= 1
      BY Zenon DEF Traces
    <3>2. SUFFICES Traced(p)' => drafts' >= 1
      <4>1. \E c : Goes(p, c)
        BY <2>1, WorkMoves, Zenon DEF Calls, Dies, Acts
      <4>2. \A q \in Workers : q # p => w'[q] = w[q]
        BY <4>1, Zenon DEF Goes
      <4>3. drafts' \in Nat
        BY <1>2, TypesStep DEF TypeOK
      <4> QED BY <1>0, <2>2, <3>1, <4>2, <4>3
    <3>3. CASE Elsewhere(p) /\ w'[p].code = w[p].code
      BY <1>0, <2>2, <3>1, <3>3 DEF Elsewhere, Goes, Inside
    <3>4. CASE Verifies(p)
      <4>1. Created(manifest) => drafts >= 1
        BY DEF Traces, CreatedIsReal, Created
      <4>2. w'[p].pc \notin {"readback", "created"}
        BY <3>4, LeaveTyped DEF Verifies, Goes, Inside
      <4> QED BY <3>4, <4>1, <4>2 DEF Verifies
    <3>5. CASE Enters(p) \/ Uploads(p) \/ Passes(p, "preflight", "attempt") \/ Spends(p)
      <4>1. w'[p].code = w[p].code /\ w'[p].pc \notin {"readback", "created"} /\ drafts' = drafts
        BY <3>5 DEF Enters, Uploads, Passes, Spends, Goes, Keeps
      <4> QED BY <3>1, <4>1
    <3>6. CASE Sends(p)
      <4>1. \/ w'[p].pc = "unknown"
            \/ drafts' = drafts + 1
        BY <3>6, Zenon DEF Sends, Goes
      <4>2. w'[p].code = w[p].code /\ drafts' \in {drafts, drafts + 1}
        BY <3>6, Zenon DEF Sends, Keeps
      <4> QED BY <1>0, <3>1, <4>1, <4>2
    <3>7. CASE Passes(p, "readback", "created") \/ Passes(p, "readback", "unknown")
      <4>1. w[p].pc = "readback" /\ drafts' = drafts
        BY <3>7, Zenon DEF Passes
      <4> QED BY <3>1, <4>1
    <3>8. CASE Doubts(p) \/ Confirms(p)
      <4>1. w'[p].code = w[p].code /\ w'[p].pc \notin {"readback", "created"} /\ drafts' = drafts
        BY <3>8 DEF Doubts, Confirms, Writes, Goes, Keeps, Inside
      <4> QED BY <3>1, <4>1
    <3>9. CASE Calls(p) \/ Dies(p) \/ (p \in Actions /\ Acts(p)) \/ Refuses(p)
      <4>1. w'[p].code = w[p].code
        BY <3>9, Zenon DEF Calls, Dies, Acts, Refuses, Keeps
      <4>2. Elsewhere(p)
        BY <3>9, Elsewheres, Zenon
      <4> QED BY <3>3, <4>1, <4>2
    <3> QED BY <2>1, <3>4, <3>5, <3>6, <3>7, <3>8, <3>9, Zenon DEF Works
  <2>5. \A q \in Actions : Told(q)' => drafts' >= 1 /\ "COMPLETED" \in audit'
    <3>1. \A q \in Actions : Told(q) => drafts >= 1 /\ "COMPLETED" \in audit
      BY Zenon DEF Traces, CreatedIsReal
    <3>2. drafts' \in Nat /\ answer \in [Actions -> Statuses \cup {"NONE"}]
      BY <1>2, TypesStep DEF TypeOK
    <3>3. CASE UNCHANGED <<audit, answer>>
      BY <1>0, <2>2, <3>1, <3>2, <3>3
    <3>4. CASE p \in Actions /\ \E status \in Statuses :
                  Say(p, status) /\ (status = "COMPLETED" => Created(manifest))
      <4>1. PICK status \in Statuses :
               Say(p, status) /\ (status = "COMPLETED" => Created(manifest))
        BY <3>4
      <4>2. Created(manifest) => drafts >= 1
        BY DEF Traces, CreatedIsReal, Created
      <4>3. audit \subseteq audit' /\ \A q \in Actions : q # p => answer'[q] = answer[q]
        BY <3>2, <4>1 DEF Say
      <4>4. answer'[p] = "COMPLETED" => status = "COMPLETED" /\ "COMPLETED" \in audit'
        BY <3>2, <3>4, <4>1 DEF Say
      <4> QED BY <1>0, <2>2, <3>1, <3>2, <4>1, <4>2, <4>3, <4>4
    <3>5. UNCHANGED <<audit, answer>> \/ (p \in Actions /\ \E status \in Statuses :
                  Say(p, status) /\ (status = "COMPLETED" => Created(manifest)))
      BY <2>1, WorkMoves, Zenon DEF Calls, Dies, Acts, Says
    <3> QED BY <3>3, <3>4, <3>5
  <2> QED BY <2>3, <2>4, <2>5, Zenon DEF Traces, CreatedIsReal
<1> QED BY <1>1, <1>2

-----------------------------------------------------------------------------
(* The theorems *)

LEMMA IInvInit == Init => IInv
<1> SUFFICES ASSUME Init PROVE IInv
  OBVIOUS
<1> DEFINE new == [pc |-> "idle", copy |-> NewManifest, code |-> FALSE]
<1>1. \A p \in Workers : w[p] = new
  BY DEF Init
<1>2. \A p \in Workers : w[p].pc = "idle" /\ w[p].code = FALSE
  BY <1>1
<1>3. new \in Run
  BY NewFields DEF Run, WorkerPcs
<1>4. TypeOK
  <2>1. w \in [Workers -> Run]
    BY <1>3, Zenon DEF Init
  <2>2. lock \in [by : Workers \cup {None, Dead}, stamped : BOOLEAN]
    BY LockTyped DEF Init
  <2>3. manifest \in Manifest
    BY NewFields DEF Init
  <2>4. posts \in Nat /\ drafts \in Nat /\ audit \subseteq Statuses /\ crashes \in Nat
        /\ overlap \subseteq {"cli", "action"} /\ reclaimed \in BOOLEAN
    BY DEF Init
  <2>5. answer \in [Actions -> Statuses \cup {"NONE"}]
    BY DEF Init
  <2> QED BY <2>1, <2>2, <2>3, <2>4, <2>5, Zenon DEF TypeOK
<1>5. LockNames
  BY <1>2, ActionsWork DEF LockNames, Locked, Inside
<1>6. LockExcludes /\ Alone
  BY <1>2 DEF Init, LockExcludes, Alone, Inside
<1>7. Copies
  BY <1>2 DEF Copies, Inside
<1>8. Requests
  BY <1>2, SMT DEF Init, Requests, OneCreate
<1>9. Traces
  <2>1. NotCreated(manifest)
    BY NewFields DEF Init
  <2>2. \A p \in Actions : answer[p] = "NONE"
    BY DEF Init
  <2> QED BY <1>2, <2>1, <2>2 DEF Traces, CreatedIsReal, NotCreated
<1> QED BY <1>4, <1>5, <1>6, <1>7, <1>8, <1>9, Zenon DEF IInv

LEMMA IInvStep == IInv /\ [Next]_vars => IInv'
<1> SUFFICES ASSUME TypeOK, LockNames, LockExcludes, Alone, Copies, Requests, Traces,
                    [Next]_vars
             PROVE  IInv'
  BY Zenon DEF IInv
<1> QED
  BY TypesStep, LockNamesStep, LockExcludesStep, AloneStep, CopiesStep, RequestsStep,
     TracesStep, Zenon DEF IInv

\* A step never takes a spent attempt or a created draft back, unless two
\* bridges really overlapped.
LEMMA SpentStep ==
    ASSUME TypeOK, Alone, Copies, Next
    PROVE  StaysSpent
<1> SUFFICES ASSUME overlap' = {}
             PROVE  /\ manifest'.attempts >= manifest.attempts
                    /\ Created(manifest) => Created(manifest')
  BY Zenon DEF StaysSpent
<1>1. overlap = {} /\ manifest \in Manifest /\ manifest.attempts \in 0..1
  <2>1. manifest \in Manifest
    BY DEF TypeOK
  <2>2. overlap' = {} => overlap = {}
    BY AloneStep
  <2> QED BY <2>1, <2>2, ManifestFields
<1>2. PICK p \in Workers : Elsewhere(p) \/ Enters(p) \/ Strides(p)
  BY ThreeKinds
<1>3. CASE manifest' = manifest
  BY <1>1, <1>3
<1>4. CASE Strides(p) /\ manifest' # manifest
  <2>1. w[p].copy = manifest
    BY <1>1, <1>4, StrideFacts
  <2>2. CopyFits(p)
    BY Zenon DEF Copies, CopyFits
  <2>3. CASE Uploads(p)
    <3>1. NotCreated(manifest)
      BY <2>1, <2>2, <2>3 DEF Uploads, CopyFits
    <3>2. manifest' = w'[p].copy /\ w'[p].copy.attempts = w[p].copy.attempts
      BY <1>4, <2>3 DEF Uploads
    <3> QED BY <1>1, <2>1, <3>1, <3>2 DEF NotCreated, Created
  <2>4. CASE Spends(p)
    <3>1. NotCreated(manifest)
      BY <2>1, <2>2, <2>4 DEF Spends, CopyFits
    <3>2. manifest'.attempts = 1
      BY <2>4 DEF Spends
    <3> QED BY <3>1, <3>2 DEF NotCreated, Created
  <2>5. CASE Doubts(p) \/ Confirms(p)
    <3>1. manifest.state = "CREATE_IN_FLIGHT"
      BY <2>1, <2>2, <2>5 DEF Doubts, Confirms, Writes, CopyFits
    <3>2. manifest'.attempts = manifest.attempts
      BY <2>1, <2>5 DEF Doubts, Confirms, Writes
    <3> QED BY <1>1, <3>1, <3>2 DEF Created
  <2> QED
    BY <1>4, <2>3, <2>4, <2>5, Zenon DEF Strides, Passes, Sends
<1> QED BY <1>2, <1>3, <1>4, Zenon DEF Elsewhere, Enters

\* A bridge that comes further with its manifest is the abstract draft's.
LEMMA BridgeIsPromised ==
    ASSUME manifest.state \in {"NOT_CREATED", "CREATE_IN_FLIGHT"},
           manifest'.state \in {"CREATE_IN_FLIGHT", "REVIEW_UNKNOWN", "DRAFT_CREATED"},
           drafts' \in drafts..1, manifest'.state = "DRAFT_CREATED" => drafts' = 1
    PROVE  Promise!Next
<1>1. Promise!Bridge("manifest")
  BY DEF Promise!Bridge
<1> QED BY <1>1 DEF Promise!Next

\* A step keeps the promise unless two bridges really overlapped: the attempt is
\* spent from an untouched manifest, the one request leaves a spent attempt, and
\* the outcome is written over CREATE_IN_FLIGHT.
LEMMA PromiseStep ==
    ASSUME IInv, Next, overlap' = {}
    PROVE  [Promise!Next]_(Promise!vars)
<1>0. /\ TypeOK /\ Alone /\ Copies /\ Requests /\ Traces /\ Requests'
      /\ posts \in Nat /\ drafts \in Nat /\ drafts' \in Nat
  BY IInvStep, Zenon DEF IInv, TypeOK
<1>1. overlap = {}
  BY <1>0, AloneStep
<1>2. drafts <= 1 /\ drafts' <= 1 /\ (manifest.attempts = 0 => drafts = 0)
  <2>1. /\ posts <= 1 /\ drafts <= posts /\ (manifest.attempts = 0 => posts = 0)
        /\ posts' <= 1 /\ drafts' <= posts'
    BY <1>0, <1>1, Zenon DEF Requests, OneCreate
  <2>2. posts' \in Nat
    BY IInvStep, Zenon DEF IInv, TypeOK
  <2> QED BY <1>0, <2>1, <2>2
<1>3. PICK p \in Workers : Elsewhere(p) \/ Enters(p) \/ Strides(p)
  BY <1>0, ThreeKinds
<1>4. CASE Elsewhere(p) \/ Enters(p)
  <2>1. UNCHANGED <<manifest, drafts>>
    BY <1>4, Zenon DEF Elsewhere, Enters
  <2> QED BY <2>1 DEF Promise!vars
<1>5. CASE Strides(p)
  <2>1. w[p].copy = manifest /\ CopyFits(p)
    BY <1>0, <1>1, <1>5, StrideFacts, Zenon DEF Copies, CopyFits
  <2>2. CASE Uploads(p) \/ Passes(p, "preflight", "attempt")
             \/ Passes(p, "readback", "created") \/ Passes(p, "readback", "unknown")
    <3>1. manifest'.state = manifest.state /\ drafts' = drafts
      BY <2>1, <2>2 DEF Uploads, Passes
    <3> QED BY <3>1 DEF Promise!vars
  <2>3. CASE Spends(p)
    <3>1. manifest.state = "NOT_CREATED"
      BY <2>1, <2>3 DEF Spends, CopyFits, NotCreated
    <3>2. manifest'.state = "CREATE_IN_FLIGHT" /\ drafts' = drafts
      BY <2>3 DEF Spends
    <3> QED BY <1>0, <1>2, <3>1, <3>2, BridgeIsPromised
  <2>4. CASE Sends(p)
    <3>1. manifest.state = "CREATE_IN_FLIGHT" /\ manifest' = manifest
      BY <2>1, <2>4 DEF Sends, CopyFits
    <3>2. drafts' \in {drafts, drafts + 1}
      BY <2>4 DEF Sends
    <3> QED BY <1>0, <1>2, <3>1, <3>2, BridgeIsPromised
  <2>5. CASE Doubts(p)
    <3>1. manifest.state = "CREATE_IN_FLIGHT" /\ manifest'.state = "REVIEW_UNKNOWN" /\ drafts' = drafts
      BY <2>1, <2>5 DEF Doubts, Writes, CopyFits
    <3> QED BY <1>0, <1>2, <3>1, BridgeIsPromised
  <2>6. CASE Confirms(p)
    <3>1. /\ manifest.state = "CREATE_IN_FLIGHT" /\ manifest'.state = "DRAFT_CREATED"
          /\ drafts' = drafts /\ w[p].pc = "created"
      BY <2>1, <2>6 DEF Confirms, Writes, Created, CopyFits
    <3>2. drafts >= 1
      BY <1>0, <3>1 DEF Traces
    <3> QED BY <1>0, <1>2, <3>1, <3>2, BridgeIsPromised
  <2> QED BY <1>5, <2>2, <2>3, <2>4, <2>5, <2>6, Zenon DEF Strides
<1> QED BY <1>3, <1>4, <1>5

\* The bridge's state keeps its type, whoever is past an unbroken lock is named
\* in it, and a worker that is alone works on a current copy.
THEOREM Invariance == Spec => []IInv
<1> QED BY IInvInit, IInvStep, PTL DEF Spec

\* Unless two bridges worked at the same time, Zernio receives one create
\* request at most, and none while the manifest on disk still permits one.
THEOREM OneRequest == Spec => []OneCreate
<1>1. IInv => OneCreate
  BY DEF IInv, Requests
<1> QED BY <1>1, Invariance, PTL

\* Two actions are in the section together only after one broke a stale lock.
THEOREM LockHolds == Spec => []LockExcludes
<1>1. IInv => LockExcludes
  BY DEF IInv
<1> QED BY <1>1, Invariance, PTL

\* Neither the manifest nor an answer says created without a draft at Zernio,
\* and a completed answer has its audit row.
THEOREM CreatedHolds == Spec => []CreatedIsReal
<1>1. IInv => CreatedIsReal
  BY DEF IInv, Traces
<1> QED BY <1>1, Invariance, PTL

\* No step of a bridge that worked alone, and no kill, gives the attempt back or
\* takes a created draft out of the manifest.
THEOREM SpentForEver == Spec => SpentStaysSpent
<1>1. IInv /\ [Next]_vars => [StaysSpent]_vars
  BY SpentStep DEF IInv
<1> QED BY <1>1, Invariance, PTL DEF Spec, SpentStaysSpent

\* A bridge that works alone keeps the promise of a single review draft, step by
\* step: whichever process runs it, whoever breaks a lock, is killed or presses.
THEOREM KeptPromise == Spec => KeepsPromise
<1>1. Init => Promise!Init
  BY DEF Init, NewManifest, Promise!Init
<1>2. IInv /\ [Next]_vars => [overlap' = {} => [Promise!Next]_(Promise!vars)]_vars
  BY PromiseStep
<1> QED BY <1>1, <1>2, Invariance, PTL DEF Spec, KeepsPromise
=============================================================================
