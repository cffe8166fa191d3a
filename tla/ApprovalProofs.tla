--------------------------- MODULE ApprovalProofs ---------------------------
(***************************************************************************)
(* Machine-checked proofs about Approval, for any number of posts, clicks  *)
(* and sweeps.                                                             *)
(*                                                                         *)
(* The argument: the lock keeps the copy of a process current, so the      *)
(* write that moves the stage never undoes another one (CopiesAreCurrent); *)
(* the marker written with it speaks of that very move and is cleared only *)
(* after its row was appended (Markers).  Hence the present stage is       *)
(* audited, no row is invented, and an answer is backed by the manifest.   *)
(***************************************************************************)
EXTENDS Approval, TLAPS

-----------------------------------------------------------------------------
(* The operators the model is built from *)

LEMMA TargetTyped == \A a \in Actions : Target(a) \in Stages
BY Zenon DEF Target, Actions, Stages

\* A terminal stage never moves, an affirmation does not move, and a move goes
\* to the action's target.
LEMMA TransitionFacts ==
    ASSUME NEW stage \in Stages, NEW a \in Actions
    PROVE  /\ Transition(stage, a) \in Stages \cup {"none"}
           /\ stage \in {"REJECTED", "REVISION"} => Transition(stage, a) \in {stage, "none"}
           /\ Transition(stage, a) = stage => a = "back" \/ stage = Target(a)
           /\ Transition(stage, a) \notin {"none", stage} => Transition(stage, a) = Target(a)
<1>1. CASE stage \in {"DRAFT_READY", "AWAITING"}
  <2>1. Transition(stage, a) = Target(a)
    BY <1>1, Zenon DEF Transition
  <2> QED BY <1>1, <2>1, TargetTyped
<1>2. CASE stage \notin {"DRAFT_READY", "AWAITING"} /\ (stage = Target(a) \/ a = "back")
  <2>1. Transition(stage, a) = stage
    BY <1>2, Zenon DEF Transition
  <2> QED BY <1>2, <2>1
<1>3. CASE stage \notin {"DRAFT_READY", "AWAITING"} /\ ~(stage = Target(a) \/ a = "back")
  <2>1. Transition(stage, a) = "none"
    BY <1>3, Zenon DEF Transition
  <2>2. "none" \notin Stages
    BY DEF Stages
  <2> QED BY <1>3, <2>1, <2>2
<1> QED BY <1>1, <1>2, <1>3

\* The fields of a manifest.
LEMMA ManifestFields ==
    ASSUME NEW m \in Manifest
    PROVE  /\ m.stage \in Stages \cup {"ABSENT"}
           /\ m.first \in BOOLEAN /\ m.final \in BOOLEAN /\ m.attempted \in BOOLEAN
           /\ m.marker \in Decisions \cup {NoMarker}
           /\ StageOf(m) \in Stages
           /\ m.stage # "ABSENT" => StageOf(m) = m.stage
           /\ m.stage = "ABSENT" => StageOf(m) = "DRAFT_READY"
BY DEF Manifest, StageOf, Stages

LEMMA FreshFields ==
    /\ FreshManifest \in Manifest /\ FreshManifest.stage = "ABSENT"
    /\ FreshManifest.marker = NoMarker
BY DEF FreshManifest, Manifest

\* What the three updates of a manifest write and what they leave alone.
LEMMA MovedFields ==
    ASSUME NEW m \in Manifest, NEW to \in Stages
    PROVE  /\ Moved(m, to) \in Manifest
           /\ Moved(m, to).stage = to /\ Moved(m, to).first
           /\ Moved(m, to).marker = <<StageOf(m), to>>
           /\ Moved(m, to).final = m.final /\ Moved(m, to).attempted = m.attempted
<1>1. StageOf(m) \in Stages
  BY ManifestFields
<1>2. <<StageOf(m), to>> \in Decisions
  BY <1>1 DEF Decisions
<1> QED BY <1>2, Zenon DEF Moved, Manifest

LEMMA ClearedFields ==
    ASSUME NEW m \in Manifest
    PROVE  /\ Cleared(m) \in Manifest
           /\ Cleared(m).marker = NoMarker
           /\ Cleared(m).stage = m.stage /\ Cleared(m).first = m.first
           /\ Cleared(m).final = m.final /\ Cleared(m).attempted = m.attempted
BY Zenon DEF Cleared, Manifest

LEMMA WorkedFields ==
    ASSUME NEW m \in Manifest, NEW final \in BOOLEAN, NEW attempted \in BOOLEAN
    PROVE  /\ Worked(m, final, attempted) \in Manifest
           /\ Worked(m, final, attempted).first
           /\ Worked(m, final, attempted).final = final
           /\ Worked(m, final, attempted).attempted = attempted
           /\ Worked(m, final, attempted).stage = m.stage
           /\ Worked(m, final, attempted).marker = m.marker
BY Zenon DEF Worked, Manifest

\* StageOf looks at the stage only.
LEMMA SameStage ==
    ASSUME NEW m, NEW k, m.stage = k.stage
    PROVE  StageOf(m) = StageOf(k)
BY DEF StageOf

-----------------------------------------------------------------------------
(* One lemma per conjunct of the invariant: every step preserves it *)

\* The commit of a move, told of the manifest on disk instead of the copy.
LEMMA PersistIs ==
    ASSUME TypeOK, CopiesAreCurrent, ClickFacts, NEW c \in Clicks, Persist(c)
    PROVE  \E p \in Posts, from \in Stages, to \in Stages :
             /\ p = post[c] /\ lock[p] = c /\ man[p] \in Manifest /\ action[c] \in Actions
             /\ from = StageOf(man[p]) /\ from \notin {"REJECTED", "REVISION"}
             /\ ~LegacyUnsafe(man[p])
             /\ to = Target(action[c])
             /\ Moved(man[p], to) \in Manifest
             /\ man' = [man EXCEPT ![p] = Moved(man[p], to)]
             /\ copy' = [copy EXCEPT ![c] = Moved(man[p], to)]
             /\ moved' = moved \cup {<<p, from, to>>}
<1> DEFINE p == post[c]
           from == StageOf(copy[c])
           to == Transition(from, action[c])
<1>1. c \in Procs /\ copy[c] \in Manifest /\ p \in Posts /\ action[c] \in Actions
  BY DEF TypeOK, Procs
<1>2. pc[c] = "persist" /\ lock[p] = c /\ copy[c] = man[p]
  BY <1>1 DEF Persist, At, CopiesAreCurrent
<1>3. ~LegacyUnsafe(copy[c]) /\ to \notin {"none", from}
  BY <1>2 DEF ClickFacts
<1>4. from \in Stages
  BY <1>1, ManifestFields
<1>5. to \in Stages /\ to = Target(action[c]) /\ from \notin {"REJECTED", "REVISION"}
  BY <1>1, <1>3, <1>4, TransitionFacts
<1>6. /\ man' = [man EXCEPT ![p] = Moved(copy[c], to)]
      /\ copy' = [copy EXCEPT ![c] = Moved(copy[c], to)]
      /\ moved' = moved \cup {<<p, from, to>>}
  BY DEF Persist
<1>7. Moved(copy[c], to) \in Manifest
  BY <1>1, <1>5, MovedFields
<1> HIDE DEF p, from, to
<1>8. p = post[c] /\ from = StageOf(man[p])
  BY <1>2 DEF p, from
<1> QED BY <1>1, <1>2, <1>3, <1>4, <1>5, <1>6, <1>7, <1>8

\* The clearing of a marker, told of the manifest on disk.
LEMMA FlushClearIs ==
    ASSUME TypeOK, CopiesAreCurrent, Markers, NEW x \in Procs, FlushClear(x)
    PROVE  \E p \in Posts :
             /\ p = post[x] /\ lock[p] = x /\ man[p] \in Manifest
             /\ man[p].marker \in Decisions /\ Recorded(p, man[p])
             /\ Cleared(man[p]) \in Manifest
             /\ man' = [man EXCEPT ![p] = Cleared(man[p])]
             /\ copy' = [copy EXCEPT ![x] = Cleared(man[p])]
<1>1. copy[x] \in Manifest /\ post[x] \in Posts
  BY DEF TypeOK
<1>2. pc[x] = "clear" /\ lock[post[x]] = x /\ copy[x] = man[post[x]]
  BY DEF FlushClear, At, CopiesAreCurrent
<1>3. copy[x].marker # NoMarker /\ Recorded(post[x], copy[x])
  BY <1>2 DEF Markers
<1>4. copy[x].marker \in Decisions
  BY <1>1, <1>3, ManifestFields
<1>5. Cleared(copy[x]) \in Manifest
  BY <1>1, ClearedFields
<1> QED BY <1>1, <1>2, <1>3, <1>4, <1>5 DEF FlushClear

\* The appending of a row, told of the manifest on disk.
LEMMA FlushRowIs ==
    ASSUME TypeOK, CopiesAreCurrent, Markers, NEW x \in Procs, FlushRow(x)
    PROVE  \E p \in Posts :
             /\ p = post[x] /\ lock[p] = x /\ copy[x] = man[p] /\ man[p] \in Manifest
             /\ man[p].marker # NoMarker /\ man[p].marker \in Decisions
             /\ rows' = IF Recorded(p, man[p]) THEN rows ELSE rows \cup {RowOf(p, man[p])}
<1>1. copy[x] \in Manifest /\ post[x] \in Posts
  BY DEF TypeOK
<1>2. pc[x] = "row" /\ lock[post[x]] = x /\ copy[x] = man[post[x]]
  BY DEF FlushRow, At, CopiesAreCurrent
<1>3. copy[x].marker # NoMarker
  BY <1>2 DEF Markers
<1>4. copy[x].marker \in Decisions
  BY <1>1, <1>3, ManifestFields
<1> QED BY <1>1, <1>2, <1>3, <1>4 DEF FlushRow


\* A promise is about a post, and its stage is terminal.
LEMMA PromisesTyped ==
    ASSUME TypeOK, NEW d \in promised
    PROVE  d[1] \in Posts /\ Target(d[2]) \in {"REJECTED", "REVISION"}
<1>1. d \in Posts \X {"reject", "revise"}
  BY DEF TypeOK
<1> QED BY <1>1 DEF Target
\* Every step keeps the types.
LEMMA TypeStep ==
    ASSUME TypeOK, CopiesAreCurrent, ClickFacts, Markers, [Next]_vars
    PROVE  TypeOK'
<1>1. ASSUME NEW c \in Clicks, NEW p \in Posts, NEW a \in Actions, Press(c, p, a)
      PROVE  TypeOK'
  BY <1>1
     DEF Press, At, Goto, durable, TypeOK, Procs
<1>2. ASSUME NEW c \in Clicks, Enter(c)
      PROVE  TypeOK'
  BY <1>2
     DEF Enter, At, Goto, Answer, durable, history, TypeOK, Procs, Results
<1>3. ASSUME NEW c \in Clicks, Decide(c)
      PROVE  TypeOK'
  BY <1>3
     DEF Decide, At, Answer, Goto, durable, history, TypeOK, Procs, Results
<1>4. ASSUME NEW c \in Clicks, Persist(c)
      PROVE  TypeOK'
  <2> DEFINE p == post[c]
             from == StageOf(copy[c])
             to == Transition(from, action[c])
  <2>1. c \in Procs /\ copy[c] \in Manifest /\ p \in Posts /\ action[c] \in Actions
    BY DEF TypeOK, Procs
  <2>2. from \in Stages /\ to \in Stages
    <3>1. from \in Stages
      BY <2>1, ManifestFields
    <3>2. to # "none"
      BY <1>4 DEF ClickFacts, Persist, At
    <3> QED BY <2>1, <3>1, <3>2, TransitionFacts
  <2>3. Moved(copy[c], to) \in Manifest
    BY <2>1, <2>2, MovedFields
  <2>4. /\ man' = [man EXCEPT ![p] = Moved(copy[c], to)]
        /\ copy' = [copy EXCEPT ![c] = Moved(copy[c], to)]
        /\ moved' = moved \cup {<<p, from, to>>}
    BY <1>4 DEF Persist
  <2> HIDE DEF p, from, to
  <2> QED
    BY <1>4, <2>1, <2>2, <2>3, <2>4 DEF Persist, At, Goto, TypeOK, Procs, Results
<1>5. ASSUME NEW c \in Clicks, PersistFails(c)
      PROVE  TypeOK'
  BY <1>5
     DEF PersistFails, At, Answer, Goto, durable, history, TypeOK, Procs, Results
<1>6. ASSUME NEW c \in Clicks, Exit(c)
      PROVE  TypeOK'
  BY <1>6, FreshFields
     DEF Exit, At, Ends, Goto, durable, clickVars, history, TypeOK, Procs
<1>7. ASSUME NEW c \in Clicks, Tell(c)
      PROVE  TypeOK'
  BY <1>7
     DEF Tell, At, Goto, Forget, TypeOK, Procs, Results, Actions
<1>8. ASSUME NEW c \in Clicks, Dies(c)
      PROVE  TypeOK'
  BY <1>8, FreshFields
     DEF Dies, Ends, Goto, Forget, durable, TypeOK, Procs, Results, Actions
<1>9. ASSUME NEW s \in Sweeps, SweepStart(s)
      PROVE  TypeOK'
  BY <1>9
     DEF SweepStart, At, Goto, durable, clickVars, history, TypeOK, Procs
<1>10. ASSUME NEW s \in Sweeps, SweepNext(s)
      PROVE  TypeOK'
  BY <1>10, FreshFields
     DEF SweepNext, At, Goto, durable, clickVars, history, TypeOK, Procs
<1>11. ASSUME NEW s \in Sweeps, NEW p \in Posts, SweepTake(s, p)
      PROVE  TypeOK'
  BY <1>11
     DEF SweepTake, At, Goto, durable, clickVars, history, TypeOK, Procs
<1>12. ASSUME NEW s \in Sweeps, SweepDies(s)
      PROVE  TypeOK'
  BY <1>12, FreshFields
     DEF SweepDies, At, Ends, Goto, durable, clickVars, history, TypeOK, Procs
<1>13. ASSUME NEW x \in Procs, FlushRow(x)
      PROVE  TypeOK'
  <2>1. RowOf(post[x], copy[x]) \in Posts \X Stages \X Stages
    <3>1. x \in Procs /\ copy[x] \in Manifest /\ post[x] \in Posts
      BY DEF TypeOK
    <3>2. copy[x].marker \in Decisions
      BY <1>13, <3>1, ManifestFields DEF Markers, FlushRow, At
    <3> QED BY <3>1, <3>2 DEF RowOf, Decisions
  <2> QED
    BY <1>13, <2>1 DEF FlushRow, At, Goto, clickVars, history, TypeOK, Procs
<1>14. ASSUME NEW x \in Procs, FlushClear(x)
      PROVE  TypeOK'
  <2>1. copy[x] \in Manifest /\ post[x] \in Posts
    BY DEF TypeOK
  <2>2. Cleared(copy[x]) \in Manifest
    BY <2>1, ClearedFields
  <2> QED
    BY <1>14, <2>1, <2>2
       DEF FlushClear, At, Goto, AfterFlush, clickVars, history, TypeOK, Procs
<1>15. ASSUME NEW x \in Procs, FlushFails(x)
      PROVE  TypeOK'
  BY <1>15
     DEF FlushFails, Goto, AfterFlush, durable, clickVars, history, TypeOK, Procs
<1>16. ASSUME NEW p \in Posts, SecondStage(p)
      PROVE  TypeOK'
  <2>1. \A final, attempted \in BOOLEAN : Worked(man[p], final, attempted) \in Manifest
    BY WorkedFields DEF TypeOK
  <2> QED
    BY <1>16, <2>1 DEF SecondStage, clickVars, history, TypeOK
<1>17. ASSUME UNCHANGED vars
      PROVE  TypeOK'
  BY <1>17
     DEF vars, durable, clickVars, history, TypeOK, Procs
<1> QED
  BY <1>1, <1>2, <1>3, <1>4, <1>5, <1>6, <1>7, <1>8, <1>9, <1>10, <1>11, <1>12, <1>13,
     <1>14, <1>15, <1>16, <1>17
     DEF Next, ClickStep, SweepStep, Flush, Procs

\* A copy stays what is on disk, because its holder has the lock.
LEMMA CopiesStep ==
    ASSUME TypeOK, CopiesAreCurrent, [Next]_vars
    PROVE  CopiesAreCurrent'
<1>1. ASSUME NEW c \in Clicks, NEW p \in Posts, NEW a \in Actions, Press(c, p, a)
      PROVE  CopiesAreCurrent'
  BY <1>1, ApprovalAssumption
     DEF Press, At, Goto, durable, CopiesAreCurrent, TypeOK, Procs
<1>2. ASSUME NEW c \in Clicks, Enter(c)
      PROVE  CopiesAreCurrent'
  BY <1>2, ApprovalAssumption
     DEF Enter, At, Goto, Answer, durable, history, CopiesAreCurrent, TypeOK, Procs
<1>3. ASSUME NEW c \in Clicks, Decide(c)
      PROVE  CopiesAreCurrent'
  BY <1>3, ApprovalAssumption
     DEF Decide, At, Answer, Goto, durable, history, CopiesAreCurrent, TypeOK, Procs
<1>4. ASSUME NEW c \in Clicks, Persist(c)
      PROVE  CopiesAreCurrent'
  BY <1>4, ApprovalAssumption
     DEF Persist, At, Goto, CopiesAreCurrent, TypeOK, Procs
<1>5. ASSUME NEW c \in Clicks, PersistFails(c)
      PROVE  CopiesAreCurrent'
  BY <1>5, ApprovalAssumption
     DEF PersistFails, At, Answer, Goto, durable, history, CopiesAreCurrent, TypeOK,
         Procs
<1>6. ASSUME NEW c \in Clicks, Exit(c)
      PROVE  CopiesAreCurrent'
  BY <1>6, ApprovalAssumption
     DEF Exit, At, Ends, Goto, durable, clickVars, history, CopiesAreCurrent, TypeOK,
         Procs
<1>7. ASSUME NEW c \in Clicks, Tell(c)
      PROVE  CopiesAreCurrent'
  BY <1>7, ApprovalAssumption
     DEF Tell, At, Goto, Forget, CopiesAreCurrent, TypeOK, Procs
<1>8. ASSUME NEW c \in Clicks, Dies(c)
      PROVE  CopiesAreCurrent'
  BY <1>8, ApprovalAssumption
     DEF Dies, Ends, Goto, Forget, durable, CopiesAreCurrent, TypeOK, Procs
<1>9. ASSUME NEW s \in Sweeps, SweepStart(s)
      PROVE  CopiesAreCurrent'
  BY <1>9, ApprovalAssumption
     DEF SweepStart, At, Goto, durable, clickVars, history, CopiesAreCurrent, TypeOK,
         Procs
<1>10. ASSUME NEW s \in Sweeps, SweepNext(s)
      PROVE  CopiesAreCurrent'
  BY <1>10, ApprovalAssumption
     DEF SweepNext, At, Goto, durable, clickVars, history, CopiesAreCurrent, TypeOK,
         Procs
<1>11. ASSUME NEW s \in Sweeps, NEW p \in Posts, SweepTake(s, p)
      PROVE  CopiesAreCurrent'
  BY <1>11, ApprovalAssumption
     DEF SweepTake, At, Goto, durable, clickVars, history, CopiesAreCurrent, TypeOK,
         Procs
<1>12. ASSUME NEW s \in Sweeps, SweepDies(s)
      PROVE  CopiesAreCurrent'
  BY <1>12, ApprovalAssumption
     DEF SweepDies, At, Ends, Goto, durable, clickVars, history, CopiesAreCurrent,
         TypeOK, Procs
<1>13. ASSUME NEW x \in Procs, FlushRow(x)
      PROVE  CopiesAreCurrent'
  BY <1>13, ApprovalAssumption
     DEF FlushRow, At, Goto, clickVars, history, CopiesAreCurrent, TypeOK, Procs
<1>14. ASSUME NEW x \in Procs, FlushClear(x)
      PROVE  CopiesAreCurrent'
  BY <1>14, ApprovalAssumption
     DEF FlushClear, At, Goto, AfterFlush, clickVars, history, CopiesAreCurrent,
         TypeOK, Procs
<1>15. ASSUME NEW x \in Procs, FlushFails(x)
      PROVE  CopiesAreCurrent'
  BY <1>15, ApprovalAssumption
     DEF FlushFails, Goto, AfterFlush, durable, clickVars, history, CopiesAreCurrent,
         TypeOK, Procs
<1>16. ASSUME NEW p \in Posts, SecondStage(p)
      PROVE  CopiesAreCurrent'
  BY <1>16, ApprovalAssumption
     DEF SecondStage, clickVars, history, CopiesAreCurrent, TypeOK, Procs
<1>17. ASSUME UNCHANGED vars
      PROVE  CopiesAreCurrent'
  BY <1>17
     DEF vars, durable, clickVars, history, CopiesAreCurrent, TypeOK, Procs
<1> QED
  BY <1>1, <1>2, <1>3, <1>4, <1>5, <1>6, <1>7, <1>8, <1>9, <1>10, <1>11, <1>12, <1>13,
     <1>14, <1>15, <1>16, <1>17
     DEF Next, ClickStep, SweepStep, Flush, Procs

\* A marker speaks of a move that was made, and goes only after its row.
LEMMA MarkersStep ==
    ASSUME TypeOK, CopiesAreCurrent, ClickFacts, Markers, [Next]_vars
    PROVE  Markers'
<1>1. ASSUME NEW c \in Clicks, NEW p \in Posts, NEW a \in Actions, Press(c, p, a)
      PROVE  Markers'
  BY <1>1, ApprovalAssumption
     DEF Press, At, Goto, durable, Markers, Recorded, TypeOK, CopiesAreCurrent, Procs
<1>2. ASSUME NEW c \in Clicks, Enter(c)
      PROVE  Markers'
  <2>1. /\ man' = man /\ rows' = rows /\ post' = post /\ moved' = moved
        /\ \/ /\ copy' = [copy EXCEPT ![c] = man[post[c]]]
              /\ \/ pc' = [pc EXCEPT ![c] = "decide"]
                 \/ pc' = [pc EXCEPT ![c] = "row"] /\ man[post[c]].marker # NoMarker
           \/ copy' = copy /\ pc' = [pc EXCEPT ![c] = "exit"]
    BY <1>2 DEF Enter, Answer, Goto, durable, history
  <2>2. c \in Procs /\ pc'[c] # "clear"
    BY <2>1 DEF TypeOK, Procs
  <2>3. pc'[c] = "row" => copy'[c].marker # NoMarker
    BY <2>1, <2>2 DEF TypeOK
  <2>4. \A y \in Procs \ {c} : pc'[y] = pc[y] /\ copy'[y] = copy[y] /\ post'[y] = post[y]
    BY <2>1 DEF TypeOK
  <2> QED
    BY <2>1, <2>2, <2>3, <2>4 DEF Markers, Recorded
<1>3. ASSUME NEW c \in Clicks, Decide(c)
      PROVE  Markers'
  BY <1>3, ApprovalAssumption
     DEF Decide, At, Answer, Goto, durable, history, Markers, Recorded, TypeOK,
         CopiesAreCurrent, Procs
<1>4. ASSUME NEW c \in Clicks, Persist(c)
      PROVE  Markers'
  <2>1. PICK p \in Posts, from \in Stages, to \in Stages :
             /\ p = post[c] /\ lock[p] = c /\ man[p] \in Manifest /\ action[c] \in Actions
             /\ from = StageOf(man[p]) /\ from \notin {"REJECTED", "REVISION"}
             /\ ~LegacyUnsafe(man[p])
             /\ to = Target(action[c])
             /\ Moved(man[p], to) \in Manifest
             /\ man' = [man EXCEPT ![p] = Moved(man[p], to)]
             /\ copy' = [copy EXCEPT ![c] = Moved(man[p], to)]
             /\ moved' = moved \cup {<<p, from, to>>}
    BY <1>4, PersistIs
  <2>2. /\ man'[p].marker = <<from, to>> /\ man'[p] = Moved(man[p], to)
        /\ \A q \in Posts \ {p} : man'[q] = man[q]
    BY <2>1, MovedFields DEF TypeOK
  <2>3. /\ rows' = rows /\ post' = post /\ pc' = [pc EXCEPT ![c] = "row"]
        /\ <<from, to>> # NoMarker
    BY <1>4, ApprovalAssumption DEF Persist, Decisions, Goto
  <2>4. RowOf(p, man'[p]) = <<p, from, to>>
    BY <2>2 DEF RowOf
  <2>5. \A q \in Posts : man'[q].marker # NoMarker => RowOf(q, man'[q]) \in moved'
    BY <2>1, <2>2, <2>4 DEF Markers
  <2>6. copy'[c].marker # NoMarker /\ pc'[c] = "row"
    BY <2>1, <2>2, <2>3 DEF TypeOK, Procs
  <2>7. \A x \in Procs \ {c} : pc'[x] = pc[x] /\ copy'[x] = copy[x] /\ post'[x] = post[x]
    BY <2>1, <2>3 DEF TypeOK
  <2> QED
    BY <2>3, <2>5, <2>6, <2>7 DEF Markers, Recorded
<1>5. ASSUME NEW c \in Clicks, PersistFails(c)
      PROVE  Markers'
  BY <1>5, ApprovalAssumption
     DEF PersistFails, At, Answer, Goto, durable, history, Markers, Recorded, TypeOK,
         CopiesAreCurrent, Procs
<1>6. ASSUME NEW c \in Clicks, Exit(c)
      PROVE  Markers'
  BY <1>6, ApprovalAssumption
     DEF Exit, At, Ends, Goto, durable, clickVars, history, Markers, Recorded, TypeOK,
         CopiesAreCurrent, Procs
<1>7. ASSUME NEW c \in Clicks, Tell(c)
      PROVE  Markers'
  BY <1>7, ApprovalAssumption
     DEF Tell, At, Goto, Forget, Markers, Recorded, TypeOK, CopiesAreCurrent, Procs
<1>8. ASSUME NEW c \in Clicks, Dies(c)
      PROVE  Markers'
  BY <1>8, ApprovalAssumption
     DEF Dies, Ends, Goto, Forget, durable, Markers, Recorded, TypeOK,
         CopiesAreCurrent, Procs
<1>9. ASSUME NEW s \in Sweeps, SweepStart(s)
      PROVE  Markers'
  BY <1>9, ApprovalAssumption
     DEF SweepStart, At, Goto, durable, clickVars, history, Markers, Recorded, TypeOK,
         CopiesAreCurrent, Procs
<1>10. ASSUME NEW s \in Sweeps, SweepNext(s)
      PROVE  Markers'
  BY <1>10, ApprovalAssumption
     DEF SweepNext, At, Goto, durable, clickVars, history, Markers, Recorded, TypeOK,
         CopiesAreCurrent, Procs
<1>11. ASSUME NEW s \in Sweeps, NEW p \in Posts, SweepTake(s, p)
      PROVE  Markers'
  <2>1. /\ man' = man /\ rows' = rows /\ moved' = moved
        /\ \/ /\ man[p].marker # NoMarker /\ copy' = [copy EXCEPT ![s] = man[p]]
              /\ post' = [post EXCEPT ![s] = p] /\ pc' = [pc EXCEPT ![s] = "row"]
           \/ copy' = copy /\ post' = post /\ pc' = [pc EXCEPT ![s] = "next"]
    BY <1>11 DEF SweepTake, Goto, durable, history
  <2>2. s \in Procs /\ pc'[s] # "clear"
    BY <2>1 DEF TypeOK, Procs
  <2>3. pc'[s] = "row" => copy'[s].marker # NoMarker
    BY <2>1, <2>2 DEF TypeOK
  <2>4. \A y \in Procs \ {s} : pc'[y] = pc[y] /\ copy'[y] = copy[y] /\ post'[y] = post[y]
    BY <2>1 DEF TypeOK
  <2> QED
    BY <2>1, <2>2, <2>3, <2>4 DEF Markers, Recorded
<1>12. ASSUME NEW s \in Sweeps, SweepDies(s)
      PROVE  Markers'
  BY <1>12, ApprovalAssumption
     DEF SweepDies, At, Ends, Goto, durable, clickVars, history, Markers, Recorded,
         TypeOK, CopiesAreCurrent, Procs
<1>13. ASSUME NEW x \in Procs, FlushRow(x)
      PROVE  Markers'
  <2>1. PICK p \in Posts :
             /\ p = post[x] /\ lock[p] = x /\ copy[x] = man[p] /\ man[p] \in Manifest
             /\ man[p].marker # NoMarker /\ man[p].marker \in Decisions
             /\ rows' = IF Recorded(p, man[p]) THEN rows ELSE rows \cup {RowOf(p, man[p])}
    BY <1>13, FlushRowIs
  <2>2. rows \subseteq rows' /\ \E from \in Stages : <<p, from, man[p].marker[2]>> \in rows'
    BY <2>1 DEF Recorded, RowOf, Decisions
  <2>3. man' = man /\ post' = post /\ copy' = copy /\ moved' = moved
        /\ pc' = [pc EXCEPT ![x] = "clear"]
    BY <1>13 DEF FlushRow, Goto, history
  <2>4. pc'[x] = "clear" /\ \A y \in Procs \ {x} : pc'[y] = pc[y]
    BY <2>3 DEF TypeOK
  <2> QED
    BY <2>1, <2>2, <2>3, <2>4 DEF Markers, Recorded
<1>14. ASSUME NEW x \in Procs, FlushClear(x)
      PROVE  Markers'
  <2>1. PICK p \in Posts :
             /\ p = post[x] /\ lock[p] = x /\ man[p] \in Manifest
             /\ man[p].marker \in Decisions /\ Recorded(p, man[p])
             /\ Cleared(man[p]) \in Manifest
             /\ man' = [man EXCEPT ![p] = Cleared(man[p])]
             /\ copy' = [copy EXCEPT ![x] = Cleared(man[p])]
    BY <1>14, FlushClearIs
  <2>2. /\ man'[p].marker = NoMarker
        /\ \A q \in Posts \ {p} : man'[q] = man[q]
    BY <2>1, ClearedFields DEF TypeOK
  <2>3. rows' = rows /\ post' = post /\ moved' = moved /\ pc' = [pc EXCEPT ![x] = AfterFlush(x)]
    BY <1>14 DEF FlushClear, Goto, history
  <2>4. AfterFlush(x) \notin {"row", "clear"}
    BY DEF AfterFlush
  <2>5. pc'[x] \notin {"row", "clear"}
        /\ \A y \in Procs \ {x} : pc'[y] = pc[y] /\ copy'[y] = copy[y] /\ post'[y] = post[y]
    BY <2>1, <2>3, <2>4 DEF TypeOK
  <2> QED
    BY <2>2, <2>3, <2>5 DEF Markers, Recorded
<1>15. ASSUME NEW x \in Procs, FlushFails(x)
      PROVE  Markers'
  BY <1>15, ApprovalAssumption
     DEF FlushFails, Goto, AfterFlush, durable, clickVars, history, Markers, Recorded,
         TypeOK, CopiesAreCurrent, Procs
<1>16. ASSUME NEW p \in Posts, SecondStage(p)
      PROVE  Markers'
  <2>1. PICK final \in BOOLEAN, attempted \in BOOLEAN :
             man' = [man EXCEPT ![p] = Worked(man[p], final, attempted)]
    BY <1>16 DEF SecondStage
  <2>2. man[p] \in Manifest
    BY DEF TypeOK
  <2>3. \A q \in Posts : man'[q].marker = man[q].marker
    BY <2>1, <2>2, WorkedFields DEF TypeOK
  <2>4. rows' = rows /\ post' = post /\ copy' = copy /\ moved' = moved /\ pc' = pc
    BY <1>16 DEF SecondStage, history
  <2> QED
    BY <2>3, <2>4 DEF Markers, Recorded, RowOf
<1>17. ASSUME UNCHANGED vars
      PROVE  Markers'
  BY <1>17
     DEF vars, durable, clickVars, history, Markers, Recorded, TypeOK,
         CopiesAreCurrent, Procs
<1> QED
  BY <1>1, <1>2, <1>3, <1>4, <1>5, <1>6, <1>7, <1>8, <1>9, <1>10, <1>11, <1>12, <1>13,
     <1>14, <1>15, <1>16, <1>17
     DEF Next, ClickStep, SweepStep, Flush, Procs

\* What a click knows stays true under the lock.
LEMMA ClickFactsStep ==
    ASSUME TypeOK, CopiesAreCurrent, ClickFacts, Markers, Approvals, [Next]_vars
    PROVE  ClickFacts'
<1>1. ASSUME NEW c \in Clicks, NEW p \in Posts, NEW a \in Actions, Press(c, p, a)
      PROVE  ClickFacts'
  <2>1. /\ UNCHANGED <<man, lock, copy, result, moved, did>> /\ pc[c] = "idle"
        /\ pc' = [pc EXCEPT ![c] = "spawned"]
        /\ post' = [post EXCEPT ![c] = p] /\ action' = [action EXCEPT ![c] = a]
    BY <1>1 DEF Press, At, Goto, durable
  <2>2. result[c] = "none" /\ ~did[c] /\ pc'[c] = "spawned"
    BY <2>1 DEF ClickFacts, TypeOK, Procs
  <2>3. \A d \in Clicks \ {c} : pc'[d] = pc[d] /\ post'[d] = post[d] /\ action'[d] = action[d]
    BY <2>1 DEF TypeOK, Procs
  <2>4. \A d \in Clicks \ {c} : Backed(d) => Backed(d)'
    BY <2>1, <2>3 DEF Backed, Approved
  <2> QED
    BY <2>1, <2>2, <2>3, <2>4 DEF ClickFacts
<1>2. ASSUME NEW c \in Clicks, Enter(c)
      PROVE  ClickFacts'
  <2>1. /\ UNCHANGED <<man, post, action, did, moved>> /\ lock' = [lock EXCEPT ![post[c]] = c]
        /\ lock[post[c]] = Nobody /\ pc[c] = "spawned"
        /\ \/ /\ pc' = [pc EXCEPT ![c] = "decide"] \/ pc' = [pc EXCEPT ![c] = "row"]
              /\ result' = result
           \/ pc' = [pc EXCEPT ![c] = "exit"] /\ result' = [result EXCEPT ![c] = "refused"]
    BY <1>2 DEF Enter, Answer, At, Goto, durable, history
  <2>2. c \in Procs /\ post[c] \in Posts
    BY DEF TypeOK, Procs
  <2>3. /\ result[c] = "none" /\ ~did[c]
        /\ \/ pc'[c] \in {"decide", "row"} /\ result'[c] = "none"
           \/ pc'[c] = "exit" /\ result'[c] = "refused"
    BY <2>1, <2>2 DEF TypeOK, ClickFacts
  <2>4. \A d \in Clicks \ {c} : pc'[d] = pc[d] /\ result'[d] = result[d] /\ copy'[d] = copy[d]
    BY <1>2, <2>1 DEF Enter, Answer, TypeOK, Procs
  <2>5. \A d \in Clicks : lock[post[d]] = d => lock'[post[d]] = d
    BY <2>1, <2>2, ApprovalAssumption DEF TypeOK, Procs
  <2>6. \A d \in Clicks : Backed(d) => Backed(d)'
    BY <2>1 DEF Backed, Approved
  <2> QED
    BY <2>1, <2>3, <2>4, <2>5, <2>6 DEF ClickFacts
<1>3. ASSUME NEW c \in Clicks, Decide(c)
      PROVE  ClickFacts'
  <2> DEFINE m == copy[c]
             to == Transition(StageOf(m), action[c])
  <2>1. /\ c \in Procs /\ m \in Manifest /\ action[c] \in Actions
        /\ lock[post[c]] = c /\ m = man[post[c]]
    BY <1>3 DEF Decide, At, CopiesAreCurrent, TypeOK, Procs
  <2>2. to = StageOf(m) => action[c] = "back" \/ StageOf(man[post[c]]) = Target(action[c])
    BY <2>1, ManifestFields, TransitionFacts
  <2>3. /\ pc[c] = "decide" /\ did[c] = FALSE
        /\ UNCHANGED <<man, lock, post, copy, action, did, moved>>
        /\ \/ result' = [result EXCEPT ![c] = "refused"] /\ pc' = [pc EXCEPT ![c] = "exit"]
           \/ /\ to = StageOf(m)
              /\ result' = [result EXCEPT ![c] = "accepted"] /\ pc' = [pc EXCEPT ![c] = "exit"]
           \/ /\ ~LegacyUnsafe(m) /\ to \notin {"none", StageOf(m)}
              /\ result' = result /\ pc' = [pc EXCEPT ![c] = "persist"]
    BY <1>3 DEF Decide, At, Answer, Goto, durable, history, ClickFacts, TypeOK
  <2> HIDE DEF to
  <2>4. \A d \in Clicks \ {c} : pc'[d] = pc[d] /\ result'[d] = result[d]
    BY <2>3 DEF TypeOK, Procs
  <2>5. \/ pc'[c] = "exit" /\ result'[c] = "refused"
        \/ pc'[c] = "exit" /\ result'[c] = "accepted" /\ to = StageOf(m)
        \/ /\ pc'[c] = "persist" /\ result'[c] = "none"
           /\ ~LegacyUnsafe(m) /\ to \notin {"none", StageOf(m)}
    BY <2>1, <2>3 DEF TypeOK, ClickFacts
  <2>6. \A d \in Clicks : Backed(d) => Backed(d)'
    BY <2>3 DEF Backed, Approved
  <2> QED
    BY <2>1, <2>2, <2>3, <2>4, <2>5, <2>6 DEF ClickFacts, to
<1>4. ASSUME NEW c \in Clicks, Persist(c)
      PROVE  ClickFacts'
  <2>1. PICK p \in Posts, from \in Stages, to \in Stages :
             /\ p = post[c] /\ lock[p] = c /\ man[p] \in Manifest /\ action[c] \in Actions
             /\ from = StageOf(man[p]) /\ from \notin {"REJECTED", "REVISION"}
             /\ ~LegacyUnsafe(man[p])
             /\ to = Target(action[c])
             /\ Moved(man[p], to) \in Manifest
             /\ man' = [man EXCEPT ![p] = Moved(man[p], to)]
             /\ copy' = [copy EXCEPT ![c] = Moved(man[p], to)]
             /\ moved' = moved \cup {<<p, from, to>>}
    BY <1>4, PersistIs
  <2>2. \A d \in Clicks \ {c} : result[d] = "accepted" /\ pc[d] # "reply" => post[d] # p
    BY <2>1, ApprovalAssumption DEF ClickFacts, Procs
  <2>3. /\ lock' = lock /\ post' = post /\ action' = action
        /\ pc' = [pc EXCEPT ![c] = "row"] /\ result' = [result EXCEPT ![c] = "accepted"]
        /\ did' = [did EXCEPT ![c] = TRUE]
    BY <1>4 DEF Persist, Goto
  <2>4. StageOf(man'[p]) = Target(action[c])
    <3>1. man'[p].stage = to /\ to \in Stages /\ man'[p] \in Manifest
      BY <2>1, MovedFields DEF TypeOK
    <3> QED BY <2>1, <3>1, ManifestFields DEF Stages
  <2>5. \A d \in Clicks \ {c} :
           /\ pc'[d] = pc[d] /\ result'[d] = result[d] /\ did'[d] = did[d] /\ copy'[d] = copy[d]
           /\ result[d] = "accepted" /\ pc[d] # "reply" => man'[post[d]] = man[post[d]]
    BY <2>1, <2>2, <2>3 DEF TypeOK, Procs
  <2>6. pc'[c] = "row" /\ result'[c] = "accepted"
    BY <2>3 DEF TypeOK, Procs
  <2>7. \A q \in Posts : /\ man[q].stage # "ABSENT" => man'[q].stage # "ABSENT"
                         /\ man[q].stage \in {"REJECTED", "REVISION"} => man'[q] = man[q]
    <3>1. man'[p].stage # "ABSENT"
      BY <2>1, MovedFields DEF TypeOK, Stages
    <3>2. man[p].stage \notin {"REJECTED", "REVISION"}
      BY <2>1, ManifestFields
    <3> QED BY <2>1, <3>1, <3>2 DEF TypeOK
  <2>8. \A d \in Clicks : Backed(d) => Backed(d)'
    <3> SUFFICES ASSUME NEW d \in Clicks, Backed(d) PROVE Backed(d)'
      OBVIOUS
    <3>1. /\ post[d] \in Posts /\ moved \subseteq moved'
          /\ post'[d] = post[d] /\ action'[d] = action[d]
      BY <2>1, <2>3 DEF TypeOK, Procs
    <3>2. action[d] = "approve" => Approved(post[d])' /\ man'[post[d]].stage # "ABSENT"
      BY <2>7, <3>1 DEF Backed, Approved
    <3>3. action[d] \in {"reject", "revise"} => man'[post[d]].stage = Target(action[d])
      <4>1. action[d] \in {"reject", "revise"} => Target(action[d]) \in {"REJECTED", "REVISION"}
        BY DEF Target
      <4> QED BY <2>7, <3>1, <4>1 DEF Backed
    <3> QED BY <3>1, <3>2, <3>3 DEF Backed
  <2> QED
    BY <2>1, <2>3, <2>4, <2>5, <2>6, <2>8 DEF ClickFacts
<1>5. ASSUME NEW c \in Clicks, PersistFails(c)
      PROVE  ClickFacts'
  BY <1>5, ApprovalAssumption
     DEF PersistFails, At, Answer, Goto, durable, history, ClickFacts, Backed,
         Approved, TypeOK, CopiesAreCurrent, Procs
<1>6. ASSUME NEW c \in Clicks, Exit(c)
      PROVE  ClickFacts'
  <2>1. /\ man' = man /\ post' = post /\ action' = action /\ result' = result
        /\ did' = did /\ moved' = moved /\ pc[c] = "exit" /\ pc' = [pc EXCEPT ![c] = "reply"]
        /\ lock' = [p \in Posts |-> IF lock[p] = c THEN Nobody ELSE lock[p]]
        /\ copy' = [copy EXCEPT ![c] = FreshManifest]
    BY <1>6 DEF Exit, Ends, At, Goto, durable, clickVars, history
  <2>2. /\ c \in Procs /\ post[c] \in Posts /\ action[c] \in Actions
        /\ man[post[c]] \in Manifest
    BY DEF TypeOK, Procs
  <2>3. result[c] = "accepted" => Backed(c)
    <3> SUFFICES ASSUME result[c] = "accepted" PROVE Backed(c)
      OBVIOUS
    <3>1. action[c] = "back" \/ StageOf(man[post[c]]) = Target(action[c])
      BY <2>1 DEF ClickFacts
    <3>2. action[c] # "back" => Target(action[c]) # "DRAFT_READY"
      BY <2>2 DEF Target, Actions
    <3>3. action[c] # "back" => man[post[c]].stage = Target(action[c])
      BY <2>2, <3>1, <3>2, ManifestFields
    <3>4. action[c] = "approve" => man[post[c]].stage = "AWAITING"
      BY <3>3 DEF Target
    <3> QED BY <2>2, <3>3, <3>4 DEF Backed, Approvals
  <2>4. \A d \in Clicks : Backed(d) => Backed(d)'
    BY <2>1 DEF Backed, Approved
  <2>5. pc'[c] = "reply" /\ \A d \in Clicks \ {c} : pc'[d] = pc[d] /\ copy'[d] = copy[d]
    BY <2>1, <2>2 DEF TypeOK, Procs
  <2>6. \A d \in Clicks \ {c} : lock[post[d]] = d => lock'[post[d]] = d
    BY <2>1 DEF TypeOK, Procs
  <2> QED
    BY <2>1, <2>3, <2>4, <2>5, <2>6 DEF ClickFacts
<1>7. ASSUME NEW c \in Clicks, Tell(c)
      PROVE  ClickFacts'
  <2>1. /\ man' = man /\ post' = post /\ lock' = lock /\ copy' = copy /\ moved' = moved
        /\ pc' = [pc EXCEPT ![c] = "idle"] /\ action' = [action EXCEPT ![c] = "reject"]
        /\ result' = [result EXCEPT ![c] = "none"] /\ did' = [did EXCEPT ![c] = FALSE]
    BY <1>7 DEF Tell, Forget, Goto
  <2>2. pc'[c] = "idle" /\ result'[c] = "none" /\ did'[c] = FALSE
    BY <2>1 DEF TypeOK, Procs
  <2>3. \A d \in Clicks \ {c} : /\ pc'[d] = pc[d] /\ action'[d] = action[d]
                                /\ result'[d] = result[d] /\ did'[d] = did[d]
    BY <2>1 DEF TypeOK, Procs
  <2>4. \A d \in Clicks \ {c} : Backed(d) => Backed(d)'
    BY <2>1, <2>3 DEF Backed, Approved
  <2> QED
    BY <2>1, <2>2, <2>3, <2>4 DEF ClickFacts
<1>8. ASSUME NEW c \in Clicks, Dies(c)
      PROVE  ClickFacts'
  <2>1. /\ man' = man /\ post' = post /\ moved' = moved
        /\ pc' = [pc EXCEPT ![c] = "idle"] /\ action' = [action EXCEPT ![c] = "reject"]
        /\ result' = [result EXCEPT ![c] = "none"] /\ did' = [did EXCEPT ![c] = FALSE]
        /\ lock' = [p \in Posts |-> IF lock[p] = c THEN Nobody ELSE lock[p]]
        /\ copy' = [copy EXCEPT ![c] = FreshManifest]
    BY <1>8 DEF Dies, Ends, Forget, Goto, durable
  <2>2. pc'[c] = "idle" /\ result'[c] = "none" /\ did'[c] = FALSE
    BY <2>1 DEF TypeOK, Procs
  <2>3. \A d \in Clicks \ {c} : /\ pc'[d] = pc[d] /\ action'[d] = action[d]
                                /\ result'[d] = result[d] /\ did'[d] = did[d]
                                /\ copy'[d] = copy[d]
                                /\ lock[post[d]] = d => lock'[post[d]] = d
    BY <2>1 DEF TypeOK, Procs
  <2>4. \A d \in Clicks \ {c} : Backed(d) => Backed(d)'
    BY <2>1, <2>3 DEF Backed, Approved
  <2> QED
    BY <2>1, <2>2, <2>3, <2>4 DEF ClickFacts
<1>9. ASSUME NEW s \in Sweeps, SweepStart(s)
      PROVE  ClickFacts'
  BY <1>9, ApprovalAssumption
     DEF SweepStart, At, Goto, durable, clickVars, history, ClickFacts, Backed,
         Approved, TypeOK, CopiesAreCurrent, Procs
<1>10. ASSUME NEW s \in Sweeps, SweepNext(s)
      PROVE  ClickFacts'
  <2>1. /\ UNCHANGED <<man, action, result, did, moved>>
        /\ s \notin Clicks /\ s \in Procs
    BY <1>10, ApprovalAssumption
       DEF SweepNext, durable, clickVars, history, Procs
  <2>2. \A d \in Clicks : /\ pc'[d] = pc[d] /\ post'[d] = post[d] /\ copy'[d] = copy[d]
                          /\ post[d] \in Posts
    BY <1>10, <2>1 DEF SweepNext, Ends, Goto, TypeOK, Procs
  <2>3. \A d \in Clicks : lock[post[d]] = d => lock'[post[d]] = d
    BY <1>10, <2>1, <2>2, ApprovalAssumption DEF SweepNext, Ends, TypeOK, Procs
  <2>4. \A d \in Clicks : Backed(d) => Backed(d)'
    BY <2>1, <2>2 DEF Backed, Approved
  <2> QED
    BY <2>1, <2>2, <2>3, <2>4 DEF ClickFacts
<1>11. ASSUME NEW s \in Sweeps, NEW p \in Posts, SweepTake(s, p)
      PROVE  ClickFacts'
  <2>1. /\ UNCHANGED <<man, action, result, did, moved>>
        /\ s \notin Clicks /\ s \in Procs
    BY <1>11, ApprovalAssumption
       DEF SweepTake, durable, clickVars, history, Procs
  <2>2. \A d \in Clicks : /\ pc'[d] = pc[d] /\ post'[d] = post[d] /\ copy'[d] = copy[d]
                          /\ post[d] \in Posts
    BY <1>11, <2>1 DEF SweepTake, Ends, Goto, TypeOK, Procs
  <2>3. \A d \in Clicks : lock[post[d]] = d => lock'[post[d]] = d
    BY <1>11, <2>1, <2>2, ApprovalAssumption DEF SweepTake, Ends, TypeOK, Procs
  <2>4. \A d \in Clicks : Backed(d) => Backed(d)'
    BY <2>1, <2>2 DEF Backed, Approved
  <2> QED
    BY <2>1, <2>2, <2>3, <2>4 DEF ClickFacts
<1>12. ASSUME NEW s \in Sweeps, SweepDies(s)
      PROVE  ClickFacts'
  <2>1. /\ UNCHANGED <<man, action, result, did, moved>>
        /\ s \notin Clicks /\ s \in Procs
    BY <1>12, ApprovalAssumption
       DEF SweepDies, durable, clickVars, history, Procs
  <2>2. \A d \in Clicks : /\ pc'[d] = pc[d] /\ post'[d] = post[d] /\ copy'[d] = copy[d]
                          /\ post[d] \in Posts
    BY <1>12, <2>1 DEF SweepDies, Ends, Goto, TypeOK, Procs
  <2>3. \A d \in Clicks : lock[post[d]] = d => lock'[post[d]] = d
    BY <1>12, <2>1, <2>2, ApprovalAssumption DEF SweepDies, Ends, TypeOK, Procs
  <2>4. \A d \in Clicks : Backed(d) => Backed(d)'
    BY <2>1, <2>2 DEF Backed, Approved
  <2> QED
    BY <2>1, <2>2, <2>3, <2>4 DEF ClickFacts
<1>13. ASSUME NEW x \in Procs, FlushRow(x)
      PROVE  ClickFacts'
  BY <1>13, ApprovalAssumption
     DEF FlushRow, At, Goto, clickVars, history, ClickFacts, Backed, Approved, TypeOK,
         CopiesAreCurrent, Procs
<1>14. ASSUME NEW x \in Procs, FlushClear(x)
      PROVE  ClickFacts'
  <2>1. PICK p \in Posts :
             /\ p = post[x] /\ lock[p] = x /\ man[p] \in Manifest
             /\ man[p].marker \in Decisions /\ Recorded(p, man[p])
             /\ Cleared(man[p]) \in Manifest
             /\ man' = [man EXCEPT ![p] = Cleared(man[p])]
             /\ copy' = [copy EXCEPT ![x] = Cleared(man[p])]
    BY <1>14, FlushClearIs
  <2>2. \A q \in Posts : man'[q].stage = man[q].stage
    BY <2>1, ClearedFields DEF TypeOK
  <2>3. /\ lock' = lock /\ post' = post /\ action' = action /\ result' = result /\ did' = did
        /\ moved' = moved /\ pc' = [pc EXCEPT ![x] = AfterFlush(x)] /\ pc[x] = "clear"
    BY <1>14 DEF FlushClear, At, Goto, clickVars, history
  <2>4. /\ pc'[x] = AfterFlush(x)
        /\ \A d \in Clicks \ {x} : pc'[d] = pc[d] /\ copy'[d] = copy[d]
    BY <2>1, <2>3 DEF TypeOK, Procs
  <2>5. x \in Clicks => /\ result[x] \in {"none", "accepted"}
                        /\ pc'[x] = IF result[x] = "none" THEN "decide" ELSE "exit"
    BY <2>3, <2>4, ApprovalAssumption DEF ClickFacts, AfterFlush
  <2>6. \A d \in Clicks : post[d] \in Posts
    BY DEF TypeOK, Procs
  <2>7. \A q \in Posts : StageOf(man'[q]) = StageOf(man[q])
    BY <2>2, SameStage
  <2>8. \A d \in Clicks : Backed(d) => Backed(d)'
    BY <2>2, <2>3, <2>6 DEF Backed, Approved
  <2> QED
    BY <2>3, <2>4, <2>5, <2>6, <2>7, <2>8 DEF ClickFacts
<1>15. ASSUME NEW x \in Procs, FlushFails(x)
      PROVE  ClickFacts'
  BY <1>15, ApprovalAssumption
     DEF FlushFails, Goto, AfterFlush, durable, clickVars, history, ClickFacts, Backed,
         Approved, TypeOK, CopiesAreCurrent, Procs
<1>16. ASSUME NEW p \in Posts, SecondStage(p)
      PROVE  ClickFacts'
  <2>1. PICK final \in BOOLEAN, attempted \in BOOLEAN :
             man' = [man EXCEPT ![p] = Worked(man[p], final, attempted)]
    BY <1>16 DEF SecondStage
  <2>2. man[p] \in Manifest
    BY DEF TypeOK
  <2>3. \A q \in Posts : man'[q].stage = man[q].stage
    BY <2>1, <2>2, WorkedFields DEF TypeOK
  <2>4. UNCHANGED <<lock, pc, post, copy, action, result, did, moved>>
    BY <1>16 DEF SecondStage, clickVars, history
  <2>5. \A d \in Clicks : post[d] \in Posts
    BY DEF TypeOK, Procs
  <2>6. \A q \in Posts : StageOf(man'[q]) = StageOf(man[q])
    BY <2>3, SameStage
  <2>7. \A d \in Clicks : Backed(d) => Backed(d)'
    BY <2>3, <2>4, <2>5 DEF Backed, Approved
  <2> QED
    BY <2>4, <2>5, <2>6, <2>7 DEF ClickFacts
<1>17. ASSUME UNCHANGED vars
      PROVE  ClickFacts'
  BY <1>17
     DEF vars, durable, clickVars, history, ClickFacts, Backed, Approved, TypeOK,
         CopiesAreCurrent, Procs
<1> QED
  BY <1>1, <1>2, <1>3, <1>4, <1>5, <1>6, <1>7, <1>8, <1>9, <1>10, <1>11, <1>12, <1>13,
     <1>14, <1>15, <1>16, <1>17
     DEF Next, ClickStep, SweepStep, Flush, Procs

\* The card follows an approval.
LEMMA ApprovalsStep ==
    ASSUME TypeOK, CopiesAreCurrent, ClickFacts, Markers, Approvals, [Next]_vars
    PROVE  Approvals'
<1>1. ASSUME NEW c \in Clicks, NEW p \in Posts, NEW a \in Actions, Press(c, p, a)
      PROVE  Approvals'
  BY <1>1, ApprovalAssumption
     DEF Press, At, Goto, durable, Approvals, Approved, TypeOK, CopiesAreCurrent, Procs
<1>2. ASSUME NEW c \in Clicks, Enter(c)
      PROVE  Approvals'
  BY <1>2, ApprovalAssumption
     DEF Enter, At, Goto, Answer, durable, history, Approvals, Approved, TypeOK,
         CopiesAreCurrent, Procs
<1>3. ASSUME NEW c \in Clicks, Decide(c)
      PROVE  Approvals'
  BY <1>3, ApprovalAssumption
     DEF Decide, At, Answer, Goto, durable, history, Approvals, Approved, TypeOK,
         CopiesAreCurrent, Procs
<1>4. ASSUME NEW c \in Clicks, Persist(c)
      PROVE  Approvals'
  <2>1. PICK p \in Posts, from \in Stages, to \in Stages :
             /\ p = post[c] /\ lock[p] = c /\ man[p] \in Manifest /\ action[c] \in Actions
             /\ from = StageOf(man[p]) /\ from \notin {"REJECTED", "REVISION"}
             /\ ~LegacyUnsafe(man[p])
             /\ to = Target(action[c])
             /\ Moved(man[p], to) \in Manifest
             /\ man' = [man EXCEPT ![p] = Moved(man[p], to)]
             /\ copy' = [copy EXCEPT ![c] = Moved(man[p], to)]
             /\ moved' = moved \cup {<<p, from, to>>}
    BY <1>4, PersistIs
  <2>2. /\ man'[p].stage = to /\ man'[p].first
        /\ man'[p].final = man[p].final /\ man'[p].attempted = man[p].attempted
        /\ \A q \in Posts \ {p} : man'[q] = man[q]
    BY <2>1, MovedFields DEF TypeOK
  <2>3. card' = card /\ moved \subseteq moved'
    BY <1>4, <2>1 DEF Persist
  <2>4. \A q \in Posts : man'[q].attempted \/ man'[q].final => q \in card'
    BY <2>1, <2>2, <2>3 DEF Approvals, Approved
  <2>5. \A q \in Posts : q \in card' => man'[q].stage # "ABSENT" \/ man'[q].first
    BY <2>1, <2>2, <2>3 DEF Approvals, Approved
  <2>6. ASSUME NEW q \in Posts \ {p},
               man'[q].stage = "AWAITING" \/ (q \in card' /\ man'[q].stage # "ABSENT")
        PROVE  \E f \in Stages : <<q, f, "AWAITING">> \in moved'
    BY <2>2, <2>3, <2>6 DEF Approvals, Approved
  <2>7. ASSUME man'[p].stage = "AWAITING" \/ p \in card'
        PROVE  \E f \in Stages : <<p, f, "AWAITING">> \in moved'
    <3>1. CASE to = "AWAITING"
      BY <2>1, <3>1
    <3>2. CASE p \in card
      <4>1. man[p].stage # "ABSENT"
        BY <2>1, <3>2 DEF Approvals, Approved, LegacyUnsafe
      <4> QED BY <2>3, <3>2, <4>1 DEF Approvals, Approved
    <3> QED BY <2>2, <2>3, <2>7, <3>1, <3>2
  <2> QED
    BY <2>4, <2>5, <2>6, <2>7 DEF Approvals, Approved
<1>5. ASSUME NEW c \in Clicks, PersistFails(c)
      PROVE  Approvals'
  BY <1>5, ApprovalAssumption
     DEF PersistFails, At, Answer, Goto, durable, history, Approvals, Approved, TypeOK,
         CopiesAreCurrent, Procs
<1>6. ASSUME NEW c \in Clicks, Exit(c)
      PROVE  Approvals'
  BY <1>6, ApprovalAssumption
     DEF Exit, At, Ends, Goto, durable, clickVars, history, Approvals, Approved,
         TypeOK, CopiesAreCurrent, Procs
<1>7. ASSUME NEW c \in Clicks, Tell(c)
      PROVE  Approvals'
  <2>1. /\ c \in Procs /\ post[c] \in Posts /\ man' = man /\ moved' = moved
        /\ pc[c] = "reply"
    BY <1>7 DEF Tell, At, TypeOK, Procs
  <2>2. CASE card' = card
    BY <2>1, <2>2 DEF Approvals, Approved
  <2>3. CASE card' = card \cup {post[c]} /\ result[c] = "accepted" /\ action[c] = "approve"
    <3>1. Approved(post[c]) /\ man[post[c]].stage # "ABSENT"
      BY <2>1, <2>3 DEF ClickFacts, Backed
    <3> QED
      BY <2>1, <2>3, <3>1 DEF Approvals, Approved
  <2> QED
    BY <1>7, <2>2, <2>3 DEF Tell
<1>8. ASSUME NEW c \in Clicks, Dies(c)
      PROVE  Approvals'
  BY <1>8, ApprovalAssumption
     DEF Dies, Ends, Goto, Forget, durable, Approvals, Approved, TypeOK,
         CopiesAreCurrent, Procs
<1>9. ASSUME NEW s \in Sweeps, SweepStart(s)
      PROVE  Approvals'
  BY <1>9, ApprovalAssumption
     DEF SweepStart, At, Goto, durable, clickVars, history, Approvals, Approved,
         TypeOK, CopiesAreCurrent, Procs
<1>10. ASSUME NEW s \in Sweeps, SweepNext(s)
      PROVE  Approvals'
  BY <1>10, ApprovalAssumption
     DEF SweepNext, At, Goto, durable, clickVars, history, Approvals, Approved, TypeOK,
         CopiesAreCurrent, Procs
<1>11. ASSUME NEW s \in Sweeps, NEW p \in Posts, SweepTake(s, p)
      PROVE  Approvals'
  BY <1>11, ApprovalAssumption
     DEF SweepTake, At, Goto, durable, clickVars, history, Approvals, Approved, TypeOK,
         CopiesAreCurrent, Procs
<1>12. ASSUME NEW s \in Sweeps, SweepDies(s)
      PROVE  Approvals'
  BY <1>12, ApprovalAssumption
     DEF SweepDies, At, Ends, Goto, durable, clickVars, history, Approvals, Approved,
         TypeOK, CopiesAreCurrent, Procs
<1>13. ASSUME NEW x \in Procs, FlushRow(x)
      PROVE  Approvals'
  BY <1>13, ApprovalAssumption
     DEF FlushRow, At, Goto, clickVars, history, Approvals, Approved, TypeOK,
         CopiesAreCurrent, Procs
<1>14. ASSUME NEW x \in Procs, FlushClear(x)
      PROVE  Approvals'
  <2>1. PICK p \in Posts :
             /\ p = post[x] /\ lock[p] = x /\ man[p] \in Manifest
             /\ man[p].marker \in Decisions /\ Recorded(p, man[p])
             /\ Cleared(man[p]) \in Manifest
             /\ man' = [man EXCEPT ![p] = Cleared(man[p])]
             /\ copy' = [copy EXCEPT ![x] = Cleared(man[p])]
    BY <1>14, FlushClearIs
  <2>2. \A q \in Posts : /\ man'[q].stage = man[q].stage /\ man'[q].first = man[q].first
                         /\ man'[q].final = man[q].final /\ man'[q].attempted = man[q].attempted
    BY <2>1, ClearedFields DEF TypeOK
  <2>3. card' = card /\ moved' = moved
    BY <1>14 DEF FlushClear, history
  <2> QED
    BY <2>2, <2>3 DEF Approvals, Approved
<1>15. ASSUME NEW x \in Procs, FlushFails(x)
      PROVE  Approvals'
  BY <1>15, ApprovalAssumption
     DEF FlushFails, Goto, AfterFlush, durable, clickVars, history, Approvals,
         Approved, TypeOK, CopiesAreCurrent, Procs
<1>16. ASSUME NEW p \in Posts, SecondStage(p)
      PROVE  Approvals'
  <2>1. PICK final \in BOOLEAN, attempted \in BOOLEAN :
             man' = [man EXCEPT ![p] = Worked(man[p], final, attempted)]
    BY <1>16 DEF SecondStage
  <2>2. man[p] \in Manifest
    BY DEF TypeOK
  <2>3. /\ \A q \in Posts : man'[q].stage = man[q].stage
        /\ man'[p].first /\ \A q \in Posts \ {p} : man'[q] = man[q]
    BY <2>1, <2>2, WorkedFields DEF TypeOK
  <2>4. card' = card /\ moved' = moved /\ p \in card
    BY <1>16 DEF SecondStage, history
  <2> QED
    BY <2>3, <2>4 DEF Approvals, Approved
<1>17. ASSUME UNCHANGED vars
      PROVE  Approvals'
  BY <1>17
     DEF vars, durable, clickVars, history, Approvals, Approved, TypeOK,
         CopiesAreCurrent, Procs
<1> QED
  BY <1>1, <1>2, <1>3, <1>4, <1>5, <1>6, <1>7, <1>8, <1>9, <1>10, <1>11, <1>12, <1>13,
     <1>14, <1>15, <1>16, <1>17
     DEF Next, ClickStep, SweepStep, Flush, Procs

\* The present stage is never without its row or its marker.
LEMMA AuditStep ==
    ASSUME TypeOK, CopiesAreCurrent, ClickFacts, Markers, StageIsAudited, [Next]_vars
    PROVE  StageIsAudited'
<1>1. ASSUME NEW c \in Clicks, NEW p \in Posts, NEW a \in Actions, Press(c, p, a)
      PROVE  StageIsAudited'
  BY <1>1
     DEF Press, At, Goto, durable, StageIsAudited, TypeOK, Procs
<1>2. ASSUME NEW c \in Clicks, Enter(c)
      PROVE  StageIsAudited'
  BY <1>2
     DEF Enter, At, Goto, Answer, durable, history, StageIsAudited, TypeOK, Procs
<1>3. ASSUME NEW c \in Clicks, Decide(c)
      PROVE  StageIsAudited'
  BY <1>3
     DEF Decide, At, Answer, Goto, durable, history, StageIsAudited, TypeOK, Procs
<1>4. ASSUME NEW c \in Clicks, Persist(c)
      PROVE  StageIsAudited'
  <2>1. PICK p \in Posts, from \in Stages, to \in Stages :
             /\ p = post[c] /\ lock[p] = c /\ man[p] \in Manifest /\ action[c] \in Actions
             /\ from = StageOf(man[p]) /\ from \notin {"REJECTED", "REVISION"}
             /\ ~LegacyUnsafe(man[p])
             /\ to = Target(action[c])
             /\ Moved(man[p], to) \in Manifest
             /\ man' = [man EXCEPT ![p] = Moved(man[p], to)]
             /\ copy' = [copy EXCEPT ![c] = Moved(man[p], to)]
             /\ moved' = moved \cup {<<p, from, to>>}
    BY <1>4, PersistIs
  <2>2. /\ man'[p].stage = to /\ man'[p].marker = <<from, to>>
        /\ \A q \in Posts \ {p} : man'[q] = man[q]
    BY <2>1, MovedFields DEF TypeOK
  <2>3. rows' = rows /\ <<from, to>> # NoMarker
    BY <1>4, ApprovalAssumption DEF Persist, Decisions
  <2>4. man'[p].marker # NoMarker /\ man'[p].marker[2] = man'[p].stage
    BY <2>2, <2>3
  <2>5. ASSUME NEW q \in Posts \ {p}, man'[q].stage # "ABSENT"
        PROVE  \/ man'[q].marker # NoMarker /\ man'[q].marker[2] = man'[q].stage
               \/ \E f \in Stages : <<q, f, man'[q].stage>> \in rows'
    BY <2>2, <2>3, <2>5 DEF StageIsAudited
  <2> QED
    BY <2>4, <2>5 DEF StageIsAudited
<1>5. ASSUME NEW c \in Clicks, PersistFails(c)
      PROVE  StageIsAudited'
  BY <1>5
     DEF PersistFails, At, Answer, Goto, durable, history, StageIsAudited, TypeOK,
         Procs
<1>6. ASSUME NEW c \in Clicks, Exit(c)
      PROVE  StageIsAudited'
  BY <1>6
     DEF Exit, At, Ends, Goto, durable, clickVars, history, StageIsAudited, TypeOK,
         Procs
<1>7. ASSUME NEW c \in Clicks, Tell(c)
      PROVE  StageIsAudited'
  BY <1>7
     DEF Tell, At, Goto, Forget, StageIsAudited, TypeOK, Procs
<1>8. ASSUME NEW c \in Clicks, Dies(c)
      PROVE  StageIsAudited'
  BY <1>8
     DEF Dies, Ends, Goto, Forget, durable, StageIsAudited, TypeOK, Procs
<1>9. ASSUME NEW s \in Sweeps, SweepStart(s)
      PROVE  StageIsAudited'
  BY <1>9
     DEF SweepStart, At, Goto, durable, clickVars, history, StageIsAudited, TypeOK,
         Procs
<1>10. ASSUME NEW s \in Sweeps, SweepNext(s)
      PROVE  StageIsAudited'
  BY <1>10
     DEF SweepNext, At, Goto, durable, clickVars, history, StageIsAudited, TypeOK,
         Procs
<1>11. ASSUME NEW s \in Sweeps, NEW p \in Posts, SweepTake(s, p)
      PROVE  StageIsAudited'
  BY <1>11
     DEF SweepTake, At, Goto, durable, clickVars, history, StageIsAudited, TypeOK,
         Procs
<1>12. ASSUME NEW s \in Sweeps, SweepDies(s)
      PROVE  StageIsAudited'
  BY <1>12
     DEF SweepDies, At, Ends, Goto, durable, clickVars, history, StageIsAudited,
         TypeOK, Procs
<1>13. ASSUME NEW x \in Procs, FlushRow(x)
      PROVE  StageIsAudited'
  BY <1>13
     DEF FlushRow, At, Goto, clickVars, history, StageIsAudited, TypeOK, Procs
<1>14. ASSUME NEW x \in Procs, FlushClear(x)
      PROVE  StageIsAudited'
  <2>1. PICK p \in Posts :
             /\ p = post[x] /\ lock[p] = x /\ man[p] \in Manifest
             /\ man[p].marker \in Decisions /\ Recorded(p, man[p])
             /\ Cleared(man[p]) \in Manifest
             /\ man' = [man EXCEPT ![p] = Cleared(man[p])]
             /\ copy' = [copy EXCEPT ![x] = Cleared(man[p])]
    BY <1>14, FlushClearIs
  <2>2. /\ man'[p].stage = man[p].stage
        /\ \A q \in Posts \ {p} : man'[q] = man[q]
    BY <2>1, ClearedFields DEF TypeOK
  <2>3. rows' = rows
    BY <1>14 DEF FlushClear
  <2> QED
    BY <2>1, <2>2, <2>3 DEF StageIsAudited, Recorded
<1>15. ASSUME NEW x \in Procs, FlushFails(x)
      PROVE  StageIsAudited'
  BY <1>15
     DEF FlushFails, Goto, AfterFlush, durable, clickVars, history, StageIsAudited,
         TypeOK, Procs
<1>16. ASSUME NEW p \in Posts, SecondStage(p)
      PROVE  StageIsAudited'
  <2>1. PICK final \in BOOLEAN, attempted \in BOOLEAN :
             man' = [man EXCEPT ![p] = Worked(man[p], final, attempted)]
    BY <1>16 DEF SecondStage
  <2>2. man[p] \in Manifest
    BY DEF TypeOK
  <2>3. \A q \in Posts : man'[q].stage = man[q].stage /\ man'[q].marker = man[q].marker
    BY <2>1, <2>2, WorkedFields DEF TypeOK
  <2>4. rows' = rows
    BY <1>16 DEF SecondStage
  <2> QED
    BY <2>3, <2>4 DEF StageIsAudited
<1>17. ASSUME UNCHANGED vars
      PROVE  StageIsAudited'
  BY <1>17
     DEF vars, durable, clickVars, history, StageIsAudited, TypeOK, Procs
<1> QED
  BY <1>1, <1>2, <1>3, <1>4, <1>5, <1>6, <1>7, <1>8, <1>9, <1>10, <1>11, <1>12, <1>13,
     <1>14, <1>15, <1>16, <1>17
     DEF Next, ClickStep, SweepStep, Flush, Procs

\* A row is appended from a marker only.
LEMMA RowsStep ==
    ASSUME TypeOK, CopiesAreCurrent, Markers, RowsHappened, [Next]_vars
    PROVE  RowsHappened'
<1>1. ASSUME NEW c \in Clicks, NEW p \in Posts, NEW a \in Actions, Press(c, p, a)
      PROVE  RowsHappened'
  BY <1>1
     DEF Press, At, Goto, durable, RowsHappened
<1>2. ASSUME NEW c \in Clicks, Enter(c)
      PROVE  RowsHappened'
  BY <1>2
     DEF Enter, At, Goto, Answer, durable, history, RowsHappened
<1>3. ASSUME NEW c \in Clicks, Decide(c)
      PROVE  RowsHappened'
  BY <1>3
     DEF Decide, At, Answer, Goto, durable, history, RowsHappened
<1>4. ASSUME NEW c \in Clicks, Persist(c)
      PROVE  RowsHappened'
  BY <1>4
     DEF Persist, At, Goto, RowsHappened
<1>5. ASSUME NEW c \in Clicks, PersistFails(c)
      PROVE  RowsHappened'
  BY <1>5
     DEF PersistFails, At, Answer, Goto, durable, history, RowsHappened
<1>6. ASSUME NEW c \in Clicks, Exit(c)
      PROVE  RowsHappened'
  BY <1>6
     DEF Exit, At, Ends, Goto, durable, clickVars, history, RowsHappened
<1>7. ASSUME NEW c \in Clicks, Tell(c)
      PROVE  RowsHappened'
  BY <1>7
     DEF Tell, At, Goto, Forget, RowsHappened
<1>8. ASSUME NEW c \in Clicks, Dies(c)
      PROVE  RowsHappened'
  BY <1>8
     DEF Dies, Ends, Goto, Forget, durable, RowsHappened
<1>9. ASSUME NEW s \in Sweeps, SweepStart(s)
      PROVE  RowsHappened'
  BY <1>9
     DEF SweepStart, At, Goto, durable, clickVars, history, RowsHappened
<1>10. ASSUME NEW s \in Sweeps, SweepNext(s)
      PROVE  RowsHappened'
  BY <1>10
     DEF SweepNext, At, Goto, durable, clickVars, history, RowsHappened
<1>11. ASSUME NEW s \in Sweeps, NEW p \in Posts, SweepTake(s, p)
      PROVE  RowsHappened'
  BY <1>11
     DEF SweepTake, At, Goto, durable, clickVars, history, RowsHappened
<1>12. ASSUME NEW s \in Sweeps, SweepDies(s)
      PROVE  RowsHappened'
  BY <1>12
     DEF SweepDies, At, Ends, Goto, durable, clickVars, history, RowsHappened
<1>13. ASSUME NEW x \in Procs, FlushRow(x)
      PROVE  RowsHappened'
  <2>1. PICK p \in Posts :
             /\ p = post[x] /\ lock[p] = x /\ copy[x] = man[p] /\ man[p] \in Manifest
             /\ man[p].marker # NoMarker /\ man[p].marker \in Decisions
             /\ rows' = IF Recorded(p, man[p]) THEN rows ELSE rows \cup {RowOf(p, man[p])}
    BY <1>13, FlushRowIs
  <2>2. RowOf(p, man[p]) \in moved
    BY <2>1 DEF Markers
  <2>3. moved' = moved
    BY <1>13 DEF FlushRow, history
  <2> QED
    BY <2>1, <2>2, <2>3 DEF RowsHappened
<1>14. ASSUME NEW x \in Procs, FlushClear(x)
      PROVE  RowsHappened'
  BY <1>14
     DEF FlushClear, At, Goto, AfterFlush, clickVars, history, RowsHappened
<1>15. ASSUME NEW x \in Procs, FlushFails(x)
      PROVE  RowsHappened'
  BY <1>15
     DEF FlushFails, Goto, AfterFlush, durable, clickVars, history, RowsHappened
<1>16. ASSUME NEW p \in Posts, SecondStage(p)
      PROVE  RowsHappened'
  BY <1>16
     DEF SecondStage, clickVars, history, RowsHappened
<1>17. ASSUME UNCHANGED vars
      PROVE  RowsHappened'
  BY <1>17
     DEF vars, durable, clickVars, history, RowsHappened
<1> QED
  BY <1>1, <1>2, <1>3, <1>4, <1>5, <1>6, <1>7, <1>8, <1>9, <1>10, <1>11, <1>12, <1>13,
     <1>14, <1>15, <1>16, <1>17
     DEF Next, ClickStep, SweepStep, Flush, Procs

\* What was promised is a terminal stage, and no step moves it.
LEMMA PromisesStep ==
    ASSUME TypeOK, CopiesAreCurrent, ClickFacts, Markers, AcceptedStands, [Next]_vars
    PROVE  AcceptedStands'
<1>1. ASSUME NEW c \in Clicks, NEW p \in Posts, NEW a \in Actions, Press(c, p, a)
      PROVE  AcceptedStands'
  BY <1>1
     DEF Press, At, Goto, durable, AcceptedStands, TypeOK
<1>2. ASSUME NEW c \in Clicks, Enter(c)
      PROVE  AcceptedStands'
  BY <1>2
     DEF Enter, At, Goto, Answer, durable, history, AcceptedStands, TypeOK
<1>3. ASSUME NEW c \in Clicks, Decide(c)
      PROVE  AcceptedStands'
  BY <1>3
     DEF Decide, At, Answer, Goto, durable, history, AcceptedStands, TypeOK
<1>4. ASSUME NEW c \in Clicks, Persist(c)
      PROVE  AcceptedStands'
  <2>1. PICK p \in Posts, from \in Stages, to \in Stages :
             /\ p = post[c] /\ lock[p] = c /\ man[p] \in Manifest /\ action[c] \in Actions
             /\ from = StageOf(man[p]) /\ from \notin {"REJECTED", "REVISION"}
             /\ ~LegacyUnsafe(man[p])
             /\ to = Target(action[c])
             /\ Moved(man[p], to) \in Manifest
             /\ man' = [man EXCEPT ![p] = Moved(man[p], to)]
             /\ copy' = [copy EXCEPT ![c] = Moved(man[p], to)]
             /\ moved' = moved \cup {<<p, from, to>>}
    BY <1>4, PersistIs
  <2>2. \A q \in Posts \ {p} : man'[q] = man[q]
    BY <2>1 DEF TypeOK
  <2>3. man[p].stage \notin {"REJECTED", "REVISION"}
    BY <2>1, ManifestFields
  <2>4. promised' = promised
    BY <1>4 DEF Persist
  <2> QED
    BY <2>1, <2>2, <2>3, <2>4, PromisesTyped DEF AcceptedStands
<1>5. ASSUME NEW c \in Clicks, PersistFails(c)
      PROVE  AcceptedStands'
  BY <1>5
     DEF PersistFails, At, Answer, Goto, durable, history, AcceptedStands, TypeOK
<1>6. ASSUME NEW c \in Clicks, Exit(c)
      PROVE  AcceptedStands'
  BY <1>6
     DEF Exit, At, Ends, Goto, durable, clickVars, history, AcceptedStands, TypeOK
<1>7. ASSUME NEW c \in Clicks, Tell(c)
      PROVE  AcceptedStands'
  <2>1. c \in Procs /\ post[c] \in Posts /\ man' = man /\ pc[c] = "reply"
    BY <1>7 DEF Tell, At, TypeOK, Procs
  <2>2. CASE promised' = promised
    BY <2>1, <2>2 DEF AcceptedStands
  <2>3. CASE /\ result[c] = "accepted" /\ action[c] \in {"reject", "revise"}
             /\ promised' = promised \cup {<<post[c], action[c]>>}
    <3>1. man[post[c]].stage = Target(action[c])
      BY <2>1, <2>3 DEF ClickFacts, Backed
    <3> QED
      BY <2>1, <2>3, <3>1 DEF AcceptedStands
  <2> QED
    BY <1>7, <2>2, <2>3 DEF Tell
<1>8. ASSUME NEW c \in Clicks, Dies(c)
      PROVE  AcceptedStands'
  BY <1>8
     DEF Dies, Ends, Goto, Forget, durable, AcceptedStands, TypeOK
<1>9. ASSUME NEW s \in Sweeps, SweepStart(s)
      PROVE  AcceptedStands'
  BY <1>9
     DEF SweepStart, At, Goto, durable, clickVars, history, AcceptedStands, TypeOK
<1>10. ASSUME NEW s \in Sweeps, SweepNext(s)
      PROVE  AcceptedStands'
  BY <1>10
     DEF SweepNext, At, Goto, durable, clickVars, history, AcceptedStands, TypeOK
<1>11. ASSUME NEW s \in Sweeps, NEW p \in Posts, SweepTake(s, p)
      PROVE  AcceptedStands'
  BY <1>11
     DEF SweepTake, At, Goto, durable, clickVars, history, AcceptedStands, TypeOK
<1>12. ASSUME NEW s \in Sweeps, SweepDies(s)
      PROVE  AcceptedStands'
  BY <1>12
     DEF SweepDies, At, Ends, Goto, durable, clickVars, history, AcceptedStands, TypeOK
<1>13. ASSUME NEW x \in Procs, FlushRow(x)
      PROVE  AcceptedStands'
  BY <1>13
     DEF FlushRow, At, Goto, clickVars, history, AcceptedStands, TypeOK
<1>14. ASSUME NEW x \in Procs, FlushClear(x)
      PROVE  AcceptedStands'
  <2>1. PICK p \in Posts :
             /\ p = post[x] /\ lock[p] = x /\ man[p] \in Manifest
             /\ man[p].marker \in Decisions /\ Recorded(p, man[p])
             /\ Cleared(man[p]) \in Manifest
             /\ man' = [man EXCEPT ![p] = Cleared(man[p])]
             /\ copy' = [copy EXCEPT ![x] = Cleared(man[p])]
    BY <1>14, FlushClearIs
  <2>2. \A q \in Posts : man'[q].stage = man[q].stage
    BY <2>1, ClearedFields DEF TypeOK
  <2>3. promised' = promised
    BY <1>14 DEF FlushClear, history
  <2> QED
    BY <2>2, <2>3, PromisesTyped DEF AcceptedStands
<1>15. ASSUME NEW x \in Procs, FlushFails(x)
      PROVE  AcceptedStands'
  BY <1>15
     DEF FlushFails, Goto, AfterFlush, durable, clickVars, history, AcceptedStands,
         TypeOK
<1>16. ASSUME NEW p \in Posts, SecondStage(p)
      PROVE  AcceptedStands'
  <2>1. PICK final \in BOOLEAN, attempted \in BOOLEAN :
             man' = [man EXCEPT ![p] = Worked(man[p], final, attempted)]
    BY <1>16 DEF SecondStage
  <2>2. man[p] \in Manifest
    BY DEF TypeOK
  <2>3. \A q \in Posts : man'[q].stage = man[q].stage
    BY <2>1, <2>2, WorkedFields DEF TypeOK
  <2>4. promised' = promised
    BY <1>16 DEF SecondStage, history
  <2> QED
    BY <2>3, <2>4, PromisesTyped DEF AcceptedStands
<1>17. ASSUME UNCHANGED vars
      PROVE  AcceptedStands'
  BY <1>17
     DEF vars, durable, clickVars, history, AcceptedStands, TypeOK
<1> QED
  BY <1>1, <1>2, <1>3, <1>4, <1>5, <1>6, <1>7, <1>8, <1>9, <1>10, <1>11, <1>12, <1>13,
     <1>14, <1>15, <1>16, <1>17
     DEF Next, ClickStep, SweepStep, Flush, Procs

\* No step moves a terminal stage.
LEMMA DecisionsStep ==
    ASSUME TypeOK, CopiesAreCurrent, ClickFacts, Markers, [Next]_vars
    PROVE  TerminalStays
<1>1. ASSUME NEW c \in Clicks, NEW p \in Posts, NEW a \in Actions, Press(c, p, a)
      PROVE  TerminalStays
  BY <1>1
     DEF Press, At, Goto, durable, TerminalStays
<1>2. ASSUME NEW c \in Clicks, Enter(c)
      PROVE  TerminalStays
  BY <1>2
     DEF Enter, At, Goto, Answer, durable, history, TerminalStays
<1>3. ASSUME NEW c \in Clicks, Decide(c)
      PROVE  TerminalStays
  BY <1>3
     DEF Decide, At, Answer, Goto, durable, history, TerminalStays
<1>4. ASSUME NEW c \in Clicks, Persist(c)
      PROVE  TerminalStays
  <2>1. PICK p \in Posts, from \in Stages, to \in Stages :
             /\ p = post[c] /\ lock[p] = c /\ man[p] \in Manifest /\ action[c] \in Actions
             /\ from = StageOf(man[p]) /\ from \notin {"REJECTED", "REVISION"}
             /\ ~LegacyUnsafe(man[p])
             /\ to = Target(action[c])
             /\ Moved(man[p], to) \in Manifest
             /\ man' = [man EXCEPT ![p] = Moved(man[p], to)]
             /\ copy' = [copy EXCEPT ![c] = Moved(man[p], to)]
             /\ moved' = moved \cup {<<p, from, to>>}
    BY <1>4, PersistIs
  <2>2. \A q \in Posts \ {p} : man'[q] = man[q]
    BY <2>1 DEF TypeOK
  <2>3. man[p].stage \notin {"REJECTED", "REVISION"}
    BY <2>1, ManifestFields
  <2> QED
    BY <2>2, <2>3 DEF TerminalStays
<1>5. ASSUME NEW c \in Clicks, PersistFails(c)
      PROVE  TerminalStays
  BY <1>5
     DEF PersistFails, At, Answer, Goto, durable, history, TerminalStays
<1>6. ASSUME NEW c \in Clicks, Exit(c)
      PROVE  TerminalStays
  BY <1>6
     DEF Exit, At, Ends, Goto, durable, clickVars, history, TerminalStays
<1>7. ASSUME NEW c \in Clicks, Tell(c)
      PROVE  TerminalStays
  BY <1>7
     DEF Tell, At, Goto, Forget, TerminalStays
<1>8. ASSUME NEW c \in Clicks, Dies(c)
      PROVE  TerminalStays
  BY <1>8
     DEF Dies, Ends, Goto, Forget, durable, TerminalStays
<1>9. ASSUME NEW s \in Sweeps, SweepStart(s)
      PROVE  TerminalStays
  BY <1>9
     DEF SweepStart, At, Goto, durable, clickVars, history, TerminalStays
<1>10. ASSUME NEW s \in Sweeps, SweepNext(s)
      PROVE  TerminalStays
  BY <1>10
     DEF SweepNext, At, Goto, durable, clickVars, history, TerminalStays
<1>11. ASSUME NEW s \in Sweeps, NEW p \in Posts, SweepTake(s, p)
      PROVE  TerminalStays
  BY <1>11
     DEF SweepTake, At, Goto, durable, clickVars, history, TerminalStays
<1>12. ASSUME NEW s \in Sweeps, SweepDies(s)
      PROVE  TerminalStays
  BY <1>12
     DEF SweepDies, At, Ends, Goto, durable, clickVars, history, TerminalStays
<1>13. ASSUME NEW x \in Procs, FlushRow(x)
      PROVE  TerminalStays
  BY <1>13
     DEF FlushRow, At, Goto, clickVars, history, TerminalStays
<1>14. ASSUME NEW x \in Procs, FlushClear(x)
      PROVE  TerminalStays
  <2>1. PICK p \in Posts :
             /\ p = post[x] /\ lock[p] = x /\ man[p] \in Manifest
             /\ man[p].marker \in Decisions /\ Recorded(p, man[p])
             /\ Cleared(man[p]) \in Manifest
             /\ man' = [man EXCEPT ![p] = Cleared(man[p])]
             /\ copy' = [copy EXCEPT ![x] = Cleared(man[p])]
    BY <1>14, FlushClearIs
  <2> QED
    BY <2>1, ClearedFields DEF TypeOK, TerminalStays
<1>15. ASSUME NEW x \in Procs, FlushFails(x)
      PROVE  TerminalStays
  BY <1>15
     DEF FlushFails, Goto, AfterFlush, durable, clickVars, history, TerminalStays
<1>16. ASSUME NEW p \in Posts, SecondStage(p)
      PROVE  TerminalStays
  <2>1. PICK final \in BOOLEAN, attempted \in BOOLEAN :
             man' = [man EXCEPT ![p] = Worked(man[p], final, attempted)]
    BY <1>16 DEF SecondStage
  <2>2. man[p] \in Manifest
    BY DEF TypeOK
  <2> QED
    BY <2>1, <2>2, WorkedFields DEF TypeOK, TerminalStays
<1>17. ASSUME UNCHANGED vars
      PROVE  TerminalStays
  BY <1>17
     DEF vars, durable, clickVars, history, TerminalStays
<1> QED
  BY <1>1, <1>2, <1>3, <1>4, <1>5, <1>6, <1>7, <1>8, <1>9, <1>10, <1>11, <1>12, <1>13,
     <1>14, <1>15, <1>16, <1>17
     DEF Next, ClickStep, SweepStep, Flush, Procs

-----------------------------------------------------------------------------
(* The invariant and its theorems *)

LEMMA InitIInv == Init => IInv
<1> SUFFICES ASSUME Init PROVE IInv
  OBVIOUS
<1> DEFINE Old == [FreshManifest EXCEPT !.first = TRUE]
<1>1. /\ FreshManifest \in Manifest /\ FreshManifest.stage = "ABSENT"
      /\ FreshManifest.marker = NoMarker
      /\ ~FreshManifest.first /\ ~FreshManifest.final /\ ~FreshManifest.attempted
  BY DEF FreshManifest, Manifest
<1>2. /\ Old \in Manifest /\ Old.stage = "ABSENT" /\ Old.marker = NoMarker
      /\ Old.first /\ ~Old.final /\ ~Old.attempted
  BY DEF FreshManifest, Manifest
<1> HIDE DEF Old
<1>3. \A p \in Posts : man[p] \in {FreshManifest, Old}
  BY DEF Init, Old
<1>4. \A p \in Posts : /\ man[p] \in Manifest /\ man[p].stage = "ABSENT"
                       /\ man[p].marker = NoMarker /\ ~man[p].final /\ ~man[p].attempted
                       /\ p \in card => man[p].first
  <2>1. card = {p \in Posts : man[p].first}
    BY DEF Init
  <2> QED BY <1>1, <1>2, <1>3, <2>1
<1>5. TypeOK
  <2>1. man \in [Posts -> Manifest]
    BY <1>1, <1>2 DEF Init, Old
  <2>2. card \subseteq Posts /\ rows = {} /\ moved = {} /\ promised = {}
    BY DEF Init
  <2>3. lock \in [Posts -> Procs \cup {Nobody}] /\ todo \in [Sweeps -> SUBSET Posts]
    BY DEF Init
  <2>4. /\ pc \in [Procs -> {"idle", "spawned", "decide", "persist", "row", "clear",
                             "exit", "reply", "next", "take"}]
        /\ copy \in [Procs -> Manifest] /\ did \in [Clicks -> BOOLEAN]
    BY <1>1 DEF Init
  <2>5. action \in [Clicks -> Actions] /\ result \in [Clicks -> Results]
    BY DEF Init, Actions, Results
  <2>6. post \in [Procs -> Posts]
    <3>1. (CHOOSE p \in Posts : TRUE) \in Posts
      BY ApprovalAssumption
    <3> QED BY <3>1 DEF Init
  <2> QED BY <2>1, <2>2, <2>3, <2>4, <2>5, <2>6 DEF TypeOK
<1>6. \A x \in Procs : pc[x] = "idle"
  BY DEF Init
<1>7. \A c \in Clicks : c \in Procs /\ result[c] = "none" /\ ~did[c]
  BY DEF Init, Procs
<1>8. CopiesAreCurrent /\ Markers
  BY <1>4, <1>6 DEF CopiesAreCurrent, Markers
<1>9. ClickFacts
  BY <1>6, <1>7 DEF ClickFacts
<1>10. Approvals
  BY <1>4 DEF Approvals
<1>11. StageIsAudited
  BY <1>4 DEF StageIsAudited
<1>12. RowsHappened /\ AcceptedStands
  BY DEF Init, RowsHappened, AcceptedStands
<1>13. AnswersAreHonest
  BY <1>6, <1>7 DEF AnswersAreHonest, At
<1> QED BY <1>5, <1>8, <1>9, <1>10, <1>11, <1>12, <1>13 DEF IInv

LEMMA NextIInv ==
    ASSUME IInv, [Next]_vars
    PROVE  IInv'
<1>1. /\ TypeOK /\ CopiesAreCurrent /\ Markers /\ ClickFacts /\ Approvals
      /\ StageIsAudited /\ RowsHappened /\ AcceptedStands
  BY DEF IInv
<1>2. TypeOK'
  BY <1>1, TypeStep
<1>3. CopiesAreCurrent' /\ Markers'
  BY <1>1, CopiesStep, MarkersStep
<1>4. ClickFacts'
  BY <1>1, ClickFactsStep
<1>5. Approvals' /\ StageIsAudited'
  BY <1>1, ApprovalsStep, AuditStep
<1>6. RowsHappened' /\ AcceptedStands'
  BY <1>1, RowsStep, PromisesStep
<1>7. AnswersAreHonest'
  BY <1>4 DEF ClickFacts, AnswersAreHonest, At
<1> QED BY <1>2, <1>3, <1>4, <1>5, <1>6, <1>7 DEF IInv

\* The inductive invariant of the first-stage decision holds for any number of
\* posts, simultaneous clicks and sweeps, wherever a process is killed.
THEOREM Invariance == Spec => []IInv
BY InitIInv, NextIInv, PTL DEF Spec

\* Every variable of approval_durable's world keeps its type; the stage on disk
\* is one that approval_stage accepts.
THEOREM TypesHold == Spec => []TypeOK
<1>1. IInv => TypeOK
  BY DEF IInv
<1> QED BY <1>1, Invariance, PTL

\* The stage a post is in always has its ledger row, or the marker from which
\* a later click or the sweep will append it.
THEOREM AuditIsKept == Spec => []StageIsAudited
<1>1. IInv => StageIsAudited
  BY DEF IInv
<1> QED BY <1>1, Invariance, PTL

\* No row of the ledger tells of a stage move that _persist_transition did not
\* commit.
THEOREM LedgerInventsNothing == Spec => []RowsHappened
<1>1. IInv => RowsHappened
  BY DEF IInv
<1> QED BY <1>1, Invariance, PTL

\* A rejection or a revision request the owner was told is accepted stays on
\* disk, whatever is clicked, swept or killed afterwards.
THEOREM PromisesAreKept == Spec => []AcceptedStands
<1>1. IInv => AcceptedStands
  BY DEF IInv
<1> QED BY <1>1, Invariance, PTL

\* A refusal changed nothing, and an acceptance is on disk while it is sent.
THEOREM Honesty == Spec => []AnswersAreHonest
<1>1. IInv => AnswersAreHonest
  BY DEF IInv
<1> QED BY <1>1, Invariance, PTL

\* A post whose single publication attempt was consumed was approved once, but
\* for old manifests without a stage.
THEOREM ApprovedFirst == Spec => []PublicationWasApproved
<1>1. IInv => PublicationWasApproved
  <2> SUFFICES ASSUME IInv, NEW p \in Posts, man[p].attempted, man[p].stage # "ABSENT"
               PROVE  Approved(p)
    BY DEF PublicationWasApproved
  <2> QED BY DEF IInv, Approvals
<1> QED BY <1>1, Invariance, PTL

\* No step takes a post out of rejection or revision.
THEOREM TerminalForEver == Spec => DecisionsStand
<1>1. IInv /\ [Next]_vars => [TerminalStays]_vars
  BY DecisionsStep DEF IInv
<1> QED BY <1>1, Invariance, PTL DEF Spec, DecisionsStand
=============================================================================
