------------------------------ MODULE ScheduledMC ------------------------------
\* What the scheduler starts: the three workflows, and the Breaking radar with
\* the sweep of its spool.  They share no file, so a behaviour has wake-ups of
\* the workflows or cycles of the radar: running both would add no new state of
\* either.
\* A two-slot Story day: a Morning woken twice, two Story slots, a Story before
\* its Morning, a Story of the day after, and Analytics early, due and repeated.
EXTENDS ScheduledRuns, BreakingSpool, TLC
CONSTANTS w1, w2, St, c1, c2, v1, v2

ASSUME SpoolBounds == SpoolAssumption

MCSlots == "morning" :> {1} @@ "story" :> {2, 3} @@ "analytics" :> {1}
Call(job, at) == [job |-> job, at |-> at]
Ready(c) == [cand |-> c, status |-> "READY", story |-> TRUE]
Other(c, status) == [cand |-> c, status |-> status, story |-> FALSE]
MCHandoffs == {<<>>, <<Other(c1, "DEFERRED")>>, <<Ready(c1), Ready(c2)>>,
               <<Ready(c2), Other(c1, "NEW")>>}
MCAgendas == {
  <<>>,
  <<Call("morning", 1), Call("morning", 1), Call("story", 2)>>,
  <<Call("morning", 1), Call("story", 2), Call("story", 3)>>,
  <<Call("story", 2), Call("morning", 2), Call("story", 2)>>,
  <<Call("morning", 1), Call("story", 2), Call("story", 6)>>,
  <<Call("analytics", 0), Call("analytics", 1), Call("analytics", 1)>>}

\* Nothing of interest, one development, or two of which one was known otherwise.
MCAnswers == {[items |-> {}, version |-> Absent], [items |-> {c1}, version |-> v1],
              [items |-> {c1, c2}, version |-> v2]}

MCInit == Init /\ SpoolInit /\ (agenda = <<>> <=> cycles > 0)
MCNext == \/ Next /\ UNCHANGED spoolvars
          \/ SpoolNext /\ UNCHANGED vars
MCSpec == MCInit /\ [][MCNext]_<<vars, spoolvars>> /\ WF_vars(Progress)
=============================================================================
