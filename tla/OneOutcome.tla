----------------------------- MODULE OneOutcome -----------------------------
(***************************************************************************)
(* What NullOne promises the operator of its scheduled runs, with no       *)
(* process, lock or file in it: an occurrence has one outcome, which stays *)
(* whatever wakes it again; a failure, and nothing else, is reserved for   *)
(* an alert, once; and the alert leaves at most once, after that.          *)
(* nullone_run_outcome.py:618-686 and nullone_failure_notify.py:472-613    *)
(* are where the promise is kept; ScheduledRuns implements it.             *)
(***************************************************************************)
EXTENDS Naturals

CONSTANTS
    Runs,                   \* occurrences of the scheduled workflows
    Outcomes, Failures,     \* what may be persisted, and what is told
    None

VARIABLES
    outcome,    \* [Runs -> Outcomes \cup {None}]
    reserved,   \* runs whose alert is reserved
    alerts      \* [Runs -> alerts that left]

vars == <<outcome, reserved, alerts>>

Init ==
    /\ outcome = [r \in Runs |-> None]
    /\ reserved = {}
    /\ alerts = [r \in Runs |-> 0]

\* The first outcome stands.
Conclude(r) ==
    /\ outcome[r] = None
    /\ outcome'[r] \in Outcomes
    /\ outcome' = [outcome EXCEPT ![r] = outcome'[r]]
    /\ UNCHANGED <<reserved, alerts>>

\* A failure is to be told, and nobody tells it yet.
Reserve(r) ==
    /\ outcome[r] \in Failures /\ r \notin reserved
    /\ reserved' = reserved \cup {r}
    /\ UNCHANGED <<outcome, alerts>>

Alert(r) ==
    /\ r \in reserved /\ alerts[r] = 0
    /\ alerts' = [alerts EXCEPT ![r] = 1]
    /\ UNCHANGED <<outcome, reserved>>

Next == \E r \in Runs : Conclude(r) \/ Reserve(r) \/ Alert(r)

Spec == Init /\ [][Next]_vars
=============================================================================
