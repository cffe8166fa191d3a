------------------------ MODULE AtMostOncePublication ------------------------
(***************************************************************************)
(* What the second-stage publication of NullOne promises, with no process, *)
(* file or network in it: a post is owned by at most one publication       *)
(* attempt, the provider's consequential call is made at most once and     *)
(* only for an owned post, and what is recorded about the outcome is       *)
(* written once, except that "still publishing" may later be resolved.     *)
(* docs/ARCHITECTURE.md:25 and docs/deployment/89-...-handoff.md:55-63     *)
(* state the promise; FinalPublish is shown to implement it.               *)
(***************************************************************************)
EXTENDS Naturals

CONSTANT Posts

VARIABLES
    owned,      \* posts whose one attempt is consumed
    calls,      \* [Posts -> number of consequential provider calls]
    outcome     \* [Posts -> what is recorded about the publication]

vars == <<owned, calls, outcome>>

\* The outcomes a call may be recorded with; only PUBLISHING is provisional.
Final == {"PUBLISHED", "FAILED", "CHECK_REQUIRED", "READBACK_FAILED", "UNKNOWN"}
Recorded == Final \cup {"PUBLISHING"}

Init ==
    /\ owned = {}
    /\ calls = [p \in Posts |-> 0]
    /\ outcome = [p \in Posts |-> "NOT_REQUESTED"]

\* The attempt is consumed, durably, before anything leaves the machine.
Own(p) ==
    /\ p \notin owned
    /\ owned' = owned \cup {p}
    /\ outcome' = [outcome EXCEPT ![p] = "PUBLISH_IN_FLIGHT"]
    /\ UNCHANGED calls

Call(p) ==
    /\ p \in owned
    /\ calls[p] = 0
    /\ calls' = [calls EXCEPT ![p] = 1]
    /\ UNCHANGED <<owned, outcome>>

\* The result of a call, once.
Record(p) ==
    /\ calls[p] = 1
    /\ outcome[p] = "PUBLISH_IN_FLIGHT"
    /\ \E result \in Recorded : outcome' = [outcome EXCEPT ![p] = result]
    /\ UNCHANGED <<owned, calls>>

\* Provider truth that arrives later may only settle a provisional outcome.
Resolve(p) ==
    /\ outcome[p] = "PUBLISHING"
    /\ \E result \in {"PUBLISHED", "FAILED"} :
           outcome' = [outcome EXCEPT ![p] = result]
    /\ UNCHANGED <<owned, calls>>

Next == \E p \in Posts : Own(p) \/ Call(p) \/ Record(p) \/ Resolve(p)

Spec == Init /\ [][Next]_vars
=============================================================================
