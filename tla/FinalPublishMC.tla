--------------------------- MODULE FinalPublishMC ---------------------------
(* Small instances of FinalPublish for TLC. *)
EXTENDS FinalPublish, TLC

CONSTANTS a, b, i1, i2

\* Every authorization is for post a.
OnePost == (i1 :> a) @@ (i2 :> a)

\* A single authorization.
OneAuthorization == (i1 :> a)

\* One authorization for each of the two posts.
TwoPosts == (i1 :> a) @@ (i2 :> b)

InstanceSymmetry == Permutations(Instances)

\* Exchanging the two posts together with their authorizations.
PostSymmetry == {(a :> b) @@ (b :> a) @@ (i1 :> i2) @@ (i2 :> i1)}

\* What the next steps depend on in an instance without Story posts: the history
\* is left out, the lock tells which post a reader works on, and the plan only
\* matters for a receipt being settled.
CurrentPlan == [b0 \in Booters |-> IF bcur[b0] = NoInstance THEN "ABANDONED" ELSE plan[b0]]
WithoutHistory == <<man, rcpt, ledger, queue, lock, daemonVars, todo, bcur, CurrentPlan,
                    rpc, rman, rnew, rtodo, rq, providerVars>>
=============================================================================
