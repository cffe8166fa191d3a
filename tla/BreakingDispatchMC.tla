------------------------- MODULE BreakingDispatchMC -------------------------
(* A small instance of BreakingDispatch for TLC. *)
EXTENDS BreakingDispatch, TLC

CONSTANTS o1, o2, c1, c2, Op

\* A verified product claim of exceptional severity that both formats would suit.
Main == [feed |-> TRUE, carousel |-> TRUE, multi |-> TRUE, single |-> FALSE]
Base == [cand |-> c1, announced |-> {"a"}, product |-> None, url |-> None,
         claim |-> "x", delta |-> FALSE, verified |-> TRUE,
         severity |-> "EXCEPTIONAL_BREAKING", covered |-> FALSE, safe |-> TRUE,
         main |-> Main]

StoryOnly == [Base EXCEPT !.severity = "MATERIAL_BREAKING", !.main = None]
FollowUp == [Base EXCEPT !.cand = c2, !.claim = "y", !.delta = TRUE, !.main.feed = FALSE]

\* A second scan judges the same development otherwise, or finds it as another
\* candidate, or finds a follow-up of it.
MCScans == {o1 :> StoryOnly @@ o2 :> [StoryOnly EXCEPT !.severity = "EXCEPTIONAL_BREAKING"],
            o1 :> Base @@ o2 :> [StoryOnly EXCEPT !.cand = c2],
            o1 :> Base @@ o2 :> FollowUp}

NoRows == c1 :> None @@ c2 :> None
Empty == [ledger |-> NoRows, queue |-> NoRows, topics |-> <<>>, proven |-> TRUE]
MCHistories ==
    {Empty,
     [Empty EXCEPT !.queue = c1 :> "READY" @@ c2 :> None],
     [Empty EXCEPT !.topics = <<[event |-> <<"announcement", {"a"}>>, claim |-> "z",
                                 status |-> "PUBLISHED"]>>]}
=============================================================================
