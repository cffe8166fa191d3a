--------------------------- MODULE DraftFactoryMC ---------------------------
(* Small instances of DraftFactory for TLC. *)
EXTENDS DraftFactory, TLC

CONSTANTS c1, c2

Plain == [shape |-> "SINGLE_FACT", beats |-> 1, breaking |-> FALSE,
          verified |-> TRUE, weak |-> FALSE, low |-> FALSE, subject |-> FALSE,
          developing |-> FALSE, grounded |-> FALSE, official |-> FALSE,
          screenshot |-> FALSE, ontopic |-> FALSE, quality |-> FALSE,
          dataviz |-> FALSE]
Grounded == [Plain EXCEPT !.grounded = TRUE]
Story == [Plain EXCEPT !.developing = TRUE, !.breaking = TRUE, !.dataviz = TRUE]

\* c1 may be a typographic post or loses its evidence after its receipt; c2 has
\* none before it, or becomes a story.
MCOffers == c1 :> {<<Plain, "NONE">>, <<[Grounded EXCEPT !.dataviz = TRUE], "NONE">>}
            @@ c2 :> {<<Grounded, "NONE">>, <<Story, "NONE">>}
=============================================================================
