--------------------------- MODULE MCWritingHost ---------------------------
(* Initial works small enough for TLC: at most one old snapshot, no document missing or
   partly written. *)
EXTENDS WritingHost, TLC

MCInit ==
    /\ Init
    /\ \A d \in Docs : docs[d] \in Texts \ {Partial}
    /\ Cardinality({t \in Turns : manifest[t] # NoFile}) <= 1
    /\ \A t \in Turns : manifest[t] \in {docs, NoFile}

MCSpec == MCInit /\ [][Next]_vars

TurnSymmetry == Permutations(Turns)
=============================================================================
