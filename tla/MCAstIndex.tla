----------------------------- MODULE MCAstIndex -----------------------------
(* Model-checking instances: files and callers are interchangeable, and each run says which faults,
   edits and cold starts it combines. *)
EXTENDS AstIndex, TLC

Symmetry == Permutations(Paths) \cup Permutations(Requests)

May(edits, faults, cold, gen) ==
    spent.max = [edits |-> edits, faults |-> faults, cold |-> cold, gen |-> gen]

\* A file that may change or go, with everything the bounds allow at once; or one that may
\* come, with a generation less.
MCFairInit == Init /\ \A p \in Paths :
    May(MaxEdits, MaxFaults, MaxCold, IF disk[p] = Absent THEN MaxGen - 1 ELSE MaxGen)
MCFairSpec == MCFairInit /\ [][Next]_vars /\ Fairness

\* An indexed work that changes, its indexer with or without what it remembers, and with a
\* fault when no file is missing; the first build of one file, with a fault, or with two
\* requests for it; or a file that is written before the first build.
Scenarios ==
    \/ meta # None /\ wproj # NoProj /\ May(MaxEdits, 0, 0, MaxGen)
    \/ /\ meta # None /\ wproj = NoProj
       /\ May(MaxEdits, IF Present(disk) = Paths THEN MaxFaults ELSE 0, 0, MaxGen - 1)
    \/ /\ meta = None /\ Cardinality(Present(disk)) = 1
       /\ May(0, MaxFaults, 1, 1) \/ May(0, 0, MaxCold, 1)
    \/ meta = None /\ Present(disk) = {} /\ May(MaxEdits, 0, 0, 1)
MCInit == Init /\ Scenarios
MCSpec == MCInit /\ [][Next]_vars
=============================================================================
