---------------------------- MODULE MCTurnSystem ----------------------------
(* Two scenarios: all replicas with approvals and a crash, without projections; and one replica with
   projections, without the two. *)
EXTENDS TurnSystem, TLC

VARIABLE crew  \* the replicas that take part

Symmetry == Permutations(Runners)

\* What a replica keeps in memory about turns.
Memory(r) == <<process[r], task[r], handler[r], pending[r], watch[r]>>

InScenario == /\ \A r \in Runners \ crew : UNCHANGED Memory(r)
              /\ IF crew = Runners THEN UNCHANGED proj ELSE UNCHANGED <<asks, crashes>>

MCSpec == /\ Init /\ crew \in {Runners} \cup {{r} : r \in Runners}
          /\ [][Next /\ InScenario /\ UNCHANGED crew]_<<vars, crew>>
=============================================================================
