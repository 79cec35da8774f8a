--------------------------- MODULE MCWorkReclaim ---------------------------
(* A work whose first turn was a writing turn and failed: late, and its tag has a parent, as the first
   versions of the shadow git made them; or before the engine began, so that there is a directory without
   a shadow repository, and the user has deleted its session. *)
EXTENDS WorkReclaim

\* Every turn in a session of its own.
MCSessionOf == [t \in Turns |-> t]

Tagged ==
    /\ sessions = {SessionOf[t] : t \in Turns}
    /\ rows = [t \in Turns |-> IF t = 1
                 THEN [scenario |-> "writing", status |-> "failed", age |-> "fresh"] ELSE NoRow]
    /\ shadow = TRUE
    /\ chain = [t \in Turns |-> IF t = 1 THEN <<1, 2>> ELSE <<>>]
    /\ commits = {1, 2} /\ stamp = 2
    /\ tagged = {1} /\ left = {}

Unshadowed ==
    /\ sessions = {SessionOf[t] : t \in Turns \ {1}}
    /\ rows = [t \in Turns |-> NoRow]
    /\ shadow = FALSE
    /\ chain = [t \in Turns |-> <<>>]
    /\ commits = {} /\ stamp = 0
    /\ tagged = {} /\ left = {1}

MCInit ==
    /\ work = "live"
    /\ created = 1
    /\ tombstone = "none"
    /\ job = "none"
    /\ dir = TRUE
    /\ Tagged \/ Unshadowed
    /\ active = {}
    /\ shot = [t \in Turns |-> NoShot]
    /\ lock = Nobody
    /\ gc = [c \in Collectors |-> IdleGc]
    /\ undo = NoUndo /\ undos = 0
    /\ faults = 0

MCSpec == MCInit /\ [][Next]_vars /\ Fairness
=============================================================================
