---------------------------- MODULE EventSequence ----------------------------
(***************************************************************************)
(* How turn_events of one turn is numbered and read.  Writers are database *)
(* transactions of any process: the worker, its buffered delta writer, a   *)
(* watchdog, the api's reclaimers.  Each takes the turn's advisory lock,   *)
(* reads MAX(sequence), inserts, and commits, which releases the lock.     *)
(* Readers keep only the sequence they were last handed.                   *)
(*                                                                         *)
(* Isolation is read committed: a transaction sees committed rows and its  *)
(* own.  The unique index on (turn_id, sequence) is left out: Dense says   *)
(* that it never has to refuse a row.                                      *)
(***************************************************************************)
EXTENDS Integers, Sequences, FiniteSets

CONSTANTS Events,       \* what is appended
          Writers,      \* transactions that append
          NoWriter,     \* the advisory lock is free
          Readers,      \* SSE and WebSocket streams
          MaxSequence   \* bound: length of the log

ASSUME SequenceAssumption == NoWriter \notin Writers /\ MaxSequence \in Nat

VARIABLES rows,         \* committed turn_events rows
          lock,         \* holder of pg_advisory_xact_lock(turn_id)
          phase,        \* where each transaction stands
          staged,       \* rows it inserted and has not committed
          next,         \* the sequence it inserts next
          cursor,       \* the sequence each stream was last handed
          seen          \* the rows each stream has been handed

vars == <<rows, lock, phase, staged, next, cursor, seen>>

Row == [sequence : 1 .. MaxSequence, event : Events]

\* SELECT COALESCE(MAX(sequence), 0) over the rows the transaction sees.
MaxOf(R) ==
    IF R = {} THEN 0
    ELSE CHOOSE m \in {r.sequence : r \in R} : \A r \in R : r.sequence <= m

Init ==
    /\ rows = {}
    /\ lock = NoWriter
    /\ phase = [w \in Writers |-> "idle"]
    /\ staged = [w \in Writers |-> {}]
    /\ next = [w \in Writers |-> 0]
    /\ cursor = [c \in Readers |-> 0]
    /\ seen = [c \in Readers |-> {}]

\* (mutant) No advisory lock.
acquire_nothing(w) ==
    /\ phase[w] = "idle"
    /\ phase' = [phase EXCEPT ![w] = "locked"]
    /\ UNCHANGED <<rows, lock, staged, next, cursor, seen>>

\* next_sequence, its first statement: wait for the advisory lock.
acquire(w) ==
    /\ phase[w] = "idle"
    /\ lock = NoWriter
    /\ lock' = w
    /\ phase' = [phase EXCEPT ![w] = "locked"]
    /\ UNCHANGED <<rows, staged, next, cursor, seen>>

\* next_sequence, its second statement.
next_sequence(w) ==
    /\ phase[w] = "locked"
    /\ next' = [next EXCEPT ![w] = MaxOf(rows \cup staged[w]) + 1]
    /\ phase' = [phase EXCEPT ![w] = "numbered"]
    /\ UNCHANGED <<rows, lock, staged, cursor, seen>>

\* (mutant) A batch numbered from start + 1 + offset.
insert_shifted(w, e) ==
    /\ phase[w] = "numbered"
    /\ next[w] <= MaxSequence
    /\ staged' = [staged EXCEPT ![w] = @ \cup {[sequence |-> next[w] + 1, event |-> e]}]
    /\ next' = [next EXCEPT ![w] = @ + 1]
    /\ UNCHANGED <<rows, lock, phase, cursor, seen>>

\* (mutant) The lock is released after the statement, not at commit.
insert_unlocked(w, e) ==
    /\ phase[w] = "numbered"
    /\ next[w] <= MaxSequence
    /\ staged' = [staged EXCEPT ![w] = @ \cup {[sequence |-> next[w], event |-> e]}]
    /\ next' = [next EXCEPT ![w] = @ + 1]
    /\ lock' = NoWriter
    /\ UNCHANGED <<rows, phase, cursor, seen>>

\* INSERT.  A batch goes on with the following number; another append_event of
\* the same transaction asks again, the lock being its own already.
insert(w, e) ==
    /\ phase[w] = "numbered"
    /\ next[w] <= MaxSequence
    /\ staged' = [staged EXCEPT ![w] = @ \cup {[sequence |-> next[w], event |-> e]}]
    /\ \/ next' = [next EXCEPT ![w] = @ + 1] /\ phase' = phase
       \/ next' = next /\ phase' = [phase EXCEPT ![w] = "locked"]
    /\ UNCHANGED <<rows, lock, cursor, seen>>

Finish(w) ==
    /\ lock' = NoWriter
    /\ phase' = [phase EXCEPT ![w] = "idle"]
    /\ staged' = [staged EXCEPT ![w] = {}]
    /\ next' = [next EXCEPT ![w] = 0]
    /\ UNCHANGED <<cursor, seen>>

commit(w) ==
    /\ staged[w] # {}
    /\ rows' = rows \cup staged[w]
    /\ Finish(w)

\* A statement fails, the task is cancelled, the process dies.
rollback(w) ==
    /\ phase[w] # "idle"
    /\ Finish(w)
    /\ UNCHANGED rows

\* (mutant) The cursor jumps to the newest row although the page ended earlier.
fetch_past_page(c) ==
    /\ \E last \in {r.sequence : r \in rows} :
        /\ last > cursor[c]
        /\ cursor' = [cursor EXCEPT ![c] = MaxOf(rows)]
        /\ seen' = [seen EXCEPT ![c] = @ \cup
                       {r \in rows : cursor[c] < r.sequence /\ r.sequence <= last}]
    /\ UNCHANGED <<rows, lock, phase, staged, next>>

\* fetch_turn_events: the rows past the cursor in sequence order, up to a page
\* limit or to where the client went away.  The cursor, Last-Event-ID after a
\* reconnect included, is the last sequence that was handed over.
fetch_turn_events(c) ==
    /\ \E last \in {r.sequence : r \in rows} :
        /\ last > cursor[c]
        /\ cursor' = [cursor EXCEPT ![c] = last]
        /\ seen' = [seen EXCEPT ![c] = @ \cup
                       {r \in rows : cursor[c] < r.sequence /\ r.sequence <= last}]
    /\ UNCHANGED <<rows, lock, phase, staged, next>>

Next ==
    \/ \E w \in Writers :
        \/ acquire(w)
        \/ next_sequence(w)
        \/ \E e \in Events : insert(w, e)
        \/ commit(w)
        \/ rollback(w)
    \/ \E c \in Readers : fetch_turn_events(c)

Spec == Init /\ [][Next]_vars

-----------------------------------------------------------------------------

\* Every variable keeps to its domain.
TypeOK ==
    /\ rows \subseteq Row
    /\ lock \in Writers \cup {NoWriter}
    /\ phase \in [Writers -> {"idle", "locked", "numbered"}]
    /\ staged \in [Writers -> SUBSET Row]
    /\ next \in [Writers -> 0 .. MaxSequence + 1]
    /\ cursor \in [Readers -> 0 .. MaxSequence]
    /\ seen \in [Readers -> SUBSET Row]

\* next_sequence never hands out a number twice and a rolled back transaction
\* leaves no hole: the committed sequences are 1, 2, ..., MAX, one row each.
Dense ==
    /\ \A i \in 1 .. MaxOf(rows) : \E r \in rows : r.sequence = i
    /\ \A r, q \in rows : r.sequence = q.sequence => r = q

\* No row ever becomes visible behind a row that already was: a cursor that
\* passed it would never come back.
NoLateRow ==
    [][\A r \in rows' \ rows : \A q \in rows : q.sequence < r.sequence]_vars

\* A stream that reached its cursor was handed every row up to it.
NothingSkipped ==
    \A c \in Readers : seen[c] = {r \in rows : r.sequence <= cursor[c]}

EventAt(R, i) == (CHOOSE r \in R : r.sequence = i).event

\* The log and the streams as AppendLog sees them.
logBar == [i \in 1 .. MaxOf(rows) |-> EventAt(rows, i)]

receivedBar == [c \in Readers |-> [i \in 1 .. cursor[c] |-> EventAt(seen[c], i)]]

Promise == INSTANCE AppendLog WITH log <- logBar, received <- receivedBar

\* Locking, numbering and cursors together implement the append-only log with
\* in-order, gap-free streams.
ImplementsAppendLog == Promise!Spec
=============================================================================
