----------------------------- MODULE EventWriter -----------------------------
(***************************************************************************)
(* BufferedEventWriter: the per-turn writer that gathers stream deltas and *)
(* inserts them in batches.  Its users are asyncio tasks of one process:   *)
(* the engine and the delegates it runs in parallel (Producers), the       *)
(* window timer (_delayed_flush), the liveness task of an open model       *)
(* stream and whoever ends the turn (the closer: _finalize_turn or         *)
(* _fail_turn).  A task keeps control until it awaits, so everything       *)
(* between two awaits is one step.                                         *)
(*                                                                         *)
(* Modelled is the persisted path.  A delta that went out over the live    *)
(* bus, or into the thinking sidecar, never reaches the buffer; all it may *)
(* write is a heartbeat.  Left out are the switch that turns the buffer    *)
(* off (a window of zero) and a commit whose answer is lost: a write that  *)
(* times out was rolled back.                                              *)
(***************************************************************************)
EXTENDS Naturals, Sequences, FiniteSets

CONSTANTS Producers,    \* tasks that call write_event
          MaxIssued,    \* bound: events issued before the terminal one
          MayFail,      \* a write may run out of retries
          LiveClose     \* the turn may be ended under its producers (watchdog)

Timer == "timer"
Closer == "closer"
Liveness == "liveness"
Free == "free"
Actors == Producers \cup {Timer, Closer, Liveness}

ASSUME WriterAssumption ==
    /\ Producers \cap {Timer, Closer, Liveness, Free} = {}
    /\ MaxIssued \in Nat
    /\ MayFail \in BOOLEAN
    /\ LiveClose \in BOOLEAN

VARIABLES buffer,   \* _buffer
          lock,     \* holder of _flush_lock
          pc,       \* what each task awaits
          rows,     \* rows of its _write_rows not committed yet
          event,    \* the non-delta event a producer writes after its flush
          closed,   \* _closed
          flushed,  \* _last_flush is set
          log,      \* turn_events, in sequence order
          issued,   \* events issued so far
          lost      \* ghost: rows given up

vars == <<buffer, lock, pc, rows, event, closed, flushed, log, issued, lost>>

\* "late" is a delta that arrives after close, "beat" a liveness heartbeat, "end"
\* the terminal event.
Item == [n : Nat, kind : {"delta", "late", "beat", "event", "end"}]

Elements(s) == {s[i] : i \in DOMAIN s}

-----------------------------------------------------------------------------
(* Producers.                                                              *)

Issue(p) ==
    /\ pc[p] = "idle"
    /\ issued < MaxIssued
    /\ closed => LiveClose
    /\ issued' = issued + 1

NextItem(kind) == [n |-> issued + 1, kind |-> kind]

\* The window is over (or nothing was flushed yet): the producer flushes.
\* Otherwise the timer will, started unless its task is not done.
append_delta(p) ==
    /\ Issue(p)
    /\ ~closed
    /\ buffer' = Append(buffer, NextItem("delta"))
    /\ \/ pc' = [pc EXCEPT ![p] = "flush"]
       \/ flushed /\ pc' = [pc EXCEPT ![Timer] = IF @ = "none" THEN "asleep" ELSE @]
    /\ UNCHANGED <<lock, rows, event, closed, flushed, log, lost>>

\* After close a delta is written at once, outside the flush lock.
append_delta_late(p) ==
    /\ Issue(p)
    /\ closed
    /\ rows' = [rows EXCEPT ![p] = <<NextItem("late")>>]
    /\ pc' = [pc EXCEPT ![p] = "writing"]
    /\ UNCHANGED <<buffer, lock, event, closed, flushed, log, lost>>

\* Mutant: an event that does not wait for the buffer.
write_event_unflushed(p) ==
    /\ Issue(p)
    /\ event' = [event EXCEPT ![p] = <<NextItem("event")>>]
    /\ pc' = [pc EXCEPT ![p] = "append"]
    /\ UNCHANGED <<buffer, lock, rows, closed, flushed, log, lost>>

\* Any other event: flush first.
write_event(p) ==
    /\ Issue(p)
    /\ event' = [event EXCEPT ![p] = <<NextItem("event")>>]
    /\ pc' = [pc EXCEPT ![p] = "flush"]
    /\ UNCHANGED <<buffer, lock, rows, closed, flushed, log, lost>>

append_event(p) ==
    /\ pc[p] = "append"
    /\ log' = log \o event[p]
    /\ event' = [event EXCEPT ![p] = <<>>]
    /\ pc' = [pc EXCEPT ![p] = "idle"]
    /\ UNCHANGED <<buffer, lock, rows, closed, flushed, issued, lost>>

\* The heartbeat of a thinking delta that is diverted to the sidecar, or of a delta
\* that went out live while the liveness task runs: it waits for the flush lock.
write_heartbeat(p) ==
    /\ Issue(p)
    /\ rows' = [rows EXCEPT ![p] = <<NextItem("beat")>>]
    /\ pc' = [pc EXCEPT ![p] = "beat"]
    /\ UNCHANGED <<buffer, lock, event, closed, flushed, log, lost>>

-----------------------------------------------------------------------------
(* flush and _write_rows, for every task.                                  *)

\* Where a task goes on when its flush or its late write returns.
Return(a) ==
    CASE a = Timer    -> "none"
      [] a = Closer   -> "ending"
      [] a = Liveness -> "asleep"
      [] OTHER        -> IF event[a] = <<>> THEN "idle" ELSE "append"

\* Mutant: a release that leaves the lock with nobody, and not free either.
Release_unset(a) == lock' = IF lock = a THEN "none" ELSE lock

\* Leaving "async with self._flush_lock"; a late write does not hold it.
Release(a) == lock' = IF lock = a THEN Free ELSE lock

\* Mutant: the buffer is copied, not swapped out.
flush_copies(a) ==
    /\ pc[a] = "flush"
    /\ lock = Free
    /\ pc' = [pc EXCEPT ![a] = IF buffer = <<>> THEN Return(a) ELSE "writing"]
    /\ lock' = IF buffer = <<>> THEN lock ELSE a
    /\ rows' = [rows EXCEPT ![a] = buffer]
    /\ UNCHANGED <<buffer, flushed, event, closed, log, issued, lost>>

\* Mutant: no flush lock, batches are written side by side.
flush_unlocked(a) ==
    /\ pc[a] = "flush"
    /\ pc' = [pc EXCEPT ![a] = IF buffer = <<>> THEN Return(a) ELSE "writing"]
    /\ rows' = [rows EXCEPT ![a] = buffer]
    /\ buffer' = <<>>
    /\ flushed' = TRUE
    /\ UNCHANGED <<lock, event, closed, log, issued, lost>>

\* The lock, the swap of the buffer and the start of the write: no await
\* between them.
flush(a) ==
    /\ pc[a] = "flush"
    /\ lock = Free
    /\ IF buffer = <<>>
       THEN /\ pc' = [pc EXCEPT ![a] = Return(a)]
            /\ UNCHANGED <<buffer, lock, rows, flushed>>
       ELSE /\ pc' = [pc EXCEPT ![a] = "writing"]
            /\ lock' = a
            /\ rows' = [rows EXCEPT ![a] = buffer]
            /\ buffer' = <<>>
            /\ flushed' = TRUE
    /\ UNCHANGED <<event, closed, log, issued, lost>>

\* A transaction commits: all rows, or after a timeout the head of a split.
_write_rows(a) ==
    /\ pc[a] = "writing"
    /\ \E k \in 1 .. Len(rows[a]) :
        /\ log' = log \o SubSeq(rows[a], 1, k)
        /\ rows' = [rows EXCEPT ![a] = SubSeq(@, k + 1, Len(@))]
        /\ IF k = Len(rows[a])
           THEN pc' = [pc EXCEPT ![a] = Return(a)] /\ Release(a)
           ELSE UNCHANGED <<pc, lock>>
    /\ UNCHANGED <<buffer, event, closed, flushed, issued, lost>>

\* Retries exhausted.  The exception stops a producer, before its event if it
\* has one, and the liveness task; the timer and the closer log it and go on.
AfterFailure(a) ==
    CASE a \in Producers -> "stopped"
      [] a = Liveness   -> "none"
      [] OTHER          -> Return(a)

write_fails(a) ==
    /\ MayFail
    /\ pc[a] = "writing" \/ pc[a] = "append"
    /\ lost' = lost \cup Elements(rows[a])
                    \cup (IF a \in Producers THEN Elements(event[a]) ELSE {})
    /\ rows' = [rows EXCEPT ![a] = <<>>]
    /\ event' = IF a \in Producers THEN [event EXCEPT ![a] = <<>>] ELSE event
    /\ pc' = [pc EXCEPT ![a] = AfterFailure(a)]
    /\ Release(a)
    /\ UNCHANGED <<buffer, closed, flushed, log, issued>>

\* The window passes.
_delayed_flush ==
    /\ pc[Timer] = "asleep"
    /\ pc' = [pc EXCEPT ![Timer] = "flush"]
    /\ UNCHANGED <<buffer, lock, rows, event, closed, flushed, log, issued, lost>>

\* A heartbeat gets the flush lock; the buffer stays as it is.
lock_heartbeat(a) ==
    /\ pc[a] = "beat"
    /\ lock = Free
    /\ lock' = a
    /\ pc' = [pc EXCEPT ![a] = "writing"]
    /\ UNCHANGED <<buffer, rows, event, closed, flushed, log, issued, lost>>

\* Mutant: the cancelled task keeps the flush lock.
Cancel_lock_held(a) ==
    /\ lost' = lost \cup Elements(rows[a])
    /\ rows' = [rows EXCEPT ![a] = <<>>]
    /\ UNCHANGED lock

\* A task is cancelled wherever it is, which rolls back the transaction it may be in.
Cancel(a) ==
    /\ lost' = lost \cup Elements(rows[a])
    /\ rows' = [rows EXCEPT ![a] = <<>>]
    /\ Release(a)

-----------------------------------------------------------------------------
(* The liveness task, which runs while a model stream is open.             *)

start_stream_liveness(p) ==
    /\ pc[p] = "idle"
    /\ ~closed
    /\ pc[Liveness] = "none"
    /\ pc' = [pc EXCEPT ![Liveness] = "asleep"]
    /\ UNCHANGED <<buffer, lock, rows, event, closed, flushed, log, issued, lost>>

stop_stream_liveness(p) ==
    /\ pc[p] = "idle"
    /\ pc[Liveness] # "none"
    /\ pc' = [pc EXCEPT ![Liveness] = "none"]
    /\ Cancel(Liveness)
    /\ UNCHANGED <<buffer, event, closed, flushed, log, issued>>

\* The interval passes.
_stream_liveness_loop ==
    /\ pc[Liveness] = "asleep"
    /\ issued < MaxIssued
    /\ issued' = issued + 1
    /\ rows' = [rows EXCEPT ![Liveness] = <<NextItem("beat")>>]
    /\ pc' = [pc EXCEPT ![Liveness] = "beat"]
    /\ UNCHANGED <<buffer, lock, event, closed, flushed, log, lost>>

-----------------------------------------------------------------------------
(* Ending the turn.                                                        *)

\* close_event_writer: no more buffering, and the liveness task is cancelled.
close ==
    /\ pc[Closer] = "none"
    /\ LiveClose \/ \A p \in Producers : pc[p] \in {"idle", "stopped"}
    /\ closed' = TRUE
    /\ pc' = [pc EXCEPT ![Liveness] = "none", ![Closer] = "closing"]
    /\ Cancel(Liveness)
    /\ UNCHANGED <<buffer, event, flushed, log, issued>>

\* Then the timer is; the closer's own flush follows.
cancel_timer ==
    /\ pc[Closer] = "closing"
    /\ pc' = [pc EXCEPT ![Timer] = "none", ![Closer] = "flush"]
    /\ Cancel(Timer)
    /\ UNCHANGED <<buffer, event, closed, flushed, log, issued>>

\* turn.completed, turn.failed or turn.cancelled.
terminal_event ==
    /\ pc[Closer] = "ending"
    /\ log' = Append(log, NextItem("end"))
    /\ issued' = issued + 1
    /\ pc' = [pc EXCEPT ![Closer] = "done"]
    /\ UNCHANGED <<buffer, lock, rows, event, closed, flushed, lost>>

Init ==
    /\ buffer = <<>>
    /\ lock = Free
    /\ pc = [a \in Actors |-> IF a \in Producers THEN "idle" ELSE "none"]
    /\ rows = [a \in Actors |-> <<>>]
    /\ event = [p \in Producers |-> <<>>]
    /\ closed = FALSE
    /\ flushed = FALSE
    /\ log = <<>>
    /\ issued = 0
    /\ lost = {}

\* A task that is under way.
TaskStep(a) ==
    \/ flush(a)
    \/ lock_heartbeat(a)
    \/ _write_rows(a)
    \/ write_fails(a)
    \/ a \in Producers /\ append_event(a)
    \/ a = Timer /\ _delayed_flush
    \/ a = Liveness /\ _stream_liveness_loop
    \/ a = Closer /\ cancel_timer
    \/ a = Closer /\ terminal_event

Next ==
    \/ \E p \in Producers : append_delta(p) \/ append_delta_late(p) \/ write_event(p)
    \/ \E p \in Producers :
            write_heartbeat(p) \/ start_stream_liveness(p) \/ stop_stream_liveness(p)
    \/ \E a \in Actors : TaskStep(a)
    \/ close

Spec == Init /\ [][Next]_vars

\* The event loop runs every ready task, and asyncio.Lock serves its waiters.
FairSpec == Spec /\ \A a \in Actors : WF_vars(TaskStep(a))

-----------------------------------------------------------------------------

\* Every variable keeps to its domain.
TypeOK ==
    /\ buffer \in Seq(Item)
    /\ lock \in Actors \cup {Free}
    /\ pc \in [Actors -> {"idle", "none", "asleep", "flush", "beat", "writing", "append",
                          "stopped", "closing", "ending", "done"}]
    /\ rows \in [Actors -> Seq(Item)]
    /\ event \in [Producers -> Seq(Item)]
    /\ closed \in BOOLEAN
    /\ flushed \in BOOLEAN
    /\ log \in Seq(Item)
    /\ issued \in Nat
    /\ lost \subseteq Item

\* The places where event n sits, with its position there.
Places(n) ==
    LET In(s) == {i \in DOMAIN s : s[i].n = n}
    IN  ({"buffer"} \X In(buffer)) \cup ({"log"} \X In(log))
        \cup (UNION {{a} \X In(rows[a]) : a \in Actors})
        \cup (UNION {{<<p, "event">>} \X In(event[p]) : p \in Producers})
        \cup {x \in {<<"lost", 0>>} : \E i \in lost : i.n = n}

\* Nothing issued is dropped unnoticed and nothing is inserted twice, although
\* producers fill the buffer while a batch of it is being written.
Accounted == \A n \in 1 .. issued : Cardinality(Places(n)) = 1

\* Deltas reach turn_events in the order they were issued, whichever task
\* flushes them and however a batch is split.
DeltaOrder ==
    \A i, j \in DOMAIN log :
        i < j /\ log[i].kind = "delta" /\ log[j].kind = "delta" => log[i].n < log[j].n

\* Any other event but a heartbeat, the terminal one included, comes after every delta that was
\* buffered before it was issued.
EventsAfterDeltas ==
    \A j \in DOMAIN log :
        LET Behind(s) == \E i \in DOMAIN s : s[i].kind = "delta" /\ s[i].n < log[j].n
        IN  log[j].kind \in {"event", "end"} =>
                /\ ~Behind(buffer)
                /\ \A a \in Actors : ~Behind(rows[a])
                /\ ~Behind(SubSeq(log, j + 1, Len(log)))

\* Ending a turn always gets to its terminal event, with the buffer empty,
\* whoever held the flush lock when it began.
Closes == closed ~> (pc[Closer] = "done" /\ buffer = <<>>)
=============================================================================
