------------------------------ MODULE AppendLog ------------------------------
(***************************************************************************)
(* What turn_events promises to its readers: a log that only grows at its  *)
(* end, one commit at a time, and streams that receive it in order from    *)
(* the start, without a gap and without a repetition.                      *)
(***************************************************************************)
EXTENDS Integers, Sequences

CONSTANTS Events, Readers

VARIABLES log,          \* the events of one turn, in the order of the log
          received      \* what each stream has been handed so far

Init ==
    /\ log = <<>>
    /\ received = [c \in Readers |-> <<>>]

\* A transaction commits one or more events at the end of the log.
Extend ==
    /\ log' \in Seq(Events)
    /\ Len(log') > Len(log)
    /\ \A i \in 1 .. Len(log) : log'[i] = log[i]
    /\ UNCHANGED received

\* A stream is handed the next events of the log, one page.
Deliver(c) ==
    /\ \E n \in Len(received[c]) + 1 .. Len(log) :
        received' = [received EXCEPT ![c] = [i \in 1 .. n |-> log[i]]]
    /\ UNCHANGED log

Next == Extend \/ \E c \in Readers : Deliver(c)

Spec == Init /\ [][Next]_<<log, received>>
=============================================================================
