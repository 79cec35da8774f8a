------------------------------- MODULE TurnApi -------------------------------
(***************************************************************************)
(* The api side of a turn: accepting it, cancelling it, answering its      *)
(* approval requests, the reconcilers that give up on runs nobody claimed  *)
(* or whose runner went silent, and the projector that folds turn_events   *)
(* back into turns, runs and turn_views.                                   *)
(*                                                                         *)
(* Ages (claim timeout, lease expiry) are not measured: a timer may fire   *)
(* at any moment its other conditions hold.                                *)
(***************************************************************************)
EXTENDS TurnStore, FiniteSets

CONSTANT MaxProjectors  \* bound: projections of one turn in progress at once

VARIABLE proj           \* what each projection in progress has read, by turn

apiVars == <<proj>>

\* POST /turns: the turn, its run and an empty view, in one transaction.
create_turn(t) ==
    /\ turns[t] = "absent"
    /\ SetStatus(t, "pending", "accepted")
    /\ view' = [view EXCEPT ![t] = [seq |-> 0, status |-> "pending"]]
    /\ UNCHANGED <<runner, lease, cancel, log, checkpoint, command, asks, proj>>

\* POST /turns/{id}/cancel: the flag every worker polls.  The cancel command
\* queued with it is request_cancel of the runtime, enabled by the flag.
cancel_turn(t) ==
    /\ turns[t] \in {"pending", "running", "waiting_approval"}
    /\ cancel' = [cancel EXCEPT ![t] = TRUE]
    /\ UNCHANGED <<turns, runs, runner, lease, log, view, checkpoint, command,
                   asks, proj>>

\* POST approve-tool-call / deny-tool-call for some tool call of the turn, the
\* latest or one from an old screen.  A pending command of the same type is
\* overwritten.
enqueue_run_command(t, type, ask) ==
    /\ turns[t] = "waiting_approval"
    /\ ask <= asks[t]
    /\ WithinLog(t)
    /\ command' = [command EXCEPT ![t][type] = ask]
    /\ UNCHANGED <<turns, runs, runner, lease, cancel, log, view, checkpoint,
                   asks, proj>>

\* A run no runtime claimed in time fails.  The UPDATE asks for the run's status only.
reconcile_unclaimed_turns(t) ==
    /\ runs[t] = "accepted"
    /\ _fail_turn(t)
    /\ UNCHANGED proj

\* now() passes lease_expires_at.
lease_expires(t) ==
    /\ lease[t] = "live"
    /\ runs[t] \in InHand
    /\ WithinLog(t)
    /\ lease' = [lease EXCEPT ![t] = "expired"]
    /\ UNCHANGED <<turns, runs, runner, cancel, log, view, checkpoint, command,
                   asks, proj>>

\* Mutant: the reclaim forgets its event.
reconcile_expired_unlogged(t) ==
    /\ runs[t] \in InHand
    /\ lease[t] = "expired"
    /\ SetStatus(t, "failed", "failed")
    /\ lease' = [lease EXCEPT ![t] = "null"]
    /\ UNCHANGED <<log, runner, cancel, view, checkpoint, command, asks, proj>>

\* A run whose runner stopped renewing fails, whoever still works on it.  The SELECT asked
\* for a turn in hand too, possibly long ago; the UPDATE asks for the run and its lease.
reconcile_expired_leases(t) ==
    /\ runs[t] \in InHand
    /\ lease[t] = "expired"
    /\ AppendTo(t, "turn.failed")
    /\ SetStatus(t, "failed", "failed")
    /\ lease' = [lease EXCEPT ![t] = "null"]
    /\ UNCHANGED <<runner, cancel, view, checkpoint, command, asks, proj>>

-----------------------------------------------------------------------------
(* The projector reads the whole log, then writes in another transaction.  *)

Snapshot(t) == [seq |-> log[t].last, status |-> log[t].status]

\* Mutant: an empty log is projected too.
project_read_empty(t) ==
    /\ turns[t] # "absent"
    /\ Cardinality(proj[t]) < MaxProjectors
    /\ proj' = [proj EXCEPT ![t] = @ \cup {Snapshot(t)}]
    /\ UNCHANGED storeVars

project_read(t) ==
    /\ log[t].last > 0
    /\ Cardinality(proj[t]) < MaxProjectors
    /\ proj' = [proj EXCEPT ![t] = @ \cup {Snapshot(t)}]
    /\ UNCHANGED storeVars

\* NOTIFY turn_events_channel, possibly long after the event it announces.
project_notified(t) == project_read(t)

Lagging(t) == view[t].seq < log[t].last

Stale(t) == turns[t] \in RUNNING_STATUSES /\ log[t].ended

\* The periodic reconcilers, and the projection a GET of a lagging view makes.
reconcile_lagging_projections(t) == Lagging(t) /\ project_read(t)

reconcile_stale_turns(t) == Stale(t) /\ project_read(t)

\* Mutant: the view takes whatever is written last.
project_write_blind(t) ==
    \E s \in proj[t] :
        /\ SetStatus(t, s.status, map_turn_to_run_status(s.status))
        /\ view' = [view EXCEPT ![t] = s]
        /\ proj' = [proj EXCEPT ![t] = @ \ {s}]
        /\ UNCHANGED <<runner, lease, cancel, log, checkpoint, command, asks>>

\* Mutant: the view is labelled with the sequence found at write time.
project_write_relabelled(t) ==
    \E s \in proj[t] :
        /\ SetStatus(t, s.status, map_turn_to_run_status(s.status))
        /\ view' = [view EXCEPT ![t] = [seq |-> log[t].last, status |-> s.status]]
        /\ proj' = [proj EXCEPT ![t] = @ \ {s}]
        /\ UNCHANGED <<runner, lease, cancel, log, checkpoint, command, asks>>

\* turns and runs are written whatever the projector missed since it read;
\* only turn_views refuses a lower sequence.
project_write(t) ==
    \E s \in proj[t] :
        /\ SetStatus(t, s.status, map_turn_to_run_status(s.status))
        /\ view' = [view EXCEPT ![t] = IF @.seq <= s.seq THEN s ELSE @]
        /\ proj' = [proj EXCEPT ![t] = @ \ {s}]
        /\ UNCHANGED <<runner, lease, cancel, log, checkpoint, command, asks>>

\* The api replica dies, or the write transaction fails, between the two.
project_lost(t) ==
    /\ \E s \in proj[t] : proj' = [proj EXCEPT ![t] = @ \ {s}]
    /\ UNCHANGED storeVars

ApiInit == proj = [t \in Turns |-> {}]

ApiTypeOK == proj \in [Turns -> SUBSET ViewType]

ApiNext(t) ==
    \/ create_turn(t)
    \/ cancel_turn(t)
    \/ \E type \in CommandTypes, ask \in Asks : enqueue_run_command(t, type, ask)
    \/ reconcile_unclaimed_turns(t)
    \/ lease_expires(t)
    \/ reconcile_expired_leases(t)
    \/ project_notified(t)
    \/ reconcile_lagging_projections(t)
    \/ reconcile_stale_turns(t)
    \/ project_write(t)
    \/ project_lost(t)
=============================================================================
