------------------------------ MODULE TurnSystem ------------------------------
(***************************************************************************)
(* One turn's life across the whole platform: the api (TurnApi) and the    *)
(* runtime replicas (TurnRuntime) over the shared rows (TurnStore).        *)
(***************************************************************************)
EXTENDS TurnApi, TurnRuntime

vars == <<storeVars, apiVars, runtimeVars>>

Init == StoreInit /\ ApiInit /\ RuntimeInit

Next ==
    \/ \E t \in Turns : ApiNext(t) /\ UNCHANGED runtimeVars
    \/ \E r \in Runners : RuntimeNext(r) /\ UNCHANGED apiVars

Spec == Init /\ [][Next]_vars

\* The loops of both services run: a started worker, handler or watchdog pass
\* goes on, the watchdog scans, a crashed runtime is restarted by its
\* supervisor, and the api's reconcilers get a projection through.  Users,
\* notifications, lease expiry and capacity promise nothing.
Fairness ==
    /\ \A r \in Runners :
        /\ WF_vars(BootStep(r) /\ UNCHANGED apiVars)
        /\ SF_vars(scan_stalled_runs(r) /\ UNCHANGED apiVars)
        /\ \A t \in Turns :
            /\ WF_vars(WorkerStep(r, t) /\ UNCHANGED apiVars)
            /\ WF_vars(HandlerStep(r, t) /\ UNCHANGED apiVars)
            /\ WF_vars(WatchStep(r, t) /\ UNCHANGED apiVars)
    /\ \A t \in Turns :
        /\ SF_vars(reconcile_stale_turns(t) /\ UNCHANGED runtimeVars)
        /\ SF_vars(project_write(t) /\ UNCHANGED runtimeVars)

FairSpec == Spec /\ Fairness

-----------------------------------------------------------------------------

\* Every variable keeps to the values its rows and in-memory tables can hold.
TypeOK == StoreTypeOK /\ ApiTypeOK /\ RuntimeTypeOK

\* A replica has a worker on the turn, tracked or not.
Working(r, t) == task[r][t] \notin {"none", "claiming"}

\* B4, the claim: at most one replica ever works on a turn, whatever crashes,
\* restarts, reclaims and stale projections happen around it.
SingleWorker ==
    \A t \in Turns : \A r, q \in Runners :
        Working(r, t) /\ Working(q, t) => r = q

\* What B4 rests on: a run that was claimed or failed never looks claimable
\* again, although the projector writes runs.status from a log it read earlier.
NeverReaccepted ==
    [][\A t \in Turns : runs[t] \notin {"absent", "accepted"} =>
                        runs'[t] \notin {"absent", "accepted"}]_vars

\* A run never changes hands: commands, leases and boot reconcile keep going
\* to the one replica that claimed it.
OwnerStable ==
    [][\A t \in Turns : runner[t] # NoRunner => runner'[t] = runner[t]]_vars

\* No row says that a turn ended unless the log does too: the streams and the
\* projector, which only see the log, will learn of it.
EndIsLogged ==
    \A t \in Turns :
        turns[t] \in TERMINAL_STATUSES \/ runs[t] \in {"succeeded", "failed", "cancelled"}
            => log[t].ended

\* A view that claims to be level with the log shows what the log says.
ViewCurrent ==
    \A t \in Turns :
        /\ view[t].seq <= log[t].last
        /\ view[t].seq = log[t].last => view[t].status = log[t].status

\* A view never goes back to an earlier sequence, however late a projection
\* writes.
ViewMonotone ==
    [][\A t \in Turns : view'[t].seq >= view[t].seq]_vars

\* Boot reconcile only fails runs that nobody works on.
BootSparesWorkers ==
    [][\A r \in Runners, t \in Turns :
        reconcile_runner_orphans(r, t) => \A q \in Runners : ~Working(q, t)]_vars

\* An approval survives a crash of its runner: while a turn waits and nothing
\* is under way for it, its checkpoint holds the tool call that was asked for.
ApprovalResumable ==
    \A t \in Turns :
        /\ turns[t] = "waiting_approval"
        /\ ~log[t].ended
        /\ \A r \in Runners : ~Working(r, t) /\ handler[r][t].phase = "none"
        => checkpoint[t] = asks[t]

\* A turn that started ends, and in the end its row stays terminal.
Settles ==
    \A t \in Turns : log[t].last > 0 ~> [](turns[t] \in TERMINAL_STATUSES)

\* An approved tool call is not executed twice, although approvals may be queued
\* twice, dropped, refused or asked for again (turn_controller.py, B3: the claim of
\* the command in flight and the clean-up behind it).  Without crashes and stale
\* projections: the claim is in memory and dies with its process, and the clean-up
\* keeps the checkpoint of a turn that a projection (projector.py:524) has set back to
\* waiting_approval just before, so that a second approval runs the call again.
ExecutedOnce ==
    \A t \in Turns : \A a \in Asks : executed[t][a] <= 1
=============================================================================
