-------------------------- MODULE TurnSystemProofs --------------------------
(***************************************************************************)
(* TurnSystem for any set of turns and replicas, any number of crashes,    *)
(* approvals and concurrent projections.                                   *)
(***************************************************************************)
EXTENDS TurnSystem, TLAPS

-----------------------------------------------------------------------------
(* Types.                                                                  *)

\* Folding an event into a status gives a status.
LEMMA ApplyEventType ==
    ASSUME NEW s \in TurnStatuses, NEW e
    PROVE  ApplyEvent(s, e) \in TurnStatuses
BY DEF ApplyEvent, TurnStatuses, RUNNING_STATUSES, TERMINAL_STATUSES, TERMINAL_STATUS_MAP

\* Appending keeps turn_events well formed.
LEMMA AppendType ==
    ASSUME TypeOK, NEW t \in Turns, NEW e, AppendTo(t, e)
    PROVE  log' \in [Turns -> LogType]
<1>1. log[t] \in LogType
  BY DEF TypeOK, StoreTypeOK
<1>2. append_event(log[t], e) \in LogType
  <2>1. log[t].last + 1 \in Nat
    BY <1>1 DEF LogType
  <2>2. ApplyEvent(log[t].status, e) \in TurnStatuses
    BY <1>1, ApplyEventType DEF LogType
  <2>3. (log[t].ended \/ e \in DOMAIN TERMINAL_STATUS_MAP) \in BOOLEAN
    OBVIOUS
  <2>. QED BY <2>1, <2>2, <2>3 DEF append_event, LogType
<1>. QED BY <1>2 DEF TypeOK, StoreTypeOK, AppendTo

\* _fail_turn leaves well-formed rows.
LEMMA FailType ==
    ASSUME TypeOK, NEW t \in Turns, _fail_turn(t)
    PROVE  StoreTypeOK'
<1>1. log' \in [Turns -> LogType]
  BY AppendType DEF _fail_turn
<1>. QED BY <1>1 DEF TypeOK, StoreTypeOK, _fail_turn, SetStatus, TurnStatuses,
         TERMINAL_STATUSES, RunStatuses

\* What the projector writes into runs is a run status.
LEMMA MapType ==
    ASSUME NEW s \in TurnStatuses
    PROVE  map_turn_to_run_status(s) \in RunStatuses
BY DEF map_turn_to_run_status, RunStatuses, TurnStatuses, RUNNING_STATUSES, TERMINAL_STATUSES

\* A snapshot is a view.
LEMMA SnapshotType ==
    ASSUME TypeOK, NEW t \in Turns
    PROVE  Snapshot(t) \in ViewType
BY DEF TypeOK, StoreTypeOK, LogType, ViewType, Snapshot

\* The api's steps keep the types.
LEMMA ApiType ==
    ASSUME TypeOK, NEW t \in Turns, ApiNext(t), UNCHANGED runtimeVars
    PROVE  TypeOK'
<1>1. RuntimeTypeOK'
  BY DEF TypeOK, RuntimeTypeOK, runtimeVars
<1>. USE DEF TypeOK, StoreTypeOK, ApiTypeOK
<1>. SUFFICES StoreTypeOK' /\ ApiTypeOK'
  BY <1>1
<1>2. CASE create_turn(t)
  BY <1>2 DEF create_turn, SetStatus, TurnStatuses, RUNNING_STATUSES, RunStatuses, ViewType
<1>3. CASE cancel_turn(t)
  BY <1>3 DEF cancel_turn
<1>4. CASE \E type \in CommandTypes, ask \in Asks : enqueue_run_command(t, type, ask)
  BY <1>4 DEF enqueue_run_command, Asks
<1>5. CASE reconcile_unclaimed_turns(t)
  BY <1>5, FailType DEF reconcile_unclaimed_turns
<1>6. CASE lease_expires(t)
  BY <1>6 DEF lease_expires
<1>7. CASE reconcile_expired_leases(t)
  <2>1. log' \in [Turns -> LogType]
    BY <1>7, AppendType DEF reconcile_expired_leases
  <2>. QED BY <1>7, <2>1 DEF reconcile_expired_leases, SetStatus, TurnStatuses,
           TERMINAL_STATUSES, RunStatuses
<1>8. CASE project_read(t)
  <2>1. Snapshot(t) \in ViewType
    BY SnapshotType
  <2>. QED BY <1>8, <2>1 DEF project_read, storeVars
<1>9. CASE project_write(t)
  <2>1. PICK s \in proj[t] :
          /\ SetStatus(t, s.status, map_turn_to_run_status(s.status))
          /\ view' = [view EXCEPT ![t] = IF @.seq <= s.seq THEN s ELSE @]
          /\ proj' = [proj EXCEPT ![t] = @ \ {s}]
    BY <1>9 DEF project_write
  <2>2. s \in ViewType /\ s.status \in TurnStatuses
    BY <2>1 DEF ViewType
  <2>3. map_turn_to_run_status(s.status) \in RunStatuses
    BY <2>2, MapType
  <2>4. turns' \in [Turns -> TurnStatuses \cup {"absent"}] /\ runs' \in [Turns -> RunStatuses \cup {"absent"}]
    BY <2>1, <2>2, <2>3 DEF SetStatus
  <2>5. view' \in [Turns -> ViewType]
    BY <2>1, <2>2
  <2>6. proj' \in [Turns -> SUBSET ViewType]
    BY <2>1
  <2>. QED BY <1>9, <2>4, <2>5, <2>6 DEF project_write
<1>10. CASE project_lost(t)
  BY <1>10 DEF project_lost, storeVars
<1>. QED BY <1>2, <1>3, <1>4, <1>5, <1>6, <1>7, <1>8, <1>9, <1>10
     DEF ApiNext, project_notified, reconcile_lagging_projections, reconcile_stale_turns

\* A worker's step keeps the table of tasks well formed.
LEMMA GotoType ==
    ASSUME TypeOK, NEW r \in Runners, NEW t \in Turns, NEW a, NEW b \in Phases,
           Goto(r, t, a, b)
    PROVE  task' \in [Runners -> [Turns -> Phases]]
BY DEF TypeOK, RuntimeTypeOK, Goto

\* A handler may be replaced by any well-formed handler.
LEMMA HandlerRowType ==
    ASSUME TypeOK, NEW r \in Runners, NEW t \in Turns, NEW h \in HandlerType,
           handler' = [handler EXCEPT ![r][t] = h]
    PROVE  handler' \in [Runners -> [Turns -> HandlerType]]
BY DEF TypeOK, RuntimeTypeOK

\* Or move to any phase.
LEMMA HandlerPhaseType ==
    ASSUME TypeOK, NEW r \in Runners, NEW t \in Turns, NEW p \in HandlerPhases,
           handler' = [handler EXCEPT ![r][t].phase = p]
    PROVE  handler' \in [Runners -> [Turns -> HandlerType]]
<1>. DEFINE h == [handler[r][t] EXCEPT !.phase = p]
<1>1. handler[r][t] \in HandlerType
  BY DEF TypeOK, RuntimeTypeOK
<1>2. h \in HandlerType
  BY <1>1 DEF HandlerType
<1>3. handler' = [handler EXCEPT ![r][t] = h]
  OBVIOUS
<1>. HIDE DEF h
<1>. QED BY <1>2, <1>3, HandlerRowType

\* An idle handler is well formed.
LEMMA IdleType == Idle \in HandlerType
BY StoreAssumption DEF Idle, HandlerType, HandlerPhases

\* A worker that leaves keeps tasks and handlers well formed.
LEMMA LeaveType ==
    ASSUME TypeOK, NEW r \in Runners, NEW t \in Turns, NEW a, Leave(r, t, a)
    PROVE  /\ task' \in [Runners -> [Turns -> Phases]]
           /\ handler' \in [Runners -> [Turns -> HandlerType]]
<1>1. task' \in [Runners -> [Turns -> Phases]]
  BY GotoType DEF Leave, Phases
<1>. DEFINE p == IF handler[r][t].phase = "running" THEN "cleaning" ELSE handler[r][t].phase
<1>2. p \in HandlerPhases
  BY DEF TypeOK, RuntimeTypeOK, HandlerType, HandlerPhases
<1>3. handler' = [handler EXCEPT ![r][t].phase = p]
  BY DEF Leave
<1>. HIDE DEF p
<1>4. handler' \in [Runners -> [Turns -> HandlerType]]
  BY <1>2, <1>3, HandlerPhaseType
<1>. QED BY <1>1, <1>4

\* The read of _fail_stuck_approval keeps the handlers well formed.
LEMMA CheckStuckType ==
    ASSUME TypeOK, NEW r \in Runners, NEW t \in Turns, CheckStuck(r, t)
    PROVE  handler' \in [Runners -> [Turns -> HandlerType]]
<1>. DEFINE h == IF turns[t] = "waiting_approval"
                 THEN [handler[r][t] EXCEPT !.phase = "failing"] ELSE Idle
<1>1. handler[r][t] \in HandlerType
  BY DEF TypeOK, RuntimeTypeOK
<1>2. h \in HandlerType
  BY <1>1, IdleType DEF HandlerType, HandlerPhases
<1>3. handler' = [handler EXCEPT ![r][t] = h]
  BY DEF CheckStuck
<1>. HIDE DEF h
<1>. QED BY <1>2, <1>3, HandlerRowType

\* The worker's steps keep the types.
LEMMA WorkerType ==
    ASSUME TypeOK, NEW r \in Runners, NEW t \in Turns, WorkerStep(r, t), UNCHANGED apiVars
    PROVE  TypeOK'
<1>1. ApiTypeOK'
  BY DEF TypeOK, ApiTypeOK, apiVars
<1>. USE DEF TypeOK, StoreTypeOK, RuntimeTypeOK
<1>. SUFFICES StoreTypeOK' /\ RuntimeTypeOK'
  BY <1>1
<1>2. CASE ensure_run_owned_by_runner(r, t)
  BY <1>2 DEF ensure_run_owned_by_runner, Goto, Phases, RunStatuses
<1>3. CASE claim_refused(r, t)
  BY <1>3 DEF claim_refused, Goto, Phases, storeVars
<1>4. CASE start_turn(r, t)
  BY <1>4 DEF start_turn, Goto, Phases, storeVars
<1>5. CASE turn_accepted(r, t)
  <2>1. log' \in [Turns -> LogType]
    BY <1>5, AppendType DEF turn_accepted
  <2>. QED BY <1>5, <2>1 DEF turn_accepted, Goto, Phases, TurnStatuses,
        RUNNING_STATUSES, RunStatuses
<1>6. CASE write_event(r, t)
  <2>1. log' \in [Turns -> LogType]
    BY <1>6, AppendType DEF write_event
  <2>. QED BY <1>6, <2>1 DEF write_event, Goto, Phases
<1>7. CASE approval_requested(r, t)
  <2>1. log' \in [Turns -> LogType]
    BY <1>7, AppendType DEF approval_requested
  <2>2. asks' \in [Turns -> 0 .. MaxAsks]
    BY <1>7, StoreAssumption DEF approval_requested
  <2>3. task' \in [Runners -> [Turns -> Phases]]
    BY <1>7, GotoType DEF approval_requested, Phases
  <2>. QED BY <1>7, <2>1, <2>2, <2>3 DEF approval_requested
<1>8. CASE park(r, t)
  BY <1>8 DEF park, save_pending, Goto, Phases, Interrupts, Asks, NoInterrupt,
        ChildInterrupt
<1>9. CASE finalize_waiting_approval(r, t)
  <2>1. /\ task' \in [Runners -> [Turns -> Phases]]
        /\ handler' \in [Runners -> [Turns -> HandlerType]]
    BY <1>9, LeaveType DEF finalize_waiting_approval
  <2>. QED BY <1>9, <2>1 DEF finalize_waiting_approval, SetStatus, TurnStatuses, RUNNING_STATUSES, RunStatuses
<1>10. CASE settle_waiting_children(r, t)
  BY <1>10 DEF settle_waiting_children, Goto, Phases, Interrupts
<1>11. CASE run_waiting_child(r, t)
  BY <1>11 DEF run_waiting_child, mark_runs, Goto, Phases, RunStatuses
<1>12. CASE join_children(r, t)
  <2>1. log' \in [Turns -> LogType]
    BY <1>12, AppendType DEF join_children
  <2>. QED BY <1>12, <2>1 DEF join_children, Goto, Phases
<1>13. CASE run_joined(r, t)
  BY <1>13 DEF run_joined, mark_runs, Goto, Phases, RunStatuses
<1>14. CASE finalize_completed(r, t)
  <2>1. log' \in [Turns -> LogType]
    BY <1>14, AppendType DEF finalize_completed
  <2>. QED BY <1>14, <2>1 DEF finalize_completed, Goto, Phases, SetStatus, TurnStatuses,
        RUNNING_STATUSES, TERMINAL_STATUSES, RunStatuses
<1>15. CASE finalize_cancelled(r, t)
  <2>1. log' \in [Turns -> LogType]
    BY <1>15, AppendType DEF finalize_cancelled, _cancel_turn
  <2>. QED BY <1>15, <2>1 DEF finalize_cancelled, _cancel_turn, Goto, Phases, SetStatus,
        TurnStatuses, RUNNING_STATUSES, TERMINAL_STATUSES, RunStatuses
<1>16. CASE finalize_cleanup(r, t)
  <2>1. /\ task' \in [Runners -> [Turns -> Phases]]
        /\ handler' \in [Runners -> [Turns -> HandlerType]]
    BY <1>16, LeaveType DEF finalize_cleanup
  <2>. QED BY <1>16, <2>1 DEF finalize_cleanup, Interrupts
<1>17. CASE approval_resolved(r, t)
  <2>1. log' \in [Turns -> LogType]
    BY <1>17, AppendType DEF approval_resolved
  <2>2. task' \in [Runners -> [Turns -> Phases]]
    BY <1>17, GotoType DEF approval_resolved, Phases
  <2>. QED BY <1>17, <2>1, <2>2 DEF approval_resolved, SetStatus, TurnStatuses,
           RUNNING_STATUSES, RunStatuses
<1>18. CASE execute_tool(r, t)
  <2>1. task' \in [Runners -> [Turns -> Phases]]
    BY <1>18, GotoType DEF execute_tool, Phases
  <2>2. executed' \in [Turns -> [Asks -> 0 .. 2]]
    <3>1. executed[t] \in [Asks -> 0 .. 2]
      OBVIOUS
    <3>2. ASSUME NEW a \in Asks
          PROVE  (IF executed[t][a] = 2 THEN 2 ELSE executed[t][a] + 1) \in 0 .. 2
      <4>1. executed[t][a] \in 0 .. 2
        BY <3>1
      <4>. QED BY ONLY <4>1
    <3>. QED BY <1>18, <3>1, <3>2 DEF execute_tool
  <2>. QED BY <1>18, <2>1, <2>2 DEF execute_tool, storeVars
<1>19. CASE ask_again(r, t)
  <2>1. log' \in [Turns -> LogType]
    BY <1>19, AppendType DEF ask_again
  <2>. QED BY <1>19, <2>1 DEF ask_again, Goto, Phases
<1>20. CASE repark(r, t)
  BY <1>20 DEF repark, save_pending, Goto, Phases, Interrupts, Asks, NoInterrupt,
        ChildInterrupt
<1>21. CASE wait_again(r, t)
  <2>1. /\ task' \in [Runners -> [Turns -> Phases]]
        /\ handler' \in [Runners -> [Turns -> HandlerType]]
    BY <1>21, LeaveType DEF wait_again
  <2>. QED BY <1>21, <2>1 DEF wait_again, TurnStatuses, RUNNING_STATUSES
<1>22. CASE tool_completed(r, t)
  <2>1. log' \in [Turns -> LogType]
    BY <1>22, AppendType DEF tool_completed
  <2>. QED BY <1>22, <2>1 DEF tool_completed, Goto, Phases
<1>23. CASE worker_fails(r, t)
  <2>1. StoreTypeOK'
    BY <1>23, FailType DEF worker_fails
  <2>2. /\ task' \in [Runners -> [Turns -> Phases]]
        /\ handler' \in [Runners -> [Turns -> HandlerType]]
    BY <1>23, LeaveType DEF worker_fails
  <2>. QED BY <1>23, <2>1, <2>2 DEF worker_fails
<1>24. CASE turn_waiting_child(r, t)
  BY <1>24 DEF turn_waiting_child, mark_turns, Goto, Phases, TurnStatuses, RUNNING_STATUSES
<1>25. CASE turn_joined(r, t)
  BY <1>25 DEF turn_joined, mark_turns, Goto, Phases, TurnStatuses, RUNNING_STATUSES
<1>. QED BY <1>2, <1>3, <1>4, <1>5, <1>6, <1>7, <1>8, <1>9, <1>10, <1>11, <1>12, <1>13,
        <1>14, <1>15, <1>16, <1>17, <1>18, <1>19, <1>20, <1>21, <1>22, <1>23, <1>24, <1>25
     DEF WorkerStep

\* So do those of the command handlers, the dispatcher, the watchdog and boot.
LEMMA HandlerWatchType ==
    ASSUME TypeOK, NEW r \in Runners, NEW t \in Turns, (HandlerStep(r, t) \/
        wait_timeout(r, t) \/ _purge_expired(r, t) \/ resume_dropped(r, t) \/
        _load_accepted(r, t) \/ claim_dropped(r, t) \/ WatchStep(r, t) \/
        request_cancel(r, t) \/ reconcile_runner_orphans(r, t)), UNCHANGED apiVars
    PROVE  TypeOK'
<1>1. ApiTypeOK'
  BY DEF TypeOK, ApiTypeOK, apiVars
<1>. USE DEF TypeOK, StoreTypeOK, RuntimeTypeOK
<1>. SUFFICES StoreTypeOK' /\ RuntimeTypeOK'
  BY <1>1
<1>2. CASE state_lost(r, t)
  <2>1. handler' \in [Runners -> [Turns -> HandlerType]]
    BY <1>2, CheckStuckType DEF state_lost
  <2>. QED BY <1>2, <2>1 DEF state_lost, CheckStuck, storeVars
<1>3. CASE fail_stuck_approval(r, t)
  <2>1. StoreTypeOK'
    BY <1>3, FailType DEF fail_stuck_approval
  <2>2. handler' \in [Runners -> [Turns -> HandlerType]]
    BY <1>3, IdleType, HandlerRowType DEF fail_stuck_approval
  <2>. QED BY <1>3, <2>1, <2>2 DEF fail_stuck_approval
<1>4. CASE resume(r, t)
  <2>1. task' \in [Runners -> [Turns -> Phases]]
    BY <1>4, GotoType DEF resume, Phases
  <2>2. handler' \in [Runners -> [Turns -> HandlerType]]
    BY <1>4, HandlerPhaseType DEF resume, HandlerPhases
  <2>. QED BY <1>4, <2>1, <2>2 DEF resume, storeVars
<1>c. CASE _cleanup_pending_after_command(r, t)
  <2>. DEFINE row == IF turns[t] = "waiting_approval" THEN Idle
                     ELSE [handler[r][t] EXCEPT !.phase = "dropping"]
  <2>1. row \in HandlerType
    <3>1. handler[r][t] \in HandlerType
      OBVIOUS
    <3>. QED BY ONLY <3>1, IdleType DEF HandlerType, HandlerPhases
  <2>2. handler' = [handler EXCEPT ![r][t] = row]
    BY <1>c DEF _cleanup_pending_after_command
  <2>3. handler' \in [Runners -> [Turns -> HandlerType]]
    BY ONLY TypeOK, <2>1, <2>2, r \in Runners, t \in Turns DEF TypeOK, RuntimeTypeOK
  <2>. QED BY <1>c, <2>3 DEF _cleanup_pending_after_command, storeVars
<1>5. CASE drop_pending(r, t)
  <2>1. handler' \in [Runners -> [Turns -> HandlerType]]
    BY <1>5, IdleType, HandlerRowType DEF drop_pending
  <2>2. pending' \in [Runners -> [Turns -> 0 .. MaxAsks]]
    <3>1. 0 \in 0 .. MaxAsks
      BY StoreAssumption
    <3>2. pending \in [Runners -> [Turns -> 0 .. MaxAsks]]
      OBVIOUS
    <3>3. pending' = pending \/ pending' = [pending EXCEPT ![r][t] = 0]
      BY <1>5 DEF drop_pending, NoInterrupt
    <3>. QED BY ONLY <3>1, <3>2, <3>3, r \in Runners, t \in Turns
  <2>3. checkpoint' \in [Turns -> Interrupts]
    BY <1>5 DEF drop_pending, Interrupts
  <2>. QED BY <1>5, <2>1, <2>2, <2>3 DEF drop_pending
<1>6. CASE wait_timeout(r, t)
  <2>1. handler' \in [Runners -> [Turns -> HandlerType]]
    BY <1>6, CheckStuckType DEF wait_timeout
  <2>. QED BY <1>6, <2>1 DEF wait_timeout, CheckStuck, storeVars
<1>7. CASE _purge_expired(r, t)
  <2>1. pending' \in [Runners -> [Turns -> 0 .. MaxAsks]]
    BY <1>7, StoreAssumption DEF _purge_expired, NoInterrupt
  <2>. QED BY <1>7, <2>1 DEF _purge_expired, storeVars
<1>8. CASE resume_dropped(r, t)
  <2>1. /\ task' \in [Runners -> [Turns -> Phases]]
        /\ handler' \in [Runners -> [Turns -> HandlerType]]
    BY <1>8, LeaveType DEF resume_dropped
  <2>. QED BY <1>8, <2>1 DEF resume_dropped, storeVars
<1>9. CASE _load_accepted(r, t)
  BY <1>9 DEF _load_accepted, Goto, Phases, storeVars
<1>10. CASE claim_dropped(r, t)
  BY <1>10 DEF claim_dropped, Goto, Phases, storeVars
<1>11. CASE find_orphan(r, t)
  BY <1>11 DEF find_orphan, Verdicts, storeVars
<1>12. CASE approval_timeout(r, t)
  BY <1>12 DEF approval_timeout, Verdicts, storeVars
<1>13. CASE watchdog_fails(r, t)
  <2>1. StoreTypeOK'
    BY <1>13, FailType DEF watchdog_fails
  <2>2. RuntimeTypeOK'
    BY <1>13 DEF watchdog_fails, Verdicts
  <2>. QED BY <2>1, <2>2
<1>14. CASE request_cancel(r, t)
  BY <1>14 DEF request_cancel, Verdicts, storeVars
<1>15. CASE maybe_finalize_orphan_cancel(r, t)
  <2>1. log' \in [Turns -> LogType]
    BY <1>15, AppendType DEF maybe_finalize_orphan_cancel, _cancel_turn
  <2>. QED BY <1>15, <2>1 DEF maybe_finalize_orphan_cancel, _cancel_turn, Verdicts,
        SetStatus, TurnStatuses, RUNNING_STATUSES, TERMINAL_STATUSES, RunStatuses
<1>16. CASE orphan_cancel_cleanup(r, t)
  BY <1>16 DEF orphan_cancel_cleanup, Verdicts, Interrupts
<1>17. CASE reconcile_runner_orphans(r, t)
  <2>1. StoreTypeOK'
    BY <1>17, FailType DEF reconcile_runner_orphans
  <2>2. RuntimeTypeOK'
    BY <1>17 DEF reconcile_runner_orphans
  <2>. QED BY <2>1, <2>2
<1>. QED BY <1>2, <1>3, <1>4, <1>c, <1>5, <1>6, <1>7, <1>8, <1>9, <1>10, <1>11, <1>12, <1>13,
        <1>14, <1>15, <1>16, <1>17
     DEF HandlerStep, WatchStep

\* And the ones that do not concern a single turn.
LEMMA ReplicaType ==
    ASSUME TypeOK, NEW r \in Runners, UNCHANGED apiVars,
           \/ boot(r) \/ start_listeners(r) \/ crash(r)
           \/ renew_run_leases(r) \/ scan_stalled_runs(r)
           \/ \E t \in Turns, type \in CommandTypes : consume_pending_for_run(r, t, type)
    PROVE  TypeOK'
<1>1. ApiTypeOK'
  BY DEF TypeOK, ApiTypeOK, apiVars
<1>. USE DEF TypeOK, StoreTypeOK, RuntimeTypeOK
<1>. SUFFICES StoreTypeOK' /\ RuntimeTypeOK'
  BY <1>1
<1>2. CASE boot(r)
  BY <1>2 DEF boot, storeVars
<1>3. CASE start_listeners(r)
  BY <1>3 DEF start_listeners, storeVars
<1>4. CASE crash(r)
  BY <1>4, StoreAssumption, RuntimeAssumption
  DEF crash, storeVars, Phases, HandlerType, HandlerPhases, Idle, NoInterrupt, Verdicts
<1>5. CASE renew_run_leases(r)
  BY <1>5 DEF renew_run_leases, runtimeVars
<1>6. CASE scan_stalled_runs(r)
  <2>1. \A t \in Turns : Verdict(t) \in Verdicts
    BY DEF Verdict, Verdicts
  <2>. QED BY <1>6, <2>1 DEF scan_stalled_runs, storeVars, Verdicts
<1>7. ASSUME NEW t \in Turns, NEW type \in CommandTypes, consume_pending_for_run(r, t, type)
      PROVE  StoreTypeOK' /\ RuntimeTypeOK'
  <2>1. command' \in [Turns -> [CommandTypes -> Asks \cup {NoInterrupt}]]
    BY <1>7 DEF consume_pending_for_run
  <2>2. [phase |-> "waiting", ask |-> command[t][type], approved |-> type = "approve"] \in HandlerType
    BY StoreAssumption DEF HandlerType, HandlerPhases, Asks, NoInterrupt
  <2>3. handler' \in [Runners -> [Turns -> HandlerType]]
    BY <1>7, <2>2 DEF consume_pending_for_run
  <2>. QED BY <1>7, <2>1, <2>3 DEF consume_pending_for_run
<1>. QED BY <1>2, <1>3, <1>4, <1>5, <1>6, <1>7

\* The rows and the replicas start well formed.
LEMMA InitType == Init => TypeOK
BY StoreAssumption, RuntimeAssumption
DEF Init, StoreInit, ApiInit, RuntimeInit, TypeOK, StoreTypeOK, ApiTypeOK, RuntimeTypeOK,
    TurnStatuses, RUNNING_STATUSES, LogType, EmptyLog, ViewType, Interrupts, NoInterrupt,
    Phases, HandlerType, HandlerPhases, Idle, Verdicts

\* Every step keeps the types.
LEMMA NextType == TypeOK /\ [Next]_vars => TypeOK'
<1>. SUFFICES ASSUME TypeOK, [Next]_vars PROVE TypeOK'
  OBVIOUS
<1>1. CASE UNCHANGED vars
  BY <1>1 DEF vars, storeVars, apiVars, runtimeVars, TypeOK, StoreTypeOK, ApiTypeOK,
              RuntimeTypeOK
<1>2. CASE \E t \in Turns : ApiNext(t) /\ UNCHANGED runtimeVars
  BY <1>2, ApiType
<1>3. ASSUME NEW r \in Runners, RuntimeNext(r), UNCHANGED apiVars PROVE TypeOK'
  BY <1>3, WorkerType, HandlerWatchType, ReplicaType DEF RuntimeNext, BootStep
<1>. QED BY <1>1, <1>2, <1>3 DEF Next

\* Type correctness of the whole platform, for every set of turns and replicas.
THEOREM TypeCorrect == Spec => []TypeOK
BY InitType, NextType, PTL DEF Spec

-----------------------------------------------------------------------------
(***************************************************************************)
(* The claim protocol (B4): one worker per turn, an owner that never       *)
(* changes, runs that never look claimable again, and a boot that spares   *)
(* live workers.                                                           *)
(*                                                                         *)
(* None of these is inductive.  That only the owner works (Owner) is kept  *)
(* by a resume only because handlers belong to the owner (HandlerOwner),   *)
(* and by a claim only because a claimable run has no owner (Fresh).       *)
(* Fresh in turn is kept by the projector, which writes runs.status, only  *)
(* because it never folds a log to "pending" (Begun).                      *)
(***************************************************************************)

(* The inductive invariant.                                                *)

\* Only the owner of a run works on it,
Owner == \A r \in Runners, t \in Turns : Working(r, t) => runner[t] = r

\* handles its commands,
HandlerOwner ==
    \A r \in Runners, t \in Turns : handler[r][t].phase # "none" => runner[t] = r

\* or takes it for an orphan when it boots.
OrphanOwner == \A r \in Runners : \A t \in orphans[r] : runner[t] = r

\* Nothing runs in a process that is down or booting.
Quiet == \A r \in Runners : process[r] # "up" => \A t \in Turns : task[r][t] = "none"

Unclaimed == {"absent", "accepted"}

\* A run that can be claimed has no owner.
Fresh == \A t \in Turns : runs[t] \in Unclaimed => runner[t] = NoRunner

\* A turn and its run are created together.
Absent == \A t \in Turns : turns[t] = "absent" => runs[t] = "absent"

Ownership == Owner /\ HandlerOwner /\ OrphanOwner /\ Quiet /\ Fresh /\ Absent

\* What a step never does to a run: hand it to another owner, or offer it
\* again.
Kept ==
    \A t \in Turns :
        /\ runner[t] # NoRunner => runner'[t] = runner[t]
        /\ runs[t] \notin Unclaimed => runs'[t] \notin Unclaimed

\* A log that has begun folds to a status past "pending",
LogBegun == \A t \in Turns : log[t].last > 0 => log[t].status # "pending"

\* a worker past turn.accepted or approval.resolved has begun it,
WorkBegun ==
    \A r \in Runners, t \in Turns :
        task[r][t] \notin {"none", "claiming", "owned", "claimed", "resuming"}
            => log[t].status # "pending"

\* and so had what a projection read.
ProjBegun == \A t \in Turns : \A s \in proj[t] : s.status # "pending"

Begun == LogBegun /\ WorkBegun /\ ProjBegun

-----------------------------------------------------------------------------
(* Ownership is kept.                                                      *)

\* The run of a worker was claimed, so its turn exists.
LEMMA OwnedRow ==
    ASSUME TypeOK, Ownership, NEW r \in Runners, NEW t \in Turns, Working(r, t)
    PROVE  runner[t] = r /\ runs[t] \notin Unclaimed /\ turns[t] # "absent"
BY StoreAssumption DEF Ownership, Owner, Fresh, Absent, Unclaimed

\* By the worker's steps.
LEMMA OwnershipWorker ==
    ASSUME TypeOK, Ownership, NEW r \in Runners, NEW t \in Turns, WorkerStep(r, t)
    PROVE  Ownership' /\ Kept
<1>. USE DEF Kept, Ownership, Owner, HandlerOwner, OrphanOwner, Quiet, Fresh, Absent,
      Unclaimed, TypeOK, StoreTypeOK, RuntimeTypeOK, Working
<1>1. CASE ensure_run_owned_by_runner(r, t)
  BY <1>1, OwnedRow, StoreAssumption DEF ensure_run_owned_by_runner, Goto
<1>2. CASE claim_refused(r, t)
  BY <1>2, OwnedRow, StoreAssumption DEF claim_refused, Goto, storeVars
<1>3. CASE start_turn(r, t)
  BY <1>3, OwnedRow, StoreAssumption DEF start_turn, Goto, storeVars
<1>4. CASE turn_accepted(r, t)
  BY <1>4, OwnedRow, StoreAssumption DEF turn_accepted, Goto
<1>5. CASE write_event(r, t)
  BY <1>5, OwnedRow, StoreAssumption DEF write_event, Goto
<1>6. CASE approval_requested(r, t)
  BY <1>6, OwnedRow, StoreAssumption DEF approval_requested, Goto
<1>7. CASE park(r, t)
  BY <1>7, OwnedRow, StoreAssumption DEF park, save_pending, Goto
<1>8. CASE finalize_waiting_approval(r, t)
  BY <1>8, OwnedRow, StoreAssumption DEF finalize_waiting_approval, Leave, Goto,
      SetStatus, HandlerType
<1>9. CASE settle_waiting_children(r, t)
  BY <1>9, OwnedRow, StoreAssumption DEF settle_waiting_children, Goto
<1>10. CASE run_waiting_child(r, t)
  BY <1>10, OwnedRow, StoreAssumption DEF run_waiting_child, mark_runs, Goto
<1>11. CASE join_children(r, t)
  BY <1>11, OwnedRow, StoreAssumption DEF join_children, Goto
<1>12. CASE run_joined(r, t)
  BY <1>12, OwnedRow, StoreAssumption DEF run_joined, mark_runs, Goto
<1>13. CASE finalize_completed(r, t)
  BY <1>13, OwnedRow, StoreAssumption DEF finalize_completed, Goto, SetStatus
<1>14. CASE finalize_cancelled(r, t)
  BY <1>14, OwnedRow, StoreAssumption DEF finalize_cancelled, Goto, _cancel_turn,
      SetStatus
<1>15. CASE finalize_cleanup(r, t)
  BY <1>15, OwnedRow, StoreAssumption DEF finalize_cleanup, Leave, Goto, HandlerType
<1>16. CASE approval_resolved(r, t)
  <2>1. PICK b \in {"granted", "denied"} : Goto(r, t, "resuming", b)
    BY <1>16 DEF approval_resolved
  <2>. QED BY <1>16, <2>1 DEF approval_resolved, Goto, SetStatus
<1>17. CASE execute_tool(r, t)
  BY <1>17, OwnedRow, StoreAssumption DEF execute_tool, Goto, storeVars
<1>18. CASE ask_again(r, t)
  BY <1>18, OwnedRow, StoreAssumption DEF ask_again, Goto
<1>19. CASE repark(r, t)
  BY <1>19, OwnedRow, StoreAssumption DEF repark, save_pending, Goto
<1>20. CASE wait_again(r, t)
  BY <1>20, OwnedRow, StoreAssumption DEF wait_again, Leave, Goto, HandlerType
<1>21. CASE tool_completed(r, t)
  BY <1>21, OwnedRow, StoreAssumption DEF tool_completed, Goto
<1>22. CASE worker_fails(r, t)
  BY <1>22, OwnedRow, StoreAssumption DEF worker_fails, Leave, Goto, _fail_turn,
      SetStatus, HandlerType
<1>23. CASE turn_waiting_child(r, t)
  BY <1>23, OwnedRow, StoreAssumption DEF turn_waiting_child, mark_turns, Goto
<1>24. CASE turn_joined(r, t)
  BY <1>24, OwnedRow, StoreAssumption DEF turn_joined, mark_turns, Goto
<1>. QED BY <1>1, <1>2, <1>3, <1>4, <1>5, <1>6, <1>7, <1>8, <1>9, <1>10, <1>11, <1>12,
      <1>13, <1>14, <1>15, <1>16, <1>17, <1>18, <1>19, <1>20, <1>21, <1>22,
      <1>23, <1>24 DEF WorkerStep

\* By the command handlers and the dispatcher.
LEMMA OwnershipHandler ==
    ASSUME TypeOK, Ownership, NEW r \in Runners, NEW t \in Turns,
           \/ HandlerStep(r, t) \/ wait_timeout(r, t) \/ _purge_expired(r, t)
           \/ resume_dropped(r, t) \/ _load_accepted(r, t) \/ claim_dropped(r, t)
    PROVE  Ownership' /\ Kept
<1>. USE DEF Kept, Ownership, Owner, HandlerOwner, OrphanOwner, Quiet, Fresh, Absent,
      Unclaimed, TypeOK, StoreTypeOK, RuntimeTypeOK, Working
<1>1. CASE state_lost(r, t)
  BY <1>1 DEF state_lost, CheckStuck, Idle, HandlerType, storeVars
<1>2. CASE fail_stuck_approval(r, t)
  BY <1>2 DEF fail_stuck_approval, _fail_turn, SetStatus, Idle
<1>3. CASE resume(r, t)
  <2>1. /\ runner[t] = r
        /\ process[r] = "up"
        /\ \A q \in Runners, u \in Turns : (q # r \/ u # t) =>
              task'[q][u] = task[q][u] /\ handler'[q][u] = handler[q][u]
    BY <1>3 DEF resume, Goto
  <2>2. runner' = runner /\ process' = process
    BY <1>3 DEF resume, storeVars
  <2>3. \A q \in Runners, u \in Turns :
          /\ task[q][u] \notin {"none", "claiming"} => runner[u] = q
          /\ handler[q][u].phase # "none" => runner[u] = q
          /\ process[q] # "up" => task[q][u] = "none"
    OBVIOUS
  <2>4. \A q \in Runners, u \in Turns :
          /\ task'[q][u] \notin {"none", "claiming"} => runner'[u] = q
          /\ handler'[q][u].phase # "none" => runner'[u] = q
          /\ process'[q] # "up" => task'[q][u] = "none"
    <3>1. SUFFICES ASSUME NEW q \in Runners, NEW u \in Turns
                   PROVE  /\ task'[q][u] \notin {"none", "claiming"} => runner[u] = q
                          /\ handler'[q][u].phase # "none" => runner[u] = q
                          /\ process[q] # "up" => task'[q][u] = "none"
      BY <2>2
    <3>2. CASE q = r /\ u = t
      BY ONLY <2>1, <3>2
    <3>3. CASE q # r \/ u # t
      BY ONLY <2>1, <2>3, <3>3, q \in Runners, u \in Turns
    <3>. QED BY ONLY <3>2, <3>3
  <2>. QED BY <1>3, <2>4 DEF resume, storeVars
<1>4. CASE drop_pending(r, t)
  BY <1>4 DEF drop_pending, Idle
<1>c. CASE _cleanup_pending_after_command(r, t)
  <2>1. handler[r][t].phase # "none" /\ UNCHANGED <<task, runner, process>>
    BY <1>c DEF _cleanup_pending_after_command, storeVars
  <2>2. \A q \in Runners, u \in Turns : (q # r \/ u # t) => handler'[q][u] = handler[q][u]
    BY <1>c DEF _cleanup_pending_after_command
  <2>3. /\ runner[t] = r
        /\ \A q \in Runners, u \in Turns : handler[q][u].phase # "none" => runner[u] = q
    BY <2>1
  <2>4. HandlerOwner'
    <3>1. SUFFICES ASSUME NEW q \in Runners, NEW u \in Turns, handler'[q][u].phase # "none"
                   PROVE  runner[u] = q
      BY <2>1
    <3>. QED BY ONLY <2>2, <2>3, <3>1, q \in Runners, u \in Turns
  <2>. QED BY <1>c, <2>1, <2>4 DEF _cleanup_pending_after_command, storeVars
<1>5. CASE wait_timeout(r, t)
  BY <1>5 DEF wait_timeout, CheckStuck, Idle, HandlerType, storeVars
<1>6. CASE _purge_expired(r, t)
  BY <1>6 DEF _purge_expired, storeVars
<1>7. CASE resume_dropped(r, t)
  BY <1>7 DEF resume_dropped, Leave, Goto, HandlerType, storeVars
<1>8. CASE _load_accepted(r, t)
  BY <1>8 DEF _load_accepted, Goto, storeVars
<1>9. CASE claim_dropped(r, t)
  BY <1>9 DEF claim_dropped, Goto, storeVars
<1>. QED BY <1>1, <1>2, <1>3, <1>4, <1>c, <1>5, <1>6, <1>7, <1>8, <1>9 DEF HandlerStep

\* By the watchdog and the reconcile at boot.
LEMMA OwnershipWatch ==
    ASSUME TypeOK, Ownership, NEW r \in Runners, NEW t \in Turns,
           WatchStep(r, t) \/ request_cancel(r, t) \/ reconcile_runner_orphans(r, t)
    PROVE  Ownership' /\ Kept
<1>. USE DEF Kept, Ownership, Owner, HandlerOwner, OrphanOwner, Quiet, Fresh, Absent,
      Unclaimed, TypeOK, StoreTypeOK, RuntimeTypeOK, Working
<1>1. CASE find_orphan(r, t)
  BY <1>1 DEF find_orphan, storeVars
<1>2. CASE approval_timeout(r, t)
  BY <1>2 DEF approval_timeout, storeVars
<1>3. CASE watchdog_fails(r, t)
  BY <1>3 DEF watchdog_fails, _fail_turn, SetStatus
<1>4. CASE request_cancel(r, t)
  BY <1>4 DEF request_cancel, storeVars
<1>5. CASE maybe_finalize_orphan_cancel(r, t)
  BY <1>5 DEF maybe_finalize_orphan_cancel, _cancel_turn, SetStatus
<1>6. CASE orphan_cancel_cleanup(r, t)
  BY <1>6 DEF orphan_cancel_cleanup
<1>7. CASE reconcile_runner_orphans(r, t)
  BY <1>7 DEF reconcile_runner_orphans, _fail_turn, SetStatus
<1>. QED BY <1>1, <1>2, <1>3, <1>4, <1>5, <1>6, <1>7 DEF WatchStep

\* By the steps that do not concern a single turn, and by a command's arrival.
LEMMA OwnershipReplica ==
    ASSUME TypeOK, Ownership, NEW r \in Runners,
           \/ boot(r) \/ start_listeners(r) \/ crash(r)
           \/ renew_run_leases(r) \/ scan_stalled_runs(r)
           \/ \E t \in Turns, type \in CommandTypes : consume_pending_for_run(r, t, type)
    PROVE  Ownership' /\ Kept
<1>. USE DEF Kept, Ownership, Owner, HandlerOwner, OrphanOwner, Quiet, Fresh, Absent, Unclaimed,
         TypeOK, StoreTypeOK, RuntimeTypeOK, Working
<1>1. CASE boot(r)
  BY <1>1 DEF boot, storeVars
<1>2. CASE start_listeners(r)
  BY <1>2 DEF start_listeners, storeVars
<1>3. CASE crash(r)
  BY <1>3 DEF crash, storeVars, Idle
<1>4. CASE renew_run_leases(r)
  BY <1>4 DEF renew_run_leases, runtimeVars
<1>5. CASE scan_stalled_runs(r)
  BY <1>5 DEF scan_stalled_runs, storeVars
<1>6. ASSUME NEW t \in Turns, NEW type \in CommandTypes, consume_pending_for_run(r, t, type)
      PROVE  Ownership' /\ Kept
  BY <1>6 DEF consume_pending_for_run
<1>. QED BY <1>1, <1>2, <1>3, <1>4, <1>5, <1>6

\* By the api.
LEMMA OwnershipApi ==
    ASSUME TypeOK, Ownership, Begun, NEW t \in Turns, ApiNext(t), UNCHANGED runtimeVars
    PROVE  Ownership' /\ Kept
<1>. USE DEF Kept, Ownership, Owner, HandlerOwner, OrphanOwner, Quiet, Fresh, Absent,
      Unclaimed, TypeOK, StoreTypeOK, RuntimeTypeOK, Working
<1>1. CASE create_turn(t)
  BY <1>1 DEF create_turn, SetStatus, runtimeVars
<1>2. CASE cancel_turn(t)
  BY <1>2 DEF cancel_turn, runtimeVars
<1>3. CASE reconcile_unclaimed_turns(t)
  BY <1>3 DEF reconcile_unclaimed_turns, _fail_turn, SetStatus, runtimeVars
<1>4. CASE lease_expires(t)
  BY <1>4 DEF lease_expires, runtimeVars
<1>5. CASE reconcile_expired_leases(t)
  BY <1>5 DEF reconcile_expired_leases, SetStatus, runtimeVars
<1>6. CASE project_read(t)
  BY <1>6 DEF project_read, storeVars, runtimeVars
<1>7. CASE project_lost(t)
  BY <1>7 DEF project_lost, storeVars, runtimeVars
<1>8. CASE project_write(t)
  <2>1. PICK s \in proj[t] : SetStatus(t, s.status, map_turn_to_run_status(s.status))
    BY <1>8 DEF project_write
  <2>2. s.status \in TurnStatuses /\ s.status # "pending"
    BY <2>1 DEF ApiTypeOK, ViewType, Begun, ProjBegun
  <2>3. s.status # "absent" /\ map_turn_to_run_status(s.status) \notin Unclaimed
    BY <2>2 DEF map_turn_to_run_status, TurnStatuses, RUNNING_STATUSES, TERMINAL_STATUSES
  <2>4. Fresh' /\ Absent' /\ Kept
    BY <1>8, <2>1, <2>3 DEF project_write, SetStatus
  <2>. QED BY <1>8, <2>4 DEF project_write, runtimeVars
<1>9. CASE \E type \in CommandTypes, ask \in Asks : enqueue_run_command(t, type, ask)
  BY <1>9 DEF enqueue_run_command, runtimeVars
<1>. QED BY <1>9, <1>1, <1>2, <1>3, <1>4, <1>5, <1>6, <1>7, <1>8 DEF ApiNext,
      project_notified, reconcile_lagging_projections, reconcile_stale_turns

-----------------------------------------------------------------------------
(* Begun is kept.                                                          *)

\* After a step on turn t its log has begun, and the other logs are as before.
LogKept(t) ==
    /\ log'[t].status # "pending"
    /\ \A u \in Turns : u # t => log'[u] = log[u]

\* Every event but "other" begins a log.
LEMMA AppendBegun ==
    ASSUME TypeOK, NEW t \in Turns, NEW e, AppendTo(t, e),
           \/ log[t].status # "pending"
           \/ e \in {"turn.accepted", "approval.requested", "approval.resolved",
                     "turn.completed", "turn.failed", "turn.cancelled"}
    PROVE  LogKept(t)
<1>1. log[t] \in LogType /\ log'[t] = append_event(log[t], e)
  BY DEF TypeOK, StoreTypeOK, AppendTo
<1>2. ApplyEvent(log[t].status, e) # "pending"
  BY <1>1 DEF ApplyEvent, LogType, TurnStatuses, RUNNING_STATUSES, TERMINAL_STATUSES,
              TERMINAL_STATUS_MAP
<1>. QED BY <1>1, <1>2 DEF LogKept, append_event, AppendTo, TypeOK, StoreTypeOK

\* Nor does a worker that writes it break anything by moving on.
LEMMA GotoBegun ==
    ASSUME TypeOK, Begun, NEW r \in Runners, NEW t \in Turns, NEW a, NEW b,
           Goto(r, t, a, b), LogKept(t), UNCHANGED apiVars
    PROVE  Begun'
<1>1. \A q \in Runners, u \in Turns : u # t => task'[q][u] = task[q][u]
  BY DEF Goto, TypeOK, RuntimeTypeOK
<1>. QED BY <1>1 DEF Begun, LogBegun, WorkBegun, ProjBegun, LogKept, apiVars

\* By the worker's steps.
LEMMA BegunWorker ==
    ASSUME TypeOK, Begun, NEW r \in Runners, NEW t \in Turns, WorkerStep(r, t),
           UNCHANGED apiVars
    PROVE  Begun'
<1>. USE DEF Begun, LogBegun, WorkBegun, ProjBegun, TypeOK, StoreTypeOK, RuntimeTypeOK,
      apiVars
<1>1. CASE ensure_run_owned_by_runner(r, t)
  BY <1>1 DEF ensure_run_owned_by_runner, Goto
<1>2. CASE claim_refused(r, t)
  BY <1>2 DEF claim_refused, Goto, storeVars
<1>3. CASE start_turn(r, t)
  BY <1>3 DEF start_turn, Goto, storeVars
<1>4. CASE turn_accepted(r, t)
  <2>1. LogKept(t)
    BY <1>4, AppendBegun DEF turn_accepted, Goto
  <2>. QED BY <1>4, <2>1 DEF LogKept, turn_accepted, Goto
<1>5. CASE write_event(r, t)
  <2>1. LogKept(t)
    BY <1>5, AppendBegun DEF write_event, Goto
  <2>. QED BY <1>5, <2>1, GotoBegun DEF write_event
<1>6. CASE approval_requested(r, t)
  <2>1. LogKept(t)
    BY <1>6, AppendBegun DEF approval_requested, Goto
  <2>. QED BY <1>6, <2>1 DEF LogKept, approval_requested, Goto
<1>7. CASE park(r, t)
  BY <1>7 DEF park, save_pending, Goto
<1>8. CASE finalize_waiting_approval(r, t)
  BY <1>8 DEF finalize_waiting_approval, Leave, Goto
<1>9. CASE settle_waiting_children(r, t)
  BY <1>9 DEF settle_waiting_children, Goto
<1>10. CASE run_waiting_child(r, t)
  BY <1>10 DEF run_waiting_child, mark_runs, Goto
<1>11. CASE join_children(r, t)
  <2>1. LogKept(t)
    BY <1>11, AppendBegun DEF join_children, Goto
  <2>. QED BY <1>11, <2>1 DEF LogKept, join_children, Goto
<1>12. CASE run_joined(r, t)
  BY <1>12 DEF run_joined, mark_runs, Goto
<1>13. CASE finalize_completed(r, t)
  <2>1. LogKept(t)
    BY <1>13, AppendBegun DEF finalize_completed, Goto
  <2>. QED BY <1>13, <2>1 DEF LogKept, finalize_completed, Goto
<1>14. CASE finalize_cancelled(r, t)
  <2>1. LogKept(t)
    BY <1>14, AppendBegun DEF finalize_cancelled, Goto, _cancel_turn
  <2>. QED BY <1>14, <2>1 DEF LogKept, finalize_cancelled, Goto, _cancel_turn
<1>15. CASE finalize_cleanup(r, t)
  BY <1>15 DEF finalize_cleanup, Leave, Goto
<1>16. CASE approval_resolved(r, t)
  <2>1. LogKept(t)
    BY <1>16, AppendBegun DEF approval_resolved, Goto
  <2>. QED BY <1>16, <2>1, GotoBegun DEF approval_resolved
<1>17. CASE execute_tool(r, t)
  BY <1>17 DEF execute_tool, Goto, storeVars
<1>18. CASE ask_again(r, t)
  <2>1. LogKept(t)
    BY <1>18, AppendBegun DEF ask_again, Goto
  <2>. QED BY <1>18, <2>1 DEF LogKept, ask_again, Goto
<1>19. CASE repark(r, t)
  BY <1>19 DEF repark, save_pending, Goto
<1>20. CASE wait_again(r, t)
  BY <1>20 DEF wait_again, Leave, Goto
<1>21. CASE tool_completed(r, t)
  <2>1. LogKept(t)
    BY <1>21, AppendBegun DEF tool_completed, Goto
  <2>. QED BY <1>21, <2>1 DEF LogKept, tool_completed, Goto
<1>22. CASE worker_fails(r, t)
  <2>1. LogKept(t)
    BY <1>22, AppendBegun DEF worker_fails, Leave, Goto, _fail_turn
  <2>. QED BY <1>22, <2>1 DEF LogKept, worker_fails, Leave, Goto, _fail_turn
<1>23. CASE turn_waiting_child(r, t)
  BY <1>23 DEF turn_waiting_child, mark_turns, Goto
<1>24. CASE turn_joined(r, t)
  BY <1>24 DEF turn_joined, mark_turns, Goto
<1>. QED BY <1>1, <1>2, <1>3, <1>4, <1>5, <1>6, <1>7, <1>8, <1>9, <1>10, <1>11, <1>12,
      <1>13, <1>14, <1>15, <1>16, <1>17, <1>18, <1>19, <1>20, <1>21, <1>22,
      <1>23, <1>24 DEF WorkerStep

\* By the command handlers and the dispatcher.
LEMMA BegunHandler ==
    ASSUME TypeOK, Begun, NEW r \in Runners, NEW t \in Turns, UNCHANGED apiVars,
           \/ HandlerStep(r, t) \/ wait_timeout(r, t) \/ _purge_expired(r, t)
           \/ resume_dropped(r, t) \/ _load_accepted(r, t) \/ claim_dropped(r, t)
    PROVE  Begun'
<1>. USE DEF Begun, LogBegun, WorkBegun, ProjBegun, TypeOK, StoreTypeOK, RuntimeTypeOK,
      apiVars
<1>1. CASE state_lost(r, t)
  BY <1>1 DEF state_lost, CheckStuck, storeVars
<1>2. CASE fail_stuck_approval(r, t)
  <2>1. LogKept(t)
    BY <1>2, AppendBegun DEF fail_stuck_approval, _fail_turn
  <2>. QED BY <1>2, <2>1 DEF LogKept, fail_stuck_approval, _fail_turn
<1>3. CASE resume(r, t)
  <2>1. PICK b \in {"resuming", "none"} : task' = [task EXCEPT ![r][t] = b]
    BY <1>3 DEF resume, Goto
  <2>2. log' = log /\ proj' = proj
    BY <1>3 DEF resume, storeVars
  <2>. QED BY <2>1, <2>2
<1>4. CASE _cleanup_pending_after_command(r, t) \/ drop_pending(r, t)
  BY <1>4 DEF _cleanup_pending_after_command, drop_pending, storeVars
<1>5. CASE wait_timeout(r, t)
  BY <1>5 DEF wait_timeout, CheckStuck, storeVars
<1>6. CASE _purge_expired(r, t)
  BY <1>6 DEF _purge_expired, storeVars
<1>7. CASE resume_dropped(r, t)
  BY <1>7 DEF resume_dropped, Leave, Goto, storeVars
<1>8. CASE _load_accepted(r, t)
  BY <1>8 DEF _load_accepted, Goto, storeVars
<1>9. CASE claim_dropped(r, t)
  BY <1>9 DEF claim_dropped, Goto, storeVars
<1>. QED BY <1>1, <1>2, <1>3, <1>4, <1>5, <1>6, <1>7, <1>8, <1>9 DEF HandlerStep

\* By the watchdog and the reconcile at boot.
LEMMA BegunWatch ==
    ASSUME TypeOK, Begun, NEW r \in Runners, NEW t \in Turns, UNCHANGED apiVars,
           WatchStep(r, t) \/ request_cancel(r, t) \/ reconcile_runner_orphans(r, t)
    PROVE  Begun'
<1>. USE DEF Begun, LogBegun, WorkBegun, ProjBegun, TypeOK, StoreTypeOK, RuntimeTypeOK,
      apiVars
<1>1. CASE find_orphan(r, t)
  BY <1>1 DEF find_orphan, storeVars
<1>2. CASE approval_timeout(r, t)
  BY <1>2 DEF approval_timeout, storeVars
<1>3. CASE watchdog_fails(r, t)
  <2>1. LogKept(t)
    BY <1>3, AppendBegun DEF watchdog_fails, _fail_turn
  <2>. QED BY <1>3, <2>1 DEF LogKept, watchdog_fails, _fail_turn
<1>4. CASE request_cancel(r, t)
  BY <1>4 DEF request_cancel, storeVars
<1>5. CASE maybe_finalize_orphan_cancel(r, t)
  <2>1. LogKept(t)
    BY <1>5, AppendBegun DEF maybe_finalize_orphan_cancel, _cancel_turn
  <2>. QED BY <1>5, <2>1 DEF LogKept, maybe_finalize_orphan_cancel, _cancel_turn
<1>6. CASE orphan_cancel_cleanup(r, t)
  BY <1>6 DEF orphan_cancel_cleanup
<1>7. CASE reconcile_runner_orphans(r, t)
  <2>1. LogKept(t)
    BY <1>7, AppendBegun DEF reconcile_runner_orphans, _fail_turn
  <2>. QED BY <1>7, <2>1 DEF LogKept, reconcile_runner_orphans, _fail_turn
<1>. QED BY <1>1, <1>2, <1>3, <1>4, <1>5, <1>6, <1>7 DEF WatchStep

\* By the steps that do not concern a single turn, and by a command's arrival.
LEMMA BegunReplica ==
    ASSUME TypeOK, Begun, NEW r \in Runners, UNCHANGED apiVars,
           \/ boot(r) \/ start_listeners(r) \/ crash(r)
           \/ renew_run_leases(r) \/ scan_stalled_runs(r)
           \/ \E t \in Turns, type \in CommandTypes : consume_pending_for_run(r, t, type)
    PROVE  Begun'
<1>. USE DEF Begun, LogBegun, WorkBegun, ProjBegun, TypeOK, StoreTypeOK, RuntimeTypeOK, apiVars
<1>1. CASE boot(r)
  BY <1>1 DEF boot, storeVars
<1>2. CASE start_listeners(r)
  BY <1>2 DEF start_listeners, storeVars
<1>3. CASE crash(r)
  BY <1>3 DEF crash, storeVars
<1>4. CASE renew_run_leases(r)
  BY <1>4 DEF renew_run_leases, runtimeVars
<1>5. CASE scan_stalled_runs(r)
  BY <1>5 DEF scan_stalled_runs, storeVars
<1>6. ASSUME NEW t \in Turns, NEW type \in CommandTypes, consume_pending_for_run(r, t, type)
      PROVE  Begun'
  BY <1>6 DEF consume_pending_for_run
<1>. QED BY <1>1, <1>2, <1>3, <1>4, <1>5, <1>6

\* By the api.
LEMMA BegunApi ==
    ASSUME TypeOK, Begun, NEW t \in Turns, ApiNext(t), UNCHANGED runtimeVars
    PROVE  Begun'
<1>. USE DEF Begun, LogBegun, WorkBegun, ProjBegun, TypeOK, StoreTypeOK, ApiTypeOK,
      RuntimeTypeOK
<1>1. CASE create_turn(t)
  BY <1>1 DEF create_turn, runtimeVars
<1>2. CASE cancel_turn(t)
  BY <1>2 DEF cancel_turn, runtimeVars
<1>3. CASE reconcile_unclaimed_turns(t)
  <2>1. LogKept(t)
    BY <1>3, AppendBegun DEF reconcile_unclaimed_turns, _fail_turn, runtimeVars
  <2>. QED BY <1>3, <2>1 DEF LogKept, reconcile_unclaimed_turns, _fail_turn, runtimeVars
<1>4. CASE lease_expires(t)
  BY <1>4 DEF lease_expires, runtimeVars
<1>5. CASE reconcile_expired_leases(t)
  <2>1. LogKept(t)
    BY <1>5, AppendBegun DEF reconcile_expired_leases, runtimeVars
  <2>. QED BY <1>5, <2>1 DEF LogKept, reconcile_expired_leases, runtimeVars
<1>6. CASE project_lost(t)
  BY <1>6 DEF project_lost, storeVars, runtimeVars
<1>7. CASE project_read(t)
  BY <1>7 DEF project_read, Snapshot, storeVars, runtimeVars
<1>8. CASE project_write(t)
  BY <1>8 DEF project_write, runtimeVars
<1>9. CASE \E type \in CommandTypes, ask \in Asks : enqueue_run_command(t, type, ask)
  BY <1>9 DEF enqueue_run_command, runtimeVars
<1>. QED BY <1>1, <1>2, <1>3, <1>4, <1>5, <1>6, <1>7, <1>8, <1>9 DEF ApiNext, project_notified,
      reconcile_lagging_projections, reconcile_stale_turns

-----------------------------------------------------------------------------
(* The invariant, and what follows from it.                                *)

IInv == TypeOK /\ Ownership /\ Begun

\* The invariant holds before anything happened.
LEMMA InitInv == Init => IInv
<1>. SUFFICES ASSUME Init PROVE IInv
  OBVIOUS
<1>1. TypeOK
  BY InitType
<1>2. Ownership
  BY DEF Init, StoreInit, RuntimeInit, Ownership, Owner, HandlerOwner, OrphanOwner, Quiet,
         Fresh, Absent, Unclaimed, Working, Idle
<1>3. Begun
  BY DEF Init, StoreInit, ApiInit, RuntimeInit, EmptyLog, Begun, LogBegun, WorkBegun, ProjBegun
<1>. QED BY <1>1, <1>2, <1>3 DEF IInv

\* Every step keeps it, and keeps owners and claims.
LEMMA NextInv == IInv /\ [Next]_vars => IInv' /\ Kept
<1>. SUFFICES ASSUME IInv, [Next]_vars PROVE IInv' /\ Kept
  OBVIOUS
<1>. USE DEF IInv
<1>1. TypeOK'
  BY NextType
<1>2. CASE UNCHANGED vars
  <2>1. Ownership' /\ Kept
    BY <1>2 DEF vars, storeVars, apiVars, runtimeVars, Ownership, Owner, HandlerOwner,
                OrphanOwner, Quiet, Fresh, Absent, Unclaimed, Working, Kept
  <2>2. Begun'
    BY <1>2 DEF vars, storeVars, apiVars, runtimeVars, Begun, LogBegun, WorkBegun, ProjBegun
  <2>. QED BY <1>1, <2>1, <2>2
<1>3. ASSUME NEW t \in Turns, ApiNext(t), UNCHANGED runtimeVars PROVE IInv' /\ Kept
  BY <1>1, <1>3, OwnershipApi, BegunApi
<1>4. ASSUME NEW r \in Runners, RuntimeNext(r), UNCHANGED apiVars PROVE IInv' /\ Kept
  <2>1. Ownership' /\ Kept
    BY <1>4, OwnershipWorker, OwnershipHandler, OwnershipWatch, OwnershipReplica
    DEF RuntimeNext, BootStep
  <2>2. Begun'
    BY <1>4, BegunWorker, BegunHandler, BegunWatch, BegunReplica DEF RuntimeNext, BootStep
  <2>. QED BY <1>1, <2>1, <2>2
<1>. QED BY <1>2, <1>3, <1>4 DEF Next

\* The inductive invariant of the claim protocol.
THEOREM Invariance == Spec => []IInv
BY InitInv, NextInv, PTL DEF Spec

\* B4: at most one replica ever works on a turn.
THEOREM SingleWorkerAlways == Spec => []SingleWorker
<1>1. IInv => SingleWorker
  BY DEF IInv, Ownership, Owner, SingleWorker
<1>. QED BY <1>1, Invariance, PTL

\* A run never changes hands.
THEOREM OwnerStableAlways == Spec => OwnerStable
<1>1. IInv /\ [Next]_vars =>
        [\A t \in Turns : runner[t] # NoRunner => runner'[t] = runner[t]]_vars
  BY NextInv DEF Kept
<1>. QED BY <1>1, Invariance, PTL DEF Spec, OwnerStable

\* A run that was claimed, or failed unclaimed, is never offered again, however
\* stale the log a projector writes from.
THEOREM NeverReacceptedAlways == Spec => NeverReaccepted
<1>1. IInv /\ [Next]_vars =>
        [\A t \in Turns : runs[t] \notin {"absent", "accepted"} =>
                          runs'[t] \notin {"absent", "accepted"}]_vars
  BY NextInv DEF Kept, Unclaimed
<1>. QED BY <1>1, Invariance, PTL DEF Spec, NeverReaccepted

\* Boot reconcile never fails a run that somebody works on.
THEOREM BootSparesWorkersAlways == Spec => BootSparesWorkers
<1>1. IInv =>
        \A r \in Runners, t \in Turns :
            reconcile_runner_orphans(r, t) => \A q \in Runners : ~Working(q, t)
  BY DEF IInv, Ownership, Owner, OrphanOwner, Quiet, Working, reconcile_runner_orphans
<1>2. IInv /\ [Next]_vars =>
        [\A r \in Runners, t \in Turns :
            reconcile_runner_orphans(r, t) => \A q \in Runners : ~Working(q, t)]_vars
  BY <1>1
<1>. QED BY <1>2, Invariance, PTL DEF Spec, BootSparesWorkers

-----------------------------------------------------------------------------
(***************************************************************************)
(* What the rows of a turn say of its log, for any set of turns and        *)
(* replicas, any number of crashes, approvals and concurrent projections:  *)
(* no row ends a turn that the log does not end, a view that is level with *)
(* the log shows what the log says, and no view goes back.                 *)
(*                                                                         *)
(* The projector writes what it read in another transaction, so each of    *)
(* these has to hold of every read that is on its way (ProjSound).         *)
(*                                                                         *)
(* Then approvals: a parked turn can be resumed as long as no projection   *)
(* makes a turn wait, and, if no replica crashes either, an approved call  *)
(* runs once.                                                              *)
(***************************************************************************)

RUN_ENDED == {"succeeded", "failed", "cancelled"}

\* A status that ends the turn is in the log's fold only if the log has ended.
LogSound == \A t \in Turns : log[t].status \in TERMINAL_STATUSES => log[t].ended

\* What a projection read is an earlier state of the log, or its present one.
ProjSound ==
    \A t \in Turns : \A s \in proj[t] :
        /\ s.seq <= log[t].last
        /\ s.seq = log[t].last => s.status = log[t].status
        /\ s.status \in TERMINAL_STATUSES => log[t].ended

\* Nobody has written anything for a turn that does not exist.
Unborn ==
    \A t \in Turns : turns[t] = "absent" =>
        /\ log[t] = EmptyLog
        /\ view[t].seq = 0
        /\ proj[t] = {}
        /\ \A r \in Runners : watch[r][t] = "none"

History == LogSound /\ ProjSound /\ Unborn /\ EndIsLogged /\ ViewCurrent

-----------------------------------------------------------------------------
(* What a step may do to the history of a turn.                            *)

\* It leaves the log alone, or appends an event to that of a turn that exists.
LogMove(t) ==
    \/ log'[t] = log[t]
    \/ /\ turns[t] # "absent"
       /\ log'[t].last = log[t].last + 1
       /\ log[t].ended => log'[t].ended
       /\ log'[t].status \in TERMINAL_STATUSES =>
            log'[t].ended \/ log[t].status \in TERMINAL_STATUSES

\* A row ends the turn in the transaction that logs the end, or from a projection.
RowMove(t) ==
    /\ turns'[t] \in TERMINAL_STATUSES \/ runs'[t] \in RUN_ENDED =>
         \/ turns[t] \in TERMINAL_STATUSES \/ runs[t] \in RUN_ENDED
         \/ log'[t].ended
         \/ \E s \in proj[t] : s.status \in TERMINAL_STATUSES
    /\ turns'[t] = "absent" => turns[t] = "absent"

\* The view is new, or takes what a projection read, if that is not older.
ViewMove(t) ==
    \/ view'[t] = view[t]
    \/ turns[t] = "absent" /\ turns'[t] # "absent" /\ view'[t] = [seq |-> 0, status |-> "pending"]
    \/ \E s \in proj[t] : view'[t] = s /\ view[t].seq <= s.seq

\* A projection reads the log as it is.
ProjMove(t) ==
    \/ proj'[t] \subseteq proj[t]
    \/ log'[t] = log[t] /\ log[t].last > 0 /\ proj'[t] \subseteq proj[t] \cup {Snapshot(t)}

\* The watchdog takes up rows that exist.
WatchMove(t) ==
    \A r \in Runners : watch'[r][t] # "none" => watch[r][t] # "none" \/ turns[t] # "absent"

Move == \A t \in Turns : LogMove(t) /\ RowMove(t) /\ ViewMove(t) /\ ProjMove(t) /\ WatchMove(t)

\* An event is appended to the log of a turn that exists.
LEMMA AppendMove ==
    ASSUME TypeOK, NEW t \in Turns, NEW e, AppendTo(t, e), turns[t] # "absent"
    PROVE  /\ \A u \in Turns : LogMove(u)
           /\ e \in DOMAIN TERMINAL_STATUS_MAP => log'[t].ended
<1>1. log[t] \in LogType /\ log'[t] = append_event(log[t], e)
  BY DEF TypeOK, StoreTypeOK, AppendTo
<1>2. \A u \in Turns : u # t => log'[u] = log[u]
  BY DEF TypeOK, StoreTypeOK, AppendTo
<1>3. ApplyEvent(log[t].status, e) \in TERMINAL_STATUSES =>
        e \in DOMAIN TERMINAL_STATUS_MAP \/ log[t].status \in TERMINAL_STATUSES
  BY DEF ApplyEvent, RUNNING_STATUSES, TERMINAL_STATUSES
<1>4. /\ log'[t].last = log[t].last + 1
      /\ log'[t].status = ApplyEvent(log[t].status, e)
      /\ log'[t].ended = (log[t].ended \/ e \in DOMAIN TERMINAL_STATUS_MAP)
  BY <1>1 DEF append_event
<1>5. LogMove(t)
  BY <1>3, <1>4 DEF LogMove
<1>. QED BY <1>2, <1>4, <1>5 DEF LogMove

\* By the worker's steps.
LEMMA MoveWorker ==
    ASSUME IInv, NEW r \in Runners, NEW t \in Turns, WorkerStep(r, t), UNCHANGED apiVars
    PROVE  Move
<1>. USE DEF Move, RowMove, ViewMove, ProjMove, WatchMove, TypeOK, StoreTypeOK,
      RuntimeTypeOK, apiVars
<1>0. /\ TypeOK
      /\ Working(r, t) => turns[t] # "absent" /\ runs[t] \notin Unclaimed
      /\ runs[t] = "accepted" => turns[t] # "absent"
  BY OwnedRow DEF IInv, Ownership, Absent
<1>1. CASE ensure_run_owned_by_runner(r, t)
  BY <1>0, <1>1 DEF LogMove, ensure_run_owned_by_runner, Goto, RUN_ENDED
<1>2. CASE claim_refused(r, t)
  BY <1>0, <1>2 DEF LogMove, claim_refused, Goto, storeVars
<1>3. CASE start_turn(r, t)
  BY <1>0, <1>3 DEF LogMove, start_turn, Goto, storeVars
<1>4. CASE turn_accepted(r, t)
  <2>1. (\A u \in Turns : LogMove(u))
    BY <1>0, <1>4, AppendMove DEF turn_accepted, Goto, RUN_ENDED, TERMINAL_STATUSES, Working, TERMINAL_STATUS_MAP
  <2>. QED BY <1>0, <1>4, <2>1 DEF turn_accepted, Goto, RUN_ENDED, TERMINAL_STATUSES
<1>5. CASE write_event(r, t)
  <2>1. (\A u \in Turns : LogMove(u))
    BY <1>0, <1>5, AppendMove DEF write_event, Goto, Working, TERMINAL_STATUS_MAP
  <2>. QED BY <1>0, <1>5, <2>1 DEF write_event, Goto
<1>6. CASE approval_requested(r, t)
  <2>1. (\A u \in Turns : LogMove(u))
    BY <1>0, <1>6, AppendMove DEF approval_requested, Goto, Working, TERMINAL_STATUS_MAP
  <2>. QED BY <1>0, <1>6, <2>1 DEF approval_requested, Goto
<1>7. CASE park(r, t)
  BY <1>0, <1>7 DEF LogMove, park, save_pending, Goto
<1>8. CASE finalize_waiting_approval(r, t)
  BY <1>0, <1>8 DEF LogMove, finalize_waiting_approval, Leave, Goto, SetStatus, RUN_ENDED, TERMINAL_STATUSES
<1>9. CASE settle_waiting_children(r, t)
  BY <1>0, <1>9 DEF LogMove, settle_waiting_children, Goto
<1>10. CASE turn_waiting_child(r, t)
  BY <1>0, <1>10 DEF LogMove, turn_waiting_child, mark_turns, Goto, TERMINAL_STATUSES
<1>11. CASE run_waiting_child(r, t)
  BY <1>0, <1>11 DEF LogMove, run_waiting_child, mark_runs, Goto, RUN_ENDED
<1>12. CASE join_children(r, t)
  <2>1. (\A u \in Turns : LogMove(u))
    BY <1>0, <1>12, AppendMove DEF join_children, Goto, Working, TERMINAL_STATUS_MAP
  <2>. QED BY <1>0, <1>12, <2>1 DEF join_children, Goto
<1>13. CASE turn_joined(r, t)
  BY <1>0, <1>13 DEF LogMove, turn_joined, mark_turns, Goto, TERMINAL_STATUSES
<1>14. CASE run_joined(r, t)
  BY <1>0, <1>14 DEF LogMove, run_joined, mark_runs, Goto, RUN_ENDED
<1>15. CASE finalize_completed(r, t)
  <2>1. (\A u \in Turns : LogMove(u)) /\ log'[t].ended
    BY <1>0, <1>15, AppendMove DEF finalize_completed, Goto, SetStatus, Working, TERMINAL_STATUS_MAP
  <2>. QED BY <1>0, <1>15, <2>1 DEF finalize_completed, Goto, SetStatus
<1>16. CASE finalize_cancelled(r, t)
  <2>1. (\A u \in Turns : LogMove(u)) /\ log'[t].ended
    BY <1>0, <1>16, AppendMove DEF finalize_cancelled, Goto, _cancel_turn, SetStatus, Working, TERMINAL_STATUS_MAP
  <2>. QED BY <1>0, <1>16, <2>1 DEF finalize_cancelled, Goto, _cancel_turn, SetStatus
<1>17. CASE finalize_cleanup(r, t)
  BY <1>0, <1>17 DEF LogMove, finalize_cleanup, Leave, Goto
<1>18. CASE approval_resolved(r, t)
  <2>1. (\A u \in Turns : LogMove(u))
    BY <1>0, <1>18, AppendMove DEF approval_resolved, Goto, SetStatus, RUN_ENDED, TERMINAL_STATUSES, Working, TERMINAL_STATUS_MAP
  <2>. QED BY <1>0, <1>18, <2>1 DEF approval_resolved, Goto, SetStatus, RUN_ENDED, TERMINAL_STATUSES
<1>19. CASE execute_tool(r, t)
  BY <1>0, <1>19 DEF LogMove, execute_tool, Goto, storeVars
<1>20. CASE ask_again(r, t)
  <2>1. (\A u \in Turns : LogMove(u))
    BY <1>0, <1>20, AppendMove DEF ask_again, Goto, Working, TERMINAL_STATUS_MAP
  <2>. QED BY <1>0, <1>20, <2>1 DEF ask_again, Goto
<1>21. CASE repark(r, t)
  BY <1>0, <1>21 DEF LogMove, repark, save_pending, Goto
<1>22. CASE wait_again(r, t)
  BY <1>0, <1>22 DEF LogMove, wait_again, Leave, Goto, TERMINAL_STATUSES
<1>23. CASE tool_completed(r, t)
  <2>1. (\A u \in Turns : LogMove(u))
    BY <1>0, <1>23, AppendMove DEF tool_completed, Goto, Working, TERMINAL_STATUS_MAP
  <2>. QED BY <1>0, <1>23, <2>1 DEF tool_completed, Goto
<1>24. CASE worker_fails(r, t)
  <2>1. (\A u \in Turns : LogMove(u)) /\ log'[t].ended
    BY <1>0, <1>24, AppendMove DEF worker_fails, Leave, Goto, _fail_turn, SetStatus, Working, TERMINAL_STATUS_MAP
  <2>. QED BY <1>0, <1>24, <2>1 DEF worker_fails, Leave, Goto, _fail_turn, SetStatus
<1>. QED BY <1>1, <1>2, <1>3, <1>4, <1>5, <1>6, <1>7, <1>8, <1>9, <1>10, <1>11, <1>12, <1>13, <1>14, <1>15, <1>16, <1>17, <1>18, <1>19, <1>20, <1>21, <1>22, <1>23, <1>24 DEF WorkerStep

\* By the command handlers and the dispatcher.
LEMMA MoveHandler ==
    ASSUME IInv, NEW r \in Runners, NEW t \in Turns, UNCHANGED apiVars,
           \/ HandlerStep(r, t) \/ wait_timeout(r, t) \/ _purge_expired(r, t)
           \/ resume_dropped(r, t) \/ _load_accepted(r, t) \/ claim_dropped(r, t)
    PROVE  Move
<1>. USE DEF Move, RowMove, ViewMove, ProjMove, WatchMove, LogMove, TypeOK, StoreTypeOK,
      RuntimeTypeOK, apiVars
<1>0. /\ TypeOK
      /\ handler[r][t].phase # "none" => turns[t] # "absent"
  BY StoreAssumption DEF IInv, Ownership, HandlerOwner, Fresh, Absent, Unclaimed
<1>1. CASE fail_stuck_approval(r, t)
  <2>1. (\A u \in Turns : LogMove(u)) /\ log'[t].ended
    BY <1>0, <1>1, AppendMove DEF fail_stuck_approval, _fail_turn, TERMINAL_STATUS_MAP
  <2>2. \A u \in Turns : u # t => turns'[u] = turns[u] /\ runs'[u] = runs[u]
    BY <1>0, <1>1 DEF fail_stuck_approval, _fail_turn, SetStatus
  <2>3. turns'[t] = "failed"
    BY <1>0, <1>1 DEF fail_stuck_approval, _fail_turn, SetStatus
  <2>4. UNCHANGED <<view, proj, watch>>
    BY <1>1 DEF fail_stuck_approval, _fail_turn
  <2>. QED BY <2>1, <2>2, <2>3, <2>4
<1>2. CASE resume(r, t)
  <2>1. UNCHANGED <<log, turns, runs, view, watch>>
    BY <1>2 DEF resume, storeVars
  <2>. QED BY ONLY <2>1, UNCHANGED apiVars DEF Move, RowMove, ViewMove, ProjMove, WatchMove,
      LogMove, apiVars
<1>3. CASE _cleanup_pending_after_command(r, t) \/ drop_pending(r, t)
  <2>1. UNCHANGED <<log, turns, runs, view, watch>>
    BY <1>3 DEF _cleanup_pending_after_command, drop_pending, storeVars
  <2>. QED BY ONLY <2>1, UNCHANGED apiVars DEF Move, RowMove, ViewMove, ProjMove, WatchMove,
      LogMove, apiVars
<1>4. CASE state_lost(r, t) \/ wait_timeout(r, t)
  BY <1>0, <1>4 DEF state_lost, wait_timeout, CheckStuck, storeVars
<1>5. CASE _purge_expired(r, t)
  BY <1>0, <1>5 DEF _purge_expired, storeVars
<1>6. CASE resume_dropped(r, t)
  BY <1>0, <1>6 DEF resume_dropped, Leave, Goto, storeVars
<1>7. CASE _load_accepted(r, t) \/ claim_dropped(r, t)
  BY <1>0, <1>7 DEF _load_accepted, claim_dropped, Goto, storeVars
<1>. QED BY <1>1, <1>2, <1>3, <1>4, <1>5, <1>6, <1>7 DEF HandlerStep

\* By the watchdog and the reconcile at boot: a row they took up exists.
LEMMA MoveWatch ==
    ASSUME IInv, Unborn, NEW r \in Runners, NEW t \in Turns, UNCHANGED apiVars,
           WatchStep(r, t) \/ request_cancel(r, t) \/ reconcile_runner_orphans(r, t)
    PROVE  Move
<1>. USE DEF Move, RowMove, ViewMove, ProjMove, WatchMove, LogMove, TypeOK, StoreTypeOK,
      RuntimeTypeOK, apiVars
<1>0. /\ TypeOK
      /\ watch[r][t] # "none" => turns[t] # "absent"
      /\ runs[t] \in InHand => turns[t] # "absent"
      /\ t \in orphans[r] => turns[t] # "absent"
  BY StoreAssumption DEF IInv, Ownership, OrphanOwner, Fresh, Absent, Unclaimed, Unborn, InHand
<1>1. CASE find_orphan(r, t) \/ approval_timeout(r, t)
  <2>1. UNCHANGED <<log, turns, runs, view, proj>>
    BY <1>1 DEF find_orphan, approval_timeout, storeVars
  <2>2. \A q \in Runners, u \in Turns : watch'[q][u] # "none" => watch[q][u] # "none"
    <3>1. watch[r][t] # "none" /\ \E v : watch' = [watch EXCEPT ![r][t] = v]
      BY <1>1 DEF find_orphan, approval_timeout
    <3>. QED BY ONLY <3>1, <1>0, r \in Runners, t \in Turns DEF TypeOK, RuntimeTypeOK
  <2>. QED BY <2>1, <2>2
<1>2. CASE request_cancel(r, t)
  BY <1>0, <1>2 DEF request_cancel, storeVars
<1>3. CASE watchdog_fails(r, t)
  <2>1. (\A u \in Turns : LogMove(u)) /\ log'[t].ended
    BY <1>0, <1>3, AppendMove DEF watchdog_fails, _fail_turn, TERMINAL_STATUS_MAP
  <2>. QED BY <1>0, <1>3, <2>1 DEF watchdog_fails, _fail_turn, SetStatus
<1>4. CASE maybe_finalize_orphan_cancel(r, t)
  <2>1. (\A u \in Turns : LogMove(u)) /\ log'[t].ended
    BY <1>0, <1>4, AppendMove DEF maybe_finalize_orphan_cancel, _cancel_turn, TERMINAL_STATUS_MAP
  <2>. QED BY <1>0, <1>4, <2>1 DEF maybe_finalize_orphan_cancel, _cancel_turn, SetStatus
<1>5. CASE orphan_cancel_cleanup(r, t)
  BY <1>0, <1>5 DEF orphan_cancel_cleanup
<1>6. CASE reconcile_runner_orphans(r, t)
  <2>1. (\A u \in Turns : LogMove(u)) /\ log'[t].ended
    BY <1>0, <1>6, AppendMove DEF reconcile_runner_orphans, _fail_turn, TERMINAL_STATUS_MAP
  <2>. QED BY <1>0, <1>6, <2>1 DEF reconcile_runner_orphans, _fail_turn, SetStatus
<1>. QED BY <1>1, <1>2, <1>3, <1>4, <1>5, <1>6 DEF WatchStep

\* By the steps that do not concern a single turn, and by a command's arrival.
LEMMA MoveReplica ==
    ASSUME IInv, NEW r \in Runners, UNCHANGED apiVars,
           \/ boot(r) \/ start_listeners(r) \/ crash(r)
           \/ renew_run_leases(r) \/ scan_stalled_runs(r)
           \/ \E t \in Turns, type \in CommandTypes : consume_pending_for_run(r, t, type)
    PROVE  Move
<1>. USE DEF Move, RowMove, ViewMove, ProjMove, WatchMove, LogMove, TypeOK, StoreTypeOK,
      RuntimeTypeOK, apiVars
<1>0. /\ TypeOK
      /\ \A t \in Turns : runs[t] \in InHand => turns[t] # "absent"
  BY DEF IInv, Ownership, Absent, InHand
<1>1. CASE boot(r) \/ start_listeners(r)
  BY <1>0, <1>1 DEF boot, start_listeners, storeVars
<1>2. CASE crash(r)
  BY <1>0, <1>2 DEF crash, storeVars
<1>3. CASE renew_run_leases(r)
  BY <1>0, <1>3 DEF renew_run_leases, runtimeVars
<1>4. CASE scan_stalled_runs(r)
  BY <1>0, <1>4 DEF scan_stalled_runs, storeVars
<1>5. ASSUME NEW t \in Turns, NEW type \in CommandTypes, consume_pending_for_run(r, t, type)
      PROVE  Move
  BY <1>0, <1>5 DEF consume_pending_for_run
<1>. QED BY <1>1, <1>2, <1>3, <1>4, <1>5

\* By the api.
LEMMA MoveApi ==
    ASSUME IInv, NEW t \in Turns, ApiNext(t), UNCHANGED runtimeVars
    PROVE  Move
<1>. USE DEF Move, RowMove, ViewMove, ProjMove, WatchMove, LogMove, TypeOK, StoreTypeOK,
      ApiTypeOK, RuntimeTypeOK, runtimeVars
<1>0. /\ TypeOK
      /\ runs[t] \in InHand \cup {"accepted"} => turns[t] # "absent"
  BY DEF IInv, Ownership, Absent, InHand
<1>1. CASE create_turn(t)
  BY <1>0, <1>1 DEF create_turn, SetStatus, TERMINAL_STATUSES, RUN_ENDED
<1>2. CASE cancel_turn(t)
  BY <1>0, <1>2 DEF cancel_turn
<1>3. CASE reconcile_unclaimed_turns(t)
  <2>1. (\A u \in Turns : LogMove(u)) /\ log'[t].ended
    BY <1>0, <1>3, AppendMove DEF reconcile_unclaimed_turns, _fail_turn, TERMINAL_STATUS_MAP
  <2>. QED BY <1>0, <1>3, <2>1 DEF reconcile_unclaimed_turns, _fail_turn, SetStatus
<1>4. CASE lease_expires(t)
  BY <1>0, <1>4 DEF lease_expires
<1>5. CASE reconcile_expired_leases(t)
  <2>1. (\A u \in Turns : LogMove(u)) /\ log'[t].ended
    BY <1>0, <1>5, AppendMove DEF reconcile_expired_leases, TERMINAL_STATUS_MAP
  <2>. QED BY <1>0, <1>5, <2>1 DEF reconcile_expired_leases, SetStatus
<1>6. CASE project_read(t)
  BY <1>0, <1>6 DEF project_read, storeVars
<1>7. CASE project_lost(t)
  BY <1>0, <1>7 DEF project_lost, storeVars
<1>8. CASE project_write(t)
  <2>1. PICK s \in proj[t] :
          /\ SetStatus(t, s.status, map_turn_to_run_status(s.status))
          /\ view' = [view EXCEPT ![t] = IF @.seq <= s.seq THEN s ELSE @]
          /\ proj' = [proj EXCEPT ![t] = @ \ {s}]
    BY <1>8 DEF project_write
  <2>2. s.status \in TurnStatuses
    BY <1>0, <2>1 DEF ViewType
  <2>3. map_turn_to_run_status(s.status) \in RUN_ENDED => s.status \in TERMINAL_STATUSES
    BY <2>2 DEF map_turn_to_run_status, TurnStatuses, RUNNING_STATUSES, TERMINAL_STATUSES,
                RUN_ENDED
  <2>4. \A u \in Turns : RowMove(u)
    BY <1>0, <2>1, <2>2, <2>3 DEF SetStatus, TurnStatuses, RUNNING_STATUSES, TERMINAL_STATUSES
  <2>5. \A u \in Turns : ViewMove(u) /\ ProjMove(u)
    BY <1>0, <2>1
  <2>6. log' = log /\ watch' = watch
    BY <1>8 DEF project_write
  <2>. QED BY <2>4, <2>5, <2>6
<1>9. CASE \E type \in CommandTypes, ask \in Asks : enqueue_run_command(t, type, ask)
  BY <1>0, <1>9 DEF enqueue_run_command
<1>. QED BY <1>1, <1>2, <1>3, <1>4, <1>5, <1>6, <1>7, <1>8, <1>9 DEF ApiNext,
      project_notified, reconcile_lagging_projections, reconcile_stale_turns

-----------------------------------------------------------------------------
(* The invariant, and what follows from it.                                *)

LEMMA InitHistory == Init => History
<1>. SUFFICES ASSUME Init PROVE History
  OBVIOUS
<1>. USE DEF Init, StoreInit, ApiInit, RuntimeInit, EmptyLog
<1>1. LogSound /\ ProjSound /\ Unborn
  BY DEF LogSound, ProjSound, Unborn, TERMINAL_STATUSES
<1>2. EndIsLogged /\ ViewCurrent
  BY DEF EndIsLogged, ViewCurrent, TERMINAL_STATUSES
<1>. QED BY <1>1, <1>2 DEF History

\* A step that moves only so keeps the invariant, and takes no view back.
LEMMA MoveKeeps ==
    ASSUME TypeOK, TypeOK', History, Move
    PROVE  History' /\ \A t \in Turns : view'[t].seq >= view[t].seq
<1>. USE DEF Move, History
<1>1. \A t \in Turns : /\ log[t].last \in Nat /\ view[t].seq \in Nat
                       /\ \A s \in proj[t] : s.seq \in Nat
  BY DEF TypeOK, StoreTypeOK, ApiTypeOK, LogType, ViewType
<1>2. ASSUME NEW t \in Turns PROVE log[t].ended => log'[t].ended
  BY DEF LogMove
<1>3. LogSound'
  BY DEF LogMove, LogSound
<1>4. ProjSound'
  <2>. SUFFICES ASSUME NEW t \in Turns, NEW s \in proj'[t]
                PROVE  /\ s.seq <= log'[t].last
                       /\ s.seq = log'[t].last => s.status = log'[t].status
                       /\ s.status \in TERMINAL_STATUSES => log'[t].ended
    BY DEF ProjSound
  <2>1. CASE s \in proj[t]
    BY <1>1, <2>1 DEF LogMove, ProjSound
  <2>2. CASE log'[t] = log[t] /\ s = Snapshot(t)
    BY <1>1, <2>2 DEF Snapshot, LogSound
  <2>. QED BY <2>1, <2>2 DEF ProjMove
<1>5. Unborn'
  <2>. SUFFICES ASSUME NEW t \in Turns, turns'[t] = "absent"
                PROVE  /\ log'[t] = EmptyLog
                       /\ view'[t].seq = 0
                       /\ proj'[t] = {}
                       /\ \A r \in Runners : watch'[r][t] = "none"
    BY DEF Unborn
  <2>1. turns[t] = "absent"
    BY DEF RowMove
  <2>2. log[t] = EmptyLog /\ view[t].seq = 0 /\ proj[t] = {} /\ \A r \in Runners : watch[r][t] = "none"
    BY <2>1 DEF Unborn
  <2>. QED BY <2>1, <2>2 DEF LogMove, ViewMove, ProjMove, WatchMove, EmptyLog
<1>6. EndIsLogged'
  BY <1>2 DEF EndIsLogged, RowMove, ProjSound, RUN_ENDED
<1>7. ASSUME NEW t \in Turns PROVE view'[t].seq >= view[t].seq
  <2>1. turns[t] = "absent" => view[t].seq = 0
    BY DEF Unborn
  <2>. QED BY <1>1, <2>1 DEF ViewMove
<1>8. ViewCurrent'
  <2>. SUFFICES ASSUME NEW t \in Turns
                PROVE  /\ view'[t].seq <= log'[t].last
                       /\ view'[t].seq = log'[t].last => view'[t].status = log'[t].status
    BY DEF ViewCurrent
  <2>1. CASE view'[t] = view[t]
    BY <1>1, <2>1 DEF LogMove, ViewCurrent
  <2>2. CASE turns[t] = "absent" /\ view'[t] = [seq |-> 0, status |-> "pending"]
    BY <2>2 DEF LogMove, Unborn, EmptyLog
  <2>3. CASE \E s \in proj[t] : view'[t] = s
    BY <1>1, <2>3 DEF LogMove, ProjSound
  <2>. QED BY <2>1, <2>2, <2>3 DEF ViewMove
<1>. QED BY <1>3, <1>4, <1>5, <1>6, <1>7, <1>8

\* Every step moves only so.
LEMMA NextMove == IInv /\ History /\ [Next]_vars => Move
<1>. SUFFICES ASSUME IInv, History, [Next]_vars PROVE Move
  OBVIOUS
<1>1. CASE UNCHANGED vars
  BY <1>1 DEF vars, storeVars, apiVars, runtimeVars, Move, LogMove, RowMove, ViewMove,
              ProjMove, WatchMove
<1>2. ASSUME NEW t \in Turns, ApiNext(t), UNCHANGED runtimeVars PROVE Move
  BY <1>2, MoveApi
<1>3. ASSUME NEW r \in Runners, RuntimeNext(r), UNCHANGED apiVars PROVE Move
  BY <1>3, MoveWorker, MoveHandler, MoveWatch, MoveReplica DEF RuntimeNext, BootStep, History
<1>. QED BY <1>1, <1>2, <1>3 DEF Next

LEMMA NextHistory ==
    IInv /\ History /\ [Next]_vars => History' /\ \A t \in Turns : view'[t].seq >= view[t].seq
BY NextMove, MoveKeeps, NextInv DEF IInv

\* The inductive invariant of log, rows, views and projections.
THEOREM HistoryInvariant == Spec => [](IInv /\ History)
<1>1. IInv /\ History /\ [Next]_vars => (IInv /\ History)'
  BY NextInv, NextHistory
<1>. QED BY InitInv, InitHistory, <1>1, PTL DEF Spec

\* No transaction of the api or of a runtime, and no projection however late, ends a
\* turn or a run whose log does not end.
THEOREM EndIsLoggedAlways == Spec => []EndIsLogged
<1>1. History => EndIsLogged
  BY DEF History
<1>. QED BY <1>1, HistoryInvariant, PTL

\* project_write labels a view with the sequence that was read: one that is level with
\* the log has the log's status.
THEOREM ViewCurrentAlways == Spec => []ViewCurrent
<1>1. History => ViewCurrent
  BY DEF History
<1>. QED BY <1>1, HistoryInvariant, PTL

\* project_write refuses a lower sequence, and create_turn finds no view: views only
\* go forward.
THEOREM ViewMonotoneAlways == Spec => ViewMonotone
<1>1. IInv /\ History /\ [Next]_vars => [\A t \in Turns : view'[t].seq >= view[t].seq]_vars
  BY NextHistory
<1>. QED BY <1>1, HistoryInvariant, PTL DEF Spec, ViewMonotone
-----------------------------------------------------------------------------
(***************************************************************************)
(* Approvals.  A parked turn can be resumed from its checkpoint alone, as  *)
(* long as no projection makes a turn wait: one that read the log between  *)
(* approval.requested and save_checkpoint would, and so would one that     *)
(* read it before the answer.                                              *)
(***************************************************************************)

Waits(t) == turns[t] = "waiting_approval"

\* A projection makes a turn wait that did not.
ProjectsWait(t) == project_write(t) /\ ~Waits(t) /\ Waits(t)'

Unanswered(t) == \A c \in CommandTypes : command[t][c] = NoInterrupt

\* The rows: a run nobody claimed was not asked about, the checkpoint holds the call a
\* turn waits for, and the watchdog deletes checkpoints of ended turns only.
RowReady(t) ==
    /\ runs[t] \in Unclaimed => ~Waits(t) /\ Unanswered(t)
    /\ Waits(t) /\ ~log[t].ended => checkpoint[t] = asks[t]
    /\ \A r \in Runners : watch[r][t] = "swept" => log[t].ended

\* Their owner: at most a resume is on its way for a turn that waits, nobody answers a
\* turn before it first waits (no handler), a handler beside a worker does nothing, and
\* the checkpoint is saved before the turn waits and deleted after it ended, or once a
\* handler found that it does not wait.
OwnerReady(r, t) ==
    /\ Waits(t) => task[r][t] \in {"none", "claiming", "resuming"}
    /\ Working(r, t) => handler[r][t].phase \in {"none", "running"}
    /\ Working(r, t) /\ handler[r][t].phase = "none" =>
         Unanswered(t) /\ task[r][t] # "resuming"
    /\ task[r][t] \in {"parking", "reparking"} /\ ~log[t].ended => checkpoint[t] = asks[t]
    /\ task[r][t] = "closing" => log[t].ended
    /\ handler[r][t].phase = "dropping" => ~Waits(t)

Resumable ==
    \A t \in Turns : RowReady(t) /\ \A r \in Runners : runner[t] = r => OwnerReady(r, t)

\* A step on one turn leaves the others as they are, but for their logs.
Same(t) ==
    /\ turns'[t] = turns[t] /\ runs'[t] = runs[t] /\ runner'[t] = runner[t]
    /\ checkpoint'[t] = checkpoint[t] /\ command'[t] = command[t] /\ asks'[t] = asks[t]
    /\ executed'[t] = executed[t]
    /\ \A r \in Runners :
        /\ task'[r][t] = task[r][t] /\ handler'[r][t] = handler[r][t]
        /\ pending'[r][t] = pending[r][t] /\ watch'[r][t] = watch[r][t]

Elsewhere(t) == \A u \in Turns : u # t => Same(u)

\* The worker's steps.
LEMMA WorkerElsewhere ==
    ASSUME TypeOK, NEW r \in Runners, NEW t \in Turns, WorkerStep(r, t)
    PROVE  Elsewhere(t)
<1>. USE DEF Elsewhere, Same, TypeOK, StoreTypeOK, RuntimeTypeOK
<1>1. CASE ensure_run_owned_by_runner(r, t)
  BY <1>1 DEF ensure_run_owned_by_runner, Goto
<1>2. CASE claim_refused(r, t)
  BY <1>2 DEF claim_refused, Goto, storeVars
<1>3. CASE start_turn(r, t)
  BY <1>3 DEF start_turn, Goto, storeVars
<1>4. CASE turn_accepted(r, t)
  BY <1>4 DEF turn_accepted, Goto
<1>5. CASE write_event(r, t)
  BY <1>5 DEF write_event, Goto
<1>6. CASE approval_requested(r, t)
  BY <1>6 DEF approval_requested, Goto
<1>7. CASE park(r, t)
  BY <1>7 DEF park, save_pending, Goto
<1>8. CASE finalize_waiting_approval(r, t)
  BY <1>8 DEF finalize_waiting_approval, Leave, Goto, SetStatus
<1>9. CASE settle_waiting_children(r, t)
  BY <1>9 DEF settle_waiting_children, Goto
<1>10. CASE turn_waiting_child(r, t)
  BY <1>10 DEF turn_waiting_child, mark_turns, Goto
<1>11. CASE run_waiting_child(r, t)
  BY <1>11 DEF run_waiting_child, mark_runs, Goto
<1>12. CASE join_children(r, t)
  BY <1>12 DEF join_children, Goto
<1>13. CASE turn_joined(r, t)
  BY <1>13 DEF turn_joined, mark_turns, Goto
<1>14. CASE run_joined(r, t)
  BY <1>14 DEF run_joined, mark_runs, Goto
<1>15. CASE finalize_completed(r, t)
  BY <1>15 DEF finalize_completed, Goto, SetStatus
<1>16. CASE finalize_cancelled(r, t)
  BY <1>16 DEF finalize_cancelled, Goto, _cancel_turn, SetStatus
<1>17. CASE finalize_cleanup(r, t)
  BY <1>17 DEF finalize_cleanup, Leave, Goto
<1>18. CASE approval_resolved(r, t)
  <2>1. PICK b \in {"granted", "denied"} : Goto(r, t, "resuming", b)
    BY <1>18 DEF approval_resolved
  <2>. QED BY <1>18, <2>1 DEF approval_resolved, Goto, SetStatus
<1>19. CASE execute_tool(r, t)
  BY <1>19 DEF execute_tool, Goto, storeVars
<1>20. CASE ask_again(r, t)
  BY <1>20 DEF ask_again, Goto
<1>21. CASE repark(r, t)
  BY <1>21 DEF repark, save_pending, Goto
<1>22. CASE wait_again(r, t)
  BY <1>22 DEF wait_again, Leave, Goto
<1>23. CASE tool_completed(r, t)
  BY <1>23 DEF tool_completed, Goto
<1>24. CASE worker_fails(r, t)
  BY <1>24 DEF worker_fails, Leave, Goto, _fail_turn, SetStatus
<1>. QED BY <1>1, <1>2, <1>3, <1>4, <1>5, <1>6, <1>7, <1>8, <1>9, <1>10, <1>11, <1>12,
      <1>13, <1>14, <1>15, <1>16, <1>17, <1>18, <1>19, <1>20, <1>21, <1>22, <1>23, <1>24 DEF
      WorkerStep

\* The command handlers', the dispatcher's and a command's arrival.
LEMMA HandlerElsewhere ==
    ASSUME TypeOK, NEW r \in Runners, NEW t \in Turns,
           \/ HandlerStep(r, t) \/ wait_timeout(r, t) \/ _purge_expired(r, t)
           \/ resume_dropped(r, t) \/ _load_accepted(r, t) \/ claim_dropped(r, t)
           \/ \E type \in CommandTypes : consume_pending_for_run(r, t, type)
    PROVE  Elsewhere(t)
<1>. USE DEF Elsewhere, Same, TypeOK, StoreTypeOK, RuntimeTypeOK
<1>1. CASE state_lost(r, t) \/ wait_timeout(r, t)
  <2>1. \E h : handler' = [handler EXCEPT ![r][t] = h]
    BY <1>1 DEF state_lost, wait_timeout, CheckStuck
  <2>. QED BY <1>1, <2>1 DEF state_lost, wait_timeout, CheckStuck, storeVars
<1>2. CASE fail_stuck_approval(r, t)
  BY <1>2 DEF fail_stuck_approval, _fail_turn, SetStatus
<1>3. CASE resume(r, t)
  <2>1. PICK b \in {"resuming", "none"}, c \in {"running", "cleaning"} :
          /\ task' = [task EXCEPT ![r][t] = b]
          /\ handler' = [handler EXCEPT ![r][t].phase = c]
    BY <1>3 DEF resume, Goto
  <2>. QED BY <1>3, <2>1 DEF resume, storeVars
<1>4. CASE drop_pending(r, t)
  BY <1>4 DEF drop_pending
<1>c. CASE _cleanup_pending_after_command(r, t)
  <2>1. \E h : handler' = [handler EXCEPT ![r][t] = h]
    BY <1>c DEF _cleanup_pending_after_command
  <2>. QED BY <1>c, <2>1 DEF _cleanup_pending_after_command, storeVars
<1>5. CASE _purge_expired(r, t)
  BY <1>5 DEF _purge_expired, storeVars
<1>6. CASE resume_dropped(r, t)
  BY <1>6 DEF resume_dropped, Leave, Goto, storeVars
<1>7. CASE _load_accepted(r, t) \/ claim_dropped(r, t)
  BY <1>7 DEF _load_accepted, claim_dropped, Goto, storeVars
<1>8. ASSUME NEW type \in CommandTypes, consume_pending_for_run(r, t, type) PROVE Elsewhere(t)
  BY <1>8 DEF consume_pending_for_run
<1>. QED BY <1>1, <1>2, <1>3, <1>4, <1>c, <1>5, <1>6, <1>7, <1>8 DEF HandlerStep

\* The watchdog's and the boot's.
LEMMA WatchElsewhere ==
    ASSUME TypeOK, NEW r \in Runners, NEW t \in Turns,
           WatchStep(r, t) \/ request_cancel(r, t) \/ reconcile_runner_orphans(r, t)
    PROVE  Elsewhere(t)
<1>. USE DEF Elsewhere, Same, TypeOK, StoreTypeOK, RuntimeTypeOK
<1>1. CASE find_orphan(r, t)
  BY <1>1 DEF find_orphan, storeVars
<1>2. CASE approval_timeout(r, t)
  BY <1>2 DEF approval_timeout, storeVars
<1>3. CASE request_cancel(r, t)
  BY <1>3 DEF request_cancel, storeVars
<1>4. CASE watchdog_fails(r, t)
  BY <1>4 DEF watchdog_fails, _fail_turn, SetStatus
<1>5. CASE maybe_finalize_orphan_cancel(r, t)
  BY <1>5 DEF maybe_finalize_orphan_cancel, _cancel_turn, SetStatus
<1>6. CASE orphan_cancel_cleanup(r, t)
  BY <1>6 DEF orphan_cancel_cleanup
<1>7. CASE reconcile_runner_orphans(r, t)
  BY <1>7 DEF reconcile_runner_orphans, _fail_turn, SetStatus
<1>. QED BY <1>1, <1>2, <1>3, <1>4, <1>5, <1>6, <1>7 DEF WatchStep

\* The api's.
LEMMA ApiElsewhere ==
    ASSUME TypeOK, NEW t \in Turns, ApiNext(t), UNCHANGED runtimeVars
    PROVE  Elsewhere(t)
<1>. USE DEF Elsewhere, Same, TypeOK, StoreTypeOK, runtimeVars
<1>1. CASE create_turn(t)
  BY <1>1 DEF create_turn, SetStatus
<1>2. CASE cancel_turn(t) \/ lease_expires(t)
  BY <1>2 DEF cancel_turn, lease_expires
<1>3. CASE reconcile_unclaimed_turns(t)
  BY <1>3 DEF reconcile_unclaimed_turns, _fail_turn, SetStatus
<1>4. CASE reconcile_expired_leases(t)
  BY <1>4 DEF reconcile_expired_leases, SetStatus
<1>5. CASE project_read(t) \/ project_lost(t)
  BY <1>5 DEF project_read, project_lost, storeVars
<1>6. CASE project_write(t)
  BY <1>6 DEF project_write, SetStatus
<1>7. CASE \E type \in CommandTypes, ask \in Asks : enqueue_run_command(t, type, ask)
  BY <1>7 DEF enqueue_run_command
<1>. QED BY <1>1, <1>2, <1>3, <1>4, <1>5, <1>6, <1>7 DEF ApiNext,
      project_notified, reconcile_lagging_projections, reconcile_stale_turns

\* A step on one turn.
LEMMA TurnStep ==
    ASSUME Resumable, \A u \in Turns : log[u].ended => log'[u].ended,
           NEW t \in Turns, Elsewhere(t), RowReady(t)',
           \A r \in Runners : runner'[t] = r => OwnerReady(r, t)'
    PROVE  Resumable'
<1>. SUFFICES ASSUME NEW u \in Turns, u # t
              PROVE  RowReady(u)' /\ \A r \in Runners : runner'[u] = r => OwnerReady(r, u)'
  BY DEF Resumable
<1>1. Same(u) /\ (log[u].ended => log'[u].ended)
  BY DEF Elsewhere
<1>2. RowReady(u) /\ \A r \in Runners : runner[u] = r => OwnerReady(r, u)
  BY DEF Resumable
<1>3. RowReady(u)'
  BY <1>1, <1>2 DEF Same, RowReady, Waits, Unanswered
<1>4. ASSUME NEW r \in Runners, runner'[u] = r PROVE OwnerReady(r, u)'
  BY <1>1, <1>2, <1>4 DEF Same, OwnerReady, Waits, Unanswered, Working
<1>. QED BY <1>3, <1>4

\* By the worker's steps.
LEMMA ResumableWorker ==
    ASSUME IInv, Resumable, NEW r \in Runners, NEW t \in Turns, WorkerStep(r, t),
           \A u \in Turns : log[u].ended => log'[u].ended
    PROVE  Resumable'
<1>. USE DEF RowReady, OwnerReady, Waits, Unanswered, Working, Unclaimed, TypeOK, StoreTypeOK,
      RuntimeTypeOK
<1>0. /\ TypeOK
      /\ Elsewhere(t)
      /\ RowReady(t)
      /\ runner[t] = r => OwnerReady(r, t)
      /\ Working(r, t) => runner[t] = r /\ runs[t] \notin Unclaimed /\ turns[t] # "absent"
      /\ handler[r][t].phase # "none" => runner[t] = r
      /\ runs[t] = "accepted" => runner[t] = NoRunner
  BY WorkerElsewhere, OwnedRow DEF IInv, Ownership, HandlerOwner, Fresh, Resumable
<1>1. CASE ensure_run_owned_by_runner(r, t)
  <2>1. runner'[t] = r /\ RowReady(t)' /\ OwnerReady(r, t)'
    BY <1>0, StoreAssumption, <1>1 DEF ensure_run_owned_by_runner, Goto
  <2>. QED BY <1>0, <2>1, TurnStep
<1>2. CASE claim_refused(r, t)
  BY <1>0, <1>2 DEF claim_refused, Goto, storeVars, Resumable
<1>3. CASE start_turn(r, t)
  <2>1. runner'[t] = r /\ RowReady(t)' /\ OwnerReady(r, t)'
    BY <1>0, <1>3 DEF start_turn, Goto, storeVars
  <2>. QED BY <1>0, <2>1, TurnStep
<1>4. CASE turn_accepted(r, t)
  <2>1. runner'[t] = r /\ RowReady(t)' /\ OwnerReady(r, t)'
    BY <1>0, <1>4 DEF turn_accepted, Goto
  <2>. QED BY <1>0, <2>1, TurnStep
<1>5. CASE write_event(r, t)
  <2>1. runner'[t] = r /\ RowReady(t)' /\ OwnerReady(r, t)'
    BY <1>0, <1>5 DEF write_event, Goto
  <2>. QED BY <1>0, <2>1, TurnStep
<1>6. CASE approval_requested(r, t)
  <2>1. runner'[t] = r /\ RowReady(t)' /\ OwnerReady(r, t)'
    BY <1>0, <1>6 DEF approval_requested, Goto
  <2>. QED BY <1>0, <2>1, TurnStep
<1>7. CASE park(r, t)
  <2>1. runner'[t] = r /\ RowReady(t)' /\ OwnerReady(r, t)'
    BY <1>0, <1>7 DEF park, save_pending, Goto
  <2>. QED BY <1>0, <2>1, TurnStep
<1>8. CASE finalize_waiting_approval(r, t)
  <2>1. runner'[t] = r /\ RowReady(t)' /\ OwnerReady(r, t)'
    BY <1>0, <1>8 DEF finalize_waiting_approval, Leave, Goto, SetStatus
  <2>. QED BY <1>0, <2>1, TurnStep
<1>9. CASE settle_waiting_children(r, t)
  <2>1. runner'[t] = r /\ RowReady(t)' /\ OwnerReady(r, t)'
    BY <1>0, <1>9 DEF settle_waiting_children, Goto
  <2>. QED BY <1>0, <2>1, TurnStep
<1>10. CASE turn_waiting_child(r, t)
  <2>1. runner'[t] = r /\ RowReady(t)' /\ OwnerReady(r, t)'
    BY <1>0, <1>10 DEF turn_waiting_child, mark_turns, Goto
  <2>. QED BY <1>0, <2>1, TurnStep
<1>11. CASE run_waiting_child(r, t)
  <2>1. runner'[t] = r /\ RowReady(t)' /\ OwnerReady(r, t)'
    BY <1>0, <1>11 DEF run_waiting_child, mark_runs, Goto
  <2>. QED BY <1>0, <2>1, TurnStep
<1>12. CASE join_children(r, t)
  <2>1. runner'[t] = r /\ RowReady(t)' /\ OwnerReady(r, t)'
    BY <1>0, <1>12 DEF join_children, Goto
  <2>. QED BY <1>0, <2>1, TurnStep
<1>13. CASE turn_joined(r, t)
  <2>1. runner'[t] = r /\ RowReady(t)' /\ OwnerReady(r, t)'
    BY <1>0, <1>13 DEF turn_joined, mark_turns, Goto
  <2>. QED BY <1>0, <2>1, TurnStep
<1>14. CASE run_joined(r, t)
  <2>1. runner'[t] = r /\ RowReady(t)' /\ OwnerReady(r, t)'
    BY <1>0, <1>14 DEF run_joined, mark_runs, Goto
  <2>. QED BY <1>0, <2>1, TurnStep
<1>15. CASE finalize_completed(r, t)
  <2>0. log'[t].ended
    BY <1>0, <1>15, AppendMove DEF finalize_completed, Goto, _cancel_turn, TERMINAL_STATUS_MAP
  <2>1. runner'[t] = r /\ RowReady(t)' /\ OwnerReady(r, t)'
    BY <1>0, <2>0, <1>15 DEF finalize_completed, Goto, SetStatus
  <2>. QED BY <1>0, <2>1, TurnStep
<1>16. CASE finalize_cancelled(r, t)
  <2>0. log'[t].ended
    BY <1>0, <1>16, AppendMove DEF finalize_cancelled, Goto, _cancel_turn, TERMINAL_STATUS_MAP
  <2>1. runner'[t] = r /\ RowReady(t)' /\ OwnerReady(r, t)'
    BY <1>0, <2>0, <1>16 DEF finalize_cancelled, Goto, _cancel_turn, SetStatus
  <2>. QED BY <1>0, <2>1, TurnStep
<1>17. CASE finalize_cleanup(r, t)
  <2>1. runner'[t] = r /\ RowReady(t)' /\ OwnerReady(r, t)'
    BY <1>0, <1>17 DEF finalize_cleanup, Leave, Goto
  <2>. QED BY <1>0, <2>1, TurnStep
<1>18. CASE approval_resolved(r, t)
  <2>1. runner'[t] = r /\ RowReady(t)' /\ OwnerReady(r, t)'
    BY <1>0, <1>18 DEF approval_resolved, Goto, SetStatus
  <2>. QED BY <1>0, <2>1, TurnStep
<1>19. CASE execute_tool(r, t)
  <2>1. runner'[t] = r /\ RowReady(t)' /\ OwnerReady(r, t)'
    BY <1>0, <1>19 DEF execute_tool, Goto, storeVars
  <2>. QED BY <1>0, <2>1, TurnStep
<1>20. CASE ask_again(r, t)
  <2>1. runner'[t] = r /\ RowReady(t)' /\ OwnerReady(r, t)'
    BY <1>0, <1>20 DEF ask_again, Goto
  <2>. QED BY <1>0, <2>1, TurnStep
<1>21. CASE repark(r, t)
  <2>1. runner'[t] = r /\ RowReady(t)' /\ OwnerReady(r, t)'
    BY <1>0, <1>21 DEF repark, save_pending, Goto
  <2>. QED BY <1>0, <2>1, TurnStep
<1>22. CASE wait_again(r, t)
  <2>1. runner'[t] = r /\ RowReady(t)' /\ OwnerReady(r, t)'
    BY <1>0, <1>22 DEF wait_again, Leave, Goto
  <2>. QED BY <1>0, <2>1, TurnStep
<1>23. CASE tool_completed(r, t)
  <2>1. runner'[t] = r /\ RowReady(t)' /\ OwnerReady(r, t)'
    BY <1>0, <1>23 DEF tool_completed, Goto
  <2>. QED BY <1>0, <2>1, TurnStep
<1>24. CASE worker_fails(r, t)
  <2>1. runner'[t] = r /\ RowReady(t)' /\ OwnerReady(r, t)'
    BY <1>0, <1>24 DEF worker_fails, Leave, Goto, _fail_turn, SetStatus
  <2>. QED BY <1>0, <2>1, TurnStep
<1>. QED BY <1>1, <1>2, <1>3, <1>4, <1>5, <1>6, <1>7, <1>8, <1>9, <1>10, <1>11, <1>12,
      <1>13, <1>14, <1>15, <1>16, <1>17, <1>18, <1>19, <1>20, <1>21, <1>22, <1>23, <1>24 DEF
      WorkerStep

\* By the command handlers, the dispatcher and a command's arrival.
LEMMA ResumableHandler ==
    ASSUME IInv, Resumable, NEW r \in Runners, NEW t \in Turns,
           \/ HandlerStep(r, t) \/ wait_timeout(r, t) \/ _purge_expired(r, t)
           \/ resume_dropped(r, t) \/ _load_accepted(r, t) \/ claim_dropped(r, t)
           \/ \E type \in CommandTypes : consume_pending_for_run(r, t, type),
           \A u \in Turns : log[u].ended => log'[u].ended
    PROVE  Resumable'
<1>. USE DEF RowReady, OwnerReady, Waits, Unanswered, Working, Unclaimed, TypeOK, StoreTypeOK,
      RuntimeTypeOK
<1>0. /\ TypeOK
      /\ Elsewhere(t)
      /\ RowReady(t)
      /\ \A q \in Runners : runner[t] = q => OwnerReady(q, t)
      /\ Working(r, t) => runner[t] = r /\ runs[t] \notin Unclaimed
      /\ handler[r][t].phase # "none" => runner[t] = r
      /\ runs[t] \in Unclaimed => runner[t] = NoRunner
  BY HandlerElsewhere, OwnedRow DEF IInv, Ownership, HandlerOwner, Fresh, Resumable
<1>1. CASE state_lost(r, t) \/ wait_timeout(r, t)
  <2>1. /\ runner[t] = r /\ handler[r][t].phase = "waiting"
        /\ UNCHANGED <<turns, runs, runner, command, log, checkpoint, asks, task, watch>>
        /\ handler'[r][t].phase \in {"none", "failing"}
    BY <1>0, <1>1 DEF state_lost, wait_timeout, CheckStuck, Idle, HandlerType, storeVars
  <2>2. RowReady(t) /\ OwnerReady(r, t) /\ process[r] = "up"
    BY <1>0, <1>1, <2>1 DEF state_lost, wait_timeout
  <2>3. ~Working(r, t)
    BY <1>0, <2>1
  <2>4. runner'[t] = r /\ RowReady(t)' /\ OwnerReady(r, t)'
    BY ONLY <2>1, <2>2, <2>3 DEF RowReady, OwnerReady, Waits, Unanswered, Working, Unclaimed
  <2>. QED BY <1>0, <2>4, TurnStep
<1>2. CASE fail_stuck_approval(r, t)
  <2>1. runner'[t] = r /\ RowReady(t)' /\ OwnerReady(r, t)'
    BY <1>0, <1>2, StoreAssumption DEF fail_stuck_approval, _fail_turn, SetStatus, Idle
  <2>. QED BY <1>0, <2>1, TurnStep
<1>3. CASE resume(r, t)
  <2>1. /\ runner[t] = r /\ task[r][t] = "none"
        /\ \/ task'[r][t] = "resuming" /\ handler'[r][t].phase = "running"
           \/ task'[r][t] = "none" /\ handler'[r][t].phase = "cleaning"
    <3>1. CASE _resolve_pending(r, t) = handler[r][t].ask
      BY ONLY <1>0, <1>3, <3>1, r \in Runners, t \in Turns
      DEF resume, Goto, TypeOK, RuntimeTypeOK, HandlerType
    <3>2. CASE _resolve_pending(r, t) # handler[r][t].ask
      BY ONLY <1>0, <1>3, <3>2, r \in Runners, t \in Turns
      DEF resume, Goto, TypeOK, RuntimeTypeOK, HandlerType
    <3>. QED BY <3>1, <3>2
  <2>2. runner'[t] = r /\ RowReady(t)' /\ OwnerReady(r, t)'
    BY <1>0, <1>3, <2>1 DEF resume, storeVars
  <2>. QED BY <1>0, <2>2, TurnStep
<1>4. CASE drop_pending(r, t)
  <2>1. runner'[t] = r /\ RowReady(t)' /\ OwnerReady(r, t)'
    BY <1>0, <1>4 DEF drop_pending, Idle
  <2>. QED BY <1>0, <2>1, TurnStep
<1>c. CASE _cleanup_pending_after_command(r, t)
  <2>1. /\ runner[t] = r /\ handler[r][t].phase = "cleaning"
        /\ UNCHANGED <<turns, runs, runner, command, log, checkpoint, asks, task, watch>>
    BY <1>0, <1>c DEF _cleanup_pending_after_command, storeVars
  <2>2. \/ handler'[r][t].phase = "none"
        \/ handler'[r][t].phase = "dropping" /\ ~Waits(t)
    BY <1>0, <1>c DEF _cleanup_pending_after_command, Idle, HandlerType
  <2>3. RowReady(t)' /\ OwnerReady(r, t)'
    BY <1>0, <2>1, <2>2
  <2>. QED BY <1>0, <2>1, <2>3, TurnStep
<1>5. CASE _purge_expired(r, t)
  <2>1. RowReady(t)' /\ \A q \in Runners : runner'[t] = q => OwnerReady(q, t)'
    BY <1>0, <1>5 DEF _purge_expired, storeVars
  <2>. QED BY <1>0, <2>1, TurnStep
<1>6. CASE resume_dropped(r, t)
  <2>1. runner'[t] = r /\ RowReady(t)' /\ OwnerReady(r, t)'
    BY <1>0, <1>6 DEF resume_dropped, Leave, Goto, storeVars
  <2>. QED BY <1>0, <2>1, TurnStep
<1>7. CASE _load_accepted(r, t)
  <2>1. runner'[t] = NoRunner /\ RowReady(t)'
    BY <1>0, <1>7 DEF _load_accepted, storeVars
  <2>. QED BY <1>0, <2>1, TurnStep, StoreAssumption
<1>8. CASE claim_dropped(r, t)
  <2>1. runner'[t] = r /\ RowReady(t)' /\ OwnerReady(r, t)'
    BY <1>0, <1>8 DEF claim_dropped, Goto, storeVars
  <2>. QED BY <1>0, <2>1, TurnStep
<1>9. ASSUME NEW type \in CommandTypes, consume_pending_for_run(r, t, type) PROVE Resumable'
  <2>1. runner'[t] = r /\ RowReady(t)' /\ OwnerReady(r, t)'
    BY <1>0, <1>9 DEF consume_pending_for_run
  <2>. QED BY <1>0, <2>1, TurnStep
<1>. QED BY <1>1, <1>2, <1>3, <1>4, <1>c, <1>5, <1>6, <1>7, <1>8, <1>9 DEF HandlerStep

\* By the watchdog and the reconcile at boot.
LEMMA ResumableWatch ==
    ASSUME IInv, Resumable, NEW r \in Runners, NEW t \in Turns,
           WatchStep(r, t) \/ request_cancel(r, t) \/ reconcile_runner_orphans(r, t),
           \A u \in Turns : log[u].ended => log'[u].ended
    PROVE  Resumable'
<1>. USE DEF RowReady, OwnerReady, Waits, Unanswered, Working, Unclaimed, TypeOK, StoreTypeOK,
      RuntimeTypeOK
<1>0. /\ TypeOK
      /\ Elsewhere(t)
      /\ RowReady(t)
      /\ \A q \in Runners : runner[t] = q => OwnerReady(q, t)
  BY WatchElsewhere DEF IInv, Resumable
<1>. SUFFICES RowReady(t)' /\ \A q \in Runners : runner'[t] = q => OwnerReady(q, t)'
  BY <1>0, TurnStep
<1>1. CASE find_orphan(r, t)
  BY <1>0, <1>1 DEF find_orphan, storeVars
<1>2. CASE approval_timeout(r, t)
  BY <1>0, <1>2 DEF approval_timeout, storeVars
<1>3. CASE request_cancel(r, t)
  BY <1>0, <1>3 DEF request_cancel, storeVars
<1>4. CASE watchdog_fails(r, t)
  BY <1>0, <1>4 DEF watchdog_fails, _fail_turn, SetStatus
<1>5. CASE maybe_finalize_orphan_cancel(r, t)
  <2>1. log'[t].ended
    BY <1>0, <1>5 DEF maybe_finalize_orphan_cancel, _cancel_turn, AppendTo, append_event,
        TERMINAL_STATUS_MAP
  <2>. QED BY <1>0, <1>5, <2>1 DEF maybe_finalize_orphan_cancel, _cancel_turn, SetStatus
<1>6. CASE orphan_cancel_cleanup(r, t)
  BY <1>0, <1>6 DEF orphan_cancel_cleanup
<1>7. CASE reconcile_runner_orphans(r, t)
  BY <1>0, <1>7 DEF reconcile_runner_orphans, _fail_turn, SetStatus
<1>. QED BY <1>1, <1>2, <1>3, <1>4, <1>5, <1>6, <1>7 DEF WatchStep

\* By the steps that do not concern a single turn.
LEMMA ResumableReplica ==
    ASSUME IInv, Resumable, NEW r \in Runners,
           \/ boot(r) \/ start_listeners(r) \/ crash(r)
           \/ renew_run_leases(r) \/ scan_stalled_runs(r)
    PROVE  Resumable'
<1>. USE DEF Resumable, RowReady, OwnerReady, Waits, Unanswered, Working, TypeOK, RuntimeTypeOK
<1>0. TypeOK
  BY DEF IInv
<1>1. CASE boot(r) \/ start_listeners(r)
  BY <1>1 DEF boot, start_listeners, storeVars
<1>2. CASE crash(r)
  BY <1>0, <1>2 DEF crash, storeVars, Idle
<1>3. CASE renew_run_leases(r)
  BY <1>3 DEF renew_run_leases, runtimeVars
<1>4. CASE scan_stalled_runs(r)
  <2>1. \A q \in Runners, u \in Turns : watch'[q][u] = "swept" => watch[q][u] = "swept"
    BY <1>0, <1>4 DEF scan_stalled_runs, Verdict
  <2>. QED BY <1>4, <2>1 DEF scan_stalled_runs, storeVars
<1>. QED BY <1>1, <1>2, <1>3, <1>4

\* By the api, but for the projections that make a turn wait.
LEMMA ResumableApi ==
    ASSUME IInv, Resumable, NEW t \in Turns, ApiNext(t), UNCHANGED runtimeVars,
           ~ProjectsWait(t), \A u \in Turns : log[u].ended => log'[u].ended
    PROVE  Resumable'
<1>. USE DEF RowReady, OwnerReady, Waits, Unanswered, Working, TypeOK, StoreTypeOK, runtimeVars
<1>0. /\ TypeOK
      /\ Elsewhere(t)
      /\ RowReady(t)
      /\ \A q \in Runners : runner[t] = q => OwnerReady(q, t)
      /\ runs[t] \in Unclaimed => \A q \in Runners : runner[t] # q
      /\ turns[t] = "absent" => runs[t] \in Unclaimed
  BY ApiElsewhere, StoreAssumption DEF IInv, Ownership, Fresh, Absent, Unclaimed, Resumable
<1>. SUFFICES RowReady(t)' /\ \A q \in Runners : runner'[t] = q => OwnerReady(q, t)'
  BY <1>0, TurnStep
<1>1. CASE create_turn(t)
  BY <1>0, <1>1 DEF create_turn, SetStatus
<1>2. CASE cancel_turn(t)
  BY <1>0, <1>2 DEF cancel_turn
<1>3. CASE reconcile_unclaimed_turns(t)
  BY <1>0, <1>3 DEF reconcile_unclaimed_turns, _fail_turn, SetStatus, Unclaimed
<1>4. CASE lease_expires(t)
  BY <1>0, <1>4 DEF lease_expires
<1>5. CASE reconcile_expired_leases(t)
  BY <1>0, <1>5 DEF reconcile_expired_leases, SetStatus, Unclaimed
<1>6. CASE project_read(t) \/ project_lost(t)
  BY <1>0, <1>6 DEF project_read, project_lost, storeVars
<1>7. CASE project_write(t)
  <2>1. PICK s \in proj[t] : SetStatus(t, s.status, map_turn_to_run_status(s.status))
    BY <1>7 DEF project_write
  <2>2. s.status \in TurnStatuses /\ s.status # "pending"
    BY <1>0, <2>1 DEF IInv, Begun, ProjBegun, ApiTypeOK, ViewType
  <2>3. map_turn_to_run_status(s.status) \notin Unclaimed
    BY <2>2 DEF map_turn_to_run_status, TurnStatuses, RUNNING_STATUSES, TERMINAL_STATUSES, Unclaimed
  <2>4. runs'[t] \notin Unclaimed /\ (turns'[t] = "waiting_approval" => turns[t] = "waiting_approval")
    BY <1>0, <1>7, <2>1, <2>3 DEF SetStatus, ProjectsWait
  <2>. QED BY <1>0, <1>7, <2>4 DEF project_write
<1>8. ASSUME NEW type \in CommandTypes, NEW ask \in Asks, enqueue_run_command(t, type, ask)
      PROVE  RowReady(t)' /\ \A q \in Runners : runner'[t] = q => OwnerReady(q, t)'
  BY <1>0, <1>8 DEF enqueue_run_command
<1>. QED BY <1>1, <1>2, <1>3, <1>4, <1>5, <1>6, <1>7, <1>8 DEF ApiNext,
      project_notified, reconcile_lagging_projections, reconcile_stale_turns

LEMMA InitResumable == Init => Resumable
<1>. SUFFICES ASSUME Init, NEW t \in Turns
              PROVE  RowReady(t) /\ \A r \in Runners : runner[t] # r
  BY DEF Resumable
<1>. USE DEF Init, StoreInit, RuntimeInit
<1>1. RowReady(t)
  BY DEF RowReady, Waits, Unanswered
<1>. QED BY <1>1, StoreAssumption

LEMMA NextResumable ==
    ASSUME IInv, History, Resumable, [Next]_vars, \A t \in Turns : ~ProjectsWait(t)
    PROVE  Resumable'
<1>1. \A u \in Turns : log[u].ended => log'[u].ended
  BY NextMove DEF Move, LogMove
<1>2. CASE UNCHANGED vars
  BY <1>2 DEF vars, storeVars, apiVars, runtimeVars, Resumable, RowReady, OwnerReady, Waits,
              Unanswered, Working
<1>3. ASSUME NEW t \in Turns, ApiNext(t), UNCHANGED runtimeVars PROVE Resumable'
  BY <1>1, <1>3, ResumableApi
<1>4. ASSUME NEW r \in Runners, RuntimeNext(r) PROVE Resumable'
  BY <1>1, <1>4, ResumableWorker, ResumableHandler, ResumableWatch, ResumableReplica
  DEF RuntimeNext, BootStep
<1>. QED BY <1>2, <1>3, <1>4 DEF Next

\* While no projection makes a turn wait, every parked turn can be resumed.
THEOREM ResumableUnprojected ==
    Spec /\ [][\A t \in Turns : ~ProjectsWait(t)]_vars => []Resumable
<1>1. IInv /\ History /\ Resumable /\ [Next]_vars /\ [\A t \in Turns : ~ProjectsWait(t)]_vars
        => Resumable'
  <2>. SUFFICES ASSUME IInv, History, Resumable, [Next]_vars,
                       [\A t \in Turns : ~ProjectsWait(t)]_vars
                PROVE  Resumable'
    OBVIOUS
  <2>1. CASE \A t \in Turns : ~ProjectsWait(t)
    BY <2>1, NextResumable
  <2>2. CASE UNCHANGED vars
    BY <2>2 DEF vars, storeVars, apiVars, runtimeVars, Resumable, RowReady, OwnerReady, Waits,
                Unanswered, Working
  <2>. QED BY <2>1, <2>2
<1>. QED BY <1>1, InitResumable, HistoryInvariant, PTL DEF Spec

\* While no projection makes a turn wait, a parked turn's checkpoint holds the call it was
\* parked for, whatever crashes and whoever answers: save_checkpoint comes before the
\* status, and nobody deletes the checkpoint of a turn that waits.
THEOREM ApprovalResumableUnprojected ==
    Spec /\ [][\A t \in Turns : ~ProjectsWait(t)]_vars => []ApprovalResumable
<1>1. Resumable => ApprovalResumable
  BY DEF Resumable, RowReady, Waits, ApprovalResumable
<1>. QED BY <1>1, ResumableUnprojected, PTL

-----------------------------------------------------------------------------
(***************************************************************************)
(* B3: an approved call runs once, while no replica crashes and no         *)
(* projection makes a turn wait.  After execute_tool the interrupt is      *)
(* still in memory and in the checkpoint; until the clean-up drops it, the *)
(* handler in flight keeps further answers out.                            *)
(***************************************************************************)

\* What a command for the owner would be compared with.
Held(r, t, a) == checkpoint[t] = a \/ pending[r][t] = a

\* The rows: no call ran twice, or before it was asked for, and nothing ran unowned.
RowOnce(t) ==
    /\ \A a \in Asks : executed[t][a] <= 1 /\ (a > asks[t] => executed[t][a] = 0)
    /\ checkpoint[t] <= asks[t]
    /\ runner[t] = NoRunner =>
        /\ \A a \in Asks : executed[t][a] = 0
        /\ checkpoint[t] = NoInterrupt
        /\ \A r \in Runners : pending[r][t] = NoInterrupt

\* Their owner.  An interrupt whose call ran is held only behind a handler in flight, and
\* never while the turn waits (second conjunct); whoever asks, waits or resumes does so for
\* a call that has not run.
OwnerOnce(r, t) ==
    /\ pending[r][t] <= asks[t]
    /\ \A a \in Asks : executed[t][a] > 0 /\ Held(r, t, a) =>
        handler[r][t].phase \in {"running", "cleaning", "dropping"} /\ ~Waits(t)
    /\ Waits(t) \/ task[r][t] \in {"parking", "reparking"} =>
        /\ checkpoint[t] \in {NoInterrupt, asks[t]}
        /\ pending[r][t] \in {NoInterrupt, asks[t]}
        /\ asks[t] \in Asks => executed[t][asks[t]] = 0
    /\ task[r][t] \in {"resuming", "granted"} =>
        /\ handler[r][t].phase = "running"
        /\ handler[r][t].ask \in 1 .. asks[t]
        /\ executed[t][handler[r][t].ask] = 0
    /\ task[r][t] \in {"asking", "reasking"} => asks[t] \in Asks /\ executed[t][asks[t]] = 0

Once == \A t \in Turns : RowOnce(t) /\ \A r \in Runners : runner[t] = r => OwnerOnce(r, t)

\* A step on one turn.
LEMMA OnceStep ==
    ASSUME Once, NEW t \in Turns, Elsewhere(t), RowOnce(t)',
           \A r \in Runners : runner'[t] = r => OwnerOnce(r, t)'
    PROVE  Once'
<1>. SUFFICES ASSUME NEW u \in Turns, u # t
              PROVE  RowOnce(u)' /\ \A r \in Runners : runner'[u] = r => OwnerOnce(r, u)'
  BY DEF Once
<1>1. Same(u)
  BY DEF Elsewhere
<1>2. RowOnce(u) /\ \A r \in Runners : runner[u] = r => OwnerOnce(r, u)
  BY DEF Once
<1>3. RowOnce(u)'
  BY <1>1, <1>2 DEF Same, RowOnce
<1>4. ASSUME NEW r \in Runners, runner'[u] = r PROVE OwnerOnce(r, u)'
  BY <1>1, <1>2, <1>4 DEF Same, OwnerOnce, Waits, Held
<1>. QED BY <1>3, <1>4

\* By the worker's steps.
LEMMA OnceWorker ==
    ASSUME IInv, Resumable, Once, NEW r \in Runners, NEW t \in Turns, WorkerStep(r, t)
    PROVE  Once'
<1>. USE DEF RowOnce, OwnerOnce, Held, Waits, Asks, NoInterrupt, TypeOK, StoreTypeOK, RuntimeTypeOK
<1>0. /\ TypeOK
      /\ Elsewhere(t)
      /\ RowOnce(t)
      /\ runner[t] = r => OwnerOnce(r, t) /\ OwnerReady(r, t)
      /\ Working(r, t) => runner[t] = r
      /\ runs[t] = "accepted" => runner[t] = NoRunner /\ ~Waits(t)
  BY WorkerElsewhere, OwnedRow DEF IInv, Ownership, Fresh, Unclaimed, Once, Resumable, RowReady
<1>. USE DEF Working
<1>1. CASE ensure_run_owned_by_runner(r, t)
  <2>1. runner'[t] = r /\ RowOnce(t)' /\ OwnerOnce(r, t)'
    BY <1>0, StoreAssumption, <1>1 DEF ensure_run_owned_by_runner, Goto
  <2>. QED BY <1>0, <2>1, OnceStep
<1>2. CASE claim_refused(r, t)
  <2>1. RowOnce(t)' /\ \A q \in Runners : runner'[t] = q => OwnerOnce(q, t)'
    BY <1>0, <1>2 DEF claim_refused, Goto, storeVars, Once
  <2>. QED BY <1>0, <2>1, OnceStep
<1>3. CASE start_turn(r, t)
  <2>1. runner'[t] = r /\ RowOnce(t)' /\ OwnerOnce(r, t)'
    BY <1>0, StoreAssumption, <1>3 DEF start_turn, Goto, storeVars
  <2>. QED BY <1>0, <2>1, OnceStep
<1>4. CASE turn_accepted(r, t)
  <2>1. runner'[t] = r /\ RowOnce(t)' /\ OwnerOnce(r, t)'
    BY <1>0, StoreAssumption, <1>4 DEF turn_accepted, Goto, OwnerReady
  <2>. QED BY <1>0, <2>1, OnceStep
<1>5. CASE write_event(r, t)
  <2>1. runner'[t] = r /\ RowOnce(t)' /\ OwnerOnce(r, t)'
    BY <1>0, StoreAssumption, <1>5 DEF write_event, Goto
  <2>. QED BY <1>0, <2>1, OnceStep
<1>6. CASE approval_requested(r, t)
  <2>1. /\ asks'[t] = asks[t] + 1 /\ asks'[t] \in Asks /\ asks[t] \in Nat
        /\ task[r][t] = "engine" /\ task'[r][t] = "asking" /\ ~Waits(t)
        /\ UNCHANGED <<turns, runner, checkpoint, pending, executed, handler>>
    <3>1. task[r][t] = "engine" /\ task'[r][t] = "asking" /\ asks[t] < MaxAsks
      BY <1>0, <1>6 DEF approval_requested, Goto
    <3>2. ~Waits(t)
      BY <1>0, <3>1 DEF OwnerReady
    <3>3. asks[t] \in Nat /\ asks'[t] = asks[t] + 1
      BY <1>0, <1>6, StoreAssumption DEF approval_requested
    <3>. QED BY <1>6, <3>1, <3>2, <3>3, StoreAssumption DEF approval_requested
  <2>2. RowOnce(t) /\ OwnerOnce(r, t) /\ runner[t] = r
    BY <1>0, <2>1
  <2>3. /\ \A a \in Asks : a \in Int
        /\ checkpoint[t] \in Int /\ pending[r][t] \in Int
        /\ \A a \in Asks : a > asks'[t] => a > asks[t]
        /\ executed[t][asks'[t]] = 0
    BY <1>0, <2>1, <2>2, StoreAssumption DEF Interrupts, ChildInterrupt
  <2>4. RowOnce(t)'
    BY ONLY <2>1, <2>2, <2>3, StoreAssumption DEF RowOnce
  <2>5. OwnerOnce(r, t)'
    BY ONLY <2>1, <2>2, <2>3 DEF OwnerOnce, Held, Waits
  <2>. QED BY <1>0, <2>1, <2>2, <2>4, <2>5, OnceStep
<1>7. CASE park(r, t)
  <2>1. runner'[t] = r /\ RowOnce(t)' /\ OwnerOnce(r, t)'
    BY <1>0, StoreAssumption, <1>7 DEF park, save_pending, Goto, OwnerReady
  <2>. QED BY <1>0, <2>1, OnceStep
<1>8. CASE finalize_waiting_approval(r, t)
  <2>1. runner'[t] = r /\ RowOnce(t)' /\ OwnerOnce(r, t)'
    BY <1>0, StoreAssumption, <1>8 DEF finalize_waiting_approval, Leave, Goto, SetStatus, OwnerReady
  <2>. QED BY <1>0, <2>1, OnceStep
<1>9. CASE settle_waiting_children(r, t)
  <2>1. runner'[t] = r /\ RowOnce(t)' /\ OwnerOnce(r, t)'
    BY <1>0, StoreAssumption, <1>9 DEF settle_waiting_children, Goto, OwnerReady, ChildInterrupt
  <2>. QED BY <1>0, <2>1, OnceStep
<1>10. CASE turn_waiting_child(r, t)
  <2>1. runner'[t] = r /\ RowOnce(t)' /\ OwnerOnce(r, t)'
    BY <1>0, StoreAssumption, <1>10 DEF turn_waiting_child, mark_turns, Goto
  <2>. QED BY <1>0, <2>1, OnceStep
<1>11. CASE run_waiting_child(r, t)
  <2>1. runner'[t] = r /\ RowOnce(t)' /\ OwnerOnce(r, t)'
    BY <1>0, StoreAssumption, <1>11 DEF run_waiting_child, mark_runs, Goto
  <2>. QED BY <1>0, <2>1, OnceStep
<1>12. CASE join_children(r, t)
  <2>1. runner'[t] = r /\ RowOnce(t)' /\ OwnerOnce(r, t)'
    BY <1>0, StoreAssumption, <1>12 DEF join_children, Goto
  <2>. QED BY <1>0, <2>1, OnceStep
<1>13. CASE turn_joined(r, t)
  <2>1. runner'[t] = r /\ RowOnce(t)' /\ OwnerOnce(r, t)'
    BY <1>0, StoreAssumption, <1>13 DEF turn_joined, mark_turns, Goto
  <2>. QED BY <1>0, <2>1, OnceStep
<1>14. CASE run_joined(r, t)
  <2>1. runner'[t] = r /\ RowOnce(t)' /\ OwnerOnce(r, t)'
    BY <1>0, StoreAssumption, <1>14 DEF run_joined, mark_runs, Goto
  <2>. QED BY <1>0, <2>1, OnceStep
<1>15. CASE finalize_completed(r, t)
  <2>1. runner'[t] = r /\ RowOnce(t)' /\ OwnerOnce(r, t)'
    BY <1>0, StoreAssumption, <1>15 DEF finalize_completed, Goto, SetStatus
  <2>. QED BY <1>0, <2>1, OnceStep
<1>16. CASE finalize_cancelled(r, t)
  <2>1. runner'[t] = r /\ RowOnce(t)' /\ OwnerOnce(r, t)'
    BY <1>0, StoreAssumption, <1>16 DEF finalize_cancelled, Goto, _cancel_turn, SetStatus
  <2>. QED BY <1>0, <2>1, OnceStep
<1>17. CASE finalize_cleanup(r, t)
  <2>1. runner'[t] = r /\ RowOnce(t)' /\ OwnerOnce(r, t)'
    BY <1>0, StoreAssumption, <1>17 DEF finalize_cleanup, Leave, Goto, OwnerReady
  <2>. QED BY <1>0, <2>1, OnceStep
<1>18. CASE approval_resolved(r, t)
  <2>1. runner'[t] = r /\ RowOnce(t)' /\ OwnerOnce(r, t)'
    BY <1>0, StoreAssumption, <1>18 DEF approval_resolved, Goto, SetStatus, OwnerReady, HandlerType
  <2>. QED BY <1>0, <2>1, OnceStep
<1>19. CASE execute_tool(r, t)
  <2>1. PICK ask \in Asks : /\ ask = handler[r][t].ask /\ ask <= asks[t] /\ executed[t][ask] = 0
                            /\ handler[r][t].phase = "running"
    BY <1>0, <1>19, StoreAssumption DEF execute_tool, Goto, OwnerReady, HandlerType
  <2>2. /\ executed'[t] = [executed[t] EXCEPT ![ask] = 1]
        /\ task'[r][t] = "ran" /\ ~Waits(t)
        /\ UNCHANGED <<turns, runner, checkpoint, pending, handler, asks>>
    BY <1>0, <1>19, <2>1 DEF execute_tool, Goto, OwnerReady, storeVars
  <2>3. \A a \in Asks : executed'[t][a] = IF a = ask THEN 1 ELSE executed[t][a]
    BY <1>0, <2>2
  <2>4. RowOnce(t)' /\ OwnerOnce(r, t)' /\ runner'[t] = r
    BY ONLY <1>0, <1>19, <2>1, <2>2, <2>3, StoreAssumption, r \in Runners DEF execute_tool, Goto, RowOnce, OwnerOnce, Held, Waits, Working
  <2>. QED BY <1>0, <2>4, OnceStep
<1>20. CASE ask_again(r, t)
  <2>1. runner'[t] = r /\ RowOnce(t)' /\ OwnerOnce(r, t)'
    BY <1>0, StoreAssumption, <1>20 DEF ask_again, Goto, OwnerReady, HandlerType
  <2>. QED BY <1>0, <2>1, OnceStep
<1>21. CASE repark(r, t)
  <2>1. runner'[t] = r /\ RowOnce(t)' /\ OwnerOnce(r, t)'
    BY <1>0, StoreAssumption, <1>21 DEF repark, save_pending, Goto, OwnerReady
  <2>. QED BY <1>0, <2>1, OnceStep
<1>22. CASE wait_again(r, t)
  <2>1. runner'[t] = r /\ RowOnce(t)' /\ OwnerOnce(r, t)'
    BY <1>0, StoreAssumption, <1>22 DEF wait_again, Leave, Goto, OwnerReady
  <2>. QED BY <1>0, <2>1, OnceStep
<1>23. CASE tool_completed(r, t)
  <2>1. runner'[t] = r /\ RowOnce(t)' /\ OwnerOnce(r, t)'
    BY <1>0, StoreAssumption, <1>23 DEF tool_completed, Goto
  <2>. QED BY <1>0, <2>1, OnceStep
<1>24. CASE worker_fails(r, t)
  <2>1. runner'[t] = r /\ RowOnce(t)' /\ OwnerOnce(r, t)'
    BY <1>0, StoreAssumption, <1>24 DEF worker_fails, Leave, Goto, _fail_turn, SetStatus
  <2>. QED BY <1>0, <2>1, OnceStep
<1>. QED BY <1>1, <1>2, <1>3, <1>4, <1>5, <1>6, <1>7, <1>8, <1>9, <1>10, <1>11, <1>12,
      <1>13, <1>14, <1>15, <1>16, <1>17, <1>18, <1>19, <1>20, <1>21, <1>22, <1>23, <1>24 DEF
      WorkerStep

\* By the command handlers, the dispatcher and a command's arrival.
LEMMA OnceHandler ==
    ASSUME IInv, Resumable, Once, NEW r \in Runners, NEW t \in Turns,
           \/ HandlerStep(r, t) \/ wait_timeout(r, t) \/ _purge_expired(r, t)
           \/ resume_dropped(r, t) \/ _load_accepted(r, t) \/ claim_dropped(r, t)
           \/ \E type \in CommandTypes : consume_pending_for_run(r, t, type)
    PROVE  Once'
<1>. USE DEF RowOnce, OwnerOnce, Held, Waits, Asks, NoInterrupt, TypeOK, StoreTypeOK, RuntimeTypeOK
<1>0. /\ TypeOK
      /\ Elsewhere(t)
      /\ RowOnce(t)
      /\ \A q \in Runners : runner[t] = q => OwnerOnce(q, t) /\ OwnerReady(q, t)
      /\ Working(r, t) => runner[t] = r
      /\ handler[r][t].phase # "none" => runner[t] = r
      /\ runs[t] = "accepted" => runner[t] = NoRunner
  BY HandlerElsewhere, OwnedRow DEF IInv, Ownership, HandlerOwner, Fresh, Unclaimed, Once, Resumable
<1>. USE DEF Working
<1>1. CASE state_lost(r, t) \/ wait_timeout(r, t)
  <2>1. /\ handler[r][t].phase = "waiting"
        /\ UNCHANGED <<turns, runner, asks, checkpoint, task, pending, executed>>
    BY <1>1 DEF state_lost, wait_timeout, CheckStuck, storeVars
  <2>2. runner[t] = r /\ RowOnce(t) /\ OwnerOnce(r, t)
    BY <1>0, <2>1
  <2>3. runner'[t] = r /\ RowOnce(t)' /\ OwnerOnce(r, t)'
    BY ONLY <2>1, <2>2 DEF RowOnce, OwnerOnce, Held, Waits
  <2>. QED BY <1>0, <2>3, OnceStep
<1>2. CASE fail_stuck_approval(r, t)
  <2>1. runner'[t] = r /\ RowOnce(t)' /\ OwnerOnce(r, t)'
    BY <1>0, <1>2, StoreAssumption DEF fail_stuck_approval, _fail_turn, SetStatus, OwnerReady, Idle
  <2>. QED BY <1>0, <2>1, OnceStep
<1>3. CASE resume(r, t)
  <2>. DEFINE a == handler[r][t].ask
  <2>1. /\ runner[t] = r /\ task[r][t] = "none" /\ handler[r][t].phase = "waiting"
        /\ handler'[r][t].ask = a
        /\ \/ /\ task'[r][t] = "resuming" /\ handler'[r][t].phase = "running"
              /\ a # NoInterrupt /\ Held(r, t, a)
           \/ task'[r][t] = "none" /\ handler'[r][t].phase = "cleaning"
    <3>1. /\ runner[t] = r /\ task[r][t] = "none" /\ handler[r][t].phase = "waiting"
          /\ _resolve_pending(r, t) # NoInterrupt
      BY <1>0, <1>3 DEF resume, Goto
    <3>2. CASE _resolve_pending(r, t) = handler[r][t].ask
      <4>1. task' = [task EXCEPT ![r][t] = "resuming"]
            /\ handler' = [handler EXCEPT ![r][t].phase = "running"]
        BY <1>3, <3>2 DEF resume, Goto
      <4>2. Held(r, t, handler[r][t].ask)
        BY <3>2 DEF _resolve_pending
      <4>. QED BY <1>0, <3>1, <3>2, <4>1, <4>2 DEF HandlerType
    <3>3. CASE _resolve_pending(r, t) # handler[r][t].ask
      <4>1. task' = [task EXCEPT ![r][t] = "none"]
            /\ handler' = [handler EXCEPT ![r][t].phase = "cleaning"]
        BY <1>3, <3>3 DEF resume, Goto
      <4>. QED BY <1>0, <3>1, <4>1 DEF HandlerType
    <3>. QED BY <3>2, <3>3
  <2>2. RowOnce(t) /\ OwnerOnce(r, t)
    BY <1>0, <2>1
  <2>3. a \in 0 .. MaxAsks /\ asks[t] \in 0 .. MaxAsks
    BY <1>0 DEF HandlerType
  <2>4. a # NoInterrupt /\ Held(r, t, a) => a \in 1 .. asks[t] /\ a \in Asks
    BY ONLY <2>2, <2>3, StoreAssumption DEF RowOnce, OwnerOnce, Held, NoInterrupt, Asks
  <2>5. \A b \in Asks : executed[t][b] \in 0 .. 2
    BY <1>0
  <2>6. a # NoInterrupt /\ Held(r, t, a) => executed[t][a] = 0
    BY ONLY <2>1, <2>2, <2>4, <2>5 DEF OwnerOnce
  <2>7. UNCHANGED <<turns, runner, checkpoint, asks, pending, executed>>
    BY <1>3 DEF resume, storeVars
  <2>8. runner'[t] = r /\ RowOnce(t)' /\ OwnerOnce(r, t)'
    BY ONLY <2>1, <2>2, <2>4, <2>6, <2>7 DEF RowOnce, OwnerOnce, Held, Waits
  <2>. QED BY <1>0, <2>8, OnceStep
<1>4. CASE drop_pending(r, t)
  <2>1. runner'[t] = r /\ RowOnce(t)' /\ OwnerOnce(r, t)'
    BY <1>0, <1>4, StoreAssumption DEF drop_pending, OwnerReady, Idle
  <2>. QED BY <1>0, <2>1, OnceStep
<1>c. CASE _cleanup_pending_after_command(r, t)
  <2>1. /\ runner[t] = r /\ handler[r][t].phase = "cleaning"
        /\ UNCHANGED <<turns, runner, checkpoint, asks, task, pending, executed>>
    BY <1>0, <1>c DEF _cleanup_pending_after_command, storeVars
  <2>2. \/ handler'[r][t].phase = "none" /\ Waits(t)
        \/ handler'[r][t].phase = "dropping" /\ ~Waits(t)
    BY <1>0, <1>c DEF _cleanup_pending_after_command, Idle, HandlerType
  <2>3. RowOnce(t) /\ OwnerOnce(r, t)
    BY <1>0, <2>1
  <2>4. RowOnce(t)' /\ OwnerOnce(r, t)'
    BY ONLY <2>1, <2>2, <2>3 DEF RowOnce, OwnerOnce, Held, Waits
  <2>. QED BY <1>0, <2>1, <2>4, OnceStep
<1>5. CASE _purge_expired(r, t)
  <2>1. RowOnce(t)' /\ \A q \in Runners : runner'[t] = q => OwnerOnce(q, t)'
    BY <1>0, <1>5 DEF _purge_expired, storeVars
  <2>. QED BY <1>0, <2>1, OnceStep
<1>6. CASE resume_dropped(r, t)
  <2>1. runner'[t] = r /\ RowOnce(t)' /\ OwnerOnce(r, t)'
    BY <1>0, <1>6, StoreAssumption DEF resume_dropped, Leave, Goto, storeVars
  <2>. QED BY <1>0, <2>1, OnceStep
<1>7. CASE _load_accepted(r, t)
  <2>1. /\ UNCHANGED <<turns, runner, asks, checkpoint, pending, executed>>
        /\ runner[t] = NoRunner
    BY <1>0, <1>7 DEF _load_accepted, storeVars
  <2>2. RowOnce(t)'
    BY ONLY <1>0, <2>1 DEF RowOnce
  <2>3. \A q \in Runners : runner'[t] # q
    BY ONLY <2>1, StoreAssumption
  <2>. QED BY <1>0, <2>2, <2>3, OnceStep
<1>8. CASE claim_dropped(r, t)
  <2>1. runner'[t] = r /\ RowOnce(t)' /\ OwnerOnce(r, t)'
    BY <1>0, <1>8, StoreAssumption DEF claim_dropped, Goto, storeVars
  <2>. QED BY <1>0, <2>1, OnceStep
<1>9. ASSUME NEW type \in CommandTypes, consume_pending_for_run(r, t, type) PROVE Once'
  <2>1. runner'[t] = r /\ RowOnce(t)' /\ OwnerOnce(r, t)'
    BY <1>0, <1>9, StoreAssumption DEF consume_pending_for_run, OwnerReady
  <2>. QED BY <1>0, <2>1, OnceStep
<1>. QED BY <1>1, <1>2, <1>3, <1>4, <1>c, <1>5, <1>6, <1>7, <1>8, <1>9 DEF HandlerStep

\* By the watchdog and the reconcile at boot: statuses that end the turn, and the
\* checkpoint at most deleted.
LEMMA OnceWatch ==
    ASSUME IInv, Once, NEW r \in Runners, NEW t \in Turns,
           WatchStep(r, t) \/ request_cancel(r, t) \/ reconcile_runner_orphans(r, t)
    PROVE  Once'
<1>0. /\ TypeOK
      /\ Elsewhere(t)
      /\ RowOnce(t) /\ \A q \in Runners : runner[t] = q => OwnerOnce(q, t)
  BY WatchElsewhere DEF IInv, Once
<1>1. /\ UNCHANGED <<runner, asks, task, handler, pending, executed>>
      /\ checkpoint'[t] \in {checkpoint[t], NoInterrupt}
      /\ turns'[t] \in {turns[t], "failed", "cancelled"}
  <2>. USE DEF TypeOK, StoreTypeOK
  <2>1. CASE find_orphan(r, t) \/ approval_timeout(r, t) \/ request_cancel(r, t)
    BY <2>1 DEF find_orphan, approval_timeout, request_cancel, storeVars
  <2>2. CASE watchdog_fails(r, t)
    BY <1>0, <2>2 DEF watchdog_fails, _fail_turn, SetStatus
  <2>3. CASE maybe_finalize_orphan_cancel(r, t)
    BY <1>0, <2>3 DEF maybe_finalize_orphan_cancel, _cancel_turn, SetStatus
  <2>4. CASE orphan_cancel_cleanup(r, t)
    BY <1>0, <2>4 DEF orphan_cancel_cleanup
  <2>5. CASE reconcile_runner_orphans(r, t)
    BY <1>0, <2>5 DEF reconcile_runner_orphans, _fail_turn, SetStatus
  <2>. QED BY <2>1, <2>2, <2>3, <2>4, <2>5 DEF WatchStep
<1>2. asks[t] \in Nat /\ checkpoint'[t] <= asks[t]
  BY <1>0, <1>1, StoreAssumption DEF RowOnce, NoInterrupt, TypeOK, StoreTypeOK
<1>3. RowOnce(t)'
  BY <1>0, <1>1, <1>2 DEF RowOnce
<1>4. ASSUME NEW q \in Runners, runner[t] = q PROVE OwnerOnce(q, t)'
  <2>1. /\ Waits(t)' => Waits(t)
        /\ \A a \in Asks : Held(q, t, a)' => Held(q, t, a)
    BY <1>1, StoreAssumption DEF Waits, Held, Asks, NoInterrupt
  <2>2. OwnerOnce(q, t)
    BY <1>0, <1>4
  <2>. QED BY ONLY <1>1, <2>1, <2>2 DEF OwnerOnce
<1>. QED BY <1>0, <1>1, <1>3, <1>4, OnceStep

\* By the api: no projection makes the turn wait, and the calls are the runtime's.
LEMMA OnceApi ==
    ASSUME IInv, Once, NEW t \in Turns, ApiNext(t), UNCHANGED runtimeVars, ~ProjectsWait(t)
    PROVE  Once'
<1>0. /\ TypeOK
      /\ Elsewhere(t)
      /\ RowOnce(t) /\ \A q \in Runners : runner[t] = q => OwnerOnce(q, t)
  BY ApiElsewhere DEF IInv, Once
<1>1. /\ UNCHANGED <<runner, asks, checkpoint, task, handler, pending, executed>>
      /\ Waits(t)' => Waits(t)
  <2>. USE DEF TypeOK, StoreTypeOK, Waits, runtimeVars
  <2>1. CASE create_turn(t)
    BY <1>0, <2>1 DEF create_turn, SetStatus
  <2>2. CASE cancel_turn(t) \/ lease_expires(t)
    BY <2>2 DEF cancel_turn, lease_expires
  <2>3. CASE reconcile_unclaimed_turns(t)
    BY <1>0, <2>3 DEF reconcile_unclaimed_turns, _fail_turn, SetStatus
  <2>4. CASE reconcile_expired_leases(t)
    BY <1>0, <2>4 DEF reconcile_expired_leases, SetStatus
  <2>5. CASE project_read(t) \/ project_lost(t)
    BY <2>5 DEF project_read, project_lost, storeVars
  <2>6. CASE project_write(t)
    BY <2>6 DEF project_write, ProjectsWait
  <2>7. CASE \E type \in CommandTypes, ask \in Asks : enqueue_run_command(t, type, ask)
    BY <2>7 DEF enqueue_run_command
  <2>. QED BY <2>1, <2>2, <2>3, <2>4, <2>5, <2>6, <2>7 DEF ApiNext,
        project_notified, reconcile_lagging_projections, reconcile_stale_turns
<1>2. RowOnce(t)' /\ \A q \in Runners : runner'[t] = q => OwnerOnce(q, t)'
  BY <1>0, <1>1 DEF RowOnce, OwnerOnce, Held
<1>. QED BY <1>0, <1>2, OnceStep

LEMMA InitOnce == Init => Once
<1>. SUFFICES ASSUME Init, NEW t \in Turns
              PROVE  RowOnce(t) /\ \A r \in Runners : runner[t] # r
  BY DEF Once
<1>. USE DEF Init, StoreInit, RuntimeInit
<1>1. RowOnce(t)
  BY StoreAssumption DEF RowOnce, Asks, NoInterrupt
<1>. QED BY <1>1, StoreAssumption

LEMMA StutterOnce == Once /\ UNCHANGED vars => Once'
BY DEF vars, storeVars, apiVars, runtimeVars, Once, RowOnce, OwnerOnce, Held, Waits

LEMMA NextOnce ==
    ASSUME IInv, Resumable, Once, Next, \A t \in Turns : ~ProjectsWait(t), crashes' = crashes
    PROVE  Once'
<1>1. ASSUME NEW t \in Turns, ApiNext(t), UNCHANGED runtimeVars PROVE Once'
  BY <1>1, OnceApi
<1>2. ASSUME NEW r \in Runners, RuntimeNext(r) PROVE Once'
  <2>1. ~crash(r)
    BY DEF crash, IInv, TypeOK, RuntimeTypeOK
  <2>2. CASE boot(r) \/ start_listeners(r) \/ renew_run_leases(r) \/ scan_stalled_runs(r)
    BY <2>2 DEF boot, start_listeners, renew_run_leases, scan_stalled_runs, storeVars,
                runtimeVars, Once, RowOnce, OwnerOnce, Held, Waits
  <2>. QED BY <1>2, <2>1, <2>2, OnceWorker, OnceHandler, OnceWatch DEF RuntimeNext, BootStep
<1>. QED BY <1>1, <1>2 DEF Next

\* While no replica crashes and no projection makes a turn wait, an approved call runs at
\* most once, however often it is approved, refused, asked for again or dropped.
THEOREM ExecutedOnceUncrashed ==
    Spec /\ [][\A t \in Turns : ~ProjectsWait(t)]_vars /\ [][crashes' = crashes]_vars
        => []ExecutedOnce
<1>1. IInv /\ Resumable /\ Once /\ [Next]_vars /\ [\A t \in Turns : ~ProjectsWait(t)]_vars
        /\ [crashes' = crashes]_vars => Once'
  BY NextOnce, StutterOnce
<1>2. Once => ExecutedOnce
  BY DEF Once, RowOnce, ExecutedOnce
<1>. QED BY <1>1, <1>2, InitOnce, HistoryInvariant, ResumableUnprojected, PTL DEF Spec
=============================================================================
