----------------------------- MODULE TurnRuntime -----------------------------
(***************************************************************************)
(* The runtime replicas.  Each claims accepted runs, drives a turn through *)
(* the AgentEngine, parks it for approvals and child joins, resumes it on  *)
(* a command, renews its leases, and runs a watchdog over every replica's  *)
(* runs.  What a replica holds in memory (tasks, command handlers, pending *)
(* approvals, the row its watchdog looked at) dies with its process.       *)
(***************************************************************************)
EXTENDS TurnStore, FiniteSets

CONSTANTS MaxInflight,  \* RUNTIME_MAX_INFLIGHT_TURNS; 0 is no limit
          MaxEvents,    \* bound: sequence after which the engine only ends
          MaxCrashes    \* bound: process crashes of all replicas together

ASSUME RuntimeAssumption == MaxInflight \in Nat /\ MaxEvents \in Nat /\ MaxCrashes \in Nat

VARIABLES process,      \* "down", "boot" (lifespan before its listeners) or "up"
          orphans,      \* rows reconcile_runner_orphans fetched and has not failed yet
          task,         \* where the replica's worker of a turn stands
          handler,      \* the approve/deny command in _inflight_commands
          pending,      \* pending_store: the interrupt kept in memory
          watch,        \* the row the stall watchdog is handling
          executed,     \* ghost: how often an approved tool call was run (0, 1, 2 = more)
          crashes       \* crashes so far

runtimeVars == <<process, orphans, task, handler, pending, watch, executed, crashes>>

Phases == {"none", "claiming", "owned", "claimed", "engine", "asking", "parking",
           "spawning", "spawned", "joining", "joined", "rejoined", "closing", "resuming", "granted", "denied", "ran",
           "reasking", "reparking"}

HandlerPhases == {"none", "waiting", "failing", "running", "cleaning", "dropping"}

Idle == [phase |-> "none", ask |-> 0, approved |-> FALSE]

HandlerType == [phase : HandlerPhases, ask : 0 .. MaxAsks, approved : BOOLEAN]

\* A row of the pass, and how far maybe_finalize_orphan_cancel or
\* _fail_stuck_approval got with it.
Verdicts == {"none", "cancel", "cancel_waiting", "approval", "stall",
             "orphan", "stuck", "swept"}

\* _active_turns of a replica: a run enters it in start_turn.
Active(r, t) == task[r][t] \notin {"none", "claiming", "owned"}

\* The worker's step from phase a to phase b.
Goto(r, t, a, b) ==
    /\ process[r] = "up"
    /\ task[r][t] = a
    /\ task' = [task EXCEPT ![r][t] = b]

\* The worker leaves; a resume hands over to its handler's finally block.
Leave(r, t, a) ==
    /\ Goto(r, t, a, "none")
    /\ handler' = [handler EXCEPT ![r][t].phase = IF @ = "running" THEN "cleaning" ELSE @]

\* The engine may still write (bound on the log).
Room(t) == log[t].last < MaxEvents

-----------------------------------------------------------------------------
(* Claim and start.                                                        *)

_has_capacity(r) ==
    MaxInflight = 0 \/ Cardinality({t \in Turns : Active(r, t)}) < MaxInflight

\* try_claim_and_start looks for capacity and an accepted row ...
_load_accepted(r, t) ==
    /\ runs[t] = "accepted"
    /\ _has_capacity(r)
    /\ Goto(r, t, "none", "claiming")
    /\ UNCHANGED <<storeVars, process, orphans, handler, pending, watch, executed, crashes>>

\* Mutant: the UPDATE does not ask for status = 'accepted'.
claim_unconditional(r, t) ==
    /\ Goto(r, t, "claiming", "owned")
    /\ runs' = [runs EXCEPT ![t] = "running"]
    /\ runner' = [runner EXCEPT ![t] = r]
    /\ lease' = [lease EXCEPT ![t] = "live"]
    /\ UNCHANGED <<turns, cancel, log, view, checkpoint, command, asks, process,
                   orphans, handler, pending, watch, executed, crashes>>

\* ... and claims it with one UPDATE ... WHERE status = 'accepted'.
ensure_run_owned_by_runner(r, t) ==
    /\ runs[t] = "accepted"
    /\ Goto(r, t, "claiming", "owned")
    /\ runs' = [runs EXCEPT ![t] = "running"]
    /\ runner' = [runner EXCEPT ![t] = r]
    /\ lease' = [lease EXCEPT ![t] = "live"]
    /\ UNCHANGED <<turns, cancel, log, view, checkpoint, command, asks, process,
                   orphans, handler, pending, watch, executed, crashes>>

\* The UPDATE found no row: another replica, or the claim timeout, was first.
claim_refused(r, t) ==
    /\ runs[t] # "accepted"
    /\ Goto(r, t, "claiming", "none")
    /\ UNCHANGED <<storeVars, process, orphans, handler, pending, watch, executed, crashes>>

\* The claim's task ends with an exception before start_turn guards it
\* (load_session_work, the model secret): nothing is written.
claim_dropped(r, t) ==
    /\ Goto(r, t, "owned", "none")
    /\ UNCHANGED <<storeVars, process, orphans, handler, pending, watch, executed, crashes>>

start_turn(r, t) ==
    /\ Goto(r, t, "owned", "claimed")
    /\ UNCHANGED <<storeVars, process, orphans, handler, pending, watch, executed, crashes>>

\* _run_turn: turns and runs to running, turn.accepted.  runs only if it is
\* still this runner's.
turn_accepted(r, t) ==
    /\ Goto(r, t, "claimed", "engine")
    /\ turns' = [turns EXCEPT ![t] = "running"]
    /\ runs' = [runs EXCEPT ![t] = IF runner[t] = r THEN "running" ELSE @]
    /\ AppendTo(t, "turn.accepted")
    /\ UNCHANGED <<runner, lease, cancel, view, checkpoint, command, asks, process,
                   orphans, handler, pending, watch, executed, crashes>>

\* Invalid intent, model error, step timeout, invalid event, any exception the
\* worker catches: _fail_turn, and the worker leaves.
worker_fails(r, t) ==
    /\ task[r][t] \in {"claimed", "engine", "joining"}
    /\ Leave(r, t, task[r][t])
    /\ _fail_turn(t)
    /\ UNCHANGED <<process, orphans, pending, watch, executed, crashes>>

-----------------------------------------------------------------------------
(* The engine.                                                             *)

\* A step, tool or delta event.  Busy writers may also renew the lease.
write_event(r, t) ==
    /\ Goto(r, t, "engine", "engine")
    /\ Room(t)
    /\ AppendTo(t, "other")
    /\ \/ lease' = lease
       \/ /\ runner[t] = r
          /\ runs[t] \in InHand
          /\ lease' = [lease EXCEPT ![t] = "live"]
    /\ UNCHANGED <<turns, runs, runner, cancel, view, checkpoint, command, asks,
                   process, orphans, handler, pending, watch, executed, crashes>>

\* A tool call needs approval: approval.requested.
approval_requested(r, t) ==
    /\ Goto(r, t, "engine", "asking")
    /\ Room(t)
    /\ asks[t] < MaxAsks
    /\ asks' = [asks EXCEPT ![t] = @ + 1]
    /\ AppendTo(t, "approval.requested")
    /\ UNCHANGED <<turns, runs, runner, lease, cancel, view, checkpoint, command,
                   process, orphans, handler, pending, watch, executed, crashes>>

\* Mutant: the interrupt is kept in memory only.
save_pending_in_memory(r, t, a, b) ==
    /\ Goto(r, t, a, b)
    /\ pending' = [pending EXCEPT ![r][t] = asks[t]]
    /\ UNCHANGED <<checkpoint, turns, runs, runner, lease, cancel, log, view, command,
                   asks, process, orphans, handler, watch, executed, crashes>>

\* save_checkpoint with the interrupt, and pending_store.save.
save_pending(r, t, a, b) ==
    /\ Goto(r, t, a, b)
    /\ checkpoint' = [checkpoint EXCEPT ![t] = asks[t]]
    /\ pending' = [pending EXCEPT ![r][t] = asks[t]]
    /\ UNCHANGED <<turns, runs, runner, lease, cancel, log, view, command, asks,
                   process, orphans, handler, watch, executed, crashes>>

park(r, t) == save_pending(r, t, "asking", "parking")

\* _finalize_turn for a parked turn.
finalize_waiting_approval(r, t) ==
    /\ Leave(r, t, "parking")
    /\ SetStatus(t, "waiting_approval", "interrupted")
    /\ UNCHANGED <<runner, lease, cancel, log, view, checkpoint, command, asks,
                   process, orphans, pending, watch, executed, crashes>>

\* Spawned children come before anything else, an approval that was asked for
\* beside them too: a child checkpoint, then _mark_turn, whose two UPDATEs are
\* no transaction.
settle_waiting_children(r, t) ==
    /\ task[r][t] \in {"engine", "asking", "ran"}
    /\ Room(t)
    /\ Goto(r, t, task[r][t], "spawning")
    /\ checkpoint' = [checkpoint EXCEPT ![t] = ChildInterrupt]
    /\ UNCHANGED <<turns, runs, runner, lease, cancel, log, view, command, asks, process,
                   orphans, handler, pending, watch, executed, crashes>>

mark_turns(r, t, a, b, status) ==
    /\ Goto(r, t, a, b)
    /\ turns' = [turns EXCEPT ![t] = status]
    /\ UNCHANGED <<runs, runner, lease, cancel, log, view, checkpoint, command, asks,
                   process, orphans, handler, pending, watch, executed, crashes>>

mark_runs(r, t, a, b) ==
    /\ Goto(r, t, a, b)
    /\ runs' = [runs EXCEPT ![t] = "running"]
    /\ UNCHANGED <<turns, runner, lease, cancel, log, view, checkpoint, command, asks,
                   process, orphans, handler, pending, watch, executed, crashes>>

turn_waiting_child(r, t) == mark_turns(r, t, "spawning", "spawned", "waiting_child")

run_waiting_child(r, t) == mark_runs(r, t, "spawned", "joining")

\* join_children returned: tool.completed of the delegates, then _mark_turn.
join_children(r, t) ==
    /\ Goto(r, t, "joining", "joined")
    /\ AppendTo(t, "other")
    /\ UNCHANGED <<turns, runs, runner, lease, cancel, view, checkpoint, command, asks,
                   process, orphans, handler, pending, watch, executed, crashes>>

turn_joined(r, t) == mark_turns(r, t, "joined", "rejoined", "running")

run_joined(r, t) == mark_runs(r, t, "rejoined", "engine")

\* _finalize_turn: completed, or cancelled when the engine saw the flag.
finalize_completed(r, t) ==
    /\ Goto(r, t, "engine", "closing")
    /\ AppendTo(t, "turn.completed")
    /\ SetStatus(t, "completed", "succeeded")
    /\ UNCHANGED <<runner, lease, cancel, view, checkpoint, command, asks, process,
                   orphans, handler, pending, watch, executed, crashes>>

finalize_cancelled(r, t) ==
    /\ Goto(r, t, "engine", "closing")
    /\ cancel[t]
    /\ _cancel_turn(t)
    /\ UNCHANGED <<checkpoint, process, orphans, handler, pending, watch, executed, crashes>>

\* delete_checkpoint, after the terminal transaction.
finalize_cleanup(r, t) ==
    /\ Leave(r, t, "closing")
    /\ checkpoint' = [checkpoint EXCEPT ![t] = NoInterrupt]
    /\ UNCHANGED <<turns, runs, runner, lease, cancel, log, view, command, asks,
                   process, orphans, pending, watch, executed, crashes>>

-----------------------------------------------------------------------------
(* Approve and deny.                                                       *)

\* A pending command of one of this runner's runs is marked consumed and
\* dispatched; it is dropped when another command of the turn is in flight.
consume_pending_for_run(r, t, type) ==
    /\ process[r] = "up"
    /\ runner[t] = r
    /\ command[t][type] # NoInterrupt
    /\ command' = [command EXCEPT ![t][type] = NoInterrupt]
    /\ handler' = IF handler[r][t].phase = "none"
                  THEN [handler EXCEPT ![r][t] =
                          [phase |-> "waiting", ask |-> command[t][type],
                           approved |-> type = "approve"]]
                  ELSE handler
    /\ UNCHANGED <<turns, runs, runner, lease, cancel, log, view, checkpoint, asks,
                   process, orphans, task, pending, watch, executed, crashes>>

\* Memory first, the checkpoint otherwise.
_resolve_pending(r, t) ==
    IF pending[r][t] # NoInterrupt THEN pending[r][t] ELSE checkpoint[t]

\* _fail_stuck_approval reads turns.status and only then calls _fail_turn.
CheckStuck(r, t) ==
    /\ handler' = [handler EXCEPT ![r][t] =
                     IF turns[t] = "waiting_approval" THEN [@ EXCEPT !.phase = "failing"]
                                                      ELSE Idle]
    /\ UNCHANGED <<storeVars, process, orphans, task, pending, watch, executed, crashes>>

\* The worker is still active when _wait_turn_inactive gives up.
wait_timeout(r, t) ==
    /\ process[r] = "up"
    /\ handler[r][t].phase = "waiting"
    /\ Active(r, t)
    /\ CheckStuck(r, t)

\* Neither memory nor checkpoint knows the approval.
state_lost(r, t) ==
    /\ process[r] = "up"
    /\ handler[r][t].phase = "waiting"
    /\ ~Active(r, t)
    /\ _resolve_pending(r, t) = NoInterrupt
    /\ CheckStuck(r, t)

fail_stuck_approval(r, t) ==
    /\ process[r] = "up"
    /\ handler[r][t].phase = "failing"
    /\ handler' = [handler EXCEPT ![r][t] = Idle]
    /\ _fail_turn(t)
    /\ UNCHANGED <<process, orphans, task, pending, watch, executed, crashes>>

\* The pending state is found: resume if it is the same tool call, else leave.
resume(r, t) ==
    /\ handler[r][t].phase = "waiting"
    /\ _resolve_pending(r, t) # NoInterrupt
    /\ IF _resolve_pending(r, t) = handler[r][t].ask
       THEN /\ Goto(r, t, "none", "resuming")
            /\ handler' = [handler EXCEPT ![r][t].phase = "running"]
       ELSE /\ Goto(r, t, "none", "none")
            /\ handler' = [handler EXCEPT ![r][t].phase = "cleaning"]
    /\ UNCHANGED <<storeVars, process, orphans, pending, watch, executed, crashes>>

\* _resume_after_approval's first transaction.  It asks nothing about the
\* current status.  An approval past its expiry is a denial.
approval_resolved(r, t) ==
    /\ \/ handler[r][t].approved /\ Goto(r, t, "resuming", "granted")
       \/ Goto(r, t, "resuming", "denied")
    /\ SetStatus(t, "running", "running")
    /\ AppendTo(t, "approval.resolved")
    /\ UNCHANGED <<runner, lease, cancel, view, checkpoint, command, asks, process,
                   orphans, handler, pending, watch, executed, crashes>>

\* The approved tool call runs: its effect on the workspace happens here.
execute_tool(r, t) ==
    /\ Goto(r, t, "granted", "ran")
    /\ executed' = [executed EXCEPT ![t][handler[r][t].ask] = IF @ = 2 THEN 2 ELSE @ + 1]
    /\ UNCHANGED <<storeVars, process, orphans, handler, pending, watch, crashes>>

\* The executor refuses the grant (another policy version, other arguments)
\* and asks again for the same call.
ask_again(r, t) ==
    /\ Goto(r, t, "granted", "reasking")
    /\ Room(t)
    /\ handler[r][t].ask = asks[t]
    /\ AppendTo(t, "approval.requested")
    /\ UNCHANGED <<turns, runs, runner, lease, cancel, view, checkpoint, command, asks,
                   process, orphans, handler, pending, watch, executed, crashes>>

repark(r, t) == save_pending(r, t, "reasking", "reparking")

\* Only turns is set back to waiting_approval.
wait_again(r, t) ==
    /\ Leave(r, t, "reparking")
    /\ turns' = [turns EXCEPT ![t] = "waiting_approval"]
    /\ UNCHANGED <<runs, runner, lease, cancel, log, view, checkpoint, command, asks,
                   process, orphans, pending, watch, executed, crashes>>

\* tool.completed of the call that ran or was denied; the engine goes on.
tool_completed(r, t) ==
    /\ task[r][t] \in {"ran", "denied"}
    /\ Goto(r, t, task[r][t], "engine")
    /\ AppendTo(t, "other")
    /\ UNCHANGED <<turns, runs, runner, lease, cancel, view, checkpoint, command, asks,
                   process, orphans, handler, pending, watch, executed, crashes>>

\* An exception between the resume transaction and the engine reaches only the
\* handler's finally block: no turn.failed.
resume_dropped(r, t) ==
    /\ task[r][t] \in {"granted", "ran", "denied"}
    /\ Leave(r, t, task[r][t])
    /\ UNCHANGED <<storeVars, process, orphans, pending, watch, executed, crashes>>

\* The handler's finally block reads the status: a turn that waits for approval
\* (again) keeps memory and checkpoint ...
_cleanup_pending_after_command(r, t) ==
    /\ process[r] = "up"
    /\ handler[r][t].phase = "cleaning"
    /\ handler' = [handler EXCEPT ![r][t] =
                     IF turns[t] = "waiting_approval" THEN Idle
                                                      ELSE [@ EXCEPT !.phase = "dropping"]]
    /\ UNCHANGED <<storeVars, process, orphans, task, pending, watch, executed, crashes>>

\* Mutant: only the memory is dropped, the checkpoint stays.
cleanup_memory_only(r, t) ==
    /\ process[r] = "up"
    /\ handler[r][t].phase = "dropping"
    /\ handler' = [handler EXCEPT ![r][t] = Idle]
    /\ pending' = [pending EXCEPT ![r][t] = NoInterrupt]
    /\ UNCHANGED <<turns, runs, runner, lease, cancel, log, view, checkpoint, command, asks,
                   process, orphans, task, watch, executed, crashes>>

\* ... and any other loses both, whatever its status has become since.
drop_pending(r, t) ==
    /\ process[r] = "up"
    /\ handler[r][t].phase = "dropping"
    /\ handler' = [handler EXCEPT ![r][t] = Idle]
    /\ pending' = [pending EXCEPT ![r][t] = NoInterrupt]
    /\ checkpoint' = [checkpoint EXCEPT ![t] = NoInterrupt]
    /\ UNCHANGED <<turns, runs, runner, lease, cancel, log, view, command, asks,
                   process, orphans, task, watch, executed, crashes>>

\* pending_store drops an entry past its TTL.
_purge_expired(r, t) ==
    /\ pending[r][t] # NoInterrupt
    /\ pending' = [pending EXCEPT ![r][t] = NoInterrupt]
    /\ UNCHANGED <<storeVars, process, orphans, task, handler, watch, executed, crashes>>

-----------------------------------------------------------------------------
(* Heartbeat and watchdog.  The watchdog of every replica looks at the     *)
(* runs of all of them: it reads a row, then handles it.                   *)

renew_run_leases(r) ==
    /\ process[r] = "up"
    /\ lease' = [t \in Turns |-> IF runner[t] = r /\ runs[t] \in InHand
                                 THEN "live" ELSE lease[t]]
    /\ UNCHANGED <<turns, runs, runner, cancel, log, view, checkpoint, command, asks,
                   runtimeVars>>

\* What one pass over the rows decides from the row it fetched.  Ages aside:
\* nothing for a child join, nor, without a cancel, for a turn with no events.
Verdict(t) ==
    CASE cancel[t] /\ turns[t] = "waiting_approval" -> "cancel_waiting"
      [] cancel[t] /\ turns[t] # "waiting_approval" -> "cancel"
      [] ~cancel[t] /\ (turns[t] = "waiting_child" \/ log[t].last = 0) -> "none"
      [] ~cancel[t] /\ turns[t] = "waiting_approval" /\ log[t].last > 0 -> "approval"
      [] OTHER -> "stall"

\* All rows are fetched at once; the pass then handles those old enough.
scan_stalled_runs(r) ==
    /\ process[r] = "up"
    /\ \A t \in Turns : watch[r][t] = "none"
    /\ \E S \in SUBSET {t \in Turns : runs[t] \in InHand /\ WithinLog(t)} :
        /\ \E t \in S : Verdict(t) # "none"
        /\ watch' = [watch EXCEPT ![r] =
                        [t \in Turns |-> IF t \in S THEN Verdict(t) ELSE "none"]]
    /\ UNCHANGED <<storeVars, process, orphans, task, handler, pending, executed, crashes>>

\* The stall, and an approval found still waiting: _fail_turn, whatever
\* happened since the row was read.
watchdog_fails(r, t) ==
    /\ process[r] = "up"
    /\ watch[r][t] \in {"stuck", "stall"}
    /\ watch' = [watch EXCEPT ![r][t] = "none"]
    /\ _fail_turn(t)
    /\ UNCHANGED <<process, orphans, task, handler, pending, executed, crashes>>

\* Mutant: an approval nobody answers is never given up.
approval_without_timeout(r, t) ==
    /\ process[r] = "up"
    /\ watch[r][t] = "approval"
    /\ watch' = [watch EXCEPT ![r][t] = "none"]
    /\ UNCHANGED <<storeVars, process, orphans, task, handler, pending, executed, crashes>>

\* _fail_stuck_approval, for the watchdog: the read before _fail_turn.
approval_timeout(r, t) ==
    /\ process[r] = "up"
    /\ watch[r][t] = "approval"
    /\ watch' = [watch EXCEPT ![r][t] =
                    IF turns[t] = "waiting_approval" THEN "stuck" ELSE "none"]
    /\ UNCHANGED <<storeVars, process, orphans, task, handler, pending, executed, crashes>>

\* maybe_finalize_orphan_cancel reads the run again.  A run that ended
\* meanwhile is passed on to the approval branch of the same pass.
find_orphan(r, t) ==
    /\ process[r] = "up"
    /\ watch[r][t] \in {"cancel", "cancel_waiting"}
    /\ watch' = [watch EXCEPT ![r][t] =
                    CASE runs[t] \in InHand -> "orphan"
                      [] runs[t] \notin InHand /\ @ = "cancel_waiting" -> "approval"
                      [] OTHER -> "none"]
    /\ UNCHANGED <<storeVars, process, orphans, task, handler, pending, executed, crashes>>

\* The cancel command that cancel_turn queues: its handler persists the flag
\* again and goes on like the watchdog.
request_cancel(r, t) ==
    /\ process[r] = "up"
    /\ runner[t] = r
    /\ cancel[t]
    /\ runs[t] \in InHand
    /\ WithinLog(t)
    /\ watch[r][t] = "none"
    /\ watch' = [watch EXCEPT ![r][t] = "orphan"]
    /\ UNCHANGED <<storeVars, process, orphans, task, handler, pending, executed, crashes>>

\* The transaction.  No worker is asked whether it still lives.
maybe_finalize_orphan_cancel(r, t) ==
    /\ process[r] = "up"
    /\ watch[r][t] = "orphan"
    /\ watch' = [watch EXCEPT ![r][t] = "swept"]
    /\ _cancel_turn(t)
    /\ UNCHANGED <<checkpoint, process, orphans, task, handler, pending, executed, crashes>>

\* delete_checkpoint, after the orphan's terminal transaction.
orphan_cancel_cleanup(r, t) ==
    /\ process[r] = "up"
    /\ watch[r][t] = "swept"
    /\ watch' = [watch EXCEPT ![r][t] = "none"]
    /\ checkpoint' = [checkpoint EXCEPT ![t] = NoInterrupt]
    /\ UNCHANGED <<turns, runs, runner, lease, cancel, log, view, command, asks,
                   process, orphans, task, handler, pending, executed, crashes>>

-----------------------------------------------------------------------------
(* Crash and restart.                                                      *)

crash(r) ==
    /\ process[r] # "down"
    /\ crashes < MaxCrashes
    /\ crashes' = crashes + 1
    /\ process' = [process EXCEPT ![r] = "down"]
    /\ orphans' = [orphans EXCEPT ![r] = {}]
    /\ task' = [task EXCEPT ![r] = [t \in Turns |-> "none"]]
    /\ handler' = [handler EXCEPT ![r] = [t \in Turns |-> Idle]]
    /\ pending' = [pending EXCEPT ![r] = [t \in Turns |-> NoInterrupt]]
    /\ watch' = [watch EXCEPT ![r] = [t \in Turns |-> "none"]]
    /\ UNCHANGED <<storeVars, executed>>

\* Mutant: the select does not ask whose run it is.
boot_any_runner(r) ==
    /\ process[r] = "down"
    /\ process' = [process EXCEPT ![r] = "boot"]
    /\ orphans' = [orphans EXCEPT ![r] =
                     {t \in Turns : /\ runs[t] = "running"
                                    /\ turns[t] \in {"pending", "running", "waiting_child"}}]
    /\ UNCHANGED <<storeVars, task, handler, pending, watch, executed, crashes>>

\* Mutant: the select leaves out turns that wait for children.
boot_without_children(r) ==
    /\ process[r] = "down"
    /\ process' = [process EXCEPT ![r] = "boot"]
    /\ orphans' = [orphans EXCEPT ![r] =
                     {t \in Turns : /\ runner[t] = r
                                    /\ runs[t] = "running"
                                    /\ turns[t] \in {"pending", "running"}}]
    /\ UNCHANGED <<storeVars, task, handler, pending, watch, executed, crashes>>

\* lifespan: reconcile_runner_orphans selects this runner's running rows ...
boot(r) ==
    /\ process[r] = "down"
    /\ process' = [process EXCEPT ![r] = "boot"]
    /\ orphans' = [orphans EXCEPT ![r] =
                     {t \in Turns : /\ runner[t] = r
                                    /\ runs[t] = "running"
                                    /\ turns[t] \in {"pending", "running", "waiting_child"}}]
    /\ UNCHANGED <<storeVars, task, handler, pending, watch, executed, crashes>>

\* ... and fails them one by one; the listeners start afterwards.
reconcile_runner_orphans(r, t) ==
    /\ process[r] = "boot"
    /\ t \in orphans[r]
    /\ orphans' = [orphans EXCEPT ![r] = @ \ {t}]
    /\ _fail_turn(t)
    /\ UNCHANGED <<process, task, handler, pending, watch, executed, crashes>>

start_listeners(r) ==
    /\ process[r] = "boot"
    /\ orphans[r] = {}
    /\ process' = [process EXCEPT ![r] = "up"]
    /\ UNCHANGED <<storeVars, orphans, task, handler, pending, watch, executed, crashes>>

-----------------------------------------------------------------------------

RuntimeInit ==
    /\ process = [r \in Runners |-> "up"]
    /\ orphans = [r \in Runners |-> {}]
    /\ task = [r \in Runners |-> [t \in Turns |-> "none"]]
    /\ handler = [r \in Runners |-> [t \in Turns |-> Idle]]
    /\ pending = [r \in Runners |-> [t \in Turns |-> NoInterrupt]]
    /\ watch = [r \in Runners |-> [t \in Turns |-> "none"]]
    /\ executed = [t \in Turns |-> [a \in Asks |-> 0]]
    /\ crashes = 0

RuntimeTypeOK ==
    /\ process \in [Runners -> {"down", "boot", "up"}]
    /\ orphans \in [Runners -> SUBSET Turns]
    /\ task \in [Runners -> [Turns -> Phases]]
    /\ handler \in [Runners -> [Turns -> HandlerType]]
    /\ pending \in [Runners -> [Turns -> 0 .. MaxAsks]]
    /\ watch \in [Runners -> [Turns -> Verdicts]]
    /\ executed \in [Turns -> [Asks -> 0 .. 2]]
    /\ crashes \in 0 .. MaxCrashes

\* The worker of a turn.
WorkerStep(r, t) ==
    \/ ensure_run_owned_by_runner(r, t)
    \/ claim_refused(r, t)
    \/ start_turn(r, t)
    \/ turn_accepted(r, t)
    \/ write_event(r, t)
    \/ approval_requested(r, t)
    \/ park(r, t)
    \/ finalize_waiting_approval(r, t)
    \/ settle_waiting_children(r, t)
    \/ turn_waiting_child(r, t)
    \/ run_waiting_child(r, t)
    \/ join_children(r, t)
    \/ turn_joined(r, t)
    \/ run_joined(r, t)
    \/ finalize_completed(r, t)
    \/ finalize_cancelled(r, t)
    \/ finalize_cleanup(r, t)
    \/ approval_resolved(r, t)
    \/ execute_tool(r, t)
    \/ ask_again(r, t)
    \/ repark(r, t)
    \/ wait_again(r, t)
    \/ tool_completed(r, t)
    \/ worker_fails(r, t)

\* The command handler of a turn.
HandlerStep(r, t) ==
    \/ state_lost(r, t)
    \/ fail_stuck_approval(r, t)
    \/ resume(r, t)
    \/ _cleanup_pending_after_command(r, t)
    \/ drop_pending(r, t)

\* The watchdog.
WatchStep(r, t) ==
    \/ find_orphan(r, t)
    \/ approval_timeout(r, t)
    \/ watchdog_fails(r, t)
    \/ maybe_finalize_orphan_cancel(r, t)
    \/ orphan_cancel_cleanup(r, t)

\* Process start.
BootStep(r) ==
    \/ boot(r)
    \/ \E t \in Turns : reconcile_runner_orphans(r, t)
    \/ start_listeners(r)

RuntimeNext(r) ==
    \/ BootStep(r)
    \/ crash(r)
    \/ renew_run_leases(r)
    \/ scan_stalled_runs(r)
    \/ \E t \in Turns :
        \/ _load_accepted(r, t)
        \/ claim_dropped(r, t)
        \/ WorkerStep(r, t)
        \/ HandlerStep(r, t)
        \/ WatchStep(r, t)
        \/ \E type \in CommandTypes : consume_pending_for_run(r, t, type)
        \/ request_cancel(r, t)
        \/ wait_timeout(r, t)
        \/ resume_dropped(r, t)
        \/ _purge_expired(r, t)
=============================================================================
