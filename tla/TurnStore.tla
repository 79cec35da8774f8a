------------------------------ MODULE TurnStore ------------------------------
(***************************************************************************)
(* The Postgres rows through which the api and the runtime processes meet: *)
(* turns, runs, turn_events, turn_views, checkpoints and run_commands.     *)
(* Every api replica and every runtime replica reads and writes them; a    *)
(* database transaction is one step, two statements outside a transaction  *)
(* are two.                                                                *)
(*                                                                         *)
(* A turn and its run are created together and are 1:1, so both are        *)
(* indexed by the turn.  turn_events is kept as what its readers use of    *)
(* it: how far it reaches (counted in commits, the only states a reader    *)
(* can see), the status that folding it gives, and whether it holds a      *)
(* terminal event.  The numbering of single events is EventSequence's.     *)
(***************************************************************************)
EXTENDS Integers

CONSTANTS Turns,        \* the turns the api may accept
          Runners,      \* runtime replicas, named by runtime_runner_id
          NoRunner,     \* runs.runner_id IS NULL
          CommandTypes, \* the answers users give to an approval request
          MaxAsks,      \* bound: approval requests of one turn
          MaxLog        \* bound: length of a log on which bystanders still act

ASSUME StoreAssumption ==
    /\ NoRunner \notin Runners
    /\ CommandTypes \subseteq {"approve", "deny"}
    /\ MaxAsks \in Nat
    /\ MaxLog \in Nat

VARIABLES turns,        \* turns.status; "absent" before the row exists
          runs,         \* runs.status
          runner,       \* runs.runner_id
          lease,        \* runs.lease_expires_at against now()
          cancel,       \* runs.cancel_requested_at IS NOT NULL
          log,          \* turn_events of the turn
          view,         \* turn_views: status and last_event_sequence
          checkpoint,   \* checkpoints.interrupt_payload
          command,      \* pending run_commands rows, by type
          asks          \* tool calls the model has asked approval for so far

storeVars == <<turns, runs, runner, lease, cancel, log, view, checkpoint,
               command, asks>>

-----------------------------------------------------------------------------
(* Statuses and events.                                                    *)

RUNNING_STATUSES == {"pending", "running", "waiting_approval", "waiting_child"}

TERMINAL_STATUSES == {"completed", "failed", "cancelled"}

TurnStatuses == RUNNING_STATUSES \cup TERMINAL_STATUSES

RunStatuses == {"accepted", "running", "interrupted",
                "succeeded", "failed", "cancelled"}

\* A run some runner has, or had, in hand: the rows that the lease, the
\* watchdog and orphan cancel look at.
InHand == {"running", "interrupted"}

TERMINAL_STATUS_MAP == [e \in {"turn.completed", "turn.failed", "turn.cancelled"} |->
    CASE e = "turn.completed" -> "completed"
      [] e = "turn.failed"    -> "failed"
      [] e = "turn.cancelled" -> "cancelled"]

\* turns.status to runs.status, as the projector writes it.
map_turn_to_run_status(status) ==
    CASE status = "completed"        -> "succeeded"
      [] status = "waiting_approval" -> "interrupted"
      [] status = "waiting_child"    -> "running"
      [] status = "pending"          -> "accepted"
      [] OTHER                       -> status

\* Mutant: a terminal event's type is taken for a status.
ApplyEvent_unmapped(status, e) ==
    IF e \in DOMAIN TERMINAL_STATUS_MAP THEN e ELSE status

\* One step of the projector's fold over turn_events.  "other" stands for
\* every event that leaves the status alone (steps, tools, deltas,
\* turn.cancelling).  The code's fold starts from turns.status; the first event
\* of a log (turn.accepted or a terminal one) overrides it, so EmptyLog does.
ApplyEvent(status, e) ==
    CASE e = "turn.accepted"      -> "running"
      [] e = "approval.requested" -> "waiting_approval"
      [] e = "approval.resolved"  ->
            IF status \in RUNNING_STATUSES THEN "running" ELSE status
      [] e \in DOMAIN TERMINAL_STATUS_MAP -> TERMINAL_STATUS_MAP[e]
      [] OTHER                    -> status

Asks == 1 .. MaxAsks

\* Interrupt payloads of a checkpoint: none, the join of spawned children,
\* or the tool call that waits for approval.
NoInterrupt == 0
ChildInterrupt == -1
Interrupts == {NoInterrupt, ChildInterrupt} \cup Asks

-----------------------------------------------------------------------------
(* Row writes shared by the processes.                                     *)

EmptyLog == [last |-> 0, status |-> "pending", ended |-> FALSE]

\* next_sequence and the INSERT, under the turn's advisory lock, to commit.
append_event(l, e) ==
    [last   |-> l.last + 1,
     status |-> ApplyEvent(l.status, e),
     ended  |-> l.ended \/ e \in DOMAIN TERMINAL_STATUS_MAP]

AppendTo(t, e) == log' = [log EXCEPT ![t] = append_event(@, e)]

\* Reclaim, watchdog and users leave a turn alone once its log is this long.
WithinLog(t) == log[t].last < MaxLog

SetStatus(t, turnStatus, runStatus) ==
    /\ turns' = [turns EXCEPT ![t] = turnStatus]
    /\ runs' = [runs EXCEPT ![t] = runStatus]

\* The transaction of _fail_turn.  It asks nothing about the current status.
\* Other store columns are left alone.
_fail_turn(t) ==
    /\ AppendTo(t, "turn.failed")
    /\ SetStatus(t, "failed", "failed")
    /\ UNCHANGED <<runner, lease, cancel, view, checkpoint, command, asks>>

\* The transaction of a cancelled turn: turn.cancelling and turn.cancelled
\* commit together.
_cancel_turn(t) ==
    /\ AppendTo(t, "turn.cancelled")
    /\ SetStatus(t, "cancelled", "cancelled")
    /\ UNCHANGED <<runner, lease, cancel, view, command, asks>>

StoreInit ==
    /\ turns = [t \in Turns |-> "absent"]
    /\ runs = [t \in Turns |-> "absent"]
    /\ runner = [t \in Turns |-> NoRunner]
    /\ lease = [t \in Turns |-> "null"]
    /\ cancel = [t \in Turns |-> FALSE]
    /\ log = [t \in Turns |-> EmptyLog]
    /\ view = [t \in Turns |-> [seq |-> 0, status |-> "pending"]]
    /\ checkpoint = [t \in Turns |-> NoInterrupt]
    /\ command = [t \in Turns |-> [c \in CommandTypes |-> NoInterrupt]]
    /\ asks = [t \in Turns |-> 0]

LogType == [last : Nat, status : TurnStatuses, ended : BOOLEAN]

ViewType == [seq : Nat, status : TurnStatuses]

StoreTypeOK ==
    /\ turns \in [Turns -> TurnStatuses \cup {"absent"}]
    /\ runs \in [Turns -> RunStatuses \cup {"absent"}]
    /\ runner \in [Turns -> Runners \cup {NoRunner}]
    /\ lease \in [Turns -> {"null", "live", "expired"}]
    /\ cancel \in [Turns -> BOOLEAN]
    /\ log \in [Turns -> LogType]
    /\ view \in [Turns -> ViewType]
    /\ checkpoint \in [Turns -> Interrupts]
    /\ command \in [Turns -> [CommandTypes -> Asks \cup {NoInterrupt}]]
    /\ asks \in [Turns -> 0 .. MaxAsks]
=============================================================================
