# TLA+ models of AgentPlatform

AgentPlatform runs agent *turns*: a user posts a message, the api stores a turn
and its run, one of several runtime replicas claims the run and drives the agent
engine, and everything the client ever sees is derived from an append-only log,
`turn_events`. The platform has no coordinator. Processes meet only in Postgres
rows, wake each other with notifications that may be lost, and each of them may
end a turn on its own judgement: the worker, a user's cancel, every replica's
watchdog, a replica that boots, the api's lease reclaim and claim timeout, and
the projector, which writes back into the rows what it folded out of the log.

Around the turn live the parts that keep state of their own: the engine's loop
with the transcript it sends to the model, the index of a workspace's symbols
that a second process builds, the shadow git that makes a turn undoable and the
collector that reclaims it, and the writing host, which does without a database.
This project models these parts, checks them with TLC and proves their central
safety properties with TLAPS.

## 1. The system

| component | state it keeps | operations | talks to |
|---|---|---|---|
| api commands (`routers/turns.py`, `services/resource/turns.py`, `services/command/run_commands.py`) | none of its own | create a turn, cancel, approve, deny | rows `turns`, `runs`, `run_commands`, NOTIFY |
| claim timeout, lease reclaim (`services/projection/claim_timeout.py`, `lease_reclaim.py`) | none | fail a run nobody claims; fail a run whose lease expired | rows |
| projector (`projector.py`, `session_projector.py`) | a fold in progress | read the log, write `turns`, `runs`, `turn_views`; two periodic reconcilers | log, rows |
| event streams (`services/realtime/events.py`, `listener.py`) | a cursor per client | page through the log | log, NOTIFY |
| dispatch and claim (`turn_dispatch.py`, `run_lock.py`, `runner_heartbeat.py`) | tasks of this replica | look for an accepted run, claim it, renew leases | `runs` |
| turn controller (`turn_controller.py`) | `_active_turns`, `_inflight_commands` | run, park, finalize, fail, approve, deny, resume, cancel, reconcile at boot | all rows, the engine |
| checkpoints, pending store, child joins (`checkpoint_store.py`, `pending_store.py`, `child_join.py`) | interrupts, in memory and in a row | save, resolve, purge, delete; join delegates | `checkpoints`, `turns`, `runs` |
| command listener (`run_commands_listener.py`) | none | consume a command of an own run, dispatch it | `run_commands`, controller |
| stall watchdog (`stall_watchdog.py`) | the rows of one pass | finalize cancels, time out approvals, fail silent turns | rows of **all** replicas |
| event numbering (`events.py`) | an advisory lock per turn | number and insert events | `turn_events` |
| buffered writer (`event_writer.py`) | buffer, flush lock, timer task, liveness task | buffer deltas, flush, heartbeat, close | `turn_events` |
| agent engine (`engine/agent_engine.py`, `state.py`, `child_spawn.py`, `tool_batch.py`, `context/engine.py`, `model/openai_messages.py`) | the messages, the step count, the batch of tool calls | step loop, model call, tool batch, nudges, children, approvals, compaction and repair of the request | provider, tools, controller |
| workspace AST index, runtime (`structural/workspace_index/dirty.py`, `queue.py`, `service.py`, `watch.py`, `locate.py`) | event queue, projection | note edits, flush to the job queue, scan, answer lookups, status, ask for a cold start | `work_ast_*` rows, the disk |
| ast-indexer (`worker.py`, `job.py`, `store.py`) | a job, its own projection | claim, parse, write rows, finish or fail | the same rows |
| writing host (`writing_host/storage.py`, `runner.py`, `works.py`, `files.py`) | ledger, manifests, objects, checkpoints of one directory | run, resume, undo, collect, import, edit | files only |
| storage reclamation (`policy/work_gc.py`, `shadow_git.py`, `revert_window.py`; api `works.py`, `sessions.py`, `work_gc_queue.py`, `outbox.py`) | tags and commits of the shadow git, tombstones, `work_gc` jobs | delete works and sessions, queue, claim, list, read, migrate, sweep, prune, remove; undo a turn | rows, an advisory lock, the disk |

`PROJECT.json` lists the parts that are not modelled, each with its reason; see
also section 7.

What is hard here:

* **interleaving** - any replica's watchdog, the reclaim and the projector write
  to the rows of a turn whose worker is alive;
* **stale reads** - the projector and the watchdog act on what an earlier
  statement returned; `_fail_stuck_approval` and `maybe_finalize_orphan_cancel`
  check, then act in another transaction;
* **crashes** - tasks, command handlers and pending approvals are in memory, and
  `_mark_turn` is two statements without a transaction;
* **lost wake-ups** - NOTIFY promises nothing; only periodic passes do;
* **commit order** - sequence numbers are handed out before the commit, and
  readers never look behind their cursor;
* **asyncio cancellation** - `close` cancels a timer task that may be writing;
* **a list everybody edits** - batches, children, approvals, steers and three
  kinds of compaction change the transcript, and a provider refuses a request in
  which a result does not follow its call;
* **two caches of one table** - runtime and indexer each act on a projection they
  loaded at some generation, while events are in memory and jobs are merged into
  rows that may just have been claimed;
* **listing, then deleting** - both collectors look first and delete later, one
  under a lock that writers do not take, the other in a process that may die
  between any two files.

What makes it correct: one worker per turn and an owner that never changes; no
claimed run that looks claimable again; an end in the rows only with an end in
the log; approvals that outlive their process; views that are monotone and
truthful; dense numbering with streams that skip nothing; deltas in order before
the events that follow them; and every started turn ends. Every tool result
reaches the provider behind its call, and cancellation is final; lookups catch up
with the disk; a snapshot that is listed is whole, an undo exact and repeatable;
what may be undone is not collected, and what is deleted is reclaimed.

## 2. Modules

    TurnStore            rows, statuses, the fold of the log, terminal transactions
      |-- TurnApi        api commands, reclaimers, projector
      |-- TurnRuntime    claim, worker, approvals, watchdog, crash, boot
            TurnSystem   TurnApi and TurnRuntime over one TurnStore; properties
              MCTurnSystem, TurnSystemProofs
    AppendLog            abstract: an append-only log and gap-free streams
    EventSequence        advisory lock, MAX + 1, commit, cursors; implements AppendLog
      MCEventSequence, EventSequenceProofs
    EventWriter          BufferedEventWriter and the tasks that share it
      EventWriterProofs
    Transcript           operators on the messages of a turn
      AgentEngine        the engine's loop and the controller around it
        TranscriptProofs   what the operators do to a transcript of any length
          AgentEngineProofs
    AstStore             the AST index: disk, rows, jobs, two projections
      |-- AstRuntime     dirty queue, tools, scans, status, cold start requests
      |-- AstIndexer     the ast-indexer
            AstIndex     both over one store; properties
              MCAstIndex, AstIndexProofs
    WritingHost          one work directory, one file written at a time
      MCWritingHost, WritingHostProofs
    WorkReclaim          rows, shadow git, collectors, undo of one work
      MCWorkReclaim, WorkReclaimProofs

A step of the model is what no other process can see the inside of: a database
transaction or single statement for the Turn modules, the code between two
awaits for `EventWriter` and `AgentEngine`, a statement of a transaction for
`EventSequence`, a transaction, a scan or an unlocked statement for the AST index,
one file for `WritingHost`, a git command or a transaction for `WorkReclaim`.
Actions carry the names of the functions they translate; `map` in `PROJECT.json`
gives the lines.

**TurnStore.** A turn and its run are 1:1, so all rows are indexed by the turn.
`log[t]` keeps what readers use of `turn_events`: how many commits it has
(`last`), the status that folding it gives (`status`, folded by `ApplyEvent`
exactly as the projector does) and whether a terminal event is in it (`ended`).
`checkpoint[t]` is the interrupt payload: none, a child join, or the number of
the tool call that waits. `command[t]` holds the pending approve and deny rows.

**TurnApi.** The two reclaimers update what an earlier SELECT gave them, and the UPDATE
asks again only for the run's status and lease: nothing is required of `turns`.
`project_read` and `project_write` are two steps, and several
projections of a turn (replicas, NOTIFY, a GET, the reconcilers) may be between
them at once; each remembers the snapshot it read. `project_write` writes `turns`
and `runs` unconditionally and `turn_views` only forward, like the SQL. Ages are
not measured: claim timeout, lease expiry and stall may happen whenever their
other conditions hold, which is every timing at once.

**TurnRuntime.** `task[r][t]` is where replica r's worker of t stands. A claim is
`_load_accepted`, then the conditional UPDATE (`ensure_run_owned_by_runner`) or
its refusal, then `start_turn`. The engine is an environment: it may write
events, ask for approval, spawn children, finish, see the cancel flag, or fail.
`handler[r][t]` is the approve or deny command in flight, from its dispatch
through `_wait_turn_inactive`, `_resolve_pending`, the resume and the `finally`
block, which reads the status (`_cleanup_pending_after_command`) and then drops what is
pending (`drop_pending`). A worker whose batch spawned children joins them first, also
when the batch asked for an approval (`settle_waiting_children`). `watch[r][t]` is the verdict of a
watchdog pass on the row it fetched, acted on later. `crash` empties all of that;
`boot` selects this runner's running rows, `reconcile_runner_orphans` fails them
one by one, and only then do the listeners start.

**EventSequence.** Read committed isolation, one turn. A transaction takes the
lock, reads MAX over committed rows and its own, inserts one or more rows
(consecutive numbers for a batch, or MAX again for another `append_event`), and
commits or rolls back, which releases the lock. A reader fetches any prefix of
what is past its cursor: a page limit or a broken connection.

**EventWriter.** The engine and its parallel delegates (`Producers`), the window
timer, the liveness task of an open stream and the closer share `_buffer` and
`_flush_lock`. A heartbeat takes the lock and writes its one row past the buffer. A
write commits all its rows or, after a timeout, the head of a split; it may run out of
retries. A task that is cancelled in the middle of a write rolls back and lets go of the
lock (`Cancel`).
`LiveClose` lets the turn be ended by a watchdog while producers go on.

**Transcript, AgentEngine.** A message is its role, the calls it makes or the call
it answers, and for a user message its number. `splice_child_results`,
`drop_pond_tool_attempt`, `collapse_tool_history`, `pop_oldest_message_group` and
`repair_tool_call_chains` are operators on such sequences; where the code counts
tokens, the model takes any outcome of the count. The engine runs `BeginStep`,
`Assemble` (with `SnipGroup` when the request does not fit), `CallModel`, then a
reply with tools or a final one, which may be followed by a nudge. `NextGroup`
takes calls from the batch, parallel ones together; `RunTool` gives each its
outcome, in any order; `MergeGroup` puts results in call order and decides how the
step ends. The controller joins children, parks for approvals, resumes with
`Approve`, `AskAgain` and `Deny`, and finishes. `Cancel` sets the flag at any
point, and `push_steer` adds a message to the inbox. A step may fail anywhere, also with
calls in flight, when its time runs out (`Fail`). A call may report `cancelled` although
the user has not cancelled (`MayReturn`): the engine then notes a cancellation too.

**AstStore, AstRuntime, AstIndexer, AstIndex.** A file is its content hash and
modification time, a row likewise. Edits through tools notify the dirty queue;
edits by a command do so only if the scan runs. `Flush` reads the newest pending
job and `FlushMerge` writes it, as two steps; the status call
reads the stored status and then the stored files, the same again when the indexer has
committed meanwhile, counts, and queues ghost deletes. The indexer claims, and a dirty job
deletes, then commits rows and status; a cold start marks the index as building, walks,
publishes the total and writes batch after batch. Each process may
crash, and the timer's flush and each of the indexer's writes may fail.

**WritingHost.** The ledger is a function from turns to entries with `seq`, state
and `snapshot`; a manifest is a function from documents to texts; `objects` are
texts by their hash. Every operation first reconciles (`Acquired`): unlisted
manifests are listed in any order, unfinished turns settled. `Crash` may leave the
document that is being restored partly written, and drops the process's state.

**WorkReclaim.** `chain[t]` is what `refs/tags/turn/<t>` reaches, so that a tag
with a history and one without differ, as they do for migration and pruning. The
collector's steps are the claim, the lock, the listing, the snapshot of the rows,
the query for unfinished runs, each migration, each deletion, the pruning, the
directory, its shadow, the tombstone, the unlock and the job's end; between any
two, workers commit and move tags without a lock. `delete_work_for_owner` is two
steps, because `create_turn` locks nothing the first of them holds. `TerminalRun`
is the code's own set of terminal statuses, and does not hold the status a
completed run gets (section 5). `dir` and `shadow` are two things: a worker
(`worker_starts`) or a look at the workspace (`workspace_tenant_scope`) makes the
directory, the first snapshot its shadow repository (`ensure_repo`), and without one
every round of the collector ends at `git_list_failed`. "coding" stands for every scenario but "writing".

### What is abstracted

* A failing database statement outside the writer is an exception of the worker
  (`worker_fails`, `resume_dropped`, `claim_dropped`, `project_lost`), not an
  error at each statement; the exceptions that `_mark_turn`'s callers swallow are
  not modelled.
* The api's check of `turns.status` and its write are one step. A command's
  payload is read when it is marked consumed. LIMITs (100 orphans, 20 commands)
  are not modelled.
* `request_cancel` and the watchdog pass of one replica share `watch[r][t]`: both
  run the same code on the same row.
* Leases and `stall_auto_fail` are on (the defaults). The watchdog skips a stall it already
  handled at the same sequence (`_alerted`); handling it appends an event, so with
  statements that succeed this never applies and it is left out. When `_fail_turn`
  raises, the stall is not tried again for an hour.
  `purge_thinking_deltas` does nothing.
* Left out: `approval_views`, view contents, session views, patches, steer, the
  push transport, `mark_turn_start_failed`, live deltas over Redis, the file of the
  thinking sidecar, retention.
* Buffered writer: a window of zero, which writes every delta at once, and a commit
  whose answer is lost; a write that times out was rolled back.
* Waiting for the flush lock is a step of its own: a superset of asyncio's FIFO.
* Engine: what tools do, texts, streaming deltas and retries of a model call
  (a failed call is `Fail`); the strategies that shorten bodies without removing
  messages; children call no delegate tool; of the one-shot messages one kind is
  instantiated.
* AST index: the product mode only (rows in the database, one indexer); the inline
  and ephemeral modes, purges and parsing are left out, and so is STALE, which only
  drives a progress bar. A failed flush puts its events back in the step that took
  them, and only the timer's flush fails (`FlushFail`); when the status call's does, the
  same requeue leaves the same events.
* Writing host: events and evaluations (kept like checkpoints), tmp files, corrupt
  files and ledgers of a newer schema, zip details, the in-memory result cache and
  cancel set. A manifest is copied in from outside only while nobody has the work
  open.
* Reclamation: the recorded, absent, thinking and quarantine files, `gc_runs`, the
  undo of one file (`main.py:783`), which takes no lock, the back-off of a
  job, and the AST indexer, which holds the same advisory lock while it writes. `tombstone_ages` assumes
  that no worker of a deleted work lives on for an hour. A job is requeued at any
  time while it is processing. A row's age has two values, and a coding turn is old only
  when its days are over.

## 3. Runs

| run | instance | shows |
|---|---|---|
| `turn_replicas` | 1 turn, MaxLog 3; either 2 replicas (symmetric), 1 approval, 1 crash, no projection; or 1 replica and 2 projections at once | `TypeOK`, `SingleWorker`, `EndIsLogged`, `ApprovalResumable`, `OwnerStable`, `BootSparesWorkers`, `ViewCurrent`, `ViewMonotone`, `NeverReaccepted` |
| `turn_settles` | 1 replica, 1 crash, 1 projection, child joins | `Settles` |
| `turn_approval_settles` | 1 replica, 1 approval, no crash, no projection | `Settles` when approvals are unanswered, refused, dropped or repeated; `ExecutedOnce`: an approved call runs once |
| `event_sequence` | 3 writers, 2 readers, 4 rows | `TypeOK`, `Dense`, `NothingSkipped`, `NoLateRow`, `ImplementsAppendLog` |
| `event_writer` | 2 producers, 4 events or heartbeats, liveness task, failing writes, live close | `TypeOK`, `Accounted`, `DeltaOrder`, `EventsAfterDeltas`, `Closes` |
| `agent_engine` | 3 steps, 2 calls of any kind, 1 steer, 1 kind of nudge | `TypeOK`, `ResultsReach`, `RequestFaithful`, `InstructionKept`, `CancelFinal`, `Ends` |
| `ast_safety` | 2 files; an edit on a built index (with a fault when no file is missing), or a first build with a fault or with two requests, or an edit before it | `TypeOK`, `SkipSafe`, `NothingLost` |
| `ast_converges` | 1 file, 2 contents, 1 edit, 1 fault, the index at its first generation and two or three more | `Converges` |
| `writing_host` | 2 turns, 2 documents, 3 starts, 1 edit, 1 crash, 1 copy, window 1 | `TypeOK`, `SnapshotsWhole`, `UndoRepeatable`, `UndoExact` |
| `work_reclaim` | 2 turns (the first one failed: late, with an old tag, or before the engine, without a shadow repository), 1 collector, 4 commits, 1 undo, 1 fault, window 1 | `TypeOK`, `WindowKept`, `RestoreWhole`, `Reclaimed` |
| `work_swept` | the same, 5 commits, no fault, no undo | a **violation** of `Swept`, section 5 |
| `work_unshadowed` | the same, 2 commits, no fault, no undo | a **violation** of `DirectoryGoes`, section 5 |

**Bounds.** `MaxEvents` stops the engine from writing (not from ending);
`MaxLog` stops users, lease expiry and watchdog from starting on a turn whose log is
that long; `MaxAsks`, `MaxCrashes`, `MaxProjectors` and `MaxIssued` are counts.
Turns do not share rows, and the only state they share is a replica's capacity
and its watchdog pass, so one turn shows the races on its rows; the proofs cover
any number. Two replicas are needed for claims and foreign watchdogs; to
liveness a second one only adds another watchdog. `MaxLog = 3`
leaves room for `turn.accepted`, an event of the engine or an approval, and a
terminal event written under a live worker, which may then write more. In
`turn_settles` it is 4, the least at which the watchdog still acts after a child
join; with 3 TLC reports the bound itself as a turn nobody ends. Deadlock is not
checked in the Turn and writer runs: a finished turn is a legitimate end. Likewise
for an ended turn of the engine, an index nobody edits and a work that is gone.

Two tool calls are the least with which a child, an approval or a cancellation
meets another call of its batch; three steps leave one after a resume. Two files
are needed for a merge that overwrites another path, and for a batch of a cold
start that is behind another; contents only have to differ. The generation is
bounded (`MaxGen`), and `Converges` is excused at that bound. In `ast_safety` edits,
faults and requests are combined as `Scenarios` says, since all at once is beyond a
five-minute run; `Converges` combines an edit and a fault, with a generation less for a file that is new. For the writing host two turns and a
window of one make every start push the other turn out; three starts repeat one.
`MCInit` lets a work begin with at most one old snapshot of its documents.
In `work_reclaim` a second turn pushes the first out of the window, and
`MCInit` begins after the first one: either its tag has a parent as those of the first
versions have, or the turn failed before the engine began and left a directory without a
shadow repository (its session is deleted, to keep the instance small). `Reclaimed`
speaks of the works that have, or come to have, such a repository. The worker of the second takes up to two commits, and at the bound a migration
fails. One collector shows the races with workers, users and undo; that two exclude
each other is the lock's doing, and the proofs cover any number.

**Fairness** (`FairSpec`). Weak fairness for the steps of a started worker,
command handler and watchdog pass, and for boot (a supervisor restarts the
process); strong fairness for the watchdog's scan and for `reconcile_stale_turns`
and its write, because these are periodic loops: they come round again while
other steps enable and disable them, and a projection that is lost is tried again.
This assumes that the engine ends (step limit and timeouts) and that delegates
return. Nothing is assumed of users, NOTIFY,
claims, leases, the claim timeout or the lagging-view reconciler. Every one of
these may simply never happen, and `Settles` holds still.

For the engine, its own steps and the controller's (`Ends` says that a turn stops
or waits for the user, not that the user answers). For the AST index, the timers,
tasks and the indexer's loop weakly; strongly the poll loop and the client's status
call, which come round every interval whatever happens in between. `Converges`
needs no more than these. For the reclamation, weakly the collectors' loop, the daily
and the requeueing pass, the passing of an hour, the end of an undo and of a
worker; nothing is assumed of users. Faults are bounded.

`NothingLost` is stated for behaviours without a cold start: its optimistic marker
may set the generation back, so that a reload is missed until the next change.
Faults are allowed. What it promises is not the queue: with three edits TLC finds a
path that no event, merge or job holds any more, because its event was merged into a
job the indexer had finished. The promise is that such a path is noticed again: by a
load, a scan, the GC of the projection or the count of the rows; or only its row is
missing and the projection serves the file as it is. `Converges` says that it
is indexed in the end; its run has no cold start (`MaxCold` is 0).

`Settles` is stated for a turn whose log has begun. Before that there is a gap
the code does not close: if the claim's task dies after the claim and before
`start_turn` (`claim_dropped`), the run stays `running` with no events, the
heartbeat keeps renewing its lease, and the watchdog skips a turn without events.
It ends when its replica restarts or its lease lapses.

In `turn_approval_settles` no projection runs; a crash then leaves states that
only the projector repairs (a worker that parks for children after the reclaim
failed its turn leaves `turns` at `waiting_child` over a failed run), which is
what `turn_settles` covers. Both at once is beyond a five-minute run.

## 4. Proofs

All theorems hold for every set of turns, replicas, writers, readers, collectors and
documents and every value of the bounds. The assumptions are the `ASSUME`s of the
modules: the "none" values are not members of the sets, bounds are naturals, the
writing host's turns and the AST index's paths are finitely many, and an index may
be built at least once (`MaxGen` is not 0).

**TurnSystemProofs** proves `TypeOK`, one step per action, and on it
`SingleWorker`, `OwnerStable`, `NeverReaccepted` and
`BootSparesWorkers`. None is inductive. Two replicas could be working because one
of them resumed an approval, so one needs that handlers belong to the run's owner
(`HandlerOwner`); that the run has one owner needs that a claimable run has none
(`Fresh`); and `Fresh` is threatened by the projector, which writes `runs.status`
from an old read, and would write `accepted` if it ever folded a log to
`pending`. So the invariant also says that a log which has begun, and anything a
projection has read, folds to a status past `pending` (`Begun`), and to keep that
for a worker that appends an event it must say that workers past
`turn.accepted` work on a log that has begun (`WorkBegun`). `IInv` is
`TypeOK /\ Ownership /\ Begun`; each lemma takes one group of actions through one
half of it, and also shows `Kept`, what a step never does to a run. The action
properties follow from `Kept` and `IInv`.

Its second half adds what the rows say of the log: `EndIsLogged`,
`ViewCurrent` and `ViewMonotone`, with any number of projections under way and any
number of crashes. A projection writes what it read in an earlier transaction, so each
of these must hold of the reads too: what was read is an earlier state of the log or
its present one, and a terminal status was read only from an ended log (`ProjSound`);
nobody has read or watched a turn that does not exist (`Unborn`). `Move` sums up what a
step may do to one turn's log, rows, view and reads, each action is shown to be a
`Move`, and one lemma shows that a `Move` keeps the invariant.

Two more theorems have a hypothesis on the behaviour, because without it
TLC finds them false (section 5). `ApprovalResumable` holds as long as no projection
makes a turn wait that did not (`ProjectsWait`), through any number of crashes: the
checkpoint is saved before the turn waits, at most a resume is on its way for a
turn that waits, a handler beside a worker does nothing, and only the checkpoints of
ended turns are swept (`Resumable`). `ExecutedOnce` holds if no replica crashes either:
between `execute_tool` and the clean-up the interrupt is still in the checkpoint and in
memory, and what keeps the next answer out is the handler in flight (`OwnerOnce`). The
instances of `turn_replicas` (which has no approval where it has projections) and
`turn_approval_settles` satisfy these hypotheses.

**EventSequenceProofs** proves `TypeOK`, `Dense`, `NothingSkipped`, `NoLateRow` and
`ImplementsAppendLog`. The invariant says that only the lock's holder has rows
staged, and that its staged rows together with the committed ones are dense up to
the number it will use next: MAX + 1 is safe because nobody can commit between
the read and the commit. The refinement maps the rows to the sequence of their
events and each stream to the prefix up to its cursor.

**EventWriterProofs** proves `TypeOK`, `DeltaOrder`, `EventsAfterDeltas` and
`Accounted`. The
invariant orders the places a delta passes through: the log, then the batch being
written, then the buffer (`Ordered`). That a batch of deltas always belongs to the
holder of the flush lock (`Kinds`) makes "the batch" unique and keeps two of them
from interleaving when they are split. An event is issued before its flush, so
`Waiting` says that its producer, once it has the lock or has found the buffer
empty, leaves only younger deltas behind it; `Closing` says the same of the closer,
after whom nothing is buffered. Late deltas, written without the lock, are excepted
from the order, and so are heartbeats, which are written past the buffer. `Accounted` counts, over all places, where an
event is. Its proof does not count: every place holds a number at most once (`Singles`),
no two places share one (`Apart`), every issued number has a place (`Covered`) and no
other has (`Issued`); splitting, re-queueing and giving up a batch move numbers
between places, and only the last step turns this `Ledger` into the sum.

**AgentEngineProofs** proves `CancelFinal`: once the engine has left its step with a
cancellation the user asked for, no model call and no tool run follows, not even of
children that were spawned, and the turn ends cancelled or failed. The places this can be
true at are closed under every step: the flag turns the loop's head away, a join runs no
child, and nothing waits. It also proves `TypeOK`, whose content is where calls,
batches and a pending approval may be (`Batches`, `Pending`); and `ResultsReach`,
`RequestFaithful` and `InstructionKept`, for transcripts of any length.

Those three rest on one invariant, `EngineInv`. The transcript is `Sound`: no call is
made twice (`Unique`), every result of one of its calls is in the run of results behind
that call (`Chained`), every answered call has a result in its run (`Behind`), and the
user's last message is the last one there is (`Instructed`). It stays so only because a
result is put behind a call that is still `Open`, that is, whose message nothing but
results follows. So the invariant follows the calls that are not ended: those in flight,
to come or spawned are calls of the last message that calls anything (`Spawned`), no call
is in two places and a call dropped for a retry was alone in its group (`InFlight`), and
the call that waits for the user is open (`Awaited`; a child's call is in no transcript
of this turn, so that its answer is a result the repair throws away). A reply's calls are
new because they are numbered by its step.

The window is another copy of the history, and `Windowed` says that it stays chained and
answered and ends with the user's last message, but for the pointer a collapse may leave
behind the first one. A cut keeps the chains if it is `Clean`: what comes behind it is
not in the run of a call before it. `align_tail_start`, `protected_tail_start` and
`pop_oldest_message_group` cut only at clean places, and never behind the last user
message.

**TranscriptProofs** holds the lemmas about the operators. `Max` and `FlattenSeq` are
chosen or recursive values, and nothing is known of them but by induction, so the two
facts everything rests on, `MaxOf` and `FlattenSteps`, are proved by a least
counterexample. `FlattenSteps` carries any family of sets along the joined sequence:
with it the repaired request is `Linked` (each call followed by its results, each result
behind its call), and a call has its real result at one place (`OneHit`), because no
block but that of its own message has one.

**AstIndexProofs** proves `TypeOK`, `SkipSafe` and `NothingLost`. For `SkipSafe`: what
the indexer remembers is written to its
projection in other steps than to the database, so the invariant also says which
entries of a cold start under way are already stored (`BatchStored`) and what the
indexer holds at each of its steps (`WorkerShape`). `TypeOK` needs that there is a free
job number whenever one is taken, which is a pigeonhole argument (`FreeIds`). For
`NothingLost` the invariant (`Tracked`) relates the two caches by their generations:
neither the runtime's projection nor the status it has read for a load is newer than what
is stored, and every commit is newer than all of them (`Numbered`), and a loaded entry of the stored generation is the stored one
unless either is gone (`Tracks`). A load whose two reads a commit
falls between takes the new rows with the old generation, and is repeated. So a row that differs from its file differs from the
loaded entry too, which a scan finds, or one of the two is missing, which a load, the
GC or the count finds.

**WritingHostProofs** proves `TypeOK`, `SnapshotsWhole`, `UndoExact` and
`UndoRepeatable` for any number of turns
and documents and a crash between any two files. Why a collection
is safe (`HostInv`): inside the lock the ledger lists every manifest (`AllListed`), the
manifests that refer to an object it deletes are deleted before it (`SweepSafe`), an
undo unlinks every manifest of what it forgets (`DropSafe`), and a snapshot in
progress has stored what it has read (`Stored`). Why an undo is exact and can be
repeated (`UndoInv`): it unlinks nothing before every document is written
(`Restoring`), and while it is torn no turn can start, so nothing moves the window
of turns that could still be undone past it (`Torn`); trimming the ledger to its
window keeps the window (`TrimmedRoots`).

**WorkReclaimProofs** proves `TypeOK`, `RestoreWhole` and `WindowKept` for any number
of turns and
collectors. The lock keeps collectors and undo apart (`Locked`), but workers take
no lock: so the invariant says that every tag reaches only commits that exist
(`Whole`), that a preimage on its way is there or will lose its compare-and-swap,
because numbers of commits are never used again (`ShotSafe`), and that what an undo
has resolved is still under its turn's tag (`Resolved`). `WindowKept` has to hold of
what a collector is about to delete although rows are deleted and turns created while
it works: the window it counts over writing turns contains the one of undo
(`WindowCovers`), whoever has left the window stays out (`Noticed`, `Standing`), and what
is on a collector's list has left it, or its work is gone (`Collecting`).

Only model-checked: all liveness (`Settles`, `Closes`, `Ends`, `Converges`,
`Reclaimed`), which is out of the prover's reach. Every safety property that a passing
run checks is a theorem, two of them under the hypothesis on the behaviour named above.

## 5. Where the code and its documents part

`work_swept` - a collection shall delete the tag of a turn whose run is terminal,
outside the window and past the grace (`docs/adr/021-storage-reclamation-gc.md:319`),
and `delete_work_for_owner` refuses only while a run is not terminal
(`works.py:205`). A run that ends well is `succeeded` (`turn_controller.py:1419`,
`run_status.py:10`), but `work_gc.py:635`, `work_gc.py:176` and `works.py:201` know
`completed`, `failed` and `cancelled`. TLC finds a fair behaviour in which
collections go on for ever and the tag of a completed turn stays; nothing of that
work is migrated or compressed, and it cannot be deleted before its sessions are.
With `succeeded` in `TerminalRun`, `Swept` holds on the same instance.

`work_unshadowed` - the directory of a deleted work goes once its tombstone is past the
grace (`docs/adr/021-storage-reclamation-gc.md:323`, `:547`). A collection ends at
`git_list_failed` (`work_gc.py:286`) before it looks at the tombstone when `for-each-ref`
fails, and without a shadow repository it always does. The directory is there from the
start of a turn (`turn_controller.py:622`) or from a look at the workspace
(`workspace_scope.py:42`), the repository only from the first snapshot
(`shadow_git.py:278`), which `engine.run` normally takes at once. So it is the works that
were only opened, whose turns failed before the engine began, or whose `git init` failed
that keep directory and tombstone for ever. TLC finds a fair behaviour of this kind.

The models reach more behaviours that a document or a comment excludes. They break
none of the properties above and are listed as hazards:

* an approved call runs again after a crash: two approvals are queued, the tool
  runs, the process dies, boot fails the turn but keeps its checkpoint, and the second
  approval resumes it; the claim that prevents it (`turn_controller.py:89`) is in
  memory. It also runs again when a projection sets the turn back to `waiting_approval`
  (`projector.py:524`) just before the clean-up reads the status and so keeps the
  checkpoint. `ExecutedOnce` is checked without crashes and without projections;
* a turn waits for an approval with no checkpoint: a projection reads the log between
  `approval.requested` and `save_checkpoint` and writes `waiting_approval`
  (`turn_projector.py:524`), and the replica dies before it saves. `ApprovalResumable` is
  checked without projections;
* the AST queue drops a path: `_flush` merges it into a job the indexer has finished
  (`queue.py:118`). A scan or the count of the rows finds it again;
* `_fail_stuck_approval` and `maybe_finalize_orphan_cancel` check in one transaction
  and act in another, on turns that may have been resumed or whose worker is alive;
* `close` cancels the timer in the middle of a write, and that batch is gone; a delta
  buffered while the timer's task is writing starts no timer;
* a batch that asks for approval and has spawned children is joined first, and the
  engine runs on with the approval unanswered (`docs/agent-security.md:180`);
* a turn ends as cancelled, with the reason `user_requested` (`turn_controller.py:1307`),
  although nobody cancelled it: the model kills its background job or reads a killed one,
  and the engine takes the job's status `cancelled` for the turn's
  (`agent_engine.py:1911`). Children parked by then still run, since the join asks the
  run's row. `CancelFinal` is about cancellations the user asked for;
* the scan after a successful command never runs, because `int(exit_code or 1) == 0`
  is never true (`misc_tools.py:223`); the poll loop makes up for it;
* a collection of the writing host that is out of time leaves a ledger entry whose
  manifest is gone; an undo of a later turn brings it back into the window, against
  `docs/adr/021-storage-reclamation-gc.md:428`;
* a crash between removing a work's directory and its shadow leaves shadow and
  tombstone for ever, since every later round finds the directory unreadable;
* a turn created while its work is being deleted is deleted with it while its worker
  goes on; deleting a session may bring a turn, whose tag is gone, back into the
  window (its undo is refused); and a worker whose lease was reclaimed may lose a
  preimage when the collector moves its tag.

## 6. Plan

Done: the turn's life, the numbering of the log with its abstract specification,
the buffered writer, the engine's loop and transcript, the AST index, the writing
host, storage reclamation, and the proofs above. Next, in this order:

1. several turns per replica: capacity, bounded pages of boot reconcile and of
   command consumption;
2. the approval's detail: the grant, its expiry, what the executor checks, patch
   accept and reject;
3. admission and idempotent `create_turn` (idempotency key, session lock, limits);
4. the other outbox jobs: claim, back-off, dead letter;
5. streams: replay, live deltas over the bus, keep-alive, the end of a stream;
   and the writer's ambiguous commit (a timeout after a commit that succeeded);
6. an abstract turn (`pending -> running -> ended`, with what clients may see) and
   `TurnSystem` shown to implement it.

## 7. Not modelled

The largest part of the repository keeps no protocol state: prompts, tool bodies,
retrieval ranking, bench and evaluation scripts, the release console, the model
gateway's request shaping and the web client are input, output and text. Tool
policy and sandbox are decided per call without shared state; patches, admission,
the bus, retention and the remaining outbox jobs are state machines of their own
and are in the plan.
