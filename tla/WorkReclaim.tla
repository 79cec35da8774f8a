---------------------------- MODULE WorkReclaim ----------------------------
(***************************************************************************)
(* Reclaiming the storage of one work on the server: the api deletes rows  *)
(* and queues work_gc jobs (resource/works.py, sessions.py,                *)
(* work_gc_queue.py, outbox.py), any runtime claims a job, lists the       *)
(* shadow git's tags, reads the rows and only then deletes                 *)
(* (policy/work_gc.py), while turns go on writing tags without a lock      *)
(* (policy/shadow_git.py) and users undo turns (policy/revert_window.py).  *)
(*                                                                         *)
(* Turns are numbered by created_at, commits by their order of creation    *)
(* (what a commit contains is left out).  A row that was updated long ago  *)
(* is "old": past the hour of grace for a writing turn, past the days that *)
(* are kept for a coding turn, which include that hour.                    *)
(***************************************************************************)
EXTENDS Integers, Sequences, FiniteSets

CONSTANTS
    MaxTurns,    \* bound: turns of the work
    Collectors,  \* runtimes that run work_gc_loop
    SessionOf,   \* the session each turn belongs to
    NoRow,
    Nobody,
    Keep,        \* writing_revert_keep_turns
    MaxCommits,  \* bound: commits in the shadow git
    MaxReverts,  \* bound: undo requests
    MaxFaults    \* bound: crashes, failing queries and git commands

ASSUME NobodyIsNoCollector == Nobody \notin Collectors
ASSUME KeepsOne == Keep \in Nat \ {0}
ASSUME BoundsAreNatural == {MaxTurns, MaxCommits, MaxReverts, MaxFaults} \subseteq Nat

VARIABLES
    work,      \* the works row: "live", "checked" (delete_work looked at the runs), "gone"
    sessions,  \* sessions rows
    rows,      \* turns rows with their run: NoRow or [scenario, status (of its run), age]
    created,   \* turns created so far
    tombstone, \* work_tombstones: "none", "fresh" or "aged"
    job,       \* the work's outbox row in flight: "none", "pending" (or retry), "processing"
    dir,       \* the work's directory exists
    shadow,    \* the shadow repository beside it is initialised
    chain,     \* the commits under refs/tags/turn/<id>, the tag's own last; empty if there is no tag
    commits,   \* commits in the shadow repository
    stamp,     \* commits created so far
    active,    \* turns whose worker is alive
    shot,      \* a preimage on its way: its parent and its commit
    lock,      \* who holds the work's advisory lock exclusively
    gc,        \* what each collector does
    undo,      \* the undo in progress: it holds the lock shared
    undos,     \* undo requests so far
    left,      \* history: turns that have been outside the undo window, or are deleted
    tagged,    \* history: the other turns that got a baseline
    faults

db   == <<work, sessions, rows, created, tombstone>>
disk == <<dir, shadow, chain, commits, stamp>>
proc == <<active, shot>>
coll == <<job, lock, gc>>
user == <<undo, undos>>
hist == <<tagged, left>>
vars == <<db, disk, proc, coll, user, hist, faults>>

Turns == 1 .. MaxTurns
Shas == 1 .. MaxCommits
Rows == [scenario : {"writing", "coding"}, status : {"running", "succeeded", "failed"},
         age : {"fresh", "old"}]
NoShot == [parent |-> 0, sha |-> 0]
NoUndo == [turn |-> 0, sha |-> 0]

Present == {t \in Turns : rows[t] # NoRow}
Tags == {t \in Turns : chain[t] # <<>>}

\* _tag_sha: where the tag points to; 0 for no tag.
tag(t) == IF t \in Tags THEN chain[t][Len(chain[t])] ELSE 0

\* Rank from the newest, 1 being the newest, among the turns of S.
Rank(t, S) == Cardinality({u \in S : u >= t})

Fault == /\ faults < MaxFaults
         /\ faults' = faults + 1

(***************************************************************************)
(* Rows and jobs: the api and its worker.                                  *)
(***************************************************************************)
\* enqueue_work_gc: one job in flight per work, by the query and by the unique index.
Enqueued == IF job = "none" THEN "pending" ELSE job

create_turn(t, scenario) ==
    /\ work # "gone"
    /\ SessionOf[t] \in sessions
    /\ t = created + 1
    /\ rows' = [rows EXCEPT ![t] = [scenario |-> scenario, status |-> "running",
                                        age |-> "fresh"]]
    /\ created' = t
    /\ UNCHANGED <<work, sessions, tombstone, disk, proc, coll, user, faults>>

\* What the deletion and the collector hold to be over.  A run that ends well has the
\* status "succeeded", which is not among these.
TerminalRun == {"completed", "failed", "cancelled"}

Unfinished(t) == t \in Present /\ rows[t].status \notin TerminalRun

\* The end of the run, written by its worker or, when the lease is over, by lease_reclaim
\* although the worker is alive.
EndRun(t, status) ==
    rows' = IF t \in Present
              THEN [rows EXCEPT ![t] = [@ EXCEPT !.status = status, !.age = "fresh"]]
              ELSE rows

lease_reclaim(t) ==
    /\ t \in Present
    /\ rows[t].status = "running"
    /\ EndRun(t, "failed")
    /\ UNCHANGED <<work, sessions, created, tombstone, disk, proc, coll, user, faults>>

\* updated_at recedes.
row_ages(t) ==
    /\ t \in Present
    /\ rows[t].age = "fresh"
    /\ rows' = [rows EXCEPT ![t].age = "old"]
    /\ UNCHANGED <<work, sessions, created, tombstone, disk, proc, coll, user, faults>>

Without(S) == [t \in Turns |-> IF SessionOf[t] \in S THEN NoRow ELSE rows[t]]

\* delete_sessions_for_owner, in one transaction with the job.
delete_sessions_for_owner(s) ==
    /\ work # "gone"
    /\ s \in sessions
    /\ sessions' = sessions \ {s}
    /\ rows' = Without({s})
    /\ job' = Enqueued
    /\ UNCHANGED <<work, created, tombstone, disk, proc, lock, gc, user, faults>>

\* delete_work_for_owner: the runs are locked and looked at ...
delete_work_checks ==
    /\ work = "live"
    /\ ~ \E t \in Turns : Unfinished(t)
    /\ work' = "checked"
    /\ UNCHANGED <<sessions, rows, created, tombstone, disk, proc, coll, user, faults>>

\* ... then the sessions are locked and everything under them is deleted, the turn that
\* was created in between too, with a tombstone and a job.
delete_work_commits ==
    /\ work = "checked"
    /\ work' = "gone"
    /\ sessions' = {}
    /\ rows' = Without(sessions)
    /\ tombstone' = "fresh"
    /\ job' = Enqueued
    /\ UNCHANGED <<created, disk, proc, lock, gc, user, faults>>

delete_work_rolls_back ==
    /\ work = "checked"
    /\ Fault
    /\ work' = "live"
    /\ UNCHANGED <<sessions, rows, created, tombstone, disk, proc, coll, user>>

\* An hour has passed since deleted_at.  Assumed: no turn of a deleted work, whose events
\* the database refuses, goes on for so long.
tombstone_ages ==
    /\ tombstone = "fresh"
    /\ active = {}
    /\ tombstone' = "aged"
    /\ UNCHANGED <<work, sessions, rows, created, disk, proc, coll, user, faults>>

\* Mutant: only works that exist get their daily job.
enqueue_due_works_only ==
    /\ job = "none"
    /\ work # "gone"
    /\ job' = "pending"
    /\ UNCHANGED <<db, disk, proc, lock, gc, user, faults>>

\* Once a day a job for every work and every tombstone.
enqueue_due_work_gc ==
    /\ job = "none"
    /\ work # "gone" \/ tombstone # "none"
    /\ job' = "pending"
    /\ UNCHANGED <<db, disk, proc, lock, gc, user, faults>>

\* A job that has been processing for ten minutes, its collector dead or slow.
requeue_stale_processing ==
    /\ job = "processing"
    /\ job' = "pending"
    /\ UNCHANGED <<db, disk, proc, lock, gc, user, faults>>

(***************************************************************************)
(* A turn's worker and the shadow git: no lock.                            *)
(***************************************************************************)
NewSha == stamp + 1

worker_starts(t) ==
    /\ t \in Present \ active
    /\ rows[t].status = "running"
    /\ active' = active \cup {t}
    /\ dir' = TRUE
    /\ UNCHANGED <<db, shadow, chain, commits, stamp, shot, coll, user, faults>>

\* A request of the workspace view comes with the work's root and makes the directory.
workspace_tenant_scope ==
    /\ work # "gone"
    /\ dir' = TRUE
    /\ UNCHANGED <<db, shadow, chain, commits, stamp, proc, coll, user, faults>>

\* The engine begins, or a snapshot is taken: git init, if there is no repository.  A turn
\* that fails before, or whose git init fails, leaves a directory without a shadow.
ensure_repo(t) ==
    /\ t \in active
    /\ dir /\ ~ shadow
    /\ shadow' = TRUE
    /\ UNCHANGED <<db, dir, chain, commits, stamp, proc, coll, user, faults>>

\* A baseline: a commit without a parent, and the tag if there is none.
ensure_turn_baseline(t) ==
    /\ t \in active \ Tags
    /\ dir /\ shadow
    /\ stamp < MaxCommits
    /\ stamp' = NewSha
    /\ commits' = commits \cup {NewSha}
    /\ chain' = [chain EXCEPT ![t] = <<NewSha>>]
    /\ UNCHANGED <<db, dir, shadow, proc, coll, user, faults>>

\* snapshot_preimage reads the tag and commits on top of it ...
snapshot_preimage(t) ==
    /\ t \in active \cap Tags
    /\ shot[t] = NoShot
    /\ stamp < MaxCommits
    /\ stamp' = NewSha
    /\ commits' = commits \cup {NewSha}
    /\ shot' = [shot EXCEPT ![t] = [parent |-> tag(t), sha |-> NewSha]]
    /\ UNCHANGED <<db, dir, shadow, chain, active, coll, user, faults>>

\* Mutant: the tag is moved although commit-tree returned nothing.
cas_tag_unchecked(t) ==
    /\ t \in active
    /\ chain' = IF tag(t) = shot[t].parent THEN [chain EXCEPT ![t] = Append(@, shot[t].sha)]
                                          ELSE chain
    /\ shot' = [shot EXCEPT ![t] = NoShot]
    /\ UNCHANGED <<db, dir, shadow, commits, stamp, active, coll, user, faults>>

\* ... and moves the tag, if it is still the one it read; otherwise the path stays
\* unrecorded.
cas_tag(t) ==
    /\ shot[t] # NoShot
    /\ chain' = IF tag(t) = shot[t].parent THEN [chain EXCEPT ![t] = Append(@, shot[t].sha)]
                                          ELSE chain
    /\ shot' = [shot EXCEPT ![t] = NoShot]
    /\ UNCHANGED <<db, dir, shadow, commits, stamp, active, coll, user, faults>>

worker_ends(t) ==
    /\ t \in active
    /\ active' = active \ {t}
    /\ shot' = [shot EXCEPT ![t] = NoShot]
    /\ \E status \in {"succeeded", "failed"} : EndRun(t, status)
    /\ UNCHANGED <<work, sessions, created, tombstone, disk, coll, user, faults>>

(***************************************************************************)
(* A collector: claim_and_mark_once and mark_work.                         *)
(***************************************************************************)
NoTags == [t \in Turns |-> 0]
IdleGc == [pc |-> "idle", mine |-> FALSE, listed |-> NoTags, window |-> {}, todo |-> {},
           busy |-> FALSE, fate |-> "keep"]

\* A collector on its way out has no more use for what it read.
Over(c, pc) == [IdleGc EXCEPT !.pc = pc, !.mine = gc[c].mine]

Step(c, from, changed) == /\ gc[c].pc = from
                          /\ gc' = [gc EXCEPT ![c] = changed]

claim_work_gc(c) ==
    /\ job = "pending"
    /\ job' = "processing"
    /\ Step(c, "idle", [IdleGc EXCEPT !.pc = "claimed", !.mine = TRUE])
    /\ UNCHANGED <<db, disk, proc, lock, user, faults>>

\* pg_try_advisory_lock: not while another collector or an undo holds it.
Free == lock = Nobody /\ undo = NoUndo

gc_locks(c) ==
    /\ Free
    /\ lock' = c
    /\ Step(c, "claimed", [gc[c] EXCEPT !.pc = "locked"])
    /\ UNCHANGED <<db, disk, proc, job, user, faults>>

gc_skips(c) ==
    /\ ~ Free
    /\ Step(c, "claimed", [gc[c] EXCEPT !.pc = "done"])
    /\ UNCHANGED <<db, disk, proc, job, lock, user, faults>>

\* _list_for_mark: the tags and where they point, before the database is read.
list_turn_tags(c) ==
    /\ dir /\ shadow
    /\ Step(c, "locked", [gc[c] EXCEPT !.pc = "listed", !.listed = [t \in Turns |-> tag(t)]])
    /\ UNCHANGED <<db, disk, proc, job, lock, user, faults>>

work_unreadable(c) ==
    /\ ~ dir
    /\ Step(c, "locked", Over(c, "unlock"))
    /\ UNCHANGED <<db, disk, proc, job, lock, user, faults>>

\* Without a shadow repository for-each-ref fails, in this round as in every other one.
git_list_failed(c) ==
    /\ dir /\ ~ shadow
    /\ Step(c, "locked", Over(c, "unlock"))
    /\ UNCHANGED <<db, disk, proc, job, lock, user, faults>>

\* roots_from_rows: the newest Keep of the writing turns, and the coding turns of the
\* last days; besides these, what runs and what was touched within the grace is kept.
Writing == {t \in Present : rows[t].scenario = "writing"}
GcWindow == {t \in Writing : Rank(t, Writing) <= Keep}
            \cup {t \in Present \ Writing : rows[t].age = "fresh"}
GcKeep == GcWindow \cup {t \in Present : Unfinished(t) \/ rows[t].age = "fresh"}

\* directory_fate.
Fate == IF work # "gone" THEN "keep"
        ELSE IF tombstone = "none" THEN "alert"
        ELSE IF tombstone = "aged" THEN "delete" ELSE "keep"

\* _read_roots, in one snapshot: of the tags that were listed the ones to keep drop out.
read_roots(c) ==
    /\ Step(c, "listed", [gc[c] EXCEPT !.pc = "read", !.window = GcWindow, !.fate = Fate,
            !.listed = [t \in Turns |-> IF t \in GcKeep THEN 0 ELSE @[t]]])
    /\ UNCHANGED <<db, disk, proc, job, lock, user, faults>>

\* Mutant: the sweep takes the tags as they are now, not as they were listed.
VictimsNow(c) == [t \in Turns |-> IF t \in gc[c].window THEN 0 ELSE tag(t)]

\* sweep_snapshot's candidates and their shas: fixed when the tags were listed.
Victims(c) == [t \in Turns |-> IF t \in gc[c].window THEN 0 ELSE gc[c].listed[t]]

ToSweep(c) == [gc[c] EXCEPT !.pc = "sweep", !.window = {}, !.listed = Victims(c),
                            !.todo = {t \in Turns : Victims(c)[t] # 0}]

\* Is a run under way?  If so nothing is migrated and nothing is compressed.  Otherwise
\* the tags are listed again, and those of the window with a history are to be migrated.
read_busy(c) ==
    /\ Step(c, "read",
            IF \E t \in Turns : Unfinished(t)
              THEN [ToSweep(c) EXCEPT !.busy = TRUE]
              ELSE [gc[c] EXCEPT !.pc = "migrate",
                                 !.listed = [t \in Turns |-> IF t \in gc[c].window THEN tag(t)
                                                                                  ELSE @[t]],
                                 !.todo = {t \in gc[c].window : Len(chain[t]) > 1}])
    /\ UNCHANGED <<db, disk, proc, job, lock, user, faults>>

\* migrate_legacy_shadow: such a tag gets a commit without a parent, unless a writer moved
\* it meanwhile.
migrate_legacy_shadow(c, t) ==
    /\ t \in gc[c].todo
    /\ stamp < MaxCommits
    /\ Step(c, "migrate", [gc[c] EXCEPT !.todo = @ \ {t}])
    /\ stamp' = NewSha
    /\ commits' = commits \cup {NewSha}
    /\ chain' = IF tag(t) = gc[c].listed[t] THEN [chain EXCEPT ![t] = <<NewSha>>] ELSE chain
    /\ UNCHANGED <<db, dir, shadow, proc, job, lock, user, faults>>

\* git_migrate_failed; at the bound on commits, commit-tree fails.
migrate_fails(c) ==
    /\ gc[c].todo # {}
    /\ stamp = MaxCommits
    /\ Step(c, "migrate", Over(c, "unlock"))
    /\ UNCHANGED <<db, disk, proc, job, lock, user, faults>>

\* _compress: unreachable commits are pruned, but for those of the last hour (a preimage
\* on its way is among them); it is skipped when the disk is low.
Reachable == UNION {{chain[t][i] : i \in DOMAIN chain[t]} : t \in Turns}
Prunable == commits \ (Reachable \cup {shot[t].sha : t \in Turns})

Compressed == \E S \in {{}, Prunable} : commits' = commits \ S

migrated(c) ==
    /\ gc[c].todo = {}
    /\ Step(c, "migrate", ToSweep(c))
    /\ Compressed
    /\ UNCHANGED <<db, dir, shadow, chain, stamp, proc, job, lock, user, faults>>

\* cas_delete_tag: only if the tag is where it was when it was listed.
cas_delete_tag(c, t) ==
    /\ t \in gc[c].todo
    /\ Step(c, "sweep", [gc[c] EXCEPT !.todo = @ \ {t}])
    /\ chain' = IF tag(t) = gc[c].listed[t] THEN [chain EXCEPT ![t] = <<>>] ELSE chain
    /\ UNCHANGED <<db, dir, shadow, commits, stamp, proc, job, lock, user, faults>>

swept(c) ==
    /\ gc[c].todo = {}
    /\ Step(c, "sweep", Over(c, IF gc[c].fate = "delete" THEN "remove" ELSE "unlock"))
    /\ IF gc[c].busy THEN UNCHANGED commits ELSE Compressed
    /\ UNCHANGED <<db, dir, shadow, chain, stamp, proc, job, lock, user, faults>>

\* remove_reclaimed_work: the directory, then its shadow, then the tombstone.
remove_directory(c) ==
    /\ Step(c, "remove", [gc[c] EXCEPT !.pc = "remove_shadow"])
    /\ dir' = FALSE
    /\ UNCHANGED <<db, shadow, chain, commits, stamp, proc, job, lock, user, faults>>

remove_shadow(c) ==
    /\ Step(c, "remove_shadow", [gc[c] EXCEPT !.pc = "forget"])
    /\ chain' = [t \in Turns |-> <<>>]
    /\ commits' = {}
    /\ shadow' = FALSE
    /\ UNCHANGED <<db, dir, stamp, proc, job, lock, user, faults>>

drop_tombstone(c) ==
    /\ Step(c, "forget", [gc[c] EXCEPT !.pc = "unlock"])
    /\ tombstone' = "none"
    /\ UNCHANGED <<work, sessions, rows, created, disk, proc, job, lock, user, faults>>

\* A query or a git command fails: the round is given up, and recorded as done.
gc_aborts(c) ==
    /\ gc[c].pc \in {"locked", "listed", "read", "migrate", "forget"}
    /\ Fault
    /\ gc' = [gc EXCEPT ![c] = Over(c, "unlock")]
    /\ UNCHANGED <<db, disk, proc, job, lock, user>>

gc_unlocks(c) ==
    /\ Step(c, "unlock", Over(c, "done"))
    /\ lock' = Nobody
    /\ UNCHANGED <<db, disk, proc, job, user, faults>>

\* The row is marked done: whoever else has claimed it does so in vain.
job_done(c) ==
    /\ gc[c].pc = "done"
    /\ job' = IF gc[c].mine THEN "none" ELSE job
    /\ gc' = [d \in Collectors |->
                IF d = c THEN IdleGc
                ELSE IF gc[c].mine THEN [gc[d] EXCEPT !.mine = FALSE] ELSE gc[d]]
    /\ UNCHANGED <<db, disk, proc, lock, user, faults>>

\* An exception (git timed out) leaves mark_work: the row becomes retry, unless another
\* one of the work is in flight by now, and the finally block unlocks.
gc_raises(c) ==
    /\ gc[c].pc \notin {"idle", "done"}
    /\ Fault
    /\ job' = IF gc[c].mine \/ job = "none" THEN "pending" ELSE job
    /\ lock' = IF lock = c THEN Nobody ELSE lock
    /\ gc' = [gc EXCEPT ![c] = IdleGc]
    /\ UNCHANGED <<db, disk, proc, user>>

\* The runtime dies: its connection's lock is free, its job keeps processing.
gc_crashes(c) ==
    /\ gc[c].pc # "idle"
    /\ Fault
    /\ lock' = IF lock = c THEN Nobody ELSE lock
    /\ gc' = [gc EXCEPT ![c] = IdleGc]
    /\ UNCHANGED <<db, disk, proc, job, user>>

(***************************************************************************)
(* Undo: restore_turn_if_in_window.                                        *)
(***************************************************************************)
\* turn_in_window: a writing turn among the newest Keep of all turns, another one by age.
InWindow(t) == /\ t \in Present
               /\ IF rows[t].scenario = "writing" THEN Rank(t, Present) <= Keep
                                                  ELSE rows[t].age # "old"

\* Mutant: the window is checked and the sha read without the lock.
undo_unlocked(t) ==
    /\ undo = NoUndo
    /\ undos < MaxReverts
    /\ InWindow(t)
    /\ t \in Tags
    /\ undo' = [turn |-> t, sha |-> tag(t)]
    /\ undos' = undos + 1
    /\ UNCHANGED <<db, disk, proc, coll, faults>>

\* Under the shared lock: the window is checked and the tag resolved; otherwise the
\* request is refused.
undo_begins(t) ==
    /\ lock = Nobody
    /\ undo = NoUndo
    /\ undos < MaxReverts
    /\ InWindow(t)
    /\ t \in Tags
    /\ undo' = [turn |-> t, sha |-> tag(t)]
    /\ undos' = undos + 1
    /\ UNCHANGED <<db, disk, proc, coll, faults>>

\* restore_turn is through, or failed; the transaction ends and the lock is free.
undo_ends ==
    /\ undo # NoUndo
    /\ undo' = NoUndo
    /\ UNCHANGED <<db, disk, proc, coll, undos, faults>>

(***************************************************************************)
(* The specification.                                                      *)
(***************************************************************************)
Init ==
    /\ work = "live"
    /\ sessions = {SessionOf[t] : t \in Turns}
    /\ rows = [t \in Turns |-> NoRow]
    /\ created = 0
    /\ tombstone = "none"
    /\ job = "none"
    /\ dir = FALSE /\ shadow = FALSE
    /\ chain = [t \in Turns |-> <<>>]
    /\ commits = {} /\ stamp = 0
    /\ active = {}
    /\ shot = [t \in Turns |-> NoShot]
    /\ lock = Nobody
    /\ gc = [c \in Collectors |-> IdleGc]
    /\ undo = NoUndo /\ undos = 0
    /\ tagged = {} /\ left = {} /\ faults = 0

Api ==
    \/ \E t \in Turns : \/ \E s \in {"writing", "coding"} : create_turn(t, s)
                        \/ lease_reclaim(t)
                        \/ row_ages(t)
    \/ \E s \in sessions : delete_sessions_for_owner(s)
    \/ delete_work_checks \/ delete_work_commits \/ delete_work_rolls_back
    \/ tombstone_ages \/ enqueue_due_work_gc \/ requeue_stale_processing
    \/ workspace_tenant_scope

Worker(t) == worker_starts(t) \/ ensure_repo(t) \/ ensure_turn_baseline(t)
             \/ snapshot_preimage(t) \/ cas_tag(t) \/ worker_ends(t)

Proceed(c) ==
    \/ claim_work_gc(c) \/ gc_locks(c) \/ gc_skips(c) \/ list_turn_tags(c) \/ work_unreadable(c)
    \/ git_list_failed(c) \/ read_roots(c) \/ read_busy(c) \/ migrate_fails(c) \/ migrated(c) \/ swept(c)
    \/ \E t \in Turns : migrate_legacy_shadow(c, t) \/ cas_delete_tag(c, t)
    \/ remove_directory(c) \/ remove_shadow(c) \/ drop_tombstone(c) \/ gc_unlocks(c) \/ job_done(c)

Collector(c) == Proceed(c) \/ gc_aborts(c) \/ gc_raises(c) \/ gc_crashes(c)

Undo == (\E t \in Turns : undo_begins(t)) \/ undo_ends

Noted == /\ left' = left \cup {t \in 1 .. created' : ~ InWindow(t)'}
         /\ tagged' = (tagged \cup Tags') \ left'

Next == /\ \/ Api \/ Undo
           \/ \E t \in Turns : Worker(t)
           \/ \E c \in Collectors : Collector(c)
        /\ Noted

Spec == Init /\ [][Next]_vars

\* The loops of the runtimes, of the api and of its worker keep running, a worker comes to
\* its end, an undo finishes and an hour passes.
Fairness ==
    /\ \A c \in Collectors : WF_vars(Proceed(c) /\ Noted)
    /\ WF_vars(enqueue_due_work_gc /\ Noted)
    /\ WF_vars(requeue_stale_processing /\ Noted)
    /\ WF_vars(tombstone_ages /\ Noted)
    /\ WF_vars(undo_ends /\ Noted)
    /\ \A t \in Turns : WF_vars(worker_ends(t) /\ Noted)

FairSpec == Spec /\ Fairness

(***************************************************************************)
(* Properties.                                                             *)
(***************************************************************************)
Pcs == {"idle", "claimed", "locked", "listed", "read", "migrate", "sweep", "remove",
        "remove_shadow", "forget", "unlock", "done"}
GcStates == [pc : Pcs, mine : BOOLEAN, listed : [Turns -> 0 .. MaxCommits],
             window : SUBSET Turns, todo : SUBSET Turns, busy : BOOLEAN,
             fate : {"keep", "alert", "delete"}]

DbOK == /\ work \in {"live", "checked", "gone"}
        /\ sessions \subseteq {SessionOf[t] : t \in Turns}
        /\ rows \in [Turns -> Rows \cup {NoRow}]
        /\ created \in 0 .. MaxTurns
        /\ tombstone \in {"none", "fresh", "aged"}
DiskOK == /\ dir \in BOOLEAN /\ shadow \in BOOLEAN
          /\ chain \in [Turns -> Seq(Shas)]
          /\ commits \subseteq Shas
          /\ stamp \in 0 .. MaxCommits
ProcOK == /\ active \subseteq Turns
          /\ shot \in [Turns -> [parent : Shas, sha : Shas] \cup {NoShot}]
CollOK == /\ job \in {"none", "pending", "processing"}
          /\ lock \in Collectors \cup {Nobody}
          /\ gc \in [Collectors -> GcStates]
UserOK == /\ undo \in [turn : 0 .. MaxTurns, sha : 0 .. MaxCommits]
          /\ undos \in 0 .. MaxReverts
HistOK == left \subseteq Turns /\ tagged \subseteq Turns /\ faults \in 0 .. MaxFaults

\* The variables have their types.
TypeOK == DbOK /\ DiskOK /\ ProcOK /\ CollOK /\ UserOK /\ HistOK

\* A turn that has never been outside the undo window can be undone: its tag is there and
\* its commit is in the repository, although collectors list, read and delete in different
\* steps, count the window over other rows, rewrite the tag and prune, while the turn and
\* its workers go on.
WindowKept ==
    \A t \in tagged : tag(t) \in commits

\* An undo that was let in finds the commit it resolved until it is through, although the
\* turn may leave the window, be deleted or be written on meanwhile.
RestoreWhole == undo # NoUndo => undo.sha \in commits

\* The directory of a deleted work with a shadow repository is removed in the end and stays
\* away: jobs may be skipped, given up, retried, claimed twice or lost with their runtime,
\* and the repository may come after the deletion, by a turn still at work.
Reclaimed == work = "gone" /\ shadow ~> []~dir

\* What docs/adr/021 says of a deletion: once the tombstone is past the grace, the directory
\* goes, whatever is in it.
DirectoryGoes == work = "gone" ~> []~dir

\* What docs/adr/021 says of the sweep: the tag of a turn whose run is over, which is
\* outside the window and past the grace, goes.  At the bound on commits no tag can be
\* migrated, which the program does not know: such behaviours are left out.
Outlived(t) == /\ t \in Present
               /\ rows[t].status # "running" /\ rows[t].age = "old"
               /\ t \notin active \cup GcWindow
Swept == [](stamp < MaxCommits) =>
             \A t \in Turns : t \in Tags /\ Outlived(t) ~> ~ (t \in Tags /\ Outlived(t))

=============================================================================
