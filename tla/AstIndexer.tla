----------------------------- MODULE AstIndexer -----------------------------
(* The ast-indexer process: it claims one job at a time and works through it.     *)
EXTENDS AstStore

Idle == [pc |-> "idle", job |-> 0, gen |-> 0, ups |-> {}, dels |-> {}, todo |-> {},
         found |-> [p \in Paths |-> Absent], fresh |-> {}]
WGo(pc) == work' = [work EXCEPT !.pc = pc]
Without(id) ==
    LET at == CHOOSE i \in DOMAIN jobs : jobs[i].id = id
    IN  [i \in 1..(Len(jobs) - 1) |-> IF i < at THEN jobs[i] ELSE jobs[i + 1]]
WithStatus(id, st) ==
    [i \in DOMAIN jobs |-> IF jobs[i].id = id THEN [jobs[i] EXCEPT !.status = st] ELSE jobs[i]]

\* claim_next: the oldest pending job.
Claim ==
    /\ work.pc = "idle"
    /\ \E i \in DOMAIN jobs :
        /\ jobs[i].status = "pending"
        /\ \A j \in 1..(i - 1) : jobs[j].status # "pending"
        /\ jobs' = WithStatus(jobs[i].id, "running")
        /\ work' = [Idle EXCEPT !.pc   = jobs[i].kind,
                                !.job  = jobs[i].id,
                                !.ups  = jobs[i].ups,
                                !.dels = jobs[i].dels]
    /\ UNCHANGED <<disk, rows, meta, runtimeVars, wproj, spent>>

\* reclaim_stale, from the loop of the only indexer: the jobs a crash left running.
Reclaim ==
    /\ work.pc = "idle"
    /\ \E i \in DOMAIN jobs : jobs[i].status = "running"
    /\ jobs' = [i \in DOMAIN jobs |-> [jobs[i] EXCEPT !.status = "pending"]]
    /\ UNCHANGED <<disk, rows, meta, runtimeVars, workerVars, spent>>

\* Mutant: the finished job stays in the queue.
MarkDoneKept ==
    /\ work.pc = "done"
    /\ jobs' = WithStatus(work.job, "done")
    /\ work' = Idle
    /\ UNCHANGED <<disk, rows, meta, runtimeVars, wproj, spent>>

\* mark_done, or mark_failed: no failed job is ever taken up again.
MarkDone ==
    /\ work.pc = "done"
    /\ jobs' = Without(work.job)
    /\ work' = Idle
    /\ UNCHANGED <<disk, rows, meta, runtimeVars, wproj, spent>>

\* _handle_dirty up to its commit, from the meta of the indexer's projection or else the
\* stored one: the rows to delete go at once, each other file is read as it is now, and one
\* whose hash the indexer remembers is skipped.
Base == IF wproj # NoProj THEN wproj ELSE meta
Gone == work.dels \cup {p \in work.ups : disk[p] = Absent}
Forget(f, S) == [p \in Paths |-> IF p \in S THEN Absent ELSE f[p]]
Parsed == [p \in Paths |->
    IF p \in work.ups \ Gone /\ wproj.files[p].hash # disk[p].hash THEN disk[p] ELSE Absent]

DirtyBegin ==
    /\ work.pc = "dirty" /\ Base.status # "none"
    /\ Base.gen < spent.max.gen
    /\ \E kept \in SUBSET Gone :           \* a delete_file that fails is only logged
        /\ IF kept = {} THEN UNCHANGED spent ELSE Spend("faults")
        /\ rows' = IF meta = None THEN rows ELSE Forget(rows, Gone \ kept)
    /\ wproj' = [wproj EXCEPT !.files = Forget(@, Gone)]
    /\ work' = [work EXCEPT !.pc = "commit", !.gen = Base.gen + 1, !.found = Parsed]
    /\ UNCHANGED <<disk, meta, jobs, runtimeVars>>

\* Nothing to refresh: the work was never indexed.
DirtySkip ==
    /\ work.pc = "dirty" /\ Base.status = "none"
    /\ WGo("done")
    /\ UNCHANGED <<disk, dbVars, runtimeVars, wproj, spent>>

\* The changed entries and the new meta go to the database in one transaction.
DirtyCommit ==
    /\ work.pc = "commit"
    /\ LET new == [status |-> "ready", gen |-> work.gen, short |-> FALSE]
       IN  IF Present(work.found) = {} /\ work.dels = {}
           THEN UNCHANGED <<rows, meta, wproj>>
           ELSE /\ rows' = Overlay(rows, work.found)
                /\ meta' = new
                /\ wproj' = IF wproj = NoProj THEN NoProj
                             ELSE Load(new, Overlay(wproj.files, work.found))
    /\ WGo("done")
    /\ UNCHANGED <<disk, jobs, runtimeVars, spent>>

\* The write fails: the job is marked failed, its deletes are done and its upserts are not.
DirtyFail ==
    /\ work.pc = "commit"
    /\ Spend("faults")
    /\ WGo("done")
    /\ UNCHANGED <<disk, dbVars, runtimeVars, wproj>>

\* run_cold_start: the next generation is marked building with nothing counted yet ...
Building(short) == [status |-> "building", gen |-> work.gen, short |-> short]

ColdBegin ==
    /\ work.pc = "cold_start"
    /\ EnsureMeta.gen < spent.max.gen
    /\ work' = [work EXCEPT !.pc = "walk", !.gen = EnsureMeta.gen + 1]
    /\ meta' = [status |-> "building", gen |-> work'.gen, short |-> FALSE]
    /\ UNCHANGED <<disk, rows, jobs, runtimeVars, wproj, spent>>

\* ... the files are walked, and the total is published before the first one is parsed.
ColdWalk ==
    /\ work.pc = "walk"
    /\ work' = [work EXCEPT !.pc = "parse", !.ups = Present(disk), !.todo = Present(disk)]
    /\ meta' = Building(Present(disk) # {})
    /\ wproj' = Load(meta', wproj.files)
    /\ UNCHANGED <<disk, rows, jobs, runtimeVars, spent>>

\* Each file walked, if it is still there when it is parsed ...
ColdParse(p) ==
    /\ work.pc = "parse" /\ p \in work.todo
    /\ Cardinality(work.fresh) < Batch
    /\ work' = [work EXCEPT !.todo = @ \ {p},
                            !.found[p] = disk[p],
                            !.fresh = IF disk[p] = Absent THEN @ ELSE @ \cup {p}]
    /\ UNCHANGED <<disk, dbVars, runtimeVars, wproj, spent>>

Short == Cardinality(Present(work.found)) < Cardinality(work.ups)
FreshEntries == [p \in Paths |-> IF p \in work.fresh THEN work.found[p] ELSE Absent]

\* ... a full batch, or the last one, committed with its progress ...
ColdBatch ==
    /\ work.pc = "parse" /\ work.fresh # {}
    /\ Cardinality(work.fresh) = Batch \/ work.todo = {}
    /\ rows' = Overlay(rows, FreshEntries)
    /\ meta' = Building(Short)
    /\ wproj' = Load(meta', Overlay(wproj.files, FreshEntries))
    /\ work' = [work EXCEPT !.fresh = {}]
    /\ UNCHANGED <<disk, jobs, runtimeVars, spent>>

\* Mutant: the last batch is not written.
ColdFinishUnflushed ==
    /\ work.pc = "parse" /\ work.todo = {}
    /\ meta' = [Building(Short) EXCEPT !.status = "ready"]
    /\ wproj' = Load(meta', work.found)
    /\ WGo("done")
    /\ UNCHANGED <<disk, rows, jobs, runtimeVars, spent>>

\* ... and the final status.  Rows of files that are gone stay; the projection is replaced.
ColdFinish ==
    /\ work.pc = "parse" /\ work.todo = {} /\ work.fresh = {}
    /\ meta' = [Building(Short) EXCEPT !.status = "ready"]
    /\ wproj' = Load(meta', work.found)
    /\ WGo("done")
    /\ UNCHANGED <<disk, rows, jobs, runtimeVars, spent>>

\* An error: before the parse the job fails and the meta stays as it is; later it ends with an
\* error status, which may itself not reach the database.
ColdFail ==
    /\ work.pc \in {"cold_start", "walk", "parse"}
    /\ Spend("faults")
    /\ IF work.pc = "parse"
       THEN LET m == [Building(Short) EXCEPT !.status = "error"]
            IN  meta' \in {m, meta} /\ wproj' = Load(m, wproj.files)
       ELSE UNCHANGED <<meta, wproj>>
    /\ WGo("done")
    /\ UNCHANGED <<disk, rows, jobs, runtimeVars>>

\* The indexer dies and is started again: its job stays running in the table.
WorkerCrash ==
    /\ Spend("faults")
    /\ work' = Idle /\ wproj' = NoProj
    /\ UNCHANGED <<disk, dbVars, runtimeVars>>

=============================================================================
