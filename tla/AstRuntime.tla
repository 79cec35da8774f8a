----------------------------- MODULE AstRuntime -----------------------------
(* The runtime's side of the workspace AST index: the dirty queue, the tools that *)
(* change files, the scans, the status call and the requests for a cold start.    *)
EXTENDS AstStore

(* DirtyQueue: events wait for a debounce timer, then go to the job queue.       *)

\* DirtyQueue.enqueue for a set of paths: a delete is not replaced by an upsert.
Marked(ev, S, kind) ==
    [p \in Paths |-> IF p \in S /\ ~(kind = "upsert" /\ ev[p] = "delete") THEN kind ELSE ev[p]]
\* ... and it arms the timer only when it entered an event.
Armed(ev, S, kind) == timer \/ \E p \in S : ~(kind = "upsert" /\ ev[p] = "delete")

Queued(ev) == {p \in Paths : ev[p] # "none"}

\* _pop_flush_batch: at most Cap events; which of them go first is left open.
Poppable(ev, B) ==
    /\ B \subseteq Queued(ev) /\ B # {} /\ Cardinality(B) <= Cap
    /\ Cardinality(Queued(ev)) <= Cap => B = Queued(ev)

\* _flush of the events ev, which enqueue_dirty inserts as a job, or for which it reads the
\* pending job to merge them into.  Events left behind arm the timer again.  The timer's
\* _flush and the status call's may overlap; each goes on by itself.
Flush(f, ev) ==
    /\ flush[f] = NoMerge
    /\ \/ /\ Queued(ev) = {}
          /\ events' = ev /\ timer' = FALSE
          /\ UNCHANGED <<jobs, flush>>
       \/ \E B \in SUBSET Paths :
            LET ups  == {p \in B : ev[p] = "upsert"}
                dels == {p \in B : ev[p] = "delete"}
                more == Queued(ev) # B
            IN  /\ Poppable(ev, B)
                /\ events' = [p \in Paths |-> IF p \in B THEN "none" ELSE ev[p]]
                /\ IF PendingDirty = {}
                   THEN /\ jobs' = Append(jobs, Job("dirty", ups, dels))
                        /\ timer' = more
                        /\ UNCHANGED flush
                   ELSE LET j == jobs[MergeTarget]
                        IN  /\ flush' = [flush EXCEPT ![f] =
                                   [job  |-> j.id,
                                    ups  |-> (j.ups \cup ups) \ (j.dels \cup dels),
                                    dels |-> j.dels \cup dels,
                                    more |-> more]]
                            /\ timer' = FALSE
                            /\ UNCHANGED jobs

\* The debounce timer runs out.
TimerFire ==
    /\ timer
    /\ Flush("timer", events)
    /\ UNCHANGED <<disk, rows, meta, proj, call, req, workerVars, spent>>

\* The UPDATE of a merge.  FOR UPDATE locks nothing outside a transaction: it goes by id,
\* whatever the job holds and whatever its status is by now.
Merged(m) ==
    [i \in DOMAIN jobs |->
        IF jobs[i].id = m.job THEN [jobs[i] EXCEPT !.ups = m.ups, !.dels = m.dels] ELSE jobs[i]]
FlushMerge(f) ==
    /\ flush[f] # NoMerge
    /\ jobs' = Merged(flush[f])
    /\ flush' = [flush EXCEPT ![f] = NoMerge]
    /\ timer' = (timer \/ flush[f].more)
    /\ UNCHANGED <<disk, rows, meta, proj, events, call, req, workerVars, spent>>

\* The database is away: _requeue_batch puts the batch back and arms no timer.
FlushFail ==
    /\ timer /\ flush["timer"] = NoMerge
    /\ Spend("faults")
    /\ timer' = FALSE
    /\ UNCHANGED <<disk, dbVars, proj, events, flush, call, req, workerVars>>

--------------------------------------------------------------------------------
(* Changes of the disk.  Each takes one tick of the clock, its modification time. *)

Now == spent.edits + 1
Stamp(c) == [hash |-> c, mtime |-> Now]

\* notify_path_changed for the paths written and the paths removed.
Notify(writes, removes) ==
    LET ev == Marked(events, removes, "delete")
    IN  /\ events' = Marked(ev, writes, "upsert")
        /\ timer' = (Armed(events, removes, "delete") \/ Armed(ev, writes, "upsert"))

\* An edit tool writes a file and notifies the index.
EditFile(p, c) ==
    /\ Spend("edits")
    /\ disk' = [disk EXCEPT ![p] = Stamp(c)]
    /\ Notify({p}, {})
    /\ UNCHANGED <<dbVars, proj, flush, call, req, workerVars>>

\* rename_file: the file keeps its content and its modification time.
RenameFile(p, q) ==
    /\ disk[p] # Absent /\ p # q
    /\ Spend("edits")
    /\ disk' = [disk EXCEPT ![q] = disk[p], ![p] = Absent]
    /\ Notify({q}, {p})
    /\ UNCHANGED <<dbVars, proj, flush, call, req, workerVars>>

\* "result.get('exit_code') or 1": Python's or takes a zero for a missing value.
OrOne(code) == IF code = 0 THEN 1 ELSE code
\* gc_missing_indexed_files on the disk d: missing files leave the projection and are
\* queued as deletes.
Missing(pr, d) == {p \in Paths : pr.files[p] # Absent /\ d[p] = Absent}
GcProj(pr, d) ==
    IF Missing(pr, d) = {} THEN pr
    ELSE [pr EXCEPT !.files = [p \in Paths |-> IF d[p] = Absent THEN Absent ELSE @[p]],
                    !.short = FALSE]

Incomplete(pr) == pr.status = "building" \/ pr.short
\* Mutant: new files are left to the next cold start.
ChangedKnown(pr, d, S) ==
    {p \in S : d[p] # Absent /\ d[p] # pr.files[p] /\ pr.files[p] # Absent}
\* The files of S that light_scan_after_command finds changed against the projection.
Changed(pr, d, S) ==
    {p \in S : /\ d[p] # Absent /\ d[p] # pr.files[p]
               /\ pr.files[p] # Absent \/ ~Incomplete(pr)}

\* light_scan_after_command whose walk of d reached the files in S, then the GC.
Scan(d, S) ==
    LET ups  == Changed(proj, d, S)
        dels == Missing(proj, d)
    IN  /\ events' = Marked(Marked(events, ups, "upsert"), dels, "delete")
        /\ timer' = (Armed(events, ups, "upsert") \/ dels # {})
LightScan(d, S) ==
    IF proj = NoProj THEN UNCHANGED <<proj, events, timer>>
                     ELSE Scan(d, S) /\ proj' = GcProj(proj, d)

\* run_command, or anything else outside the edit tools, changes the disk.  A tool command
\* is followed by a scan when its exit code passes the test.
Command(p, e, code) ==
    /\ disk[p] # e
    /\ Spend("edits")
    /\ disk' = [disk EXCEPT ![p] = e]
    /\ IF OrOne(code) = 0 THEN LightScan(disk', Paths) ELSE UNCHANGED <<proj, events, timer>>
    /\ UNCHANGED <<dbVars, flush, call, req, workerVars>>

\* One round of _poll_loop: the scan of an active work, whose walk may run out of budget, so
\* that of the changed files it reaches those in S, then evict_idle, which may drop a
\* projection that no status call is touching.
Poll(S, evict) ==
    /\ IF evict THEN call = NoCall /\ proj # NoProj /\ Scan(disk, S) /\ proj' = NoProj
                ELSE LightScan(disk, S)
    /\ UNCHANGED <<disk, dbVars, flush, call, req, workerVars, spent>>

\* search_codebase meets a hit of p: a hit that is gone or stale is queued again.
Locate(p) ==
    /\ proj.status \notin {"none", "cold", "error"} /\ proj.files[p] # Absent
    /\ disk[p].hash # proj.files[p].hash
    /\ IF disk[p] = Absent THEN Notify({}, {p}) ELSE Notify({p}, {})
    /\ UNCHANGED <<disk, dbVars, proj, flush, call, req, workerVars, spent>>

--------------------------------------------------------------------------------
(* AstIndexService.status, one call at a time.  Between its steps the indexer and  *)
(* the other tasks of the runtime go on.  "ready" stands for READY and STALE: the   *)
(* flips between them only drive the progress bar.                                 *)

\* The cold start a call with enqueue_if_cold asks for (an _enqueue_remote task).
AskCold == \E r \in Requests :
    /\ req[r].pc = "idle"
    /\ Spend("cold")
    /\ req' = [req EXCEPT ![r].pc = "check"]
\* A call may, or may not, come with enqueue_if_cold.
MayAskCold(cold) == (cold /\ AskCold) \/ UNCHANGED <<req, spent>>

\* No projection and no meta row: ensure_meta inserts a cold one.
StatusCold ==
    /\ call = NoCall /\ proj = NoProj /\ meta = None
    /\ meta' = ColdMeta
    /\ MayAskCold(TRUE)
    /\ UNCHANGED <<disk, rows, jobs, proj, events, timer, flush, call, workerVars>>

\* Mutant: a loaded projection is never loaded again.
NewerIfNone(pr) == pr = NoProj
\* _sync_projection_from_store reads the stored files when the stored meta is newer.
Newer(pr) == meta.gen > pr.gen

\* The files missing on disk leave the projection pr and are queued as deletes.
Collected(pr) == Marked(events, Missing(pr, disk), "delete")

\* The projection pr is collected and the stored meta is read; with nothing newer stored,
\* _attach_catchup flushes at once.
Sync(pr) ==
    /\ proj' = GcProj(pr, disk)
    /\ IF Newer(pr)
       THEN /\ call' = [pc |-> "reload", meta |-> meta]
            /\ events' = Collected(pr)
            /\ timer' = (timer \/ Missing(pr, disk) # {})
            /\ UNCHANGED <<jobs, flush>>
       ELSE call' = At("count") /\ Flush("call", Collected(pr))
    /\ UNCHANGED <<disk, rows, meta, req, workerVars, spent>>

\* ensure_projection takes the registry's projection ...
StatusSync == call = NoCall /\ proj # NoProj /\ Sync(proj)

\* ... or reads the stored meta ...
StatusMeta ==
    /\ call = NoCall /\ proj = NoProj /\ meta # None
    /\ call' = [pc |-> "load", meta |-> meta]
    /\ UNCHANGED <<disk, dbVars, proj, events, timer, flush, req, workerVars, spent>>

\* ... and, by a query of its own, the stored files.
StatusLoad == call.pc = "load" /\ Sync(Load(call.meta, rows))

\* A newer meta was read: the files are read again, and that is not checked once more.
StatusReload ==
    LET pr == Load(call.meta, rows)
    IN  /\ call.pc = "reload"
        /\ call' = At("count")
        /\ proj' = GcProj(pr, disk)
        /\ Flush("call", Collected(pr))
        /\ UNCHANGED <<disk, rows, meta, req, workerVars, spent>>

EndCall == call' = NoCall /\ MayAskCold(proj.status = "cold")

DeletesQueued ==
    \/ \E p \in Paths : events[p] = "delete"
    \/ \E i \in DOMAIN jobs : jobs[i].kind = "dirty" /\ jobs[i].dels # {}
DbGap == Cardinality(Present(rows)) > Cardinality(Present(proj.files))

\* The backlog and the stored rows are counted: with more rows stored than indexed and no
\* delete on its way, the rows the projection lacks are taken for ghosts.
StatusCount ==
    /\ call.pc = "count" /\ flush["call"] = NoMerge
    /\ IF DbGap /\ ~DeletesQueued THEN call' = At("requeue") /\ UNCHANGED <<req, spent>> ELSE EndCall
    /\ UNCHANGED <<disk, dbVars, proj, events, timer, flush, workerVars>>

Ghosts == Present(rows) \ Present(proj.files)

\* Every stored path the projection does not hold is queued as a delete and flushed.
StatusRequeue ==
    /\ call.pc = "requeue"
    /\ Flush("call", Marked(events, Ghosts, "delete"))
    /\ EndCall
    /\ UNCHANGED <<disk, rows, meta, proj, workerVars>>

--------------------------------------------------------------------------------
(* enqueue_cold_start from the runtime: the job, then the optimistic marker.       *)

\* POST /ast-index/rebuild.
Rebuild == AskCold /\ UNCHANGED <<disk, dbVars, proj, events, timer, flush, call, workerVars>>

\* AstIndexJobQueue.enqueue_cold_start looks for a pending or running cold start ...
ReqCheck(r) ==
    /\ req[r].pc = "check"
    /\ req' = [req EXCEPT ![r].pc = IF ColdQueued THEN "ensure" ELSE "insert"]
    /\ UNCHANGED <<disk, dbVars, proj, events, timer, flush, call, workerVars, spent>>

\* ... and inserts one if it found none.
ReqInsert(r) ==
    /\ req[r].pc = "insert"
    /\ jobs' = Append(jobs, Job("cold_start", {}, {}))
    /\ req' = [req EXCEPT ![r].pc = "ensure"]
    /\ UNCHANGED <<disk, rows, meta, proj, events, timer, flush, call, workerVars, spent>>

\* ensure_meta; only a cold or failed index gets the marker.
ReqEnsure(r) ==
    /\ req[r].pc = "ensure"
    /\ meta' = EnsureMeta
    /\ req' = [req EXCEPT ![r] = IF EnsureMeta.status \in {"cold", "error"}
                                 THEN [pc |-> "mark", meta |-> EnsureMeta]
                                 ELSE [pc |-> "idle", meta |-> None]]
    /\ UNCHANGED <<disk, rows, jobs, proj, events, timer, flush, call, workerVars, spent>>

\* The marker is written from the meta read before.
ReqMark(r) ==
    /\ req[r].pc = "mark"
    /\ meta' = [req[r].meta EXCEPT !.status = "building"]
    /\ req' = [req EXCEPT ![r] = [pc |-> "idle", meta |-> None]]
    /\ UNCHANGED <<disk, rows, jobs, proj, events, timer, flush, call, workerVars, spent>>

\* The runtime process dies: everything it held in memory is gone.
RuntimeCrash ==
    /\ Spend("faults")
    /\ proj' = NoProj
    /\ events' = [p \in Paths |-> "none"] /\ timer' = FALSE
    /\ flush' = [f \in Flushers |-> NoMerge]
    /\ call' = NoCall
    /\ req' = [r \in Requests |-> [pc |-> "idle", meta |-> None]]
    /\ UNCHANGED <<disk, dbVars, workerVars>>

=============================================================================
