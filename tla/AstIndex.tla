------------------------------ MODULE AstIndex ------------------------------
(* The workspace AST index: runtime and indexer on the shared store, its          *)
(* specification and its properties.                                             *)
EXTENDS AstRuntime, AstIndexer

Files0 == [Paths -> {Absent} \cup [hash : Contents, mtime : {0}]]
Ready1 == [status |-> "ready", gen |-> 1, short |-> FALSE]

\* A work that was never indexed, or one whose index is complete and maybe loaded.
Fresh == rows = [p \in Paths |-> Absent] /\ meta = None /\ proj = NoProj /\ wproj = NoProj
Warm  == /\ rows = disk /\ meta = Ready1
         /\ proj \in {NoProj, Load(Ready1, disk)} /\ wproj \in {NoProj, Load(Ready1, disk)}
Init ==
    /\ disk \in Files0
    /\ \E indexed \in Indexed : IF indexed THEN Warm ELSE Fresh
    /\ jobs = <<>>
    /\ events = [p \in Paths |-> "none"] /\ timer = FALSE
    /\ flush = [f \in Flushers |-> NoMerge]
    /\ call = NoCall
    /\ req = [r \in Requests |-> [pc |-> "idle", meta |-> None]]
    /\ work = Idle
    /\ \E max \in Budgets : spent = [edits |-> 0, faults |-> 0, cold |-> 0, max |-> max]

Change ==
    \/ \E p \in Paths, c \in Contents : EditFile(p, c)
    \/ \E p, q \in Paths : RenameFile(p, q)
    \/ \E p \in Paths, c \in Contents, code \in {0, 1} : Command(p, Stamp(c), code)
    \/ \E p \in Paths, code \in {0, 1} : Command(p, Absent, code)

StatusStep ==
    \/ StatusCold \/ StatusSync \/ StatusMeta \/ StatusLoad \/ StatusReload
    \/ StatusCount \/ StatusRequeue

Request(r) == ReqCheck(r) \/ ReqInsert(r) \/ ReqEnsure(r) \/ ReqMark(r)

Runtime ==
    \/ TimerFire
    \/ \E f \in Flushers : FlushMerge(f)
    \/ FlushFail
    \/ \E S \in SUBSET Changed(proj, disk, Paths), evict \in BOOLEAN : Poll(S, evict)
    \/ \E p \in Paths : Locate(p)
    \/ StatusStep
    \/ Rebuild
    \/ \E r \in Requests : Request(r)
    \/ RuntimeCrash

WorkerStep ==
    \/ Claim \/ Reclaim \/ MarkDone
    \/ DirtySkip \/ DirtyBegin \/ DirtyCommit
    \/ ColdBegin \/ ColdWalk \/ (\E p \in Paths : ColdParse(p)) \/ ColdBatch \/ ColdFinish

Worker == WorkerStep \/ DirtyFail \/ ColdFail \/ WorkerCrash

Next == Change \/ Runtime \/ Worker

Spec == Init /\ [][Next]_vars

\* Timers, tasks and the indexer's loop go on.  The poll loop scans a workspace before it
\* considers evicting it, and comes round every interval whatever others do in between; the
\* client's status bar polls for as long as the workspace is open, and the lock its handler
\* waits for is granted in order.  Hence strong fairness for these two.  Nothing else has to
\* happen.
Fairness ==
    /\ WF_vars(TimerFire)
    /\ \A f \in Flushers : WF_vars(FlushMerge(f))
    /\ SF_vars(\E evict \in BOOLEAN : Poll(Paths, evict))
    /\ SF_vars(StatusStep)
    /\ \A r \in Requests : WF_vars(Request(r))
    /\ WF_vars(WorkerStep)
FairSpec == Spec /\ Fairness

--------------------------------------------------------------------------------
Statuses == {"none", "cold", "building", "ready", "error"}
Metas == [status : Statuses, gen : 0..MaxGen, short : BOOLEAN]
Projs == [status : Statuses, gen : 0..MaxGen, short : BOOLEAN, files : [Paths -> Entries]]
JobRows == [id : Nat, kind : {"dirty", "cold_start"}, status : {"pending", "running"},
            ups : SUBSET Paths, dels : SUBSET Paths]

\* Every variable holds what the code can put there, within the bounds.
TypeOK ==
    /\ disk \in [Paths -> Entries] /\ rows \in [Paths -> Entries]
    /\ meta \in Metas /\ proj \in Projs /\ wproj \in Projs
    /\ jobs \in Seq(JobRows)
    /\ events \in [Paths -> {"none", "upsert", "delete"}] /\ timer \in BOOLEAN
    /\ flush \in [Flushers -> [job : Nat, ups : SUBSET Paths, dels : SUBSET Paths, more : BOOLEAN]]
    /\ call \in [pc : {"idle", "load", "reload", "count", "requeue"}, meta : Metas]
    /\ req \in [Requests -> [pc : {"idle", "check", "insert", "ensure", "mark"}, meta : Metas]]
    /\ work \in [pc : {"idle", "dirty", "commit", "cold_start", "walk", "parse", "done"},
                 job : Nat, gen : 0..MaxGen, ups : SUBSET Paths, dels : SUBSET Paths,
                 todo : SUBSET Paths, found : [Paths -> Entries], fresh : SUBSET Paths]
    /\ spent \in [edits : Nat, faults : Nat, cold : Nat, max : Budgets]
    /\ \A b \in DOMAIN Bound : spent[b] <= spent.max[b]

\* The content-hash skip of _handle_dirty is safe: what the indexer remembers of a file is
\* what the database holds, so a write it leaves out is one the database does not need.
SkipSafe == \A p \in Paths : wproj.files[p] # Absent => rows[p] = wproj.files[p]

\* What brings a path whose row differs from its file to the indexer again: the first load of
\* a projection or one at a newer generation, a complete scan, the GC, or the count of the
\* stored rows against what the GC leaves, which finds the row of a file that is gone unless
\* a file whose row is gone makes up for it.
Kept == Present(GcProj(proj, disk).files)
Noticed(p) ==
    \/ proj = NoProj \/ meta.gen > proj.gen
    \/ p \in Changed(proj, disk, Paths) \cup Missing(proj, disk)
    \/ /\ p \in Present(rows) \ Kept
       /\ Cardinality(Kept) < Cardinality(Present(rows)) \/ ~(Kept \subseteq Present(rows))

\* The queue promises nothing: _flush merges into jobs the indexer has already taken or
\* finished, two _flush overwrite each other's merge, a delete swallows the upsert of a file
\* that came back, events and jobs are lost with crashes and failed writes, and the status call
\* deletes rows it takes for ghosts.  Still no change is lost for good, as long as no cold
\* start's optimistic marker sets the generation back: a path whose row differs from its file
\* will be noticed, or only its row is gone and the projection serves the file as it is.
NothingLost ==
    meta.status = "ready" /\ spent.cold = 0 =>
        \A p \in Paths : rows[p].hash # disk[p].hash =>
            Noticed(p) \/ (rows[p] = Absent /\ proj.files[p] = disk[p])

AtBound == {meta.gen, wproj.gen} \cap spent.max.gen .. MaxGen # {}
ServedCurrent == proj # NoProj /\ \A p \in Paths : proj.files[p].hash = disk[p].hash

\* What symbol lookups are served from keeps catching up with the disk, although events are
\* lost with a crashed runtime or kept without a timer, jobs fail and are never taken up
\* again, and the indexer dies between its deletes and its commit.
Converges == []<>(ServedCurrent \/ AtBound)

================================================================================
