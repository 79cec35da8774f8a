------------------------------ MODULE AstStore ------------------------------
(* The workspace AST index of one work: what its processes share.  Files are on  *)
(* disk; index entries, index status and the job queue are in PostgreSQL; the    *)
(* runtime and the single ast-indexer each keep a projection in memory.  Product *)
(* mode: rows live in the database and only the indexer parses.                  *)
EXTENDS Integers, FiniteSets, Sequences

CONSTANTS
    Paths,      \* code files of the work
    Contents,   \* file contents (content hashes)
    Requests,   \* callers that ask for a cold start
    Cap,        \* workspace_ast_dirty_backpressure
    Batch,      \* _BATCH_SIZE of a cold start
    MaxEdits,   \* bound: changes of the disk
    MaxFaults,  \* bound: crashes of the two processes and database errors
    MaxCold,    \* bound: cold starts asked for
    MaxGen,     \* bound: index generation
    Indexed     \* whether the work is indexed when the model starts: TRUE, FALSE or either

ASSUME AstAssumption ==
    /\ IsFiniteSet(Paths) /\ Contents # {}
    /\ Cap \in Nat \ {0} /\ Batch \in Nat \ {0}
    /\ {MaxEdits, MaxFaults, MaxCold} \subseteq Nat /\ MaxGen \in Nat \ {0}
    /\ Indexed \subseteq BOOLEAN

VARIABLES
    disk,    \* disk[p]: Absent or the file's [hash, mtime]
    rows,    \* work_ast_files: rows[p] is Absent or the entry stored for p
    meta,    \* work_ast_index_meta: None or [status, gen, short]
    jobs,    \* work_ast_index_jobs still pending or running, oldest first
    proj,    \* the runtime's IndexProjection: its meta with its files
    events,  \* DirtyQueue: events[p] is "none", "upsert" or "delete"
    timer,   \* the debounce timer is armed
    flush,   \* flush[f]: a _flush between enqueue_dirty's SELECT and its UPDATE
    call,    \* the status call in progress: [pc, meta], with the meta row it has read
    req,     \* req[r]: an _enqueue_remote task in progress
    wproj,   \* the indexer's own projection
    work,    \* the indexer's current job
    spent    \* how much of each bound is used, and how much may be

dbVars      == <<rows, meta, jobs>>
runtimeVars == <<proj, events, timer, flush, call, req>>
workerVars  == <<wproj, work>>
vars == <<disk, dbVars, runtimeVars, workerVars, spent>>

Absent == [hash |-> "absent", mtime |-> 0]
None   == [status |-> "none", gen |-> 0, short |-> FALSE]
ColdMeta == [status |-> "cold", gen |-> 0, short |-> FALSE]
NoProj == [status |-> "none", gen |-> 0, short |-> FALSE, files |-> [p \in Paths |-> Absent]]
Entries == {Absent} \cup [hash : Contents, mtime : 0..MaxEdits]

\* A status call, or none, that holds no meta row.
At(pc) == [pc |-> pc, meta |-> None]
NoCall == At("idle")

Present(f) == {p \in Paths : f[p] # Absent}
Load(m, f) == [status |-> m.status, gen |-> m.gen, short |-> m.short, files |-> f]
Overlay(f, g) == [p \in Paths |-> IF g[p] # Absent THEN g[p] ELSE f[p]]

Bound == [edits |-> MaxEdits, faults |-> MaxFaults, cold |-> MaxCold]
Budgets == [edits : 0..MaxEdits, faults : 0..MaxFaults, cold : 0..MaxCold,
            gen : 0..MaxGen]
Spend(b) == /\ spent[b] < spent.max[b]
            /\ spent' = [spent EXCEPT ![b] = @ + 1]
--------------------------------------------------------------------------------
(* AstIndexJobQueue: the jobs that wait or run, and the merges in progress.       *)

Flushers == {"timer", "call"}
NoMerge == [job |-> 0, ups |-> {}, dels |-> {}, more |-> FALSE]
FreeId == CHOOSE n \in 1..(Len(jobs) + 3) :
            /\ \A i \in DOMAIN jobs : jobs[i].id # n
            /\ \A f \in Flushers : flush[f].job # n
Job(kind, ups, dels) ==
    [id |-> FreeId, kind |-> kind, status |-> "pending", ups |-> ups, dels |-> dels]

PendingDirty == {i \in DOMAIN jobs : jobs[i].kind = "dirty" /\ jobs[i].status = "pending"}
\* The newest pending dirty job (created_at DESC LIMIT 1).
MergeTarget == CHOOSE i \in PendingDirty : \A j \in PendingDirty : j <= i
ColdQueued == \E i \in DOMAIN jobs : jobs[i].kind = "cold_start"
EnsureMeta == IF meta = None THEN ColdMeta ELSE meta

=============================================================================
