--------------------------- MODULE AstIndexProofs ---------------------------
(* For every finite set of files and every number of edits and faults: the       *)
(* content-hash skip is safe, the variables keep their types and no change is    *)
(* lost as long as no cold start is asked for.                                   *)
EXTENDS AstIndex, FiniteSetTheorems, SequenceTheorems, WellFoundedInduction,
        TLAPS

\* The fields of the indexer's projection and of its current job.
WorkerShape ==
    /\ wproj = [status |-> wproj.status, gen |-> wproj.gen, short |-> wproj.short,
                files |-> wproj.files]
    /\ work = [pc |-> work.pc, job |-> work.job, gen |-> work.gen, ups |-> work.ups,
               dels |-> work.dels, todo |-> work.todo, found |-> work.found,
               fresh |-> work.fresh]
    /\ work.found = [p \in Paths |-> work.found[p]]

\* A cold start begins with nothing parsed, and what it parsed is stored or in the batch.
BatchStored ==
    /\ work.pc \in {"cold_start", "walk"} => \A p \in Paths : work.found[p] = Absent
    /\ work.pc = "parse" =>
        \A p \in Paths : work.found[p] # Absent /\ p \notin work.fresh => rows[p] = work.found[p]

SkipInv == WorkerShape /\ BatchStored /\ SkipSafe

LEMMA InitSkip == Init => SkipInv
  <1> SUFFICES ASSUME Init PROVE SkipInv  OBVIOUS
  <1>1. WorkerShape
    BY DEF Init, WorkerShape, Idle, Fresh, Warm, NoProj, Load
  <1>2. BatchStored
    BY DEF Init, BatchStored, Idle
  <1>3. SkipSafe
    BY DEF Init, SkipSafe, Fresh, Warm, NoProj, Load
  <1> QED  BY <1>1, <1>2, <1>3 DEF SkipInv

\* Only the indexer changes its own state and the rows.
LEMMA OthersKeep ==
    ASSUME Change \/ Runtime \/ UNCHANGED vars
    PROVE  UNCHANGED <<rows, wproj, work>>
  <1>1. Change => UNCHANGED <<rows, wproj, work>>
    BY DEF Change, EditFile, RenameFile, Command, dbVars, workerVars
  <1>2. Runtime => UNCHANGED <<rows, wproj, work>>
    <2>1. TimerFire \/ FlushFail \/ (\E f \in Flushers : FlushMerge(f))
            => UNCHANGED <<rows, wproj, work>>
      BY DEF TimerFire, FlushFail, FlushMerge, dbVars, workerVars
    <2>2. (\E S, evict : Poll(S, evict)) \/ (\E p \in Paths : Locate(p))
            => UNCHANGED <<rows, wproj, work>>
      BY DEF Poll, Locate, dbVars, workerVars
    <2>3. StatusStep => UNCHANGED <<rows, wproj, work>>
      BY DEF StatusStep, StatusCold, StatusSync, StatusMeta, StatusLoad, StatusReload, Sync,
             StatusCount, StatusRequeue, dbVars, workerVars
    <2>4. Rebuild \/ RuntimeCrash \/ (\E r \in Requests : Request(r))
            => UNCHANGED <<rows, wproj, work>>
      BY DEF Rebuild, RuntimeCrash, Request, ReqCheck, ReqInsert, ReqEnsure, ReqMark,
             dbVars, workerVars
    <2> QED  BY <2>1, <2>2, <2>3, <2>4 DEF Runtime
  <1>3. UNCHANGED vars => UNCHANGED <<rows, wproj, work>>
    BY DEF vars, dbVars, workerVars
  <1> QED  BY <1>1, <1>2, <1>3

LEMMA QueueSkip ==
    ASSUME SkipInv, Claim \/ Reclaim \/ MarkDone \/ DirtySkip \/ WorkerCrash
    PROVE  SkipInv'
  <1>1. CASE Claim
    <2>1. PICK i \in DOMAIN jobs :
            work' = [Idle EXCEPT !.pc   = jobs[i].kind,
                                 !.job  = jobs[i].id,
                                 !.ups  = jobs[i].ups,
                                 !.dels = jobs[i].dels]
      BY <1>1 DEF Claim
    <2>2. /\ work' = [pc |-> work'.pc, job |-> work'.job, gen |-> work'.gen, ups |-> work'.ups,
                      dels |-> work'.dels, todo |-> work'.todo, found |-> work'.found,
                      fresh |-> work'.fresh]
          /\ work'.found = [p \in Paths |-> Absent] /\ work'.fresh = {}
      BY <2>1 DEF Idle
    <2>3. \A p \in Paths : work'.found[p] = Absent
      BY <2>2
    <2>4. work'.found = [p \in Paths |-> work'.found[p]]
      BY <2>2
    <2>5. UNCHANGED <<rows, wproj>>
      BY <1>1 DEF Claim
    <2> QED  BY <2>2, <2>3, <2>4, <2>5 DEF SkipInv, WorkerShape, BatchStored, SkipSafe
  <1>2. CASE Reclaim
    BY <1>2 DEF Reclaim, SkipInv, WorkerShape, BatchStored, SkipSafe, workerVars
  <1>3. CASE MarkDone
    BY <1>3 DEF MarkDone, SkipInv, WorkerShape, BatchStored, SkipSafe, Idle
  <1>4. CASE DirtySkip
    BY <1>4 DEF DirtySkip, WGo, SkipInv, WorkerShape, BatchStored, SkipSafe, dbVars
  <1>5. CASE WorkerCrash
    BY <1>5 DEF WorkerCrash, SkipInv, WorkerShape, BatchStored, SkipSafe, Idle, NoProj, dbVars
  <1> QED  BY <1>1, <1>2, <1>3, <1>4, <1>5

LEMMA DirtySkipSafe ==
    ASSUME SkipInv, DirtyBegin \/ DirtyCommit \/ DirtyFail
    PROVE  SkipInv'
  <1>1. CASE DirtyBegin
    BY <1>1 DEF DirtyBegin, SkipInv, WorkerShape, BatchStored, SkipSafe, Forget, Parsed
  <1>2. CASE DirtyCommit
    BY <1>2 DEF DirtyCommit, WGo, SkipInv, WorkerShape, BatchStored, SkipSafe, Overlay, Present,
                Load, NoProj
  <1>3. CASE DirtyFail
    BY <1>3 DEF DirtyFail, WGo, SkipInv, WorkerShape, BatchStored, SkipSafe, dbVars
  <1> QED  BY <1>1, <1>2, <1>3

LEMMA ColdSkipSafe ==
    ASSUME SkipInv,
           ColdBegin \/ ColdWalk \/ (\E p \in Paths : ColdParse(p)) \/ ColdBatch \/ ColdFinish
           \/ ColdFail
    PROVE  SkipInv'
  <1>1. CASE ColdBegin
    BY <1>1 DEF ColdBegin, SkipInv, WorkerShape, BatchStored, SkipSafe
  <1>6. CASE ColdWalk
    BY <1>6 DEF ColdWalk, Building, SkipInv, WorkerShape, BatchStored, SkipSafe, Load
  <1>2. CASE \E p \in Paths : ColdParse(p)
    <2>1. PICK q \in Paths : ColdParse(q)
      BY <1>2
    <2>2. work.pc = "parse" /\ UNCHANGED <<rows, wproj>>
      BY <2>1 DEF ColdParse, dbVars
    <2>3. work' = [pc |-> work.pc, job |-> work.job, gen |-> work.gen, ups |-> work.ups,
                   dels |-> work.dels, todo |-> work.todo \ {q},
                   found |-> [work.found EXCEPT ![q] = disk[q]],
                   fresh |-> IF disk[q] = Absent THEN work.fresh ELSE work.fresh \cup {q}]
      BY <2>1 DEF ColdParse, SkipInv, WorkerShape
    <2>4. work'.found = [p \in Paths |-> IF p = q THEN disk[q] ELSE work.found[p]]
      BY <2>3 DEF SkipInv, WorkerShape
    <2>5. WorkerShape'
      BY <2>2, <2>3, <2>4 DEF SkipInv, WorkerShape
    <2>6. BatchStored'
      BY <2>2, <2>3, <2>4 DEF SkipInv, BatchStored
    <2> QED  BY <2>2, <2>5, <2>6 DEF SkipInv, SkipSafe
  <1>3. CASE ColdBatch
    BY <1>3 DEF ColdBatch, SkipInv, WorkerShape, BatchStored, SkipSafe, Overlay, FreshEntries, Load
  <1>4. CASE ColdFinish
    BY <1>4 DEF ColdFinish, WGo, SkipInv, WorkerShape, BatchStored, SkipSafe, Load
  <1>5. CASE ColdFail
    BY <1>5 DEF ColdFail, WGo, SkipInv, WorkerShape, BatchStored, SkipSafe, Load
  <1> QED  BY <1>1, <1>2, <1>3, <1>4, <1>5, <1>6

\* The content-hash skip of the indexer's _handle_dirty never leaves out a write the database
\* needs: what the indexer remembers of a file is what work_ast_files holds, after any
\* interleaving with crashes, failed writes, deletes and cold starts.
THEOREM SkipIsSafe == Spec => []SkipSafe
  <1>1. SkipInv /\ [Next]_vars => SkipInv'
    <2> SUFFICES ASSUME SkipInv, [Next]_vars PROVE SkipInv'  OBVIOUS
    <2>1. CASE Change \/ Runtime \/ UNCHANGED vars
      <3>1. UNCHANGED <<rows, wproj, work>>  BY <2>1, OthersKeep
      <3> QED  BY <3>1 DEF SkipInv, WorkerShape, BatchStored, SkipSafe
    <2>2. CASE Worker
      BY <2>2, QueueSkip, DirtySkipSafe, ColdSkipSafe DEF Worker, WorkerStep
    <2> QED  BY <2>1, <2>2 DEF Next
  <1>2. SkipInv => SkipSafe  BY DEF SkipInv
  <1> QED  BY InitSkip, <1>1, <1>2, PTL DEF Spec

--------------------------------------------------------------------------------
(* Types.                                                                         *)

\* Fewer jobs and merges than candidates: there is always a free id.
LEMMA FreeIds ==
    ASSUME TypeOK
    PROVE  /\ FreeId \in Nat
           /\ \A i \in DOMAIN jobs : jobs[i].id # FreeId
           /\ \A f \in Flushers : flush[f].job # FreeId
  <1>. DEFINE n == Len(jobs)
              S == 1..(n + 3)
              T == 1..(n + 2)
              Slot(k) == IF k <= n THEN jobs[k].id
                         ELSE IF k = n + 1 THEN flush["timer"].job ELSE flush["call"].job
  <1>1. n \in Nat /\ DOMAIN jobs = 1..n
    BY DEF TypeOK
  <1>2. \E m \in S : \A k \in T : Slot(k) # m
    <2>. SUFFICES ASSUME \A m \in S : \E k \in T : Slot(k) = m PROVE FALSE
      OBVIOUS
    <2>. DEFINE at == [m \in S |-> CHOOSE k \in T : Slot(k) = m]
    <2>1. \A m \in S : at[m] \in T /\ Slot(at[m]) = m
      OBVIOUS
    <2>2. at \in [S -> T]
      BY <2>1
    <2>3. IsFiniteSet(S) /\ Cardinality(S) = n + 3
      BY <1>1, FS_Interval
    <2>4. IsFiniteSet(T) /\ Cardinality(T) = n + 2
      BY <1>1, FS_Interval
    <2>5. \E x, y \in S : x # y /\ at[x] = at[y]
      <3>. HIDE DEF at, S, T
      <3>1. Cardinality(T) < Cardinality(S)
        BY <1>1, <2>3, <2>4
      <3>. QED
        BY <2>2, <2>3, <2>4, <3>1, FS_PigeonHole
    <2>. QED
      BY <2>1, <2>5
  <1>3. PICK m \in S : \A k \in T : Slot(k) # m
    BY <1>2
  <1>4. \A i \in DOMAIN jobs : jobs[i].id # m
    BY <1>1, <1>3
  <1>5. flush["timer"].job # m /\ flush["call"].job # m
    BY <1>1, <1>3
  <1>6. \E k \in S : /\ \A i \in DOMAIN jobs : jobs[i].id # k
                     /\ \A f \in Flushers : flush[f].job # k
    BY <1>4, <1>5 DEF Flushers
  <1>. QED
    BY <1>1, <1>6 DEF FreeId


\* The job a flush merges into is one of the queue.
LEMMA MergeTargets ==
    ASSUME TypeOK, PendingDirty # {}
    PROVE  MergeTarget \in PendingDirty
  <1>. DEFINE n == Len(jobs)
              T == {n - i : i \in PendingDirty}
  <1>1. n \in Nat /\ PendingDirty \subseteq 1..n
    BY DEF TypeOK, PendingDirty
  <1>2. T \subseteq Nat /\ T # {}
    <2>1. \A i \in PendingDirty : n - i \in Nat
      BY <1>1
    <2>. QED
      BY <2>1
  <1>3. PICK m \in T : \A k \in T : ~(<<k, m>> \in OpToRel(<, Nat))
    <2>. HIDE DEF T
    <2>. QED
      BY <1>2, NatLessThanWellFounded, WFMin
  <1>4. \A k \in T : ~(k < m)
    BY <1>2, <1>3 DEF OpToRel
  <1>5. PICK i \in PendingDirty : m = n - i
    BY <1>3
  <1>6. \A j \in PendingDirty : j <= i
    <2>. SUFFICES ASSUME NEW j \in PendingDirty PROVE j <= i
      OBVIOUS
    <2>1. ~(n - j < n - i)
      BY <1>4, <1>5
    <2>. QED
      BY <1>1, <1>5, <2>1
  <1>. QED
    BY <1>6 DEF MergeTarget

Events == [Paths -> {"none", "upsert", "delete"}]
Merges == [job : Nat, ups : SUBSET Paths, dels : SUBSET Paths, more : BOOLEAN]
Spendings == [edits : Nat, faults : Nat, cold : Nat, max : Budgets]
Within == \A b \in DOMAIN Bound : spent[b] <= spent.max[b]

LEMMA SpendTypes ==
    ASSUME TypeOK, NEW b \in {"edits", "faults", "cold"}, Spend(b)
    PROVE  /\ spent' \in Spendings /\ Within'
           /\ b = "edits" => Now \in 1..MaxEdits
  <1>1. spent \in Spendings /\ Within /\ DOMAIN Bound = {"edits", "faults", "cold"}
    BY DEF TypeOK, Spendings, Within, Bound
  <1>2. spent' = [spent EXCEPT ![b] = @ + 1] /\ spent[b] < spent.max[b]
    BY DEF Spend
  <1>3. \A c \in {"edits", "faults", "cold"} :
            spent.max[c] \in Nat /\ spent[c] \in Nat
    BY <1>1, AstAssumption DEF Spendings, Budgets
  <1>4. spent' \in Spendings
    BY <1>1, <1>2, <1>3 DEF Spendings
  <1>5. spent'.max = spent.max
    BY <1>1, <1>2 DEF Spendings
  <1>6. \A c \in {"edits", "faults", "cold"} : spent'[c] <= spent.max[c]
    BY <1>1, <1>2, <1>3 DEF Within, Spendings
  <1>7. b = "edits" => Now \in 1..MaxEdits
    BY <1>1, <1>2, <1>3, AstAssumption DEF Now, Spendings, Budgets
  <1>. QED
    BY <1>1, <1>4, <1>5, <1>6, <1>7 DEF Within, Bound

LEMMA MarkedTypes ==
    ASSUME NEW ev \in Events, NEW S, NEW kind \in {"upsert", "delete"}
    PROVE  Marked(ev, S, kind) \in Events
  BY DEF Marked, Events

LEMMA GcTypes ==
    ASSUME NEW pr \in Projs, NEW d
    PROVE  GcProj(pr, d) \in Projs
  BY DEF GcProj, Projs, Entries

LEMMA ScanTypes ==
    ASSUME TypeOK, NEW d, NEW S, Scan(d, S)
    PROVE  events' \in Events /\ timer' \in BOOLEAN
  <1>1. events \in Events /\ timer \in BOOLEAN
    BY DEF TypeOK, Events
  <1>2. events' \in Events
    BY <1>1, MarkedTypes DEF Scan
  <1>3. timer' \in BOOLEAN
    BY <1>1 DEF Scan, Armed
  <1>. QED
    BY <1>2, <1>3

LEMMA LightScanTypes ==
    ASSUME TypeOK, NEW d, NEW S, LightScan(d, S)
    PROVE  proj' \in Projs /\ events' \in Events /\ timer' \in BOOLEAN
  <1>1. CASE proj = NoProj
    BY <1>1 DEF LightScan, TypeOK, Events
  <1>2. CASE proj # NoProj
    BY <1>2, GcTypes, ScanTypes DEF LightScan, TypeOK
  <1>. QED
    BY <1>1, <1>2

LEMMA ChangeTypes ==
    ASSUME TypeOK, Change
    PROVE  TypeOK'
  <1>1. ASSUME NEW p \in Paths, NEW c \in Contents, EditFile(p, c) PROVE TypeOK'
    <2>1. disk' \in [Paths -> Entries]
      BY <1>1, SpendTypes DEF EditFile, Stamp, Entries, TypeOK
    <2>2. spent' \in Spendings /\ Within'
      BY <1>1, SpendTypes DEF EditFile
    <2>3. events' \in Events /\ timer' \in BOOLEAN
      BY <1>1, MarkedTypes DEF EditFile, Notify, Armed, TypeOK, Events
    <2>4. UNCHANGED <<rows, meta, jobs, proj, flush, call, req, wproj, work>>
      BY <1>1 DEF EditFile, dbVars, workerVars
    <2>. QED
      BY <2>1, <2>2, <2>3, <2>4 DEF TypeOK, Events, Spendings, Within
  <1>2. ASSUME NEW p \in Paths, NEW q \in Paths, RenameFile(p, q) PROVE TypeOK'
    <2>1. disk' \in [Paths -> Entries]
      BY <1>2 DEF RenameFile, Entries, TypeOK
    <2>2. spent' \in Spendings /\ Within'
      BY <1>2, SpendTypes DEF RenameFile
    <2>3. events' \in Events /\ timer' \in BOOLEAN
      BY <1>2, MarkedTypes DEF RenameFile, Notify, Armed, TypeOK, Events
    <2>4. UNCHANGED <<rows, meta, jobs, proj, flush, call, req, wproj, work>>
      BY <1>2 DEF RenameFile, dbVars, workerVars
    <2>. QED
      BY <2>1, <2>2, <2>3, <2>4 DEF TypeOK, Events, Spendings, Within
  <1>3. ASSUME NEW p \in Paths, NEW e, NEW code \in {0, 1}, Command(p, e, code),
               e = Absent \/ \E c \in Contents : e = Stamp(c)
        PROVE TypeOK'
    <2>1. disk' \in [Paths -> Entries]
      BY <1>3, SpendTypes DEF Command, Stamp, Entries, TypeOK
    <2>2. spent' \in Spendings /\ Within'
      BY <1>3, SpendTypes DEF Command
    <2>3. proj' \in Projs /\ events' \in Events /\ timer' \in BOOLEAN
      BY <1>3, LightScanTypes DEF Command, TypeOK, Events
    <2>4. UNCHANGED <<rows, meta, jobs, flush, call, req, wproj, work>>
      BY <1>3 DEF Command, dbVars, workerVars
    <2>. QED
      BY <2>1, <2>2, <2>3, <2>4 DEF TypeOK, Events, Spendings, Within
  <1>. QED
    BY <1>1, <1>2, <1>3 DEF Change

LEMMA JobTypes ==
    ASSUME TypeOK, NEW kind \in {"dirty", "cold_start"}, NEW ups \in SUBSET Paths,
           NEW dels \in SUBSET Paths
    PROVE  Append(jobs, Job(kind, ups, dels)) \in Seq(JobRows)
  <1>1. Job(kind, ups, dels) \in JobRows
    BY FreeIds DEF Job, JobRows
  <1>. QED
    BY <1>1 DEF TypeOK

LEMMA FlushTypes ==
    ASSUME TypeOK, NEW f \in Flushers, NEW ev \in Events, Flush(f, ev)
    PROVE  /\ jobs' \in Seq(JobRows) /\ flush' \in [Flushers -> Merges]
           /\ events' \in Events /\ timer' \in BOOLEAN
  <1>1. CASE Queued(ev) = {} /\ events' = ev /\ timer' = FALSE /\ UNCHANGED <<jobs, flush>>
    BY <1>1 DEF TypeOK, Merges
  <1>2. ASSUME NEW B \in SUBSET Paths,
               NEW ups, ups = {p \in B : ev[p] = "upsert"},
               NEW dels, dels = {p \in B : ev[p] = "delete"},
               NEW more \in BOOLEAN,
               events' = [p \in Paths |-> IF p \in B THEN "none" ELSE ev[p]],
               IF PendingDirty = {}
               THEN /\ jobs' = Append(jobs, Job("dirty", ups, dels))
                    /\ timer' = more
                    /\ UNCHANGED flush
               ELSE LET j == jobs[MergeTarget]
                    IN  /\ flush' = [flush EXCEPT ![f] =
                                       [job  |-> j.id,
                                        ups  |-> (j.ups \cup ups) \ (j.dels \cup dels),
                                        dels |-> j.dels \cup dels,
                                        more |-> more]]
                        /\ timer' = FALSE
                        /\ UNCHANGED jobs
        PROVE  /\ jobs' \in Seq(JobRows) /\ flush' \in [Flushers -> Merges]
               /\ events' \in Events /\ timer' \in BOOLEAN
    <2>1. events' \in Events
      BY <1>2 DEF Events
    <2>2. ups \subseteq Paths /\ dels \subseteq Paths /\ flush \in [Flushers -> Merges]
      BY <1>2 DEF TypeOK, Merges
    <2>3. CASE PendingDirty = {}
      <3>1. Append(jobs, Job("dirty", ups, dels)) \in Seq(JobRows)
        BY <2>2, JobTypes
      <3>. QED
        BY <1>2, <2>1, <2>2, <2>3, <3>1
    <2>4. CASE PendingDirty # {}
      <3>1. jobs[MergeTarget] \in JobRows /\ jobs \in Seq(JobRows)
        BY <2>4, MergeTargets DEF PendingDirty, TypeOK
      <3>. DEFINE j == jobs[MergeTarget]
                  m == [job  |-> j.id,
                        ups  |-> (j.ups \cup ups) \ (j.dels \cup dels),
                        dels |-> j.dels \cup dels,
                        more |-> more]
      <3>2. m \in Merges
        BY <1>2, <2>2, <3>1 DEF Merges, JobRows
      <3>3. flush' = [flush EXCEPT ![f] = m] /\ timer' = FALSE /\ jobs' = jobs
        BY <1>2, <2>4
      <3>. QED
        BY <2>1, <2>2, <3>1, <3>2, <3>3
    <2>. QED
      BY <2>3, <2>4
  <1>. QED
    BY <1>1, <1>2 DEF Flush

LEMMA QueueTypes ==
    ASSUME TypeOK, TimerFire \/ FlushFail \/ (\E f \in Flushers : FlushMerge(f))
    PROVE  TypeOK'
  <1>1. CASE TimerFire
    <2>1. /\ jobs' \in Seq(JobRows) /\ flush' \in [Flushers -> Merges]
          /\ events' \in Events /\ timer' \in BOOLEAN
      BY <1>1, FlushTypes DEF TimerFire, Flushers, TypeOK, Events
    <2>2. UNCHANGED <<disk, rows, meta, proj, call, req, wproj, work, spent>>
      BY <1>1 DEF TimerFire, workerVars
    <2>. QED
      BY <2>1, <2>2 DEF TypeOK, Events, Merges
  <1>2. CASE FlushFail
    <2>1. spent' \in Spendings /\ Within' /\ timer' \in BOOLEAN
      BY <1>2, SpendTypes DEF FlushFail
    <2>2. UNCHANGED <<disk, rows, meta, jobs, proj, events, flush, call, req, wproj, work>>
      BY <1>2 DEF FlushFail, dbVars, workerVars
    <2>. QED
      BY <2>1, <2>2 DEF TypeOK, Spendings, Within
  <1>3. ASSUME NEW f \in Flushers, FlushMerge(f) PROVE TypeOK'
    <2>1. flush[f] \in Merges /\ flush' = [flush EXCEPT ![f] = NoMerge]
      BY <1>3 DEF FlushMerge, TypeOK, Merges
    <2>2. flush' \in [Flushers -> Merges] /\ timer' \in BOOLEAN
      BY <1>3, <2>1 DEF FlushMerge, TypeOK, Merges, NoMerge
    <2>3. jobs' \in Seq(JobRows)
      <3>1. jobs' = Merged(flush[f]) /\ jobs \in Seq(JobRows)
        BY <1>3 DEF FlushMerge, TypeOK
      <3>2. ASSUME NEW i \in DOMAIN jobs PROVE Merged(flush[f])[i] \in JobRows
        <4>1. jobs[i] \in JobRows
          BY <3>1
        <4>2. [jobs[i] EXCEPT !.ups = flush[f].ups, !.dels = flush[f].dels] \in JobRows
          BY <2>1, <4>1 DEF JobRows, Merges
        <4>. QED
          BY <4>1, <4>2 DEF Merged
      <3>3. Merged(flush[f]) = [i \in DOMAIN jobs |-> Merged(flush[f])[i]]
        BY DEF Merged
      <3>4. DOMAIN jobs = 1..Len(jobs) /\ Len(jobs) \in Nat
        BY <3>1
      <3>. QED
        BY <3>1, <3>2, <3>3, <3>4, SeqDef
    <2>4. UNCHANGED <<disk, rows, meta, proj, events, call, req, wproj, work, spent>>
      BY <1>3 DEF FlushMerge, workerVars
    <2>. QED
      BY <2>2, <2>3, <2>4 DEF TypeOK, Merges
  <1>. QED
    BY <1>1, <1>2, <1>3

LEMMA PollTypes ==
    ASSUME TypeOK,
           (\E S, evict : Poll(S, evict)) \/ (\E p \in Paths : Locate(p))
    PROVE  TypeOK'
  <1>1. ASSUME NEW S, NEW evict, Poll(S, evict) PROVE TypeOK'
    <2>1. proj' \in Projs /\ events' \in Events /\ timer' \in BOOLEAN
      <3>1. CASE evict
        <4>1. NoProj \in Projs
          BY AstAssumption DEF NoProj, Projs, Statuses, Entries
        <4>. QED
          BY <1>1, <3>1, <4>1, ScanTypes DEF Poll
      <3>2. CASE ~evict
        BY <1>1, <3>2, LightScanTypes DEF Poll
      <3>. QED
        BY <3>1, <3>2
    <2>2. UNCHANGED <<disk, rows, meta, jobs, flush, call, req, wproj, work, spent>>
      BY <1>1 DEF Poll, dbVars, workerVars
    <2>. QED
      BY <2>1, <2>2 DEF TypeOK, Events
  <1>2. ASSUME NEW p \in Paths, Locate(p) PROVE TypeOK'
    <2>1. events' \in Events /\ timer' \in BOOLEAN
      <3>1. PICK writes, removes : Notify(writes, removes)
        BY <1>2 DEF Locate
      <3>2. events \in Events /\ timer \in BOOLEAN
        BY DEF TypeOK, Events
      <3>. QED
        BY <3>1, <3>2, MarkedTypes DEF Notify, Armed
    <2>2. UNCHANGED <<disk, rows, meta, jobs, proj, flush, call, req, wproj, work, spent>>
      BY <1>2 DEF Locate, dbVars, workerVars
    <2>. QED
      BY <2>1, <2>2 DEF TypeOK, Events
  <1>. QED
    BY <1>1, <1>2

Asks == [Requests -> [pc : {"idle", "check", "insert", "ensure", "mark"}, meta : Metas]]

LEMMA Nones ==
    /\ None \in Metas /\ ColdMeta \in Metas /\ NoProj \in Projs
    /\ NoMerge \in Merges
  BY AstAssumption DEF None, ColdMeta, NoProj, NoMerge, Metas, Projs, Statuses, Entries, Merges

LEMMA LoadTypes ==
    ASSUME NEW m \in Metas, NEW f \in [Paths -> Entries]
    PROVE  Load(m, f) \in Projs
  BY DEF Load, Metas, Projs

\* The runtime's requests for a cold start are asked within their bound.
LEMMA AskTypes ==
    ASSUME TypeOK, NEW cold, MayAskCold(cold)
    PROVE  req' \in Asks /\ spent' \in Spendings /\ Within'
  <1>1. req \in Asks /\ spent \in Spendings /\ Within
    BY DEF TypeOK, Asks, Spendings, Within
  <1>2. CASE UNCHANGED <<req, spent>>
    BY <1>1, <1>2 DEF Within
  <1>3. CASE AskCold
    BY <1>1, <1>3, SpendTypes DEF AskCold, Asks
  <1>. QED
    BY <1>2, <1>3 DEF MayAskCold

Calls == [pc : {"idle", "load", "reload", "count", "requeue"}, meta : Metas]

LEMMA CallTypes == NoCall \in Calls /\ At("count") \in Calls /\ At("requeue") \in Calls
  BY Nones DEF NoCall, At, Calls

LEMMA SyncTypes ==
    ASSUME TypeOK, NEW pr \in Projs, Sync(pr)
    PROVE  TypeOK'
  <1>1. proj' \in Projs /\ UNCHANGED <<disk, rows, meta, req, wproj, work, spent>>
    BY GcTypes DEF Sync, workerVars
  <1>2. Collected(pr) \in Events
    BY MarkedTypes DEF Collected, TypeOK, Events
  <1>3. CASE Newer(pr)
    <2>1. /\ call' \in Calls /\ events' \in Events /\ timer' \in BOOLEAN
          /\ UNCHANGED <<jobs, flush>>
      BY <1>2, <1>3 DEF Sync, Calls, TypeOK
    <2>. QED
      BY <1>1, <2>1 DEF TypeOK, Calls, Events
  <1>4. CASE ~Newer(pr)
    <2>1. call' \in Calls /\ Flush("call", Collected(pr))
      BY <1>4, CallTypes DEF Sync
    <2>2. /\ jobs' \in Seq(JobRows) /\ flush' \in [Flushers -> Merges]
          /\ events' \in Events /\ timer' \in BOOLEAN
      BY <1>2, <2>1, FlushTypes DEF Flushers
    <2>. QED
      BY <1>1, <2>1, <2>2 DEF TypeOK, Calls, Events, Merges
  <1>. QED
    BY <1>3, <1>4

LEMMA StatusTypes ==
    ASSUME TypeOK, StatusStep \/ Rebuild
    PROVE  TypeOK'
  <1>1. CASE StatusCold
    <2>1. meta' \in Metas /\ req' \in Asks /\ spent' \in Spendings /\ Within'
      BY <1>1, AskTypes, Nones DEF StatusCold
    <2>2. UNCHANGED <<disk, rows, jobs, proj, events, timer, flush, call, wproj, work>>
      BY <1>1 DEF StatusCold, workerVars
    <2>. QED
      BY <2>1, <2>2 DEF TypeOK, Asks, Spendings, Within
  <1>2. CASE StatusSync \/ StatusLoad
    <2>1. PICK pr \in Projs : Sync(pr)
      BY <1>2, LoadTypes DEF StatusSync, StatusLoad, TypeOK
    <2>. QED
      BY <2>1, SyncTypes
  <1>6. CASE StatusMeta
    <2>1. call' \in Calls
      BY <1>6 DEF StatusMeta, TypeOK, Calls
    <2>2. UNCHANGED <<disk, rows, meta, jobs, proj, events, timer, flush, req, wproj, work, spent>>
      BY <1>6 DEF StatusMeta, dbVars, workerVars
    <2>. QED
      BY <2>1, <2>2 DEF TypeOK, Calls
  <1>7. CASE StatusReload
    <2>. DEFINE pr == Load(call.meta, rows)
    <2>1. pr \in Projs
      BY LoadTypes DEF TypeOK
    <2>2. proj' \in Projs
      BY <1>7, <2>1, GcTypes DEF StatusReload
    <2>3. Flush("call", Collected(pr))
      BY <1>7 DEF StatusReload
    <2>4. Collected(pr) \in Events
      BY MarkedTypes DEF Collected, TypeOK, Events
    <2>5. /\ jobs' \in Seq(JobRows) /\ flush' \in [Flushers -> Merges]
          /\ events' \in Events /\ timer' \in BOOLEAN
      BY <2>3, <2>4, FlushTypes DEF Flushers
    <2>6. call' \in Calls /\ UNCHANGED <<disk, rows, meta, req, wproj, work, spent>>
      BY <1>7, CallTypes DEF StatusReload, workerVars
    <2>. QED
      BY <2>2, <2>5, <2>6 DEF TypeOK, Events, Merges, Calls
  <1>3. CASE StatusCount
    <2>1. req' \in Asks /\ spent' \in Spendings /\ Within' /\ call' \in Calls
      BY <1>3, AskTypes, CallTypes DEF StatusCount, EndCall, TypeOK, Asks, Spendings, Within
    <2>2. UNCHANGED <<disk, rows, meta, jobs, proj, events, timer, flush, wproj, work>>
      BY <1>3 DEF StatusCount, dbVars, workerVars
    <2>. QED
      BY <2>1, <2>2 DEF TypeOK, Calls, Asks, Spendings, Within
  <1>4. CASE StatusRequeue
    <2>1. PICK ev \in Events : Flush("call", ev)
      BY <1>4, MarkedTypes DEF StatusRequeue, TypeOK, Events
    <2>2. /\ jobs' \in Seq(JobRows) /\ flush' \in [Flushers -> Merges]
          /\ events' \in Events /\ timer' \in BOOLEAN
      BY <2>1, FlushTypes DEF Flushers
    <2>3. req' \in Asks /\ spent' \in Spendings /\ Within' /\ call' \in Calls
      BY <1>4, AskTypes, CallTypes DEF StatusRequeue, EndCall
    <2>4. UNCHANGED <<disk, rows, meta, proj, wproj, work>>
      BY <1>4 DEF StatusRequeue, workerVars
    <2>. QED
      BY <2>2, <2>3, <2>4 DEF TypeOK, Events, Merges, Calls, Asks, Spendings, Within
  <1>5. CASE Rebuild
    <2>1. req' \in Asks /\ spent' \in Spendings /\ Within'
      BY <1>5, AskTypes DEF Rebuild, MayAskCold
    <2>2. UNCHANGED <<disk, rows, meta, jobs, proj, events, timer, flush, call, wproj, work>>
      BY <1>5 DEF Rebuild, dbVars, workerVars
    <2>. QED
      BY <2>1, <2>2 DEF TypeOK, Asks, Spendings, Within
  <1>. QED
    BY <1>1, <1>2, <1>3, <1>4, <1>5, <1>6, <1>7 DEF StatusStep

LEMMA RequestTypes ==
    ASSUME TypeOK, RuntimeCrash \/ (\E r \in Requests : Request(r))
    PROVE  TypeOK'
  <1>1. req \in Asks /\ meta \in Metas /\ EnsureMeta \in Metas
    BY Nones DEF TypeOK, Asks, EnsureMeta
  <1>2. ASSUME NEW r \in Requests, ReqCheck(r) \/ ReqEnsure(r) \/ ReqMark(r) PROVE TypeOK'
    <2>1. req' \in Asks
      BY <1>1, <1>2, Nones DEF ReqCheck, ReqEnsure, ReqMark, Asks
    <2>2. meta' \in Metas
      BY <1>1, <1>2 DEF ReqCheck, ReqEnsure, ReqMark, dbVars, Asks, Metas, Statuses
    <2>3. UNCHANGED <<disk, rows, jobs, proj, events, timer, flush, call, wproj, work, spent>>
      BY <1>2 DEF ReqCheck, ReqEnsure, ReqMark, dbVars, workerVars
    <2>. QED
      BY <2>1, <2>2, <2>3 DEF TypeOK, Asks
  <1>3. ASSUME NEW r \in Requests, ReqInsert(r) PROVE TypeOK'
    <2>1. req' \in Asks
      BY <1>1, <1>3 DEF ReqInsert, Asks
    <2>2. jobs' \in Seq(JobRows)
      BY <1>3, JobTypes DEF ReqInsert
    <2>3. UNCHANGED <<disk, rows, meta, proj, events, timer, flush, call, wproj, work, spent>>
      BY <1>3 DEF ReqInsert, workerVars
    <2>. QED
      BY <2>1, <2>2, <2>3 DEF TypeOK, Asks
  <1>4. CASE RuntimeCrash
    <2>1. spent' \in Spendings /\ Within'
      BY <1>4, SpendTypes DEF RuntimeCrash
    <2>2. /\ proj' \in Projs /\ events' \in Events /\ timer' \in BOOLEAN
          /\ flush' \in [Flushers -> Merges] /\ call' \in Calls /\ req' \in Asks
      BY <1>4, Nones, CallTypes DEF RuntimeCrash, Events, Asks
    <2>3. UNCHANGED <<disk, rows, meta, jobs, wproj, work>>
      BY <1>4 DEF RuntimeCrash, dbVars, workerVars
    <2>. QED
      BY <2>1, <2>2, <2>3 DEF TypeOK, Events, Merges, Calls, Asks, Spendings, Within
  <1>. QED
    BY <1>2, <1>3, <1>4 DEF Request

Works == [pc : {"idle", "dirty", "commit", "cold_start", "walk", "parse", "done"},
          job : Nat, gen : 0..MaxGen, ups : SUBSET Paths, dels : SUBSET Paths,
          todo : SUBSET Paths, found : [Paths -> Entries], fresh : SUBSET Paths]

LEMMA IdleTypes == Idle \in Works
  BY AstAssumption DEF Idle, Works, Entries

\* A queue with one entry for each of the first n numbers is a queue.
LEMMA QueueOf ==
    ASSUME NEW T, NEW n \in Nat, NEW s, s = [i \in 1..n |-> s[i]], \A i \in 1..n : s[i] \in T
    PROVE  s \in Seq(T)
  BY SeqDef

LEMMA WorkQueueTypes ==
    ASSUME TypeOK, Claim \/ Reclaim \/ MarkDone
    PROVE  TypeOK'
  <1>1. jobs \in Seq(JobRows) /\ DOMAIN jobs = 1..Len(jobs) /\ Len(jobs) \in Nat
    BY DEF TypeOK
  <1>2. \A i \in DOMAIN jobs : jobs[i] \in JobRows
    BY <1>1
  <1>3. CASE Claim
    <2>1. PICK i \in DOMAIN jobs :
            /\ jobs' = WithStatus(jobs[i].id, "running")
            /\ work' = [Idle EXCEPT !.pc   = jobs[i].kind,
                                    !.job  = jobs[i].id,
                                    !.ups  = jobs[i].ups,
                                    !.dels = jobs[i].dels]
      BY <1>3 DEF Claim
    <2>2. work' \in Works
      BY <1>2, <2>1, IdleTypes DEF Works, JobRows
    <2>3. ASSUME NEW k \in DOMAIN jobs PROVE jobs'[k] \in JobRows
      <3>1. jobs[k] \in JobRows /\ [jobs[k] EXCEPT !.status = "running"] \in JobRows
        BY <1>2 DEF JobRows
      <3>. QED
        BY <2>1, <3>1 DEF WithStatus
    <2>4. jobs' = [k \in DOMAIN jobs |-> jobs'[k]]
      BY <2>1 DEF WithStatus
    <2>5. jobs' \in Seq(JobRows)
      BY <1>1, <2>3, <2>4, QueueOf
    <2>6. UNCHANGED <<disk, rows, meta, proj, events, timer, flush, call, req, wproj, spent>>
      BY <1>3 DEF Claim, runtimeVars
    <2>. QED
      BY <2>2, <2>5, <2>6 DEF TypeOK, Works
  <1>4. CASE Reclaim
    <2>1. jobs' = [k \in DOMAIN jobs |-> [jobs[k] EXCEPT !.status = "pending"]]
      BY <1>4 DEF Reclaim
    <2>2. ASSUME NEW k \in DOMAIN jobs PROVE jobs'[k] \in JobRows
      <3>1. [jobs[k] EXCEPT !.status = "pending"] \in JobRows
        BY <1>2 DEF JobRows
      <3>. QED
        BY <2>1, <3>1
    <2>3. jobs' \in Seq(JobRows)
      BY <1>1, <2>1, <2>2, QueueOf
    <2>4. UNCHANGED <<disk, rows, meta, proj, events, timer, flush, call, req, wproj, work, spent>>
      BY <1>4 DEF Reclaim, runtimeVars, workerVars
    <2>. QED
      BY <2>3, <2>4 DEF TypeOK
  <1>5. CASE MarkDone
    <2>1. jobs' = Without(work.job)
      BY <1>5 DEF MarkDone
    <2>2. \A k \in 1..(Len(jobs) - 1) : jobs'[k] \in JobRows
      <3>1. \A k \in 1..(Len(jobs) - 1) : k \in DOMAIN jobs /\ k + 1 \in DOMAIN jobs
        BY <1>1
      <3>. QED
        BY <1>2, <2>1, <3>1 DEF Without
    <2>3. jobs' = [k \in 1..(Len(jobs) - 1) |-> jobs'[k]]
      BY <2>1 DEF Without
    <2>4. jobs' \in Seq(JobRows)
      <3>1. CASE Len(jobs) = 0
        <4>1. 1..(Len(jobs) - 1) = 1..0
          BY <3>1
        <4>. QED
          BY <2>2, <2>3, <4>1, QueueOf
      <3>2. CASE Len(jobs) # 0
        <4>1. Len(jobs) - 1 \in Nat
          BY <1>1, <3>2
        <4>. QED
          BY <2>2, <2>3, <4>1, QueueOf
      <3>. QED
        BY <3>1, <3>2
    <2>5. work' \in Works
      BY <1>5, IdleTypes DEF MarkDone
    <2>6. UNCHANGED <<disk, rows, meta, proj, events, timer, flush, call, req, wproj, spent>>
      BY <1>5 DEF MarkDone, runtimeVars
    <2>. QED
      BY <2>4, <2>5, <2>6 DEF TypeOK, Works
  <1>. QED
    BY <1>3, <1>4, <1>5

LEMMA OverlayTypes ==
    ASSUME NEW f \in [Paths -> Entries], NEW g \in [Paths -> Entries]
    PROVE  Overlay(f, g) \in [Paths -> Entries]
  BY DEF Overlay

LEMMA DirtyTypes ==
    ASSUME TypeOK, DirtyBegin \/ DirtySkip \/ DirtyCommit \/ DirtyFail \/ WorkerCrash
    PROVE  TypeOK'
  <1>1. /\ disk \in [Paths -> Entries] /\ rows \in [Paths -> Entries]
        /\ meta \in Metas /\ wproj \in Projs /\ work \in Works
        /\ spent \in Spendings /\ Within
    BY DEF TypeOK, Works, Spendings, Within
  <1>2. CASE DirtyBegin
    <2>1. Base.gen + 1 \in 0..MaxGen
      <3>1. Base.gen \in 0..MaxGen /\ spent.max.gen \in 0..MaxGen /\ Base.gen < spent.max.gen
        BY <1>1, <1>2 DEF Base, DirtyBegin, Metas, Projs, Spendings, Budgets
      <3>. QED
        BY <3>1, AstAssumption
    <2>2. Parsed \in [Paths -> Entries]
      BY <1>1 DEF Parsed, Entries
    <2>3. work' \in Works
      BY <1>1, <1>2, <2>1, <2>2 DEF DirtyBegin, Works
    <2>4. rows' \in [Paths -> Entries]
      BY <1>1, <1>2 DEF DirtyBegin, Forget, Entries
    <2>5. wproj' \in Projs
      BY <1>1, <1>2 DEF DirtyBegin, Forget, Projs, Entries
    <2>6. spent' \in Spendings /\ Within'
      BY <1>1, <1>2, SpendTypes DEF DirtyBegin, Within
    <2>7. UNCHANGED <<disk, meta, jobs, proj, events, timer, flush, call, req>>
      BY <1>2 DEF DirtyBegin, runtimeVars
    <2>. QED
      BY <2>3, <2>4, <2>5, <2>6, <2>7 DEF TypeOK, Works, Spendings, Within
  <1>3. CASE DirtySkip
    <2>1. work' \in Works
      BY <1>1, <1>3 DEF DirtySkip, WGo, Works
    <2>2. UNCHANGED <<disk, rows, meta, jobs, proj, events, timer, flush, call, req, wproj, spent>>
      BY <1>3 DEF DirtySkip, dbVars, runtimeVars
    <2>. QED
      BY <2>1, <2>2 DEF TypeOK, Works
  <1>4. CASE DirtyCommit
    <2>1. work' \in Works
      BY <1>1, <1>4 DEF DirtyCommit, WGo, Works
    <2>. DEFINE new == [status |-> "ready", gen |-> work.gen, short |-> FALSE]
    <2>2. new \in Metas
      BY <1>1 DEF Metas, Works, Statuses
    <2>3. \A f \in [Paths -> Entries] : Overlay(f, work.found) \in [Paths -> Entries]
      BY <1>1, OverlayTypes DEF Works
    <2>4. meta' \in Metas /\ rows' \in [Paths -> Entries]
      BY <1>1, <1>4, <2>2, <2>3 DEF DirtyCommit
    <2>5. wproj' \in Projs
      <3>1. Overlay(wproj.files, work.found) \in [Paths -> Entries]
        BY <1>1, <2>3 DEF Projs
      <3>2. Load(new, Overlay(wproj.files, work.found)) \in Projs
        BY <2>2, <3>1, LoadTypes
      <3>. QED
        BY <1>1, <1>4, <3>2, Nones DEF DirtyCommit
    <2>6. UNCHANGED <<disk, jobs, proj, events, timer, flush, call, req, spent>>
      BY <1>4 DEF DirtyCommit, runtimeVars
    <2>. QED
      BY <2>1, <2>4, <2>5, <2>6 DEF TypeOK, Works
  <1>5. CASE DirtyFail
    <2>1. work' \in Works
      BY <1>1, <1>5 DEF DirtyFail, WGo, Works
    <2>2. spent' \in Spendings /\ Within'
      BY <1>5, SpendTypes DEF DirtyFail
    <2>3. UNCHANGED <<disk, rows, meta, jobs, proj, events, timer, flush, call, req, wproj>>
      BY <1>5 DEF DirtyFail, dbVars, runtimeVars
    <2>. QED
      BY <2>1, <2>2, <2>3 DEF TypeOK, Works, Spendings, Within
  <1>6. CASE WorkerCrash
    <2>1. work' \in Works /\ wproj' \in Projs
      BY <1>6, IdleTypes, Nones DEF WorkerCrash
    <2>2. spent' \in Spendings /\ Within'
      BY <1>6, SpendTypes DEF WorkerCrash
    <2>3. UNCHANGED <<disk, rows, meta, jobs, proj, events, timer, flush, call, req>>
      BY <1>6 DEF WorkerCrash, dbVars, runtimeVars
    <2>. QED
      BY <2>1, <2>2, <2>3 DEF TypeOK, Works, Spendings, Within
  <1>. QED
    BY <1>2, <1>3, <1>4, <1>5, <1>6

LEMMA ColdTypes ==
    ASSUME TypeOK,
           ColdBegin \/ ColdWalk \/ (\E p \in Paths : ColdParse(p)) \/ ColdBatch \/ ColdFinish
           \/ ColdFail
    PROVE  TypeOK'
  <1>1. /\ disk \in [Paths -> Entries] /\ rows \in [Paths -> Entries]
        /\ meta \in Metas /\ wproj \in Projs /\ work \in Works
    BY DEF TypeOK, Works
  <1>2. \A short \in BOOLEAN, status \in Statuses :
            [Building(short) EXCEPT !.status = status] \in Metas /\ Building(short) \in Metas
    BY <1>1 DEF Building, Metas, Works, Statuses
  <1>9. Short \in BOOLEAN /\ {"ready", "error"} \subseteq Statuses
    BY DEF Short, Statuses
  <1>3. \A m \in Metas : Load(m, wproj.files) \in Projs
    BY <1>1, LoadTypes DEF Projs
  <1>4. CASE ColdBegin
    <2>1. EnsureMeta.gen + 1 \in 0..MaxGen
      <3>1. EnsureMeta.gen \in 0..MaxGen /\ spent.max.gen \in 0..MaxGen
            /\ EnsureMeta.gen < spent.max.gen
        BY <1>1, <1>4, Nones DEF EnsureMeta, ColdBegin, Metas, TypeOK, Budgets
      <3>. QED
        BY <3>1, AstAssumption
    <2>2. work' \in Works
      BY <1>1, <1>4, <2>1 DEF ColdBegin, Works
    <2>3. meta' \in Metas
      BY <1>1, <1>4, <2>2 DEF ColdBegin, Metas, Works, Statuses
    <2>4. UNCHANGED <<disk, rows, jobs, proj, events, timer, flush, call, req, wproj, spent>>
      BY <1>4 DEF ColdBegin, runtimeVars
    <2>. QED
      BY <2>2, <2>3, <2>4 DEF TypeOK, Works
  <1>10. CASE ColdWalk
    <2>1. work' \in Works
      BY <1>1, <1>10 DEF ColdWalk, Works, Present
    <2>2. meta' \in Metas /\ wproj' \in Projs
      BY <1>1, <1>2, <1>3, <1>10 DEF ColdWalk, Statuses
    <2>3. UNCHANGED <<disk, rows, jobs, proj, events, timer, flush, call, req, spent>>
      BY <1>10 DEF ColdWalk, runtimeVars
    <2>. QED
      BY <2>1, <2>2, <2>3 DEF TypeOK, Works
  <1>5. ASSUME NEW p \in Paths, ColdParse(p) PROVE TypeOK'
    <2>1. work' \in Works
      <3>1. [work.found EXCEPT ![p] = disk[p]] \in [Paths -> Entries]
        BY <1>1 DEF Works
      <3>2. work' = [work EXCEPT !.todo = work.todo \ {p},
                                 !.found = [work.found EXCEPT ![p] = disk[p]],
                                 !.fresh = IF disk[p] = Absent THEN work.fresh
                                           ELSE work.fresh \cup {p}]
        BY <1>1, <1>5 DEF ColdParse, Works
      <3>. QED
        BY <1>1, <3>1, <3>2 DEF Works
    <2>2. UNCHANGED <<disk, rows, meta, jobs, proj, events, timer, flush, call, req, wproj, spent>>
      BY <1>5 DEF ColdParse, dbVars, runtimeVars
    <2>. QED
      BY <2>1, <2>2 DEF TypeOK, Works
  <1>6. CASE ColdBatch
    <2>1. FreshEntries \in [Paths -> Entries]
      BY <1>1 DEF FreshEntries, Works, Entries
    <2>2. rows' \in [Paths -> Entries]
      BY <1>1, <1>6, <2>1, OverlayTypes DEF ColdBatch
    <2>3. meta' \in Metas
      BY <1>2, <1>6, <1>9 DEF ColdBatch
    <2>4. wproj' \in Projs
      <3>1. Overlay(wproj.files, FreshEntries) \in [Paths -> Entries]
        BY <1>1, <2>1, OverlayTypes DEF Projs
      <3>. QED
        BY <1>6, <2>3, <3>1, LoadTypes DEF ColdBatch
    <2>5. work' \in Works
      BY <1>1, <1>6 DEF ColdBatch, Works
    <2>6. UNCHANGED <<disk, jobs, proj, events, timer, flush, call, req, spent>>
      BY <1>6 DEF ColdBatch, runtimeVars
    <2>. QED
      BY <2>2, <2>3, <2>4, <2>5, <2>6 DEF TypeOK, Works
  <1>7. CASE ColdFinish
    <2>1. meta' \in Metas
      BY <1>2, <1>7, <1>9 DEF ColdFinish
    <2>2. wproj' \in Projs
      BY <1>1, <1>7, <2>1, LoadTypes DEF ColdFinish, Works
    <2>3. work' \in Works
      BY <1>1, <1>7 DEF ColdFinish, WGo, Works
    <2>4. UNCHANGED <<disk, rows, jobs, proj, events, timer, flush, call, req, spent>>
      BY <1>7 DEF ColdFinish, runtimeVars
    <2>. QED
      BY <2>1, <2>2, <2>3, <2>4 DEF TypeOK, Works
  <1>8. CASE ColdFail
    <2>1. meta' \in Metas /\ wproj' \in Projs
      <3>1. [Building(Short) EXCEPT !.status = "error"] \in Metas
        BY <1>2, <1>9
      <3>. QED
        BY <1>1, <1>3, <1>8, <3>1 DEF ColdFail
    <2>2. work' \in Works
      BY <1>1, <1>8 DEF ColdFail, WGo, Works
    <2>3. spent' \in Spendings /\ Within'
      BY <1>8, SpendTypes DEF ColdFail
    <2>4. UNCHANGED <<disk, rows, jobs, proj, events, timer, flush, call, req>>
      BY <1>8 DEF ColdFail, runtimeVars
    <2>. QED
      BY <2>1, <2>2, <2>3, <2>4 DEF TypeOK, Works, Spendings, Within
  <1>. QED
    BY <1>4, <1>5, <1>6, <1>7, <1>8, <1>10

LEMMA InitTypes == Init => TypeOK
  <1>. SUFFICES ASSUME Init PROVE TypeOK
    OBVIOUS
  <1>1. disk \in [Paths -> Entries]
    BY AstAssumption DEF Init, Files0, Entries
  <1>2. rows \in [Paths -> Entries] /\ meta \in Metas /\ proj \in Projs /\ wproj \in Projs
    <2>1. CASE Fresh
      BY <2>1, Nones DEF Fresh, Entries
    <2>2. CASE Warm
      <3>1. Ready1 \in Metas
        BY <2>2, AstAssumption DEF Ready1, Metas, Statuses
      <3>. QED
        BY <1>1, <2>2, <3>1, Nones, LoadTypes DEF Warm
    <2>. QED
      BY <2>1, <2>2 DEF Init
  <1>3. spent \in Spendings /\ Within
    BY AstAssumption DEF Init, Spendings, Budgets, Within, Bound
  <1>4. jobs \in Seq(JobRows)
    <2>1. jobs = <<>>
      BY DEF Init
    <2>. QED
      BY <2>1
  <1>5. events \in Events /\ timer \in BOOLEAN /\ flush \in [Flushers -> Merges] /\ call \in Calls
    BY Nones, CallTypes DEF Init, Events
  <1>6. req \in Asks /\ work \in Works
    BY Nones, IdleTypes DEF Init, Asks
  <1>. QED
    BY <1>1, <1>2, <1>3, <1>4, <1>5, <1>6
    DEF TypeOK, Events, Merges, Calls, Asks, Works, Spendings, Within

LEMMA NextTypes ==
    ASSUME TypeOK, [Next]_vars
    PROVE  TypeOK'
  <1>1. CASE Change
    BY <1>1, ChangeTypes
  <1>2. CASE Runtime
    BY <1>2, QueueTypes, PollTypes, StatusTypes, RequestTypes DEF Runtime
  <1>3. CASE Worker
    BY <1>3, WorkQueueTypes, DirtyTypes, ColdTypes DEF Worker, WorkerStep
  <1>4. CASE UNCHANGED vars
    BY <1>4 DEF TypeOK, vars, dbVars, runtimeVars, workerVars
  <1>. QED
    BY <1>1, <1>2, <1>3, <1>4 DEF Next

\* Every variable of the index holds what the code can put there, for every set of files and
\* every bound: generations stay within theirs, every job has a number for its id (one is
\* always free) and a flush merges into a job of the queue.
THEOREM TypesHold == Spec => []TypeOK
  <1>1. TypeOK /\ [Next]_vars => TypeOK'
    BY NextTypes
  <1>. QED
    BY InitTypes, <1>1, PTL DEF Spec

--------------------------------------------------------------------------------
(* No change is lost while no cold start is asked for.                            *)

AllDirty == \A i \in DOMAIN jobs : jobs[i].kind = "dirty"

\* No cold start is asked for, queued or run ...
NoColdStart ==
    /\ \A r \in Requests : req[r].pc = "idle"
    /\ AllDirty
    /\ work.pc \notin {"cold_start", "walk", "parse"}
\* ... so what is stored and what is loaded is complete, and scans look for new files.
Whole ==
    /\ meta.status \in {"none", "cold", "ready"} /\ ~meta.short
    /\ proj.status \in {"none", "cold", "ready"} /\ ~proj.short
    /\ call.meta.status \in {"none", "cold", "ready"} /\ ~call.meta.short
\* Nothing is loaded, or about to be, that is newer than what is stored, and every commit is
\* newer than all of it.
Numbered ==
    /\ proj.gen <= meta.gen /\ call.meta.gen <= meta.gen
    /\ wproj # NoProj => wproj.gen = meta.gen
    /\ work.pc = "commit" => meta.gen < work.gen
\* A loaded entry of the stored generation is the stored one, unless either is gone.
Tracks ==
    proj # NoProj /\ proj.gen = meta.gen =>
        \A p \in Paths : proj.files[p] # Absent /\ rows[p] # Absent => proj.files[p] = rows[p]

Tracked == NoColdStart /\ Whole /\ Numbered /\ Tracks
TrackInv == TypeOK /\ (spent.cold = 0 => Tracked)

\* What the runtime does to a loaded projection without loading: it is collected or evicted.
Shrinks ==
    \/ proj' = NoProj
    \/ /\ proj # NoProj
       /\ proj'.gen = proj.gen /\ proj'.status = proj.status /\ (proj'.short => proj.short)
       /\ \A p \in Paths : proj'.files[p] \in {proj.files[p], Absent}

LEMMA GcShrinks ==
    ASSUME NEW pr \in Projs, NEW d
    PROVE  /\ GcProj(pr, d).gen = pr.gen /\ GcProj(pr, d).status = pr.status
           /\ GcProj(pr, d).short => pr.short
           /\ \A p \in Paths : GcProj(pr, d).files[p] \in {pr.files[p], Absent}
  BY DEF GcProj, Projs

LEMMA LightScanShrinks ==
    ASSUME TypeOK, NEW d, NEW S, LightScan(d, S)
    PROVE  Shrinks
  <1>1. proj \in Projs
    BY DEF TypeOK
  <1>2. CASE proj = NoProj
    BY <1>2 DEF LightScan, Shrinks
  <1>3. CASE proj # NoProj
    BY <1>1, <1>3, GcShrinks DEF LightScan, Shrinks
  <1>. QED
    BY <1>2, <1>3

\* A step that leaves the stored index, the indexer and the requests alone.
LEMMA TrackedKept ==
    ASSUME TypeOK, Tracked, Shrinks \/ UNCHANGED proj, AllDirty',
           call'.meta \in {call.meta, meta, None},
           UNCHANGED <<meta, rows, wproj, work, req>>
    PROVE  Tracked'
  <1>1. meta \in Metas /\ proj \in Projs /\ call.meta \in Metas
    BY DEF TypeOK
  <1>2. NoColdStart'
    BY DEF Tracked, NoColdStart
  <1>3. Whole'
    BY DEF Tracked, Whole, Shrinks, NoProj, None
  <1>4. Numbered'
    BY <1>1 DEF Tracked, Numbered, Shrinks, NoProj, None, Metas
  <1>5. Tracks'
    BY DEF Tracked, Tracks, Shrinks
  <1>. QED
    BY <1>2, <1>3, <1>4, <1>5 DEF Tracked

LEMMA SpendKeepsCold ==
    ASSUME TypeOK, NEW b \in {"edits", "faults"}, Spend(b)
    PROVE  spent'.cold = spent.cold
  BY DEF TypeOK, Spend

\* A cold start asked for is counted.
LEMMA AskCounted ==
    ASSUME TypeOK, NEW cold, MayAskCold(cold), spent'.cold = 0
    PROVE  UNCHANGED <<req, spent>>
  <1>1. spent \in Spendings
    BY DEF TypeOK, Spendings
  <1>2. AskCold => spent'.cold = spent.cold + 1
    BY <1>1 DEF AskCold, Spend, Spendings
  <1>3. ~AskCold
    BY <1>1, <1>2 DEF Spendings
  <1>. QED
    BY <1>3 DEF MayAskCold

LEMMA FlushDirty ==
    ASSUME TypeOK, AllDirty, NEW f, NEW ev, Flush(f, ev)
    PROVE  AllDirty'
  <1>1. CASE UNCHANGED jobs
    BY <1>1 DEF AllDirty
  <1>2. ASSUME NEW ups, NEW dels, jobs' = Append(jobs, Job("dirty", ups, dels)) PROVE AllDirty'
    <2>1. jobs \in Seq(JobRows) /\ Job("dirty", ups, dels).kind = "dirty"
      BY DEF TypeOK, Job
    <2>2. DOMAIN jobs' = 1..(Len(jobs) + 1)
      BY <1>2, <2>1
    <2>3. \A i \in DOMAIN jobs' : jobs'[i].kind = "dirty"
      BY <1>2, <2>1, <2>2 DEF AllDirty
    <2>. QED
      BY <2>3 DEF AllDirty
  <1>. QED
    BY <1>1, <1>2 DEF Flush

LEMMA ChangeTracked ==
    ASSUME TrackInv, Change, spent'.cold = 0
    PROVE  Tracked'
  <1>1. TypeOK
    BY DEF TrackInv
  <1>2. ASSUME NEW p \in Paths, NEW c \in Contents, EditFile(p, c) PROVE Tracked'
    BY <1>1, <1>2, SpendKeepsCold, TrackedKept
    DEF TrackInv, EditFile, dbVars, workerVars, Tracked, NoColdStart, AllDirty
  <1>3. ASSUME NEW p \in Paths, NEW q \in Paths, RenameFile(p, q) PROVE Tracked'
    BY <1>1, <1>3, SpendKeepsCold, TrackedKept
    DEF TrackInv, RenameFile, dbVars, workerVars, Tracked, NoColdStart, AllDirty
  <1>4. ASSUME NEW p, NEW e, NEW code, Command(p, e, code) PROVE Tracked'
    <2>1. Shrinks \/ UNCHANGED proj
      BY <1>1, <1>4, LightScanShrinks DEF Command
    <2>. QED
      BY <1>1, <1>4, <2>1, SpendKeepsCold, TrackedKept
      DEF TrackInv, Command, dbVars, workerVars, Tracked, NoColdStart, AllDirty
  <1>. QED
    BY <1>2, <1>3, <1>4 DEF Change

\* A load takes the stored entries with the meta read before them; entries of a commit in
\* between come with the older generation.
LEMMA LoadTracked ==
    ASSUME TypeOK, Tracked, proj' = GcProj(Load(call.meta, rows), disk), AllDirty',
           call'.meta \in {call.meta, meta, None},
           UNCHANGED <<meta, rows, wproj, work, req>>
    PROVE  Tracked'
  <1>. DEFINE pr == Load(call.meta, rows)
  <1>1. meta \in Metas /\ call.meta \in Metas /\ rows \in [Paths -> Entries]
    BY DEF TypeOK
  <1>2. pr \in Projs /\ pr.status = call.meta.status /\ pr.gen = call.meta.gen
        /\ pr.short = call.meta.short /\ pr.files = rows
    BY <1>1, LoadTypes DEF Load
  <1>3. /\ proj'.gen = pr.gen /\ proj'.status = pr.status /\ (proj'.short => pr.short)
        /\ \A p \in Paths : proj'.files[p] \in {pr.files[p], Absent}
    BY <1>2, GcShrinks
  <1>4. NoColdStart'
    BY DEF Tracked, NoColdStart
  <1>5. Whole'
    BY <1>2, <1>3 DEF Tracked, Whole, None
  <1>6. Numbered'
    BY <1>1, <1>2, <1>3 DEF Tracked, Numbered, None, Metas
  <1>7. Tracks'
    BY <1>2, <1>3 DEF Tracks
  <1>. QED
    BY <1>4, <1>5, <1>6, <1>7 DEF Tracked

LEMMA SyncSteps ==
    ASSUME TypeOK, Tracked, NEW pr, Sync(pr)
    PROVE  /\ proj' = GcProj(pr, disk) /\ AllDirty' /\ call'.meta \in {meta, None}
           /\ UNCHANGED <<meta, rows, wproj, work, req>>
  <1>1. proj' = GcProj(pr, disk) /\ UNCHANGED <<meta, rows, wproj, work, req>>
    BY DEF Sync, workerVars
  <1>2. AllDirty
    BY DEF Tracked, NoColdStart
  <1>3. CASE Newer(pr)
    <2>1. call'.meta = meta /\ UNCHANGED jobs
      BY <1>3 DEF Sync
    <2>. QED
      BY <1>1, <1>2, <2>1 DEF AllDirty
  <1>4. CASE ~Newer(pr)
    <2>1. call'.meta = None /\ Flush("call", Collected(pr))
      BY <1>4 DEF Sync, At
    <2>. QED
      BY <1>1, <1>2, <2>1, FlushDirty
  <1>. QED
    BY <1>3, <1>4

LEMMA LoadsTracked ==
    ASSUME TypeOK, Tracked, StatusSync \/ StatusMeta \/ StatusLoad \/ StatusReload
    PROVE  Tracked'
  <1>1. CASE StatusSync
    <2>1. proj \in Projs /\ proj # NoProj /\ Sync(proj)
      BY <1>1 DEF StatusSync, TypeOK
    <2>2. Shrinks
      BY <2>1, SyncSteps, GcShrinks DEF Shrinks
    <2>. QED
      BY <2>1, <2>2, SyncSteps, TrackedKept
  <1>2. CASE StatusMeta
    <2>1. call'.meta = meta /\ UNCHANGED <<meta, rows, jobs, proj, wproj, work, req>>
      BY <1>2 DEF StatusMeta, dbVars, workerVars
    <2>. QED
      BY <2>1, TrackedKept DEF Tracked, NoColdStart, AllDirty
  <1>3. CASE StatusLoad
    BY <1>3, SyncSteps, LoadTracked DEF StatusLoad
  <1>4. CASE StatusReload
    <2>1. /\ call'.meta = None /\ proj' = GcProj(Load(call.meta, rows), disk)
          /\ UNCHANGED <<meta, rows, wproj, work, req>>
      BY <1>4 DEF StatusReload, At, workerVars
    <2>2. AllDirty'
      BY <1>4, FlushDirty DEF StatusReload, Tracked, NoColdStart
    <2>. QED
      BY <2>1, <2>2, LoadTracked
  <1>. QED
    BY <1>1, <1>2, <1>3, <1>4

LEMMA RuntimeTracked ==
    ASSUME TrackInv, Runtime, spent'.cold = 0
    PROVE  Tracked'
  <1>1. TypeOK
    BY DEF TrackInv
  <1>2. ASSUME TimerFire \/ (\E f \in Flushers : FlushMerge(f)) PROVE Tracked'
    <2>1. Tracked /\ UNCHANGED <<meta, rows, proj, call, wproj, work, req>>
      BY <1>2 DEF TrackInv, TimerFire, FlushMerge, workerVars
    <2>2. AllDirty'
      <3>1. CASE TimerFire
        BY <1>1, <2>1, <3>1, FlushDirty DEF TimerFire, Tracked, NoColdStart
      <3>2. CASE \E f \in Flushers : FlushMerge(f)
        <4>1. PICK f \in Flushers : jobs' = Merged(flush[f])
          BY <3>2 DEF FlushMerge
        <4>2. \A i \in DOMAIN jobs : jobs[i] \in JobRows /\ jobs[i].kind = "dirty"
          BY <1>1, <2>1 DEF TypeOK, Tracked, NoColdStart, AllDirty
        <4>3. DOMAIN jobs' = DOMAIN jobs
          BY <4>1 DEF Merged
        <4>4. \A i \in DOMAIN jobs : jobs'[i].kind = jobs[i].kind
          BY <4>1, <4>2 DEF Merged, JobRows
        <4>. QED
          BY <4>2, <4>3, <4>4 DEF AllDirty
      <3>. QED
        BY <1>2, <3>1, <3>2
    <2>. QED
      BY <1>1, <2>1, <2>2, TrackedKept
  <1>3. CASE FlushFail
    BY <1>1, <1>3, SpendKeepsCold, TrackedKept
    DEF TrackInv, FlushFail, dbVars, workerVars, Tracked, NoColdStart, AllDirty
  <1>4. ASSUME NEW S, NEW evict \in BOOLEAN, Poll(S, evict) PROVE Tracked'
    <2>1. Shrinks
      BY <1>1, <1>4, LightScanShrinks DEF Poll, Shrinks
    <2>. QED
      BY <1>1, <1>4, <2>1, TrackedKept
      DEF TrackInv, Poll, dbVars, workerVars, Tracked, NoColdStart, AllDirty
  <1>5. ASSUME NEW p, Locate(p) PROVE Tracked'
    BY <1>1, <1>5, TrackedKept
    DEF TrackInv, Locate, dbVars, workerVars, Tracked, NoColdStart, AllDirty
  <1>6. CASE StatusCold
    <2>1. UNCHANGED <<req, spent>> /\ Tracked
      BY <1>1, <1>6, AskCounted DEF TrackInv, StatusCold
    <2>2. meta = None /\ meta' = ColdMeta /\ UNCHANGED <<rows, jobs, proj, call, wproj, work>>
      BY <1>6 DEF StatusCold, workerVars
    <2>3. meta'.gen = meta.gen /\ meta'.status = "cold" /\ ~meta'.short
      BY <2>2 DEF None, ColdMeta
    <2>. QED
      BY <2>1, <2>2, <2>3 DEF Tracked, NoColdStart, AllDirty, Whole, Numbered, Tracks
  <1>7. CASE StatusSync \/ StatusMeta \/ StatusLoad \/ StatusReload
    <2>1. UNCHANGED spent
      BY <1>7 DEF StatusSync, StatusMeta, StatusLoad, StatusReload, Sync
    <2>. QED
      BY <1>1, <1>7, <2>1, LoadsTracked DEF TrackInv
  <1>8. CASE StatusCount
    <2>1. UNCHANGED <<req, spent>>
      BY <1>1, <1>8, AskCounted DEF StatusCount, EndCall
    <2>. QED
      BY <1>1, <1>8, <2>1, TrackedKept
      DEF TrackInv, StatusCount, EndCall, At, NoCall, dbVars, workerVars, Tracked, NoColdStart, AllDirty
  <1>9. CASE StatusRequeue
    <2>1. UNCHANGED <<req, spent>> /\ Tracked
      BY <1>1, <1>9, AskCounted DEF TrackInv, StatusRequeue, EndCall
    <2>2. AllDirty'
      BY <1>1, <1>9, <2>1, FlushDirty DEF StatusRequeue, Tracked, NoColdStart
    <2>. QED
      BY <1>1, <1>9, <2>1, <2>2, TrackedKept DEF StatusRequeue, EndCall, At, NoCall, workerVars
  <1>10. CASE Rebuild
    <2>1. UNCHANGED <<req, spent>>
      BY <1>1, <1>10, AskCounted DEF Rebuild, MayAskCold
    <2>. QED
      BY <1>1, <1>10, <2>1, TrackedKept
      DEF TrackInv, Rebuild, dbVars, workerVars, Tracked, NoColdStart, AllDirty
  <1>11. ASSUME NEW r \in Requests, Request(r) PROVE Tracked'
    BY <1>11 DEF TrackInv, Request, ReqCheck, ReqInsert, ReqEnsure, ReqMark, Tracked, NoColdStart
  <1>12. CASE RuntimeCrash
    <2>1. Tracked /\ Shrinks /\ UNCHANGED <<meta, rows, jobs, wproj, work>>
      BY <1>1, <1>12, SpendKeepsCold DEF TrackInv, RuntimeCrash, Shrinks, dbVars, workerVars
    <2>2. \A r \in Requests : req'[r].pc = "idle"
      BY <1>12 DEF RuntimeCrash
    <2>3. meta \in Metas
      BY <1>1 DEF TypeOK
    <2>4. proj' = NoProj /\ call'.meta = None
      BY <1>12 DEF RuntimeCrash, NoCall, At
    <2>. QED
      BY <2>1, <2>2, <2>3, <2>4
      DEF Tracked, NoColdStart, AllDirty, Whole, Numbered, Tracks, NoProj, None, Metas
  <1>. QED
    BY <1>2, <1>3, <1>4, <1>5, <1>6, <1>7, <1>8, <1>9, <1>10, <1>11, <1>12
    DEF Runtime, StatusStep

LEMMA WorkerTracked ==
    ASSUME TrackInv, Worker, spent'.cold = 0
    PROVE  Tracked'
  <1>1. /\ TypeOK /\ meta \in Metas /\ wproj \in Projs /\ work \in Works
        /\ jobs \in Seq(JobRows)
    BY DEF TrackInv, TypeOK, Works
  <1>2. spent.cold = 0 /\ UNCHANGED <<proj, call, req>>
    <2>1. UNCHANGED spent \/ Spend("faults")
      BY DEF Worker, WorkerStep, Claim, Reclaim, MarkDone, DirtySkip, DirtyBegin, DirtyCommit,
             ColdBegin, ColdWalk, ColdParse, ColdBatch, ColdFinish, DirtyFail, ColdFail, WorkerCrash
    <2>2. UNCHANGED <<proj, call, req>>
      BY DEF Worker, WorkerStep, Claim, Reclaim, MarkDone, DirtySkip, DirtyBegin, DirtyCommit,
             ColdBegin, ColdWalk, ColdParse, ColdBatch, ColdFinish, DirtyFail, ColdFail, WorkerCrash,
             runtimeVars
    <2>. QED
      BY <1>1, <2>1, <2>2, SpendKeepsCold
  <1>3. Tracked
    BY <1>2 DEF TrackInv
  <1>4. CASE Claim \/ Reclaim \/ MarkDone
    <2>1. UNCHANGED <<rows, meta, wproj>>
      BY <1>4 DEF Claim, Reclaim, MarkDone, workerVars
    <2>2. \A i \in DOMAIN jobs : jobs[i] \in JobRows /\ jobs[i].kind = "dirty"
      BY <1>1, <1>3 DEF Tracked, NoColdStart, AllDirty
    <2>3. AllDirty'
      <3>1. CASE Claim
        <4>1. PICK id : jobs' = WithStatus(id, "running")
          BY <3>1 DEF Claim
        <4>2. DOMAIN jobs' = DOMAIN jobs /\ \A i \in DOMAIN jobs : jobs'[i].kind = jobs[i].kind
          BY <2>2, <4>1 DEF WithStatus, JobRows
        <4>. QED
          BY <2>2, <4>2 DEF AllDirty
      <3>2. CASE Reclaim
        <4>1. DOMAIN jobs' = DOMAIN jobs /\ \A i \in DOMAIN jobs : jobs'[i].kind = jobs[i].kind
          BY <2>2, <3>2 DEF Reclaim, JobRows
        <4>. QED
          BY <2>2, <4>1 DEF AllDirty
      <3>3. CASE MarkDone
        <4>1. jobs' = Without(work.job)
          BY <3>3 DEF MarkDone
        <4>2. /\ DOMAIN jobs' = 1..(Len(jobs) - 1)
              /\ \A i \in DOMAIN jobs' : jobs'[i] = jobs[i] \/ jobs'[i] = jobs[i + 1]
          BY <4>1 DEF Without
        <4>3. \A i \in DOMAIN jobs' : i \in DOMAIN jobs /\ i + 1 \in DOMAIN jobs
          BY <1>1, <4>2
        <4>. QED
          BY <2>2, <4>2, <4>3 DEF AllDirty
      <3>. QED
        BY <1>4, <3>1, <3>2, <3>3
    <2>4. work'.pc \in {"idle", "dirty"} \/ UNCHANGED work
      <3>1. CASE Claim
        <4>1. PICK i \in DOMAIN jobs :
                work' = [Idle EXCEPT !.pc   = jobs[i].kind,
                                     !.job  = jobs[i].id,
                                     !.ups  = jobs[i].ups,
                                     !.dels = jobs[i].dels]
          BY <3>1 DEF Claim
        <4>. QED
          BY <2>2, <4>1 DEF Idle
      <3>2. CASE Reclaim \/ MarkDone
        BY <3>2 DEF Reclaim, MarkDone, Idle, workerVars
      <3>. QED
        BY <1>4, <3>1, <3>2
    <2>. QED
      BY <1>2, <1>3, <2>1, <2>3, <2>4 DEF Tracked, NoColdStart, Whole, Numbered, Tracks
  <1>5. CASE DirtySkip \/ DirtyFail
    <2>1. work'.pc = "done" /\ UNCHANGED <<rows, meta, jobs, wproj>>
      BY <1>1, <1>5 DEF DirtySkip, DirtyFail, WGo, dbVars, Works
    <2>. QED
      BY <1>2, <1>3, <2>1 DEF Tracked, NoColdStart, AllDirty, Whole, Numbered, Tracks
  <1>6. CASE DirtyBegin
    <2>1. Base.gen = meta.gen
      BY <1>3 DEF Base, Tracked, Numbered
    <2>2. work'.pc = "commit" /\ work'.gen = meta.gen + 1
      BY <1>1, <1>6, <2>1 DEF DirtyBegin, Works
    <2>3. \A p \in Paths : rows'[p] = rows[p] \/ rows'[p] = Absent
      BY <1>6 DEF DirtyBegin, Forget
    <2>4. UNCHANGED <<meta, jobs>>
      BY <1>6 DEF DirtyBegin
    <2>5. wproj' # NoProj => wproj # NoProj /\ wproj'.gen = wproj.gen
      <3>1. wproj' = [wproj EXCEPT !.files = Forget(wproj.files, Gone)]
        BY <1>6 DEF DirtyBegin
      <3>2. wproj'.gen = wproj.gen
        BY <1>1, <3>1 DEF Projs
      <3>3. ASSUME wproj = NoProj PROVE wproj' = NoProj
        <4>1. Forget(NoProj.files, Gone) = [p \in Paths |-> Absent]
          BY DEF Forget, NoProj
        <4>. QED
          BY <3>1, <3>3, <4>1 DEF NoProj
      <3>. QED
        BY <3>2, <3>3
    <2>. QED
      BY <1>1, <1>2, <1>3, <2>2, <2>3, <2>4, <2>5
      DEF Tracked, NoColdStart, AllDirty, Whole, Numbered, Tracks, Metas
  <1>7. CASE DirtyCommit
    <2>1. work'.pc = "done" /\ UNCHANGED jobs
      BY <1>1, <1>7 DEF DirtyCommit, WGo, Works
    <2>2. CASE UNCHANGED <<rows, meta, wproj>>
      BY <1>2, <1>3, <2>1, <2>2 DEF Tracked, NoColdStart, AllDirty, Whole, Numbered, Tracks
    <2>3. CASE /\ meta' = [status |-> "ready", gen |-> work.gen, short |-> FALSE]
               /\ wproj' # NoProj => wproj'.gen = work.gen
      <3>1. meta.gen < work.gen /\ proj.gen <= meta.gen /\ call.meta.gen <= meta.gen
        BY <1>3, <1>7 DEF DirtyCommit, Tracked, Numbered
      <3>2. proj.gen \in Nat /\ meta.gen \in Nat /\ work.gen \in Nat /\ call.meta.gen \in Nat
        BY <1>1 DEF TypeOK, Projs, Metas, Works
      <3>3. proj'.gen < meta'.gen /\ call'.meta.gen < meta'.gen
        BY <1>2, <2>3, <3>1, <3>2
      <3>. QED
        BY <1>2, <1>3, <2>1, <2>3, <3>2, <3>3
        DEF Tracked, NoColdStart, AllDirty, Whole, Numbered, Tracks
    <2>. QED
      BY <1>7, <2>2, <2>3 DEF DirtyCommit, Load
  <1>8. CASE WorkerCrash
    BY <1>2, <1>3, <1>8
    DEF WorkerCrash, Idle, dbVars, Tracked, NoColdStart, AllDirty, Whole, Numbered, Tracks
  <1>9. ~(\/ ColdBegin \/ ColdWalk \/ (\E p \in Paths : ColdParse(p)) \/ ColdBatch
          \/ ColdFinish \/ ColdFail)
    BY <1>3 DEF ColdBegin, ColdWalk, ColdParse, ColdBatch, ColdFinish, ColdFail, Tracked, NoColdStart
  <1>. QED
    BY <1>4, <1>5, <1>6, <1>7, <1>8, <1>9 DEF Worker, WorkerStep

\* The row of a file that is gone shows in the counts, unless a file the projection holds has
\* no row.
LEMMA GhostCounted ==
    ASSUME NEW p \in Present(rows) \ Kept, Kept \subseteq Present(rows)
    PROVE  Cardinality(Kept) < Cardinality(Present(rows))
  <1>1. IsFiniteSet(Present(rows))
    BY AstAssumption, FS_Subset DEF Present
  <1>2. /\ Cardinality(Kept) <= Cardinality(Present(rows))
        /\ Cardinality(Present(rows)) = Cardinality(Kept) => Present(rows) = Kept
        /\ IsFiniteSet(Kept)
    BY <1>1, FS_Subset
  <1>3. Cardinality(Kept) \in Nat /\ Cardinality(Present(rows)) \in Nat
    BY <1>1, <1>2, FS_CardinalityType
  <1>. QED
    BY <1>2, <1>3

LEMMA TrackedLosesNothing == TrackInv => NothingLost
  <1>. SUFFICES ASSUME TrackInv, spent.cold = 0, NEW p \in Paths, rows[p].hash # disk[p].hash,
                       ~Noticed(p)
                PROVE  rows[p] = Absent /\ proj.files[p] = disk[p]
    BY DEF NothingLost
  <1>1. TypeOK /\ Tracked
    BY DEF TrackInv
  <1>2. /\ proj \in Projs /\ meta \in Metas
        /\ rows \in [Paths -> Entries] /\ disk \in [Paths -> Entries]
    BY <1>1 DEF TypeOK
  <1>3. proj # NoProj /\ ~(meta.gen > proj.gen)
    BY DEF Noticed
  <1>4. proj.gen = meta.gen
    BY <1>1, <1>2, <1>3 DEF Tracked, Numbered, Projs, Metas
  <1>5. ~Incomplete(proj)
    BY <1>1 DEF Incomplete, Tracked, Whole
  <1>6. p \notin Changed(proj, disk, Paths) /\ p \notin Missing(proj, disk)
    BY DEF Noticed
  <1>7. disk[p] # Absent => disk[p] = proj.files[p]
    BY <1>5, <1>6 DEF Changed
  <1>8. disk[p] # Absent
    <2>. SUFFICES ASSUME disk[p] = Absent PROVE FALSE
      OBVIOUS
    <2>1. proj.files[p] = Absent
      BY <1>6 DEF Missing
    <2>2. GcProj(proj, disk).files[p] = Absent
      BY <1>2, <2>1, GcShrinks
    <2>3. p \in Present(rows) \ Kept
      BY <2>2 DEF Present, Kept
    <2>. QED
      BY <2>3, GhostCounted DEF Noticed
  <1>9. rows[p] = Absent
    BY <1>1, <1>3, <1>4, <1>7, <1>8 DEF Tracked, Tracks
  <1>. QED
    BY <1>7, <1>8, <1>9

\* Whatever crashes, fails or is overwritten on the way, and however the queue's events, merges
\* and jobs interleave with edits, scans, status calls and the indexer: as long as no cold
\* start is asked for, no file is left with a wrong row that nothing would notice.
THEOREM NothingIsLost == Spec => []NothingLost
  <1>1. Init => TrackInv
    <2>. SUFFICES ASSUME Init PROVE TrackInv
      OBVIOUS
    <2>1. TypeOK
      BY InitTypes
    <2>2. NoColdStart
      BY DEF Init, NoColdStart, AllDirty, Idle
    <2>3. Whole /\ Numbered /\ Tracks
      BY DEF Init, Fresh, Warm, Idle, Ready1, Load, None, NoProj, NoCall, At, Whole, Numbered,
             Tracks
    <2>. QED
      BY <2>1, <2>2, <2>3 DEF TrackInv, Tracked
  <1>2. TrackInv /\ [Next]_vars => TrackInv'
    <2>. SUFFICES ASSUME TrackInv, [Next]_vars PROVE TrackInv'
      OBVIOUS
    <2>1. TypeOK'
      BY NextTypes DEF TrackInv
    <2>2. ASSUME UNCHANGED vars, spent'.cold = 0 PROVE Tracked'
      BY <2>2, TrackedKept DEF TrackInv, vars, dbVars, runtimeVars, workerVars, Tracked,
                               NoColdStart, AllDirty
    <2>. QED
      BY <2>1, <2>2, ChangeTracked, RuntimeTracked, WorkerTracked DEF TrackInv, Next
  <1>. QED
    BY <1>1, <1>2, TrackedLosesNothing, PTL DEF Spec

=============================================================================
