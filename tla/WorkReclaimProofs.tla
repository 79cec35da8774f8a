------------------------- MODULE WorkReclaimProofs -------------------------
(***************************************************************************)
(* What WorkReclaim keeps for any number of turns, collectors and commits: *)
(* the types, an undo's commit until the undo is through, and the tags of  *)
(* the turns in the window of undo.                                        *)
(***************************************************************************)
EXTENDS WorkReclaim, FiniteSetTheorems, TLAPS

LEMMA BoundsAreNat ==
    MaxTurns \in Nat /\ MaxCommits \in Nat /\ MaxReverts \in Nat /\ MaxFaults \in Nat
BY BoundsAreNatural

\* _tag_sha returns a sha or nothing.
LEMMA TagType ==
    ASSUME DiskOK, NEW t \in Turns
    PROVE  tag(t) \in 0 .. MaxCommits
BY BoundsAreNat DEF DiskOK, tag, Tags, Shas

\* A tag that is there points to a commit number.
LEMMA TagOfTags ==
    ASSUME DiskOK, NEW t \in Tags
    PROVE  tag(t) \in Shas
BY BoundsAreNat DEF DiskOK, tag, Tags, Shas

LEMMA IdleType == IdleGc \in GcStates
BY BoundsAreNat DEF IdleGc, GcStates, Pcs, NoTags

\* A collector's step changes its own state only.
LEMMA StepType ==
    ASSUME gc \in [Collectors -> GcStates], NEW c \in Collectors, NEW from,
           NEW changed \in GcStates, Step(c, from, changed)
    PROVE  gc' \in [Collectors -> GcStates]
BY DEF Step

LEMMA EndRunType ==
    ASSUME DbOK, NEW t \in Turns, NEW status \in {"succeeded", "failed"}, EndRun(t, status)
    PROVE  rows' \in [Turns -> Rows \cup {NoRow}]
<1>1. CASE t \in Present
  <2>1. rows[t] \in Rows
    BY <1>1 DEF DbOK, Present
  <2>2. [rows[t] EXCEPT !.status = status, !.age = "fresh"] \in Rows
    BY <2>1 DEF Rows
  <2>3. QED
    BY <1>1, <2>2 DEF EndRun, DbOK
<1>2. CASE t \notin Present
  BY <1>2 DEF EndRun, DbOK
<1>3. QED
  BY <1>1, <1>2

(***************************************************************************)
(* Types.                                                                  *)
(***************************************************************************)
LEMMA ApiType == ASSUME TypeOK, Api
                 PROVE  (DbOK /\ DiskOK /\ ProcOK /\ CollOK /\ UserOK)' /\ faults' \in 0 .. MaxFaults
<1> USE BoundsAreNat DEF TypeOK, DbOK, HistOK, db, disk, proc, coll, user
<1>1. ASSUME NEW t \in Turns, NEW s \in {"writing", "coding"}, create_turn(t, s)
      PROVE  (DbOK /\ DiskOK /\ ProcOK /\ CollOK /\ UserOK)' /\ faults' \in 0 .. MaxFaults
  BY <1>1 DEF create_turn, DiskOK, ProcOK, CollOK, UserOK, Rows, Turns
<1>2. ASSUME NEW t \in Turns, lease_reclaim(t)
      PROVE  (DbOK /\ DiskOK /\ ProcOK /\ CollOK /\ UserOK)' /\ faults' \in 0 .. MaxFaults
  BY <1>2, EndRunType DEF lease_reclaim, DiskOK, ProcOK, CollOK, UserOK
<1>3. ASSUME NEW t \in Turns, row_ages(t)
      PROVE  (DbOK /\ DiskOK /\ ProcOK /\ CollOK /\ UserOK)' /\ faults' \in 0 .. MaxFaults
  BY <1>3 DEF row_ages, Present, DiskOK, ProcOK, CollOK, UserOK, Rows
<1>4. ASSUME NEW s \in sessions, delete_sessions_for_owner(s)
      PROVE  (DbOK /\ DiskOK /\ ProcOK /\ CollOK /\ UserOK)' /\ faults' \in 0 .. MaxFaults
  BY <1>4 DEF delete_sessions_for_owner, Without, Enqueued, DiskOK, ProcOK, CollOK, UserOK
<1>5. ASSUME delete_work_commits
      PROVE  (DbOK /\ DiskOK /\ ProcOK /\ CollOK /\ UserOK)' /\ faults' \in 0 .. MaxFaults
  BY <1>5 DEF delete_work_commits, Without, Enqueued, DiskOK, ProcOK, CollOK, UserOK
<1>6. ASSUME delete_work_checks \/ delete_work_rolls_back \/ tombstone_ages
      PROVE  (DbOK /\ DiskOK /\ ProcOK /\ CollOK /\ UserOK)' /\ faults' \in 0 .. MaxFaults
  BY <1>6 DEF delete_work_checks, delete_work_rolls_back, tombstone_ages, Fault, DiskOK, ProcOK,
              CollOK, UserOK
<1>7. ASSUME enqueue_due_work_gc \/ requeue_stale_processing
      PROVE  (DbOK /\ DiskOK /\ ProcOK /\ CollOK /\ UserOK)' /\ faults' \in 0 .. MaxFaults
  BY <1>7 DEF enqueue_due_work_gc, requeue_stale_processing, DiskOK, ProcOK, CollOK, UserOK
<1>8. ASSUME workspace_tenant_scope
      PROVE  (DbOK /\ DiskOK /\ ProcOK /\ CollOK /\ UserOK)' /\ faults' \in 0 .. MaxFaults
  BY <1>8 DEF workspace_tenant_scope, DiskOK, ProcOK, CollOK, UserOK
<1>9. QED
  BY <1>1, <1>2, <1>3, <1>4, <1>5, <1>6, <1>7, <1>8 DEF Api

LEMMA WorkerType == ASSUME TypeOK, NEW t \in Turns, Worker(t)
                    PROVE  (DbOK /\ DiskOK /\ ProcOK /\ CollOK /\ UserOK)'
                           /\ faults' \in 0 .. MaxFaults
<1> USE BoundsAreNat DEF TypeOK, HistOK, db, disk, proc, coll, user
<1>1. CASE worker_starts(t)
  BY <1>1 DEF worker_starts, DbOK, DiskOK, ProcOK, CollOK, UserOK
<1>2. CASE ensure_turn_baseline(t)
  BY <1>2 DEF ensure_turn_baseline, NewSha, Shas, DbOK, DiskOK, ProcOK, CollOK, UserOK
<1>3. CASE snapshot_preimage(t)
  BY <1>3, TagOfTags DEF snapshot_preimage, NewSha, Shas, DbOK, DiskOK, ProcOK, CollOK, UserOK
<1>4. CASE cas_tag(t)
  BY <1>4 DEF cas_tag, NoShot, Shas, DbOK, DiskOK, ProcOK, CollOK, UserOK
<1>5. CASE worker_ends(t)
  BY <1>5, EndRunType DEF worker_ends, DbOK, DiskOK, ProcOK, CollOK, UserOK
<1>6. CASE ensure_repo(t)
  BY <1>6 DEF ensure_repo, DbOK, DiskOK, ProcOK, CollOK, UserOK
<1>7. QED
  BY <1>1, <1>2, <1>3, <1>4, <1>5, <1>6 DEF Worker

LEMMA CollectorType == ASSUME TypeOK, NEW c \in Collectors, Collector(c)
                       PROVE  (DbOK /\ DiskOK /\ ProcOK /\ CollOK /\ UserOK)'
                              /\ faults' \in 0 .. MaxFaults
<1>g. gc[c] \in GcStates
  BY DEF TypeOK, CollOK
<1> USE BoundsAreNat, <1>g DEF TypeOK, HistOK, db, disk, proc, coll, user, DbOK, DiskOK, ProcOK,
                          CollOK, UserOK
<1>p. \A q \in Pcs : [gc[c] EXCEPT !.pc = q] \in GcStates
  BY DEF GcStates
<1>o. \A q \in Pcs : Over(c, q) \in GcStates
  BY IdleType DEF GcStates, Over
<1>0. CASE claim_work_gc(c)
  <2>1. [IdleGc EXCEPT !.pc = "claimed", !.mine = TRUE] \in GcStates
    BY IdleType DEF GcStates, Pcs
  <2>2. QED
    BY <1>0, <2>1, StepType DEF claim_work_gc
<1>1. CASE gc_locks(c) \/ gc_skips(c) \/ work_unreadable(c) \/ git_list_failed(c)
           \/ migrate_fails(c) \/ remove_directory(c) \/ drop_tombstone(c)
  <2>1. /\ [gc[c] EXCEPT !.pc = "locked"] \in GcStates
        /\ [gc[c] EXCEPT !.pc = "done"] \in GcStates
        /\ [gc[c] EXCEPT !.pc = "unlock"] \in GcStates
        /\ Over(c, "unlock") \in GcStates
        /\ [gc[c] EXCEPT !.pc = "remove_shadow"] \in GcStates
    BY <1>p, <1>o DEF Pcs
  <2>2. CASE gc_locks(c)
    BY <2>1, <2>2, StepType DEF gc_locks
  <2>3. CASE gc_skips(c)
    BY <2>1, <2>3, StepType DEF gc_skips
  <2>4. CASE work_unreadable(c)
    BY <2>1, <2>4, StepType DEF work_unreadable
  <2>5. CASE migrate_fails(c)
    BY <2>1, <2>5, StepType DEF migrate_fails
  <2>6. CASE remove_directory(c)
    BY <2>1, <2>6, StepType DEF remove_directory
  <2>7. CASE drop_tombstone(c)
    BY <2>1, <2>7, StepType DEF drop_tombstone
  <2>8. CASE git_list_failed(c)
    BY <2>1, <2>8, StepType DEF git_list_failed
  <2>9. QED
    BY <1>1, <2>2, <2>3, <2>4, <2>5, <2>6, <2>7, <2>8
<1>a. CASE gc_unlocks(c)
  <2>1. Over(c, "done") \in GcStates
    BY <1>o DEF Pcs
  <2>2. QED
    BY <1>a, <2>1, StepType DEF gc_unlocks
<1>b. CASE gc_aborts(c)
  <2>1. Over(c, "unlock") \in GcStates
    BY <1>o DEF Pcs
  <2>2. gc' \in [Collectors -> GcStates]
    BY <1>b, <2>1 DEF gc_aborts
  <2>3. QED
    BY <1>b, <2>2 DEF gc_aborts, Fault
<1>2. CASE list_turn_tags(c)
  <2>1. [t \in Turns |-> tag(t)] \in [Turns -> 0 .. MaxCommits]
    BY TagType
  <2>2. [gc[c] EXCEPT !.pc = "listed", !.listed = [t \in Turns |-> tag(t)]] \in GcStates
    BY <2>1 DEF GcStates, Pcs
  <2>3. QED
    BY <1>2, <2>2, StepType DEF list_turn_tags
<1>3. CASE read_roots(c)
  <2>1. [t \in Turns |-> IF t \in GcKeep THEN 0 ELSE gc[c].listed[t]]
          \in [Turns -> 0 .. MaxCommits]
    BY DEF GcStates
  <2>2. GcWindow \in SUBSET Turns /\ Fate \in {"keep", "alert", "delete"}
    BY DEF GcWindow, Writing, Present, Fate
  <2>3. [gc[c] EXCEPT !.pc = "read", !.window = GcWindow, !.fate = Fate,
            !.listed = [t \in Turns |-> IF t \in GcKeep THEN 0 ELSE @[t]]] \in GcStates
    BY <2>1, <2>2 DEF GcStates, Pcs
  <2>4. QED
    BY <1>3, <2>3, StepType DEF read_roots
<1>s. ToSweep(c) \in GcStates
  <2>1. Victims(c) \in [Turns -> 0 .. MaxCommits]
    BY DEF Victims, GcStates
  <2>2. QED
    BY <2>1 DEF ToSweep, GcStates, Pcs
<1>4. CASE read_busy(c)
  <2>1. [t \in Turns |-> IF t \in gc[c].window THEN tag(t) ELSE gc[c].listed[t]]
          \in [Turns -> 0 .. MaxCommits]
    BY TagType DEF GcStates
  <2>2. [ToSweep(c) EXCEPT !.busy = TRUE] \in GcStates
    BY <1>s DEF GcStates
  <2>3. [gc[c] EXCEPT !.pc = "migrate",
            !.listed = [t \in Turns |-> IF t \in gc[c].window THEN tag(t) ELSE @[t]],
            !.todo = {t \in gc[c].window : Len(chain[t]) > 1}] \in GcStates
    BY <2>1 DEF GcStates, Pcs
  <2>4. QED
    BY <1>4, <2>2, <2>3 DEF read_busy, Step
<1>t. \A t \in Turns : [gc[c] EXCEPT !.todo = @ \ {t}] \in GcStates
  BY DEF GcStates
<1>5. CASE \E t \in Turns : migrate_legacy_shadow(c, t)
  BY <1>5, <1>t, StepType DEF migrate_legacy_shadow, NewSha, Shas
<1>6. CASE \E t \in Turns : cas_delete_tag(c, t)
  BY <1>6, <1>t, StepType DEF cas_delete_tag
<1>7. CASE migrated(c)
  BY <1>7, <1>s, StepType DEF migrated, Compressed
<1>8. CASE swept(c)
  <2>1. Over(c, IF gc[c].fate = "delete" THEN "remove" ELSE "unlock") \in GcStates
    BY <1>o DEF Pcs
  <2>2. QED
    BY <1>8, <2>1, StepType DEF swept, Compressed
<1>9. CASE remove_shadow(c)
  <2>1. [gc[c] EXCEPT !.pc = "forget"] \in GcStates
    BY DEF GcStates, Pcs
  <2>2. gc' \in [Collectors -> GcStates]
    BY <1>9, <2>1, StepType DEF remove_shadow
  <2>3. chain' \in [Turns -> Seq(Shas)] /\ commits' = {} /\ shadow' = FALSE
    BY <1>9 DEF remove_shadow
  <2>4. UNCHANGED <<dir, stamp, job, lock, faults, undo, undos, active, shot, work, sessions, rows,
                    created, tombstone>>
    BY <1>9 DEF remove_shadow
  <2>5. DbOK' /\ ProcOK' /\ UserOK'
    BY <2>4
  <2>6. CollOK' /\ DiskOK'
    BY <2>2, <2>3, <2>4
  <2>7. QED
    BY <2>4, <2>5, <2>6
<1>10. CASE job_done(c)
  <2>1. \A d \in Collectors : [gc[d] EXCEPT !.mine = FALSE] \in GcStates
    BY DEF GcStates
  <2>2. QED
    BY <1>10, <2>1, IdleType DEF job_done
<1>11. CASE gc_raises(c)
  <2>1. job' \in {"none", "pending", "processing"}
    <3>1. job' = "pending" \/ job' = job
      BY <1>11, Zenon DEF gc_raises
    <3>2. QED
      BY <3>1
  <2>2. QED
    BY <1>11, <2>1, IdleType DEF gc_raises, Fault
<1>12. CASE gc_crashes(c)
  BY <1>12, IdleType DEF gc_crashes, Fault
<1>13. QED
  BY <1>0, <1>1, <1>2, <1>3, <1>4, <1>5, <1>6, <1>7, <1>8, <1>9, <1>10, <1>11, <1>12, <1>a, <1>b
     DEF Collector, Proceed

LEMMA UndoType == ASSUME TypeOK, Undo
                  PROVE  (DbOK /\ DiskOK /\ ProcOK /\ CollOK /\ UserOK)'
                         /\ faults' \in 0 .. MaxFaults
<1> USE BoundsAreNat DEF TypeOK, HistOK, db, disk, proc, coll, user, DbOK, DiskOK, ProcOK, CollOK,
                         UserOK
<1>1. ASSUME NEW t \in Turns, undo_begins(t)
      PROVE  (DbOK /\ DiskOK /\ ProcOK /\ CollOK /\ UserOK)' /\ faults' \in 0 .. MaxFaults
  BY <1>1, TagType DEF undo_begins, Turns
<1>2. CASE undo_ends
  BY <1>2 DEF undo_ends, NoUndo
<1>3. QED
  BY <1>1, <1>2 DEF Undo

LEMMA TypeInductive == TypeOK /\ [Next]_vars => TypeOK'
<1> SUFFICES ASSUME TypeOK, [Next]_vars
             PROVE  TypeOK'
  OBVIOUS
<1>1. CASE Next
  <2>1. (DbOK /\ DiskOK /\ ProcOK /\ CollOK /\ UserOK)' /\ faults' \in 0 .. MaxFaults
    BY <1>1, ApiType, WorkerType, CollectorType, UndoType DEF Next
  <2>2. (left \subseteq Turns)' /\ (tagged \subseteq Turns)'
    <3>1. 1 .. created' \subseteq Turns
      BY <2>1, BoundsAreNat DEF DbOK, Turns
    <3>2. left' \subseteq left \cup 1 .. created'
      BY <1>1, Zenon DEF Next, Noted
    <3>3. tagged' \subseteq tagged \cup Turns
      BY <1>1, Zenon DEF Next, Noted, Tags
    <3>4. QED
      BY <3>1, <3>2, <3>3 DEF TypeOK, HistOK, Turns
  <2>3. QED
    BY <2>1, <2>2 DEF TypeOK, HistOK
<1>2. CASE UNCHANGED vars
  BY <1>2 DEF vars, db, disk, proc, coll, user, hist, TypeOK, DbOK, DiskOK, ProcOK, CollOK, UserOK,
              HistOK, Turns, Shas
<1>3. QED
  BY <1>1, <1>2

LEMMA TypeInit == Init => TypeOK
<1> SUFFICES ASSUME Init PROVE TypeOK
  OBVIOUS
<1> USE BoundsAreNat DEF Init
<1>1. DbOK
  BY DEF DbOK
<1>2. DiskOK
  <2>1. <<>> \in Seq(Shas)
    OBVIOUS
  <2>2. chain \in [Turns -> Seq(Shas)]
    BY <2>1
  <2>3. dir \in BOOLEAN /\ shadow \in BOOLEAN /\ commits \subseteq Shas
    OBVIOUS
  <2>4. stamp \in 0 .. MaxCommits
    OBVIOUS
  <2>5. QED
    BY <2>2, <2>3, <2>4 DEF DiskOK
<1>3. ProcOK
  BY DEF ProcOK
<1>4. CollOK
  BY IdleType DEF CollOK
<1>5. UserOK /\ HistOK
  BY DEF UserOK, HistOK, NoUndo
<1>6. QED
  BY <1>1, <1>2, <1>3, <1>4, <1>5 DEF TypeOK

\* The variables keep their types, for any number of turns, collectors and commits.
THEOREM ReclaimTypeCorrect == Spec => []TypeOK
BY TypeInit, TypeInductive, PTL DEF Spec

(***************************************************************************)
(* An undo keeps its commit.                                               *)
(***************************************************************************)
\* Between taking the work's lock and giving it back.
Inside == {"locked", "listed", "read", "migrate", "sweep", "remove", "remove_shadow", "forget",
           "unlock"}

\* The advisory lock: a collector inside has it, and then no undo does.
Locked == /\ \A c \in Collectors : gc[c].pc \in Inside => lock = c
          /\ undo # NoUndo => lock = Nobody

\* What a tag reaches is in the repository.
Whole == /\ commits \subseteq 1 .. stamp
         /\ \A t \in Turns : \A i \in DOMAIN chain[t] : chain[t][i] \in commits

\* A preimage on its way is in the repository, unless it will not be taken: its parent is
\* no longer the tag, and as an old number never will be.
ShotSafe == \A t \in Turns : shot[t] # NoShot =>
                /\ shot[t].parent <= stamp
                /\ shot[t].sha \in commits \/ tag(t) # shot[t].parent

\* What an undo resolved is still under the tag of its turn.
Resolved == undo # NoUndo =>
                /\ undo.turn \in Turns
                /\ \E i \in DOMAIN chain[undo.turn] : chain[undo.turn][i] = undo.sha

RestoreInv == TypeOK /\ Locked /\ Whole /\ ShotSafe /\ Resolved

LEMMA RestoreInvSuffices == RestoreInv => RestoreWhole
BY DEF RestoreInv, Resolved, Whole, RestoreWhole

LEMMA RestoreInit == Init => RestoreInv
<1> SUFFICES ASSUME Init PROVE RestoreInv
  OBVIOUS
<1>1. TypeOK
  BY TypeInit
<1>2. Locked
  BY DEF Init, Locked, IdleGc, Inside
<1>3. Whole
  BY DEF Init, Whole
<1>4. ShotSafe /\ Resolved
  BY DEF Init, ShotSafe, Resolved
<1>5. QED
  BY <1>1, <1>2, <1>3, <1>4 DEF RestoreInv

\* Steps that leave the repository, the tags, the preimages, the undo, the lock and the
\* collectors alone.
LEMMA Elsewhere ==
    ASSUME RestoreInv, UNCHANGED <<chain, commits, stamp, shot, undo, lock, gc>>
    PROVE  (Locked /\ Whole /\ ShotSafe /\ Resolved)'
BY DEF RestoreInv, Locked, Whole, ShotSafe, Resolved, tag, Tags, Turns

LEMMA ApiRestore == ASSUME RestoreInv, Api
                    PROVE  (Locked /\ Whole /\ ShotSafe /\ Resolved)'
<1>1. UNCHANGED <<chain, commits, stamp, shot, undo, lock, gc>>
  BY DEF Api, create_turn, lease_reclaim, row_ages, delete_sessions_for_owner, delete_work_checks,
         delete_work_commits, delete_work_rolls_back, tombstone_ages, enqueue_due_work_gc,
         requeue_stale_processing, workspace_tenant_scope, disk, proc, coll, user
<1>2. QED
  BY <1>1, Elsewhere

\* No lock here: an unlocked worker only adds to the repository.
LEMMA WorkerRestore == ASSUME RestoreInv, NEW t \in Turns, Worker(t)
                       PROVE  (Locked /\ Whole /\ ShotSafe /\ Resolved)'
<1> USE BoundsAreNat DEF RestoreInv, TypeOK, DiskOK, ProcOK, db, disk, proc, coll, user
<1>1. CASE worker_starts(t) \/ ensure_repo(t)
  BY <1>1, Elsewhere DEF worker_starts, ensure_repo
<1>2. CASE ensure_turn_baseline(t)
  <2>1. Locked'
    BY <1>2 DEF ensure_turn_baseline, Locked
  <2>2. Whole'
    BY <1>2 DEF ensure_turn_baseline, Whole, NewSha
  <2>3. ShotSafe'
    <3> SUFFICES ASSUME NEW u \in Turns, shot[u] # NoShot
                 PROVE  /\ shot[u].parent <= stamp'
                        /\ shot[u].sha \in commits' \/ tag(u)' # shot[u].parent
      BY <1>2 DEF ensure_turn_baseline, ShotSafe
    <3>1. shot[u].parent <= stamp /\ (shot[u].sha \in commits \/ tag(u) # shot[u].parent)
      BY DEF ShotSafe
    <3>2. CASE u = t
      BY <1>2, <3>1, <3>2 DEF ensure_turn_baseline, NewSha, tag, Tags, Shas
    <3>3. CASE u # t
      BY <1>2, <3>1, <3>3 DEF ensure_turn_baseline, NewSha, tag, Tags, Shas
    <3>4. QED
      BY <3>2, <3>3
  <2>4. Resolved'
    BY <1>2 DEF ensure_turn_baseline, Resolved, Tags
  <2>5. QED
    BY <2>1, <2>2, <2>3, <2>4
<1>3. CASE snapshot_preimage(t)
  <2>0. Whole'
    BY <1>3 DEF snapshot_preimage, Whole, NewSha
  <2>1. Locked' /\ Resolved'
    BY <1>3 DEF snapshot_preimage, Locked, Resolved
  <2>2. tag(t) \in Shas /\ tag(t) \in commits
    BY <1>3 DEF snapshot_preimage, tag, Tags, Whole
  <2>3. tag(t) <= stamp
    BY <2>2 DEF Whole, Shas
  <2>4. ShotSafe'
    <3> SUFFICES ASSUME NEW u \in Turns, shot'[u] # NoShot
                 PROVE  /\ shot'[u].parent <= stamp'
                        /\ shot'[u].sha \in commits' \/ tag(u)' # shot'[u].parent
      BY DEF ShotSafe
    <3>1. CASE u = t
      BY <1>3, <2>2, <2>3, <3>1 DEF snapshot_preimage, NewSha, Shas
    <3>2. CASE u # t
      BY <1>3, <3>2 DEF snapshot_preimage, ShotSafe, NewSha, tag, Tags, Shas, NoShot
    <3>3. QED
      BY <3>1, <3>2
  <2>5. QED
    BY <2>0, <2>1, <2>4
<1>4. CASE cas_tag(t)
  <2>1. Locked'
    BY <1>4 DEF cas_tag, Locked
  <2>2. CASE tag(t) = shot[t].parent
    <3>1. shot[t].sha \in commits
      BY <1>4, <2>2 DEF cas_tag, ShotSafe
    <3>2. Whole'
      BY <1>4, <2>2, <3>1 DEF cas_tag, Whole
    <3>3. ShotSafe'
      BY <1>4, <2>2 DEF cas_tag, ShotSafe, tag, Tags
    <3>4. Resolved'
      <4> SUFFICES ASSUME undo # NoUndo
                   PROVE  /\ undo.turn \in Turns
                          /\ \E i \in DOMAIN chain'[undo.turn] : chain'[undo.turn][i] = undo.sha
        BY <1>4 DEF cas_tag, Resolved
      <4>1. undo.turn \in Turns
        BY DEF Resolved
      <4>2. PICK i \in DOMAIN chain[undo.turn] : chain[undo.turn][i] = undo.sha
        BY DEF Resolved
      <4>3. chain'[t] = Append(chain[t], shot[t].sha) /\ shot[t].sha \in Shas
        BY <1>4, <2>2 DEF cas_tag
      <4>4. CASE undo.turn = t
        BY <4>2, <4>3, <4>4
      <4>5. CASE undo.turn # t
        BY <1>4, <2>2, <4>1, <4>2, <4>5 DEF cas_tag
      <4>6. QED
        BY <4>1, <4>4, <4>5
    <3>5. QED
      BY <2>1, <3>2, <3>3, <3>4
  <2>3. CASE tag(t) # shot[t].parent
    <3>1. Whole' /\ Resolved'
      BY <1>4, <2>3 DEF cas_tag, Whole, Resolved
    <3>2. ShotSafe'
      BY <1>4, <2>3 DEF cas_tag, ShotSafe, tag, Tags
    <3>3. QED
      BY <2>1, <3>1, <3>2
  <2>4. QED
    BY <2>2, <2>3
<1>5. CASE worker_ends(t)
  BY <1>5 DEF worker_ends, Locked, Whole, Resolved, ShotSafe, tag, Tags
<1>6. QED
  BY <1>1, <1>2, <1>3, <1>4, <1>5 DEF Worker

\* While a collector is inside, no undo is under way.
LEMMA InsideAlone ==
    ASSUME RestoreInv, NEW c \in Collectors, gc[c].pc \in Inside
    PROVE  lock = c /\ undo = NoUndo
BY NobodyIsNoCollector DEF RestoreInv, Locked

\* A step of a collector that stays on its side of the lock.
LEMMA StepLocked ==
    ASSUME RestoreInv, NEW c \in Collectors, NEW from, NEW changed, Step(c, from, changed),
           changed.pc \in Inside => from \in Inside, UNCHANGED <<lock, undo>>
    PROVE  Locked'
BY DEF RestoreInv, TypeOK, CollOK, Step, Locked

\* Pruning spares what the tags reach and what is on its way.
LEMMA CompressSafe ==
    ASSUME RestoreInv, Compressed, UNCHANGED <<chain, stamp, shot, undo>>
    PROVE  (Whole /\ ShotSafe /\ Resolved)'
<1> USE DEF RestoreInv, TypeOK, DiskOK, ProcOK
<1>1. PICK S \in {{}, Prunable} : commits' = commits \ S
  BY DEF Compressed
<1>2. \A x \in Reachable \cup {shot[t].sha : t \in Turns} : x \in commits => x \in commits'
  BY <1>1 DEF Prunable
<1>3. Whole'
  <2>1. commits' \subseteq 1 .. stamp
    BY <1>1 DEF Whole
  <2>2. \A t \in Turns : \A i \in DOMAIN chain[t] : chain[t][i] \in Reachable
    BY DEF Reachable
  <2>3. QED
    BY <1>2, <2>1, <2>2 DEF Whole
<1>4. ShotSafe'
  BY <1>2 DEF ShotSafe, tag, Tags
<1>5. Resolved'
  BY DEF Resolved
<1>6. QED
  BY <1>3, <1>4, <1>5

LEMMA CollectorRestore == ASSUME RestoreInv, NEW c \in Collectors, Collector(c)
                          PROVE  (Locked /\ Whole /\ ShotSafe /\ Resolved)'
<1>g. gc[c] \in GcStates
  BY DEF RestoreInv, TypeOK, CollOK
<1>k. ASSUME UNCHANGED <<chain, commits, stamp, shot, undo>>
      PROVE  (Whole /\ ShotSafe /\ Resolved)'
  BY <1>k DEF RestoreInv, Whole, ShotSafe, Resolved, tag, Tags
<1>1. CASE claim_work_gc(c)
  <2>1. Locked'
    BY <1>1, StepLocked DEF claim_work_gc, IdleGc, Inside, user
  <2>2. QED
    BY <1>1, <1>k, <2>1 DEF claim_work_gc, disk, proc, user
<1>2. CASE gc_locks(c)
  <2>1. Locked'
    BY <1>2, <1>g, NobodyIsNoCollector DEF gc_locks, RestoreInv, TypeOK, CollOK, Step, Free, Locked, user, Inside, GcStates
  <2>2. QED
    BY <1>2, <1>k, <2>1 DEF gc_locks, disk, proc, user
<1>3. CASE gc_skips(c)
  <2>1. Locked'
    BY <1>3, <1>g, StepLocked DEF gc_skips, Inside, user, GcStates
  <2>2. QED
    BY <1>3, <1>k, <2>1 DEF gc_skips, disk, proc, user
<1>4. CASE list_turn_tags(c) \/ work_unreadable(c) \/ git_list_failed(c) \/ read_roots(c)
  <2>1. Locked'
    BY <1>4, <1>g, StepLocked
       DEF Over, list_turn_tags, work_unreadable, git_list_failed, read_roots, Inside, user
  <2>2. QED
    BY <1>4, <1>k, <2>1
       DEF list_turn_tags, work_unreadable, git_list_failed, read_roots, disk, proc, user
<1>5. CASE read_busy(c) \/ migrate_fails(c) \/ remove_directory(c) \/ drop_tombstone(c)
  <2>1. Locked'
    BY <1>5, <1>g, StepLocked DEF Over, IdleGc, read_busy, migrate_fails, remove_directory, drop_tombstone, Inside, user
  <2>2. QED
    BY <1>5, <1>k, <2>1 DEF read_busy, migrate_fails, remove_directory, drop_tombstone, disk, proc, user
<1>6. CASE \E t \in Turns : migrate_legacy_shadow(c, t)
  <2>1. PICK t \in Turns : migrate_legacy_shadow(c, t)
    BY <1>6
  <2>2. Locked'
    BY <2>1, StepLocked DEF migrate_legacy_shadow, Inside, user
  <2>3. undo' = NoUndo
    BY <2>1, InsideAlone DEF migrate_legacy_shadow, Step, Inside, user
  <2>4. Whole'
    BY <2>1, BoundsAreNat DEF migrate_legacy_shadow, RestoreInv, TypeOK, DiskOK, Whole, NewSha
  <2>5. ShotSafe'
    <3> SUFFICES ASSUME NEW u \in Turns, shot[u] # NoShot
                 PROVE  /\ shot[u].parent <= stamp'
                        /\ shot[u].sha \in commits' \/ tag(u)' # shot[u].parent
      BY <2>1 DEF migrate_legacy_shadow, proc, ShotSafe
    <3> USE BoundsAreNat DEF RestoreInv, TypeOK, DiskOK, ProcOK
    <3>1. shot[u].parent <= stamp /\ (shot[u].sha \in commits \/ tag(u) # shot[u].parent)
      BY DEF ShotSafe
    <3>2. CASE chain' = [chain EXCEPT ![t] = <<NewSha>>]
      BY <2>1, <3>1, <3>2 DEF migrate_legacy_shadow, NewSha, tag, Tags, Shas
    <3>3. CASE chain' = chain
      BY <2>1, <3>1, <3>3 DEF migrate_legacy_shadow, NewSha, tag, Tags, Shas
    <3>4. QED
      BY <2>1, <3>2, <3>3 DEF migrate_legacy_shadow
  <2>6. QED
    BY <2>2, <2>3, <2>4, <2>5 DEF Resolved
<1>7. CASE \E t \in Turns : cas_delete_tag(c, t)
  <2>1. PICK t \in Turns : cas_delete_tag(c, t)
    BY <1>7
  <2>2. Locked'
    BY <2>1, StepLocked DEF cas_delete_tag, Inside, user
  <2>3. undo' = NoUndo
    BY <2>1, InsideAlone DEF cas_delete_tag, Step, Inside, user
  <2>4. Whole'
    BY <2>1 DEF cas_delete_tag, RestoreInv, TypeOK, DiskOK, Whole
  <2>5. ShotSafe'
    <3> SUFFICES ASSUME NEW u \in Turns, shot[u] # NoShot
                 PROVE  /\ shot[u].parent <= stamp'
                        /\ shot[u].sha \in commits' \/ tag(u)' # shot[u].parent
      BY <2>1 DEF cas_delete_tag, proc, ShotSafe
    <3>1. shot[u].parent <= stamp /\ (shot[u].sha \in commits \/ tag(u) # shot[u].parent)
      BY DEF RestoreInv, ShotSafe
    <3>2. shot[u].parent # 0
      BY BoundsAreNat DEF RestoreInv, TypeOK, ProcOK, Shas
    <3>3. tag(u)' \in {tag(u), 0}
      BY <2>1 DEF cas_delete_tag, tag, Tags, RestoreInv, TypeOK, DiskOK
    <3>4. QED
      BY <2>1, <3>1, <3>2, <3>3 DEF cas_delete_tag
  <2>6. QED
    BY <2>2, <2>3, <2>4, <2>5 DEF Resolved
<1>8. CASE migrated(c)
  <2>1. Locked'
    BY <1>8, StepLocked DEF migrated, Inside, user
  <2>2. QED
    BY <1>8, <2>1, CompressSafe DEF migrated, proc, user
<1>9. CASE swept(c)
  <2>1. Locked'
    BY <1>9, StepLocked DEF swept, Inside, user
  <2>2. CASE gc[c].busy
    BY <1>9, <1>k, <2>1, <2>2 DEF swept, proc, user
  <2>3. CASE ~ gc[c].busy
    BY <1>9, <2>1, <2>3, CompressSafe DEF swept, proc, user
  <2>4. QED
    BY <2>2, <2>3
<1>10. CASE remove_shadow(c)
  <2>1. Locked'
    BY <1>10, StepLocked DEF remove_shadow, Inside, user
  <2>2. undo' = NoUndo
    BY <1>10, InsideAlone DEF remove_shadow, Step, Inside, user
  <2>3. Whole'
    BY <1>10 DEF remove_shadow, Whole
  <2>4. ShotSafe'
    BY <1>10, BoundsAreNat DEF remove_shadow, proc, RestoreInv, TypeOK, ProcOK, Shas, ShotSafe, tag, Tags
  <2>5. QED
    BY <2>1, <2>2, <2>3, <2>4 DEF Resolved
<1>11. CASE gc_aborts(c)
  <2>1. Locked'
    BY <1>11 DEF gc_aborts, Over, IdleGc, user, RestoreInv, TypeOK, CollOK, Locked, Inside
  <2>2. QED
    BY <1>11, <1>k, <2>1 DEF gc_aborts, disk, proc, user
<1>12. CASE gc_unlocks(c)
  <2>1. undo = NoUndo /\ lock = c
    BY <1>12, InsideAlone DEF gc_unlocks, Step, Inside
  <2>2. Locked'
    BY <1>12, <2>1 DEF gc_unlocks, Step, Over, IdleGc, user, RestoreInv, TypeOK, CollOK, Locked, Inside
  <2>3. QED
    BY <1>12, <1>k, <2>2 DEF gc_unlocks, disk, proc, user
<1>13. CASE job_done(c)
  <2>1. \A d \in Collectors : gc'[d].pc \in Inside => gc[d].pc \in Inside
    BY <1>13 DEF job_done, IdleGc, Inside, RestoreInv, TypeOK, CollOK, GcStates
  <2>2. Locked'
    BY <1>13, <2>1 DEF job_done, user, RestoreInv, Locked
  <2>3. QED
    BY <1>13, <1>k, <2>2 DEF job_done, disk, proc, user
<1>14. CASE gc_raises(c) \/ gc_crashes(c)
  <2>1. /\ gc' = [gc EXCEPT ![c] = IdleGc]
        /\ lock' = IF lock = c THEN Nobody ELSE lock
        /\ UNCHANGED <<chain, commits, stamp, shot, undo>>
    BY <1>14 DEF gc_raises, gc_crashes, disk, proc, user
  <2>2. Locked'
    BY <2>1 DEF IdleGc, RestoreInv, TypeOK, CollOK, Locked, Inside
  <2>3. QED
    BY <1>k, <2>1, <2>2
<1>15. QED
  BY <1>1, <1>2, <1>3, <1>4, <1>5, <1>6, <1>7, <1>8, <1>9, <1>10, <1>11, <1>12, <1>13, <1>14
     DEF Collector, Proceed

\* An undo starts only while no collector is inside, from a tag that reaches its commit.
LEMMA UndoRestore == ASSUME RestoreInv, Undo
                     PROVE  (Locked /\ Whole /\ ShotSafe /\ Resolved)'
<1> USE DEF disk, proc, coll
<1>1. ASSUME NEW t \in Turns, undo_begins(t)
      PROVE  (Locked /\ Whole /\ ShotSafe /\ Resolved)'
  <2>1. Locked'
    BY <1>1 DEF undo_begins, RestoreInv, Locked
  <2>2. Whole' /\ ShotSafe'
    BY <1>1 DEF undo_begins, RestoreInv, Whole, ShotSafe, tag, Tags
  <2>3. Len(chain[t]) \in DOMAIN chain[t] /\ chain[t][Len(chain[t])] = tag(t)
    BY <1>1 DEF undo_begins, Tags, tag, RestoreInv, TypeOK, DiskOK
  <2>4. Resolved'
    BY <1>1, <2>3 DEF undo_begins, Resolved
  <2>5. QED
    BY <2>1, <2>2, <2>4
<1>2. CASE undo_ends
  BY <1>2 DEF undo_ends, RestoreInv, Locked, Whole, ShotSafe, Resolved, tag, Tags
<1>3. QED
  BY <1>1, <1>2 DEF Undo

LEMMA RestoreInductive == RestoreInv /\ [Next]_vars => RestoreInv'
<1> SUFFICES ASSUME RestoreInv, [Next]_vars
             PROVE  RestoreInv'
  OBVIOUS
<1>1. TypeOK'
  BY TypeInductive DEF RestoreInv
<1>2. CASE Next
  BY <1>1, <1>2, ApiRestore, WorkerRestore, CollectorRestore, UndoRestore DEF Next, RestoreInv
<1>3. CASE UNCHANGED vars
  BY <1>1, <1>3, Elsewhere DEF vars, disk, proc, coll, user, RestoreInv
<1>4. QED
  BY <1>2, <1>3

\* An undo that was let in has its commit in the shadow repository until it is through,
\* whatever collectors and workers do meanwhile (restore_turn_if_in_window holds the
\* work's lock shared; mark_work deletes, migrates and prunes under the exclusive one).
THEOREM RestoresAreWhole == Spec => []RestoreWhole
BY RestoreInit, RestoreInductive, RestoreInvSuffices, PTL DEF Spec

(***************************************************************************)
(* The undo window is kept: no lock keeps the turns and the api out, but   *)
(* what a collector deletes was outside the window once, and what has been *)
(* outside is no longer promised.                                          *)
(***************************************************************************)
\* Rows, workers and tags are of turns that were created; a row is of a session, and a
\* deleted work has none.
Housed == /\ Present \cup active \cup Tags \subseteq 1 .. created
          /\ \A t \in Present : SessionOf[t] \in sessions
          /\ work = "gone" => sessions = {}

\* Whoever is outside the window has been seen there.
Noticed == \A t \in 1 .. created : InWindow(t) \/ t \in left

\* Who was never outside keeps its tag.
Standing == tagged \subseteq Tags /\ tagged \cap left = {}

\* What a collector is about to delete has been outside the window, and it removes the
\* repository of a deleted work only.
Collecting(c) ==
    /\ gc[c].pc = "listed" => \A t \in Turns : gc[c].listed[t] # 0 => t \in 1 .. created
    /\ gc[c].pc = "read" => \A t \in Turns : gc[c].listed[t] # 0 => t \in left
    /\ gc[c].pc = "migrate" =>
         /\ \A t \in Turns \ gc[c].window : gc[c].listed[t] # 0 => t \in left
         /\ gc[c].todo \subseteq 1 .. created
    /\ gc[c].pc = "sweep" => gc[c].todo \subseteq left
    /\ gc[c].pc \in {"read", "migrate", "sweep"} /\ gc[c].fate = "delete" => work = "gone"
    /\ gc[c].pc \in {"remove", "remove_shadow", "forget"} => work = "gone"

WindowInv == Housed /\ Noticed /\ Standing /\ \A c \in Collectors : Collecting(c)

\* The collector's window contains the one of undo: it counts over writing turns only.
LEMMA WindowCovers ==
    ASSUME TypeOK, NEW t \in Turns, InWindow(t)
    PROVE  t \in GcWindow
<1>1. t \in Present
  BY DEF InWindow
<1>2. CASE rows[t].scenario = "writing"
  <2>1. Rank(t, Present) <= Keep
    BY <1>2 DEF InWindow
  <2>2. IsFiniteSet({u \in Present : u >= t})
    <3>1. IsFiniteSet(Turns)
      BY FS_Interval, BoundsAreNat DEF Turns
    <3>2. {u \in Present : u >= t} \in SUBSET Turns
      BY DEF Present
    <3>. QED
      BY <3>1, <3>2, FS_Subset
  <2>3. {u \in Writing : u >= t} \subseteq {u \in Present : u >= t}
    BY DEF Writing
  <2>4. IsFiniteSet({u \in Writing : u >= t}) /\ Rank(t, Writing) <= Rank(t, Present)
    BY <2>2, <2>3, FS_Subset DEF Rank
  <2>5. Rank(t, Writing) \in Nat /\ Rank(t, Present) \in Nat
    BY <2>2, <2>4, FS_CardinalityType DEF Rank
  <2>. QED
    BY <1>1, <1>2, <2>1, <2>4, <2>5, KeepsOne DEF GcWindow, Writing
<1>3. CASE rows[t].scenario # "writing"
  BY <1>1, <1>3 DEF InWindow, GcWindow, Writing, Present, TypeOK, DbOK, Rows
<1>. QED
  BY <1>2, <1>3

\* Every step notes who is outside, and drops no one from the note.
LEMMA NotedWindow ==
    ASSUME Noted, NEW S, S = Tags', tagged \ left' \subseteq S
    PROVE  left \subseteq left' /\ Noticed' /\ Standing'
BY DEF Noted, Noticed, Standing

\* A collector that does nothing finds what it was promised.
LEMMA CollectingKept ==
    ASSUME NEW c \in Collectors, Collecting(c), left \subseteq left',
           1 .. created \subseteq 1 .. created', work = "gone" => work' = "gone",
           gc'[c] = gc[c]
    PROVE  Collecting(c)'
BY DEF Collecting

\* Rows go with their session; a turn that is created has one.
LEMMA ApiWindow ==
    ASSUME TypeOK, WindowInv, Api
    PROVE  /\ Housed' /\ chain' = chain /\ gc' = gc
           /\ 1 .. created \subseteq 1 .. created'
           /\ work = "gone" => work' = "gone"
<1>0. /\ DbOK /\ Housed
      /\ created \in Nat
  BY BoundsAreNat DEF TypeOK, DbOK, WindowInv
<1>. USE DEF Housed, Present, Tags, DbOK, db, disk, proc, coll, user
<1>1. ASSUME NEW t \in Turns, NEW s \in {"writing", "coding"}, create_turn(t, s)
      PROVE  /\ Housed' /\ chain' = chain /\ gc' = gc
             /\ 1 .. created \subseteq 1 .. created'
             /\ work = "gone" => work' = "gone"
  BY <1>0, <1>1 DEF create_turn
<1>2. ASSUME NEW t \in Turns, lease_reclaim(t) \/ row_ages(t)
      PROVE  /\ Housed' /\ UNCHANGED <<chain, gc, created, work>>
  BY <1>0, <1>2 DEF lease_reclaim, row_ages, EndRun
<1>3. ASSUME NEW s \in sessions, delete_sessions_for_owner(s)
      PROVE  /\ Housed' /\ UNCHANGED <<chain, gc, created, work>>
  BY <1>0, <1>3 DEF delete_sessions_for_owner, Without
<1>4. CASE delete_work_commits
  BY <1>0, <1>4 DEF delete_work_commits, Without
<1>5. CASE delete_work_checks \/ delete_work_rolls_back \/ tombstone_ages
  BY <1>0, <1>5 DEF delete_work_checks, delete_work_rolls_back, tombstone_ages
<1>6. CASE enqueue_due_work_gc \/ requeue_stale_processing \/ workspace_tenant_scope
  BY <1>0, <1>6 DEF enqueue_due_work_gc, requeue_stale_processing, workspace_tenant_scope
<1>. QED
  BY <1>1, <1>2, <1>3, <1>4, <1>5, <1>6 DEF Api

\* A worker's turn exists, and its tag is only moved.
LEMMA WorkerWindow ==
    ASSUME TypeOK, WindowInv, NEW t \in Turns, Worker(t)
    PROVE  Housed' /\ Tags \subseteq Tags' /\ UNCHANGED <<created, work, gc>>
<1>0. /\ DbOK /\ DiskOK /\ Housed
  BY DEF TypeOK, WindowInv
<1>. USE DEF Housed, Present, Tags, DbOK, DiskOK, db, disk, proc, coll, user
<1>1. CASE worker_starts(t) \/ ensure_repo(t)
  BY <1>0, <1>1 DEF worker_starts, ensure_repo
<1>2. CASE ensure_turn_baseline(t)
  BY <1>0, <1>2 DEF ensure_turn_baseline
<1>3. CASE snapshot_preimage(t)
  BY <1>0, <1>3 DEF snapshot_preimage
<1>4. CASE cas_tag(t)
  <2>1. tag(t) = shot[t].parent => chain[t] # <<>>
    BY <1>4, BoundsAreNat DEF cas_tag, TypeOK, ProcOK, NoShot, Shas, tag, Tags
  <2>2. chain' = chain \/ (t \in Tags /\ chain' = [chain EXCEPT ![t] = Append(@, shot[t].sha)])
    BY <1>4, <2>1 DEF cas_tag
  <2>3. chain' # chain => shot[t].sha \in Shas
    BY <1>4 DEF cas_tag, TypeOK, ProcOK, NoShot
  <2>4. Tags' = Tags
    <3>1. CASE chain' = chain
      BY <3>1
    <3>2. CASE chain' # chain
      <4>1. \A u \in Turns : chain'[u] = IF u = t THEN Append(chain[t], shot[t].sha) ELSE chain[u]
        BY <1>0, <2>2, <3>2
      <4>2. chain[t] \in Seq(Shas) /\ chain[t] # <<>>
        BY <1>0, <2>2, <3>2
      <4>3. Append(chain[t], shot[t].sha) # <<>>
        BY ONLY <4>2, <2>3, <3>2
      <4>. QED
        BY <4>1, <4>2, <4>3
    <3>. QED
      BY <3>1, <3>2
  <2>. QED
    BY <1>0, <1>4, <2>4 DEF cas_tag
<1>5. CASE worker_ends(t)
  BY <1>0, <1>5 DEF worker_ends, EndRun
<1>. QED
  BY <1>1, <1>2, <1>3, <1>4, <1>5 DEF Worker

\* A round that locks the work or is over has promised nothing.
LEMMA NothingCollected ==
    ASSUME NEW c \in Collectors,
           gc'[c].pc \in {"idle", "claimed", "locked", "unlock", "done"}
    PROVE  Collecting(c)'
BY DEF Collecting

\* What a collector's step does to its own promises and to the tags.
Collected(c) ==
    /\ Collecting(c)'
    /\ Tags' \subseteq 1 .. created
    /\ Tags \subseteq Tags' \cup left
    /\ UNCHANGED <<rows, sessions, created, work, active>>

LEMMA CollectorWindow ==
    ASSUME TypeOK, WindowInv, NEW c \in Collectors, Collector(c), left \subseteq left'
    PROVE  Collected(c)
<1>0. /\ gc \in [Collectors -> GcStates] /\ gc[c] \in GcStates
      /\ chain \in [Turns -> Seq(Shas)]
      /\ Housed /\ Noticed /\ Collecting(c)
  BY DEF TypeOK, CollOK, DiskOK, WindowInv
<1>. USE DEF db, disk, proc, user
<1>1. CASE \/ claim_work_gc(c) \/ gc_locks(c) \/ gc_skips(c) \/ work_unreadable(c)
           \/ git_list_failed(c) \/ migrate_fails(c) \/ gc_aborts(c) \/ gc_unlocks(c)
  <2>1. gc'[c].pc \in {"idle", "claimed", "locked", "unlock", "done"}
    <3>1. CASE claim_work_gc(c)
      BY <1>0, <3>1 DEF claim_work_gc, Step, IdleGc
    <3>2. CASE gc_locks(c) \/ gc_skips(c)
      BY <1>0, <3>2 DEF gc_locks, gc_skips, Step, GcStates
    <3>3. CASE work_unreadable(c) \/ git_list_failed(c) \/ migrate_fails(c) \/ gc_unlocks(c)
      BY <1>0, <3>3 DEF work_unreadable, git_list_failed, migrate_fails, gc_unlocks, Step, Over, IdleGc
    <3>4. CASE gc_aborts(c)
      BY <1>0, <3>4 DEF gc_aborts, Over, IdleGc
    <3>. QED
      BY <1>1, <3>1, <3>2, <3>3, <3>4
  <2>2. UNCHANGED <<rows, sessions, created, work, active, chain>>
    BY <1>1 DEF claim_work_gc, gc_locks, gc_skips, work_unreadable, git_list_failed,
       migrate_fails, gc_aborts, gc_unlocks
  <2>. QED
    BY <1>0, <2>1, <2>2, NothingCollected DEF Collected, Tags, Housed
<1>2. CASE list_turn_tags(c)
  <2>1. gc'[c] = [gc[c] EXCEPT !.pc = "listed", !.listed = [t \in Turns |-> tag(t)]]
    BY <1>0, <1>2 DEF list_turn_tags, Step
  <2>2. gc'[c].pc = "listed" /\ \A t \in Turns : gc'[c].listed[t] = tag(t)
    BY ONLY <1>0, <2>1 DEF GcStates
  <2>3. UNCHANGED <<rows, sessions, created, work, active, chain>>
    BY <1>2 DEF list_turn_tags
  <2>. QED
    BY <1>0, <2>2, <2>3 DEF Collected, Collecting, Housed, Tags, tag
<1>3. CASE read_roots(c)
  <2>1. gc'[c] = [gc[c] EXCEPT !.pc = "read", !.window = GcWindow, !.fate = Fate,
                    !.listed = [t \in Turns |-> IF t \in GcKeep THEN 0 ELSE @[t]]]
    BY <1>0, <1>3 DEF read_roots, Step
  <2>2. /\ gc[c].pc = "listed" /\ gc'[c].pc = "read" /\ gc'[c].fate = Fate
        /\ \A t \in Turns : gc'[c].listed[t] = IF t \in GcKeep THEN 0 ELSE gc[c].listed[t]
    BY <1>0, <1>3, <2>1 DEF read_roots, Step, GcStates
  <2>3. UNCHANGED <<rows, sessions, created, work, active, chain>>
    BY <1>3 DEF read_roots
  <2>4. \A t \in Turns : gc'[c].listed[t] # 0 => t \in left
    BY <1>0, <2>2, WindowCovers DEF Collecting, GcKeep, Noticed
  <2>. QED
    BY <1>0, <2>2, <2>3, <2>4 DEF Collected, Collecting, Fate, Tags, Housed
<1>4. CASE read_busy(c)
  <2>1. UNCHANGED <<rows, sessions, created, work, active, chain>>
    BY <1>4 DEF read_busy
  <2>2. \A t \in Turns : t \notin left => Victims(c)[t] = 0
    BY <1>0, <1>4 DEF Victims, Collecting, read_busy, Step
  <2>3. CASE \E t \in Turns : Unfinished(t)
    <3>1. gc'[c] = [ToSweep(c) EXCEPT !.busy = TRUE] /\ gc[c].pc = "read"
      BY <1>0, <1>4, <2>3 DEF read_busy, Step
    <3>2. gc'[c].pc = "sweep" /\ gc'[c].todo \subseteq left /\ gc'[c].fate = gc[c].fate
      BY ONLY <1>0, <2>2, <3>1 DEF ToSweep, GcStates
    <3>. QED
      BY <1>0, <2>1, <3>1, <3>2 DEF Collected, Collecting, Tags, Housed
  <2>4. CASE ~ \E t \in Turns : Unfinished(t)
    <3>1. /\ gc[c].pc = "read"
          /\ gc'[c] = [gc[c] EXCEPT !.pc = "migrate",
                          !.listed = [t \in Turns |-> IF t \in gc[c].window THEN tag(t) ELSE @[t]],
                          !.todo = {t \in gc[c].window : Len(chain[t]) > 1}]
      BY <1>0, <1>4, <2>4 DEF read_busy, Step
    <3>2. /\ gc'[c].pc = "migrate" /\ gc'[c].fate = gc[c].fate /\ gc'[c].window = gc[c].window
          /\ gc'[c].todo = {t \in gc[c].window : Len(chain[t]) > 1}
          /\ \A t \in Turns \ gc[c].window : gc'[c].listed[t] = gc[c].listed[t]
      BY ONLY <1>0, <3>1 DEF GcStates
    <3>3. \A t \in gc[c].window : Len(chain[t]) > 1 => t \in Tags
      BY <1>0 DEF Tags, GcStates
    <3>. QED
      BY <1>0, <2>1, <3>1, <3>2, <3>3 DEF Collected, Collecting, Tags, Housed
  <2>. QED
    BY <2>3, <2>4
<1>5. ASSUME NEW t \in Turns, migrate_legacy_shadow(c, t)
      PROVE  Collected(c)
  <2>1. gc'[c] = [gc[c] EXCEPT !.todo = @ \ {t}] /\ gc[c].pc = "migrate" /\ t \in gc[c].todo
    BY <1>0, <1>5 DEF migrate_legacy_shadow, Step
  <2>2. /\ gc'[c].pc = "migrate" /\ gc'[c].todo = gc[c].todo \ {t}
        /\ gc'[c].fate = gc[c].fate /\ gc'[c].window = gc[c].window
        /\ gc'[c].listed = gc[c].listed
    BY ONLY <1>0, <2>1 DEF GcStates
  <2>3. UNCHANGED <<rows, sessions, created, work, active>>
    BY <1>5 DEF migrate_legacy_shadow
  <2>4. chain' = chain \/ chain' = [chain EXCEPT ![t] = <<NewSha>>]
    BY <1>5 DEF migrate_legacy_shadow
  <2>5. Tags \subseteq Tags' /\ Tags' \subseteq Tags \cup {t}
    <3>1. <<NewSha>> # <<>>
      OBVIOUS
    <3>2. \A u \in Turns : chain'[u] = chain[u] \/ (u = t /\ chain'[u] = <<NewSha>>)
      BY <1>0, <2>4
    <3>. QED
      BY <3>1, <3>2 DEF Tags
  <2>6. t \in 1 .. created
    BY <1>0, <2>1 DEF Collecting
  <2>. QED
    BY <1>0, <2>1, <2>2, <2>3, <2>5, <2>6 DEF Collected, Collecting, Housed
<1>6. ASSUME NEW t \in Turns, cas_delete_tag(c, t)
      PROVE  Collected(c)
  <2>1. gc'[c] = [gc[c] EXCEPT !.todo = @ \ {t}] /\ gc[c].pc = "sweep" /\ t \in gc[c].todo
    BY <1>0, <1>6 DEF cas_delete_tag, Step
  <2>2. /\ gc'[c].pc = "sweep" /\ gc'[c].todo = gc[c].todo \ {t} /\ gc'[c].fate = gc[c].fate
    BY ONLY <1>0, <2>1 DEF GcStates
  <2>3. UNCHANGED <<rows, sessions, created, work, active>>
    BY <1>6 DEF cas_delete_tag
  <2>4. chain' = chain \/ chain' = [chain EXCEPT ![t] = <<>>]
    BY <1>6 DEF cas_delete_tag
  <2>5. Tags' \subseteq Tags /\ Tags \subseteq Tags' \cup {t}
    BY <1>0, <2>4 DEF Tags
  <2>6. t \in left
    BY <1>0, <2>1 DEF Collecting
  <2>. QED
    BY <1>0, <2>1, <2>2, <2>3, <2>5, <2>6 DEF Collected, Collecting, Housed
<1>7. CASE migrated(c)
  <2>1. gc'[c] = ToSweep(c) /\ gc[c].pc = "migrate"
    BY <1>0, <1>7 DEF migrated, Step
  <2>2. \A t \in Turns : t \notin left => Victims(c)[t] = 0
    BY <1>0, <2>1 DEF Victims, Collecting
  <2>3. gc'[c].pc = "sweep" /\ gc'[c].todo \subseteq left /\ gc'[c].fate = gc[c].fate
    BY ONLY <1>0, <2>1, <2>2 DEF ToSweep, GcStates
  <2>4. UNCHANGED <<rows, sessions, created, work, active, chain>>
    BY <1>7 DEF migrated
  <2>. QED
    BY <1>0, <2>1, <2>3, <2>4 DEF Collected, Collecting, Tags, Housed
<1>8. CASE swept(c)
  <2>1. UNCHANGED <<rows, sessions, created, work, active, chain>>
    BY <1>8 DEF swept
  <2>2. /\ gc[c].pc = "sweep"
        /\ gc'[c].pc = IF gc[c].fate = "delete" THEN "remove" ELSE "unlock"
    BY <1>0, <1>8 DEF swept, Step, Over, IdleGc, GcStates
  <2>. QED
    BY <1>0, <2>1, <2>2 DEF Collected, Collecting, Tags, Housed
<1>9. CASE remove_directory(c) \/ drop_tombstone(c)
  <2>1. UNCHANGED <<rows, sessions, created, work, active, chain>>
    BY <1>9 DEF remove_directory, drop_tombstone
  <2>2. /\ gc[c].pc \in {"remove", "forget"}
        /\ gc'[c].pc \in {"remove_shadow", "unlock"}
    BY <1>0, <1>9 DEF remove_directory, drop_tombstone, Step, GcStates
  <2>. QED
    BY <1>0, <2>1, <2>2 DEF Collected, Collecting, Tags, Housed
<1>10. CASE remove_shadow(c)
  <2>1. UNCHANGED <<rows, sessions, created, work, active>> /\ Tags' = {}
    BY <1>10 DEF remove_shadow, Tags
  <2>2. gc[c].pc = "remove_shadow" /\ gc'[c].pc = "forget"
    BY <1>0, <1>10 DEF remove_shadow, Step, GcStates
  <2>3. work = "gone"
    BY <1>0, <2>2 DEF Collecting
  <2>4. Tags \subseteq left
    BY <1>0, <2>3 DEF Housed, Noticed, InWindow
  <2>. QED
    BY <1>0, <2>1, <2>2, <2>3, <2>4 DEF Collected, Collecting
<1>11. CASE job_done(c) \/ gc_raises(c) \/ gc_crashes(c)
  <2>1. gc'[c] = IdleGc
    BY <1>0, <1>11 DEF job_done, gc_raises, gc_crashes
  <2>2. UNCHANGED <<rows, sessions, created, work, active, chain>>
    BY <1>11 DEF job_done, gc_raises, gc_crashes
  <2>. QED
    BY <1>0, <2>1, <2>2, NothingCollected DEF Collected, IdleGc, Tags, Housed
<1>. QED
  BY <1>1, <1>2, <1>3, <1>4, <1>5, <1>6, <1>7, <1>8, <1>9, <1>10, <1>11 DEF Collector, Proceed

\* Another collector's promises are untouched: at most its claim on the job is taken.
LEMMA CollectorOthers ==
    ASSUME TypeOK, NEW c \in Collectors, Collector(c), NEW d \in Collectors \ {c},
           Collecting(d), left \subseteq left', UNCHANGED <<created, work>>
    PROVE  Collecting(d)'
<1>0. gc \in [Collectors -> GcStates]
  BY DEF TypeOK, CollOK
<1>1. CASE job_done(c)
  <2>1. gc'[d] = gc[d] \/ gc'[d] = [gc[d] EXCEPT !.mine = FALSE]
    BY <1>0, <1>1 DEF job_done
  <2>2. /\ gc'[d].pc = gc[d].pc /\ gc'[d].listed = gc[d].listed /\ gc'[d].window = gc[d].window
        /\ gc'[d].todo = gc[d].todo /\ gc'[d].fate = gc[d].fate
    BY ONLY <1>0, <2>1, d \in Collectors DEF GcStates
  <2>. QED
    BY <2>2 DEF Collecting
<1>2. CASE ~ job_done(c)
  <2>1. gc'[d] = gc[d]
    BY <1>0, <1>2 DEF Collector, Proceed, Step, claim_work_gc, gc_locks, gc_skips, list_turn_tags,
       work_unreadable, git_list_failed, read_roots, read_busy, migrate_fails, migrated, swept,
       migrate_legacy_shadow, cas_delete_tag, remove_directory, remove_shadow, drop_tombstone, gc_unlocks, gc_aborts,
       gc_raises, gc_crashes
  <2>. QED
    BY <2>1, CollectingKept
<1>. QED
  BY <1>1, <1>2

LEMMA WindowInit == Init => WindowInv
<1>. SUFFICES ASSUME Init
              PROVE  WindowInv
  OBVIOUS
<1>1. Housed /\ Noticed /\ Standing
  BY DEF Init, Housed, Noticed, Standing, Present, Tags
<1>2. \A c \in Collectors : Collecting(c)
  BY DEF Init, Collecting, IdleGc
<1>. QED
  BY <1>1, <1>2 DEF WindowInv

LEMMA WindowStep ==
    ASSUME TypeOK, WindowInv, Next
    PROVE  WindowInv'
<1>0. Noted /\ left \subseteq left'
  BY DEF Next, Noted
<1>1. ASSUME Housed', Tags \subseteq Tags' \cup left, \A c \in Collectors : Collecting(c)'
      PROVE  WindowInv'
  BY <1>0, <1>1, NotedWindow DEF WindowInv, Standing, Noted
<1>2. CASE Api
  <2>1. /\ Housed' /\ chain' = chain /\ gc' = gc
        /\ 1 .. created \subseteq 1 .. created'
        /\ work = "gone" => work' = "gone"
    BY <1>2, ApiWindow
  <2>2. \A c \in Collectors : Collecting(c)'
    BY <1>0, <2>1, CollectingKept DEF WindowInv
  <2>. QED
    BY <1>1, <2>1, <2>2 DEF Tags
<1>3. ASSUME NEW t \in Turns, Worker(t)
      PROVE  WindowInv'
  <2>1. Housed' /\ Tags \subseteq Tags' /\ UNCHANGED <<created, work, gc>>
    BY <1>3, WorkerWindow
  <2>2. \A c \in Collectors : Collecting(c)'
    BY <1>0, <2>1, CollectingKept DEF WindowInv
  <2>. QED
    BY <1>1, <2>1, <2>2
<1>4. ASSUME NEW c \in Collectors, Collector(c)
      PROVE  WindowInv'
  <2>1. Collected(c)
    BY <1>0, <1>4, CollectorWindow
  <2>2. Housed'
    BY <2>1 DEF Collected, WindowInv, Housed, Present
  <2>3. \A d \in Collectors : Collecting(d)'
    BY <1>0, <1>4, <2>1, CollectorOthers DEF Collected, WindowInv
  <2>. QED
    BY <1>1, <2>1, <2>2, <2>3 DEF Collected
<1>5. CASE Undo
  <2>1. UNCHANGED <<rows, sessions, created, work, active, chain, gc>>
    BY <1>5 DEF Undo, undo_begins, undo_ends, db, disk, proc, coll
  <2>2. \A c \in Collectors : Collecting(c)'
    BY <1>0, <2>1, CollectingKept DEF WindowInv
  <2>. QED
    BY <1>1, <2>1, <2>2 DEF WindowInv, Housed, Present, Tags
<1>. QED
  BY <1>2, <1>3, <1>4, <1>5 DEF Next

LEMMA WindowInductive == RestoreInv /\ WindowInv /\ [Next]_vars => WindowInv'
<1>. SUFFICES ASSUME RestoreInv, WindowInv, [Next]_vars
              PROVE  WindowInv'
  OBVIOUS
<1>1. CASE Next
  BY <1>1, WindowStep DEF RestoreInv
<1>2. CASE UNCHANGED vars
  BY <1>2 DEF vars, db, disk, proc, coll, user, hist, WindowInv, Housed, Noticed, Standing,
              Collecting, InWindow, Present, Rank, Tags
<1>. QED
  BY <1>1, <1>2

\* A turn that was never outside the window has its tag, and a tag's commits are there.
LEMMA WindowInvSuffices == RestoreInv /\ WindowInv => WindowKept
BY DEF RestoreInv, TypeOK, DiskOK, WindowInv, Standing, Whole, WindowKept, tag, Tags

\* A turn that has never been outside the undo window can be undone: its tag stands and its
\* commit is in the shadow repository, however mark_work, which counts the window over
\* other rows and holds no turn back, is interleaved with the turns, the api and undo.
THEOREM WindowsAreKept == Spec => []WindowKept
BY RestoreInit, RestoreInductive, WindowInit, WindowInductive, WindowInvSuffices, PTL DEF Spec

=============================================================================
