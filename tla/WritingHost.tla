---------------------------- MODULE WritingHost ----------------------------
(***************************************************************************)
(* The local writing host: one work directory that a command line or an    *)
(* app runs turns on, without a database (writing_host/storage.py, with    *)
(* runner.py, works.py and files.py).  A file lock admits one operation at *)
(* a time and every acquisition reconciles the ledger with the disk.  What *)
(* survives a process that dies is only what was written, one file at a    *)
(* time: so a step of this module is one file written, renamed into place  *)
(* or unlinked, and Crash may fall between any two of them.                *)
(*                                                                         *)
(* A text stands for a file's content and for the object named by its      *)
(* hash.  Events and evaluations are kept and deleted like checkpoints and *)
(* are left out; so are tmp files, which nothing reads.                    *)
(***************************************************************************)
EXTENDS Integers, FiniteSets

CONSTANTS
    Turns,      \* turn ids; the caller chooses them and may repeat one
    Docs,       \* paths of the manuscript, sidecars and notes
    Texts,      \* contents of a file
    Partial,    \* the content a process leaves that dies inside a write
    NoFile,     \* nothing at a path
    NoTurn,
    NoEntry,    \* a turn that the ledger does not list
    Keep,       \* EVENT_KEEP_TURNS
    MaxStarts,  \* bound: turns started or resumed
    MaxEdits,   \* bound: documents written by the author or the engine
    MaxCrashes, \* bound: processes that die
    MaxCopies   \* bound: manifests copied in from outside

ASSUME ValuesDiffer == /\ NoTurn \notin Turns
                       /\ Partial \in Texts
                       /\ NoFile \notin Texts
                       /\ NoFile \notin [Docs -> Texts \cup {NoFile}]
ASSUME FinitelyManyTurns == IsFiniteSet(Turns)
ASSUME BoundsAreNaturals == {Keep, MaxStarts, MaxEdits, MaxCrashes, MaxCopies} \subseteq Nat

VARIABLES
    docs,       \* the documents
    objects,    \* snapshots/objects
    manifest,   \* snapshots/turns: what each turn's snapshot lists
    checkpoint, \* turns that have a checkpoint file
    hasLedger,  \* there is a turns.json
    ledger,     \* its entries
    nextSeq,    \* its next_seq
    pc,         \* what the process that holds the lock does next, "idle" when it is free
    cur,        \* the turn it works on
    todo,       \* documents or turn files that it has still to write or unlink
    junk,       \* objects that the collection has still to unlink
    corrupt,    \* what reconcile answered when the lock was taken
    fate,       \* the terminal state the turn will get
    begun,      \* history: the documents as they were whenever a turn began
    torn,       \* history: the turn whose revert has started and not been completed
    spent       \* bounds: starts, edits, crashes, copies so far

disk == <<docs, objects, manifest, checkpoint>>
book == <<hasLedger, ledger, nextSeq>>
work == <<pc, cur, todo, junk, corrupt, fate>>
vars == <<disk, book, work, begun, torn, spent>>

Trees   == [Docs -> Texts \cup {NoFile}]
Entries == [seq : Nat, state : {"running", "interrupted", "completed", "failed", "cancelled"},
            snapshot : BOOLEAN]
ASSUME NoEntryIsNone == NoEntry \notin Entries
TurnFiles == {"manifest", "checkpoint"} \X Turns

\* The texts that a tree of documents refers to.
TextsOf(tree) == {tree[d] : d \in Docs} \ {NoFile}

Spendings == {"starts", "edits", "crashes", "copies"}
Spend(what) == spent' = [spent EXCEPT ![what] = @ + 1]
CanSpend(what, max) == spent[what] < max

(***************************************************************************)
(* The ledger.                                                             *)
(***************************************************************************)
Listed(l) == {t \in Turns : l[t] # NoEntry}

\* _root_ids: the last Keep turns by seq, and those that run or may be resumed.
Roots(l) ==
    {t \in Listed(l) :
        \/ Cardinality({u \in Listed(l) : l[u].seq > l[t].seq}) < Keep
        \/ l[t].state \in {"running", "interrupted"}}

MissingManifest(l) == \E t \in Roots(l) : l[t].snapshot /\ manifest[t] = NoFile

SetState(l, t, s) ==
    [u \in Turns |-> IF u = t /\ l[t] # NoEntry THEN [l[t] EXCEPT !.state = s] ELSE l[u]]

Only(l, S) == [t \in Turns |-> IF t \in S THEN l[t] ELSE NoEntry]

\* Manifests that the ledger does not list; glob returns them in any order.
Unlisted == {t \in Turns : manifest[t] # NoFile /\ ledger[t] = NoEntry}
Orders(S) == {f \in [S -> 0 .. Cardinality(S) - 1] : \A t, u \in S : f[t] = f[u] => t = u}
RecoveredEntry(n) == [seq |-> n, state |-> "completed", snapshot |-> TRUE]

\* A process died in the turns that still run; a manifest says that its turn has a snapshot.
Settled(t) ==
    [seq      |-> ledger[t].seq,
     state    |-> IF ledger[t].state # "running" THEN ledger[t].state
                  ELSE IF t \in checkpoint THEN "interrupted" ELSE "failed",
     snapshot |-> ledger[t].snapshot \/ manifest[t] # NoFile]

\* reconcile, with a ledger: the entries are settled, and a manifest nobody lists gets one.
Reconciliations ==
    {[entries |-> [t \in Turns |->
                     IF ledger[t] # NoEntry THEN Settled(t)
                     ELSE IF t \in Unlisted THEN RecoveredEntry(nextSeq + f[t])
                     ELSE NoEntry],
      next    |-> nextSeq + Cardinality(Unlisted)] : f \in Orders(Unlisted)}

\* work_lock: an operation enters only when no other process is inside, and starts from a
\* reconciled ledger.  A work without a ledger is migrated first (Migrate).
Acquired == IF pc = "idle" /\ hasLedger THEN Reconciliations ELSE {}

Release == /\ pc' = "idle"
           /\ cur' = NoTurn
           /\ todo' = {}
           /\ junk' = {}
           /\ corrupt' = FALSE
           /\ fate' = "failed"

\* open_work, resumable, history, export_work and every operation that is refused or dies
\* right after it took the lock: reconcile is all that happens.
Open == \E r \in Acquired :
    /\ nextSeq' = r.next
    /\ ledger' = r.entries
    /\ UNCHANGED <<disk, hasLedger, work, begun, torn, spent>>

\* _migrate: the first acquisition of a work from before the ledger existed.  The entries
\* follow the manifests' dates, which may be in any order.
Migrate ==
    /\ pc = "idle"
    /\ ~ hasLedger
    /\ \E f \in Orders(Unlisted) :
          ledger' = [t \in Turns |-> IF t \in Unlisted THEN RecoveredEntry(nextSeq + f[t])
                                                        ELSE NoEntry]
    /\ nextSeq' = nextSeq + Cardinality(Unlisted)
    /\ hasLedger' = TRUE
    /\ UNCHANGED <<disk, work, begun, torn, spent>>

(***************************************************************************)
(* A turn: _run_locked.                                                    *)
(***************************************************************************)
\* begin_turn: a new entry, or the entry of the same id set back to running.
begin_turn(t) == \E r \in Acquired :
    /\ CanSpend("starts", MaxStarts)
    /\ IF r.entries[t] # NoEntry
         THEN /\ ledger' = SetState(r.entries, t, "running")
              /\ nextSeq' = r.next
         ELSE /\ ledger' = [r.entries EXCEPT ![t] = [seq |-> r.next, state |-> "running",
                                                     snapshot |-> FALSE]]
              /\ nextSeq' = r.next + 1
    /\ corrupt' = MissingManifest(r.entries)
    /\ pc' = "baseline"
    /\ cur' = t
    /\ todo' = {d \in Docs : docs[d] # NoFile}
    /\ begun' = [begun EXCEPT ![t] = @ \cup {docs}]
    /\ torn' = NoTurn
    /\ Spend("starts")
    /\ UNCHANGED <<disk, hasLedger, junk, fate>>

\* store_object: a temporary file renamed to its hash, unless the object is there.
store_object(d) ==
    /\ pc = "baseline"
    /\ d \in todo
    /\ objects' = objects \cup {docs[d]}
    /\ todo' = todo \ {d}
    /\ UNCHANGED <<docs, manifest, checkpoint, book, pc, cur, junk, corrupt, fate, begun, torn, spent>>

write_manifest ==
    /\ pc = "baseline"
    /\ todo = {}
    /\ manifest' = [manifest EXCEPT ![cur] = docs]
    /\ pc' = "mark"
    /\ UNCHANGED <<docs, objects, checkpoint, book, cur, todo, junk, corrupt, fate, begun, torn, spent>>

mark_snapshot ==
    /\ pc = "mark"
    /\ ledger' = [ledger EXCEPT ![cur].snapshot = TRUE]
    /\ pc' = "engine"
    /\ UNCHANGED <<disk, hasLedger, nextSeq, cur, todo, junk, corrupt, fate, begun, torn, spent>>

\* resume_turn: any turn the caller names; without a checkpoint to load it fails.
resume_turn(t) == \E r \in Acquired :
    /\ nextSeq' = r.next
    /\ CanSpend("starts", MaxStarts)
    /\ ledger' = SetState(r.entries, t, "running")
    /\ corrupt' = MissingManifest(r.entries)
    /\ pc' = IF t \in checkpoint THEN "engine" ELSE "finish"
    /\ cur' = t
    /\ torn' = NoTurn
    /\ Spend("starts")
    /\ UNCHANGED <<disk, hasLedger, todo, junk, fate, begun>>

\* Mutant: the intent is applied before the snapshot is taken.
engine_writes_early(d, x) ==
    /\ pc \in {"baseline", "engine"}
    /\ CanSpend("edits", MaxEdits)
    /\ docs' = [docs EXCEPT ![d] = x]
    /\ todo' = IF pc = "baseline" THEN {e \in Docs : docs'[e] # NoFile} ELSE todo
    /\ Spend("edits")
    /\ UNCHANGED <<objects, manifest, checkpoint, book, pc, cur, junk, corrupt, fate, begun, torn>>

\* The engine's tools write and delete documents (Partial: it dies next, or a write
\* failed) ...
engine_writes(d, x) ==
    /\ pc = "engine"
    /\ CanSpend("edits", MaxEdits)
    /\ docs' = [docs EXCEPT ![d] = x]
    /\ Spend("edits")
    /\ UNCHANGED <<objects, manifest, checkpoint, book, work, begun, torn>>

\* ... and each step ends with a checkpoint (FileCheckpointStore.save).
save_checkpoint ==
    /\ pc = "engine"
    /\ checkpoint' = checkpoint \cup {cur}
    /\ UNCHANGED <<docs, objects, manifest, book, work, begun, torn, spent>>

\* The terminal event: the engine returned, or anything from the intent to the last step
\* raised (a bad intent, a full disk, the model).
terminal(s) ==
    /\ pc \in {"baseline", "mark", "engine"}
    /\ pc # "engine" => s = "failed"
    /\ fate' = s
    /\ todo' = {}
    /\ pc' = "finish"
    /\ UNCHANGED <<disk, book, cur, junk, corrupt, begun, torn, spent>>

\* Mutant: a turn that raised is left running for reconcile to settle.
finish_unset ==
    /\ pc = "finish"
    /\ fate' = IF fate = "failed" THEN "running" ELSE fate
    /\ ledger' = SetState(ledger, cur, fate')
    /\ pc' = "collect"
    /\ UNCHANGED <<disk, hasLedger, nextSeq, cur, todo, junk, corrupt, begun, torn, spent>>

\* finish_turn's _set_state; the collection follows.
finish_turn ==
    /\ pc = "finish"
    /\ ledger' = SetState(ledger, cur, fate)
    /\ pc' = "collect"
    /\ UNCHANGED <<disk, hasLedger, nextSeq, cur, todo, junk, corrupt, fate, begun, torn, spent>>

(***************************************************************************)
(* Collection: _gc_locked.                                                 *)
(***************************************************************************)
gc_work == \E r \in Acquired :
    /\ nextSeq' = r.next
    /\ ledger' = r.entries
    /\ corrupt' = MissingManifest(r.entries)
    /\ pc' = "collect"
    /\ UNCHANGED <<disk, hasLedger, cur, todo, junk, fate, begun, torn, spent>>

FilesOf(S) == {f \in TurnFiles :
                  /\ f[2] \in S
                  /\ IF f[1] = "manifest" THEN manifest[f[2]] # NoFile ELSE f[2] \in checkpoint}

Referenced(l) == UNION {TextsOf(manifest[t]) : t \in {u \in Roots(l) : manifest[u] # NoFile}}

\* A root whose manifest is missing: nothing is deleted.
gc_aborts ==
    /\ pc = "collect"
    /\ corrupt \/ MissingManifest(ledger)
    /\ Release
    /\ UNCHANGED <<disk, book, begun, torn, spent>>

\* _victims: the list is fixed before the first deletion.
gc_marks ==
    /\ pc = "collect"
    /\ ~ (corrupt \/ MissingManifest(ledger))
    /\ todo' = FilesOf(Listed(ledger) \ Roots(ledger))
    /\ junk' = objects \ Referenced(ledger)
    /\ pc' = "sweep"
    /\ UNCHANGED <<disk, book, cur, corrupt, fate, begun, torn, spent>>

UnlinkTurnFile(f) ==
    /\ manifest' = IF f[1] = "manifest" THEN [manifest EXCEPT ![f[2]] = NoFile] ELSE manifest
    /\ checkpoint' = IF f[1] = "checkpoint" THEN checkpoint \ {f[2]} ELSE checkpoint

\* The turns' files come first in the list of victims, the objects after them.
gc_unlinks_file(f) ==
    /\ pc = "sweep"
    /\ f \in todo
    /\ UnlinkTurnFile(f)
    /\ todo' = todo \ {f}
    /\ UNCHANGED <<docs, objects, book, pc, cur, junk, corrupt, fate, begun, torn, spent>>

\* Mutant: objects are not kept back until the manifests are gone.
gc_objects_first(x) ==
    /\ pc = "sweep"
    /\ x \in junk
    /\ objects' = objects \ {x}
    /\ junk' = junk \ {x}
    /\ UNCHANGED <<docs, manifest, checkpoint, book, pc, cur, todo, corrupt, fate, begun, torn, spent>>

gc_unlinks_object(x) ==
    /\ pc = "sweep"
    /\ todo = {}
    /\ x \in junk
    /\ objects' = objects \ {x}
    /\ junk' = junk \ {x}
    /\ UNCHANGED <<docs, manifest, checkpoint, book, pc, cur, todo, corrupt, fate, begun, torn, spent>>

\* The budget ran out: the rest, and the ledger, are left to the next collection.
gc_out_of_time ==
    /\ pc = "sweep"
    /\ todo # {} \/ junk # {}
    /\ Release
    /\ UNCHANGED <<disk, book, begun, torn, spent>>

gc_trims ==
    /\ pc = "sweep"
    /\ todo = {} /\ junk = {}
    /\ ledger' = Only(ledger, Roots(ledger))
    /\ begun' = [t \in Turns |-> IF t \in Roots(ledger) THEN begun[t] ELSE {}]
    /\ Release
    /\ UNCHANGED <<disk, hasLedger, nextSeq, torn, spent>>

(***************************************************************************)
(* Undo: revert_turn.                                                      *)
(***************************************************************************)
\* Mutant: a turn whose snapshot is there may be undone although it left the window.
revert_any(t) == \E r \in Acquired :
    /\ nextSeq' = r.next
    /\ LET l == r.entries IN
          /\ l[t] # NoEntry
          /\ l[t].snapshot
          /\ manifest[t] # NoFile
          /\ TextsOf(manifest[t]) \subseteq objects
          /\ ledger' = l
          /\ corrupt' = MissingManifest(l)
    /\ pc' = "restore"
    /\ cur' = t
    /\ todo' = Docs
    /\ torn' = t
    /\ UNCHANGED <<disk, hasLedger, junk, fate, begun, spent>>

\* Only a turn in the window whose manifest and objects are all there; otherwise an error
\* and nothing but reconcile (Open).
revert_turn(t) == \E r \in Acquired :
    /\ nextSeq' = r.next
    /\ LET l == r.entries IN
          /\ t \in Roots(l)
          /\ l[t].snapshot
          /\ manifest[t] # NoFile
          /\ TextsOf(manifest[t]) \subseteq objects
          /\ ledger' = l
          /\ corrupt' = MissingManifest(l)
    /\ pc' = "restore"
    /\ cur' = t
    /\ todo' = Docs
    /\ torn' = t
    /\ UNCHANGED <<disk, hasLedger, junk, fate, begun, spent>>

\* Documents of the snapshot are written, then those it does not list are unlinked.
restore_document(d) ==
    /\ pc = "restore"
    /\ d \in todo
    /\ manifest[cur][d] = NoFile => \A e \in todo : manifest[cur][e] = NoFile
    /\ docs' = [docs EXCEPT ![d] = manifest[cur][d]]
    /\ todo' = todo \ {d}
    /\ UNCHANGED <<objects, manifest, checkpoint, book, pc, cur, junk, corrupt, fate, begun, torn, spent>>

\* The turn and all later ones are dropped: first their files ...
Dropped == {t \in Listed(ledger) : ledger[t].seq >= ledger[cur].seq}

revert_drops ==
    /\ pc = "restore"
    /\ todo = {}
    /\ todo' = FilesOf(Dropped)
    /\ pc' = "drop"
    /\ UNCHANGED <<disk, book, cur, junk, corrupt, fate, begun, torn, spent>>

revert_unlinks(f) ==
    /\ pc = "drop"
    /\ f \in todo
    /\ UnlinkTurnFile(f)
    /\ todo' = todo \ {f}
    /\ UNCHANGED <<docs, objects, book, pc, cur, junk, corrupt, fate, begun, torn, spent>>

\* ... then their entries; the collection follows.
revert_forgets ==
    /\ pc = "drop"
    /\ todo = {}
    /\ ledger' = Only(ledger, Listed(ledger) \ Dropped)
    /\ pc' = "collect"
    /\ begun' = [t \in Turns |-> IF t \in Dropped THEN {} ELSE begun[t]]
    /\ torn' = NoTurn
    /\ UNCHANGED <<disk, hasLedger, nextSeq, cur, todo, junk, corrupt, fate, spent>>

(***************************************************************************)
(* The author, exports, and the world outside.                             *)
(***************************************************************************)
\* write_document, when base_revision is what is on disk; otherwise Conflict (Open).
write_document(d, x) == \E r \in Acquired :
    /\ nextSeq' = r.next
    /\ CanSpend("edits", MaxEdits)
    /\ docs[d] # NoFile
    /\ docs' = [docs EXCEPT ![d] = x]
    /\ ledger' = r.entries
    /\ torn' = NoTurn
    /\ Spend("edits")
    /\ UNCHANGED <<objects, manifest, checkpoint, hasLedger, work, begun>>

\* export_work and import_work of the archive as a new work directory, in the place of
\* the old one: a manuscript has no history; a full archive loses the turns whose
\* snapshot has no manifest.
import_work(full) == \E r \in Acquired :
    /\ CanSpend("copies", MaxCopies)
    /\ LET kept == IF full THEN {t \in Listed(r.entries) :
                                    r.entries[t].snapshot => manifest[t] # NoFile}
                           ELSE {}
       IN /\ ledger' = Only(r.entries, kept)
          /\ begun' = [t \in Turns |-> IF t \in kept THEN begun[t] ELSE {}]
    /\ nextSeq' = IF full THEN r.next ELSE 1
    /\ objects' = IF full THEN objects ELSE {}
    /\ manifest' = IF full THEN manifest ELSE [t \in Turns |-> NoFile]
    /\ checkpoint' = IF full THEN checkpoint ELSE {}
    /\ torn' = NoTurn
    /\ Spend("copies")
    /\ UNCHANGED <<docs, hasLedger, work>>

\* Somebody copies a manifest and its objects into a work that nobody has open.
copy_in(t) ==
    /\ pc = "idle"
    /\ CanSpend("copies", MaxCopies)
    /\ manifest[t] = NoFile
    /\ ledger[t] = NoEntry
    /\ manifest' = [manifest EXCEPT ![t] = docs]
    /\ objects' = objects \cup TextsOf(docs)
    /\ begun' = [begun EXCEPT ![t] = {docs}]
    /\ torn' = NoTurn
    /\ Spend("copies")
    /\ UNCHANGED <<docs, checkpoint, book, work>>

\* The process dies; the lock goes with it.  A document that it was writing is left
\* partly written; everything else is renamed into place.
BeingWritten == {d \in Docs : pc = "restore" /\ d \in todo /\ manifest[cur][d] # NoFile}

Crash ==
    /\ pc # "idle"
    /\ CanSpend("crashes", MaxCrashes)
    /\ \/ UNCHANGED docs
       \/ \E d \in BeingWritten : docs' = [docs EXCEPT ![d] = Partial]
    /\ Release
    /\ Spend("crashes")
    /\ UNCHANGED <<objects, manifest, checkpoint, book, begun, torn>>

(***************************************************************************)
(* The specification.  A work starts without a ledger: new, or written by  *)
(* a core that kept none.                                                  *)
(***************************************************************************)
Init ==
    /\ docs \in Trees
    /\ manifest \in [Turns -> Trees \cup {NoFile}]
    /\ objects = UNION {TextsOf(manifest[t]) : t \in {u \in Turns : manifest[u] # NoFile}}
    /\ checkpoint = {}
    /\ hasLedger = FALSE
    /\ ledger = [t \in Turns |-> NoEntry]
    /\ nextSeq = 1
    /\ pc = "idle" /\ cur = NoTurn /\ todo = {} /\ junk = {} /\ corrupt = FALSE /\ fate = "failed"
    /\ begun = [t \in Turns |-> IF manifest[t] = NoFile THEN {} ELSE {manifest[t]}]
    /\ torn = NoTurn
    /\ spent = [what \in Spendings |-> 0]

TurnStep ==
    \/ \E t \in Turns : begin_turn(t) \/ resume_turn(t)
    \/ \E d \in Docs : store_object(d)
    \/ write_manifest
    \/ mark_snapshot
    \/ \E d \in Docs, x \in Texts \cup {NoFile} : engine_writes(d, x)
    \/ save_checkpoint
    \/ \E s \in {"completed", "failed", "cancelled"} : terminal(s)
    \/ finish_turn

Collection ==
    \/ gc_work \/ gc_aborts \/ gc_marks \/ gc_out_of_time \/ gc_trims
    \/ \E f \in TurnFiles : gc_unlinks_file(f)
    \/ \E x \in Texts : gc_unlinks_object(x)

Undo ==
    \/ \E t \in Turns : revert_turn(t)
    \/ \E d \in Docs : restore_document(d)
    \/ revert_drops
    \/ \E f \in TurnFiles : revert_unlinks(f)
    \/ revert_forgets

Outside ==
    \/ Open \/ Migrate \/ Crash
    \/ \E d \in Docs, x \in Texts : write_document(d, x)
    \/ \E full \in BOOLEAN : import_work(full)
    \/ \E t \in Turns : copy_in(t)

Next == TurnStep \/ Collection \/ Undo \/ Outside

Spec == Init /\ [][Next]_vars

(***************************************************************************)
(* Properties.                                                             *)
(***************************************************************************)
\* The variables have their types.
TypeOK ==
    /\ docs \in Trees
    /\ objects \subseteq Texts
    /\ manifest \in [Turns -> Trees \cup {NoFile}]
    /\ checkpoint \subseteq Turns
    /\ hasLedger \in BOOLEAN
    /\ ledger \in [Turns -> Entries \cup {NoEntry}]
    /\ nextSeq \in Nat
    /\ pc \in {"idle", "baseline", "mark", "engine", "finish", "collect", "sweep", "restore", "drop"}
    /\ cur \in Turns \cup {NoTurn}
    /\ todo \subseteq Docs \cup TurnFiles
    /\ junk \subseteq Texts
    /\ corrupt \in BOOLEAN
    /\ fate \in {"completed", "failed", "cancelled"}
    /\ begun \in [Turns -> SUBSET Trees]
    /\ torn \in Turns \cup {NoTurn}
    /\ spent \in [Spendings -> Nat]

\* A manifest on disk never lists an object that is not there: snapshots write objects
\* before the manifest, collections delete manifests before objects, they may stop or die
\* anywhere, and turns share objects.  revert_turn never finds an object missing.
SnapshotsWhole ==
    \A t \in Turns : manifest[t] # NoFile => TextsOf(manifest[t]) \subseteq objects

\* A revert that reaches the ledger has put every document back to what it was when the
\* turn began: what the turn and all later ones wrote, created and deleted is undone.
UndoExact ==
    [][pc = "drop" /\ pc' = "collect" => docs' \in begun[cur]]_vars

\* A revert that died half-way and was followed by no edit has either restored all
\* documents, or can be repeated: the turn is in the window with its snapshot, however
\* many times the work was opened and collected since.
UndoRepeatable ==
    pc = "idle" /\ torn # NoTurn =>
        \/ docs \in begun[torn]
        \/ /\ torn \in Roots(ledger)
           /\ ledger[torn].snapshot
           /\ manifest[torn] # NoFile
           /\ TextsOf(manifest[torn]) \subseteq objects

=============================================================================
