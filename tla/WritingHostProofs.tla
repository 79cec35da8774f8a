------------------------- MODULE WritingHostProofs -------------------------
(***************************************************************************)
(* Type correctness of the writing host, that no manifest on disk ever     *)
(* lists an object that is not there, that an undo restores exactly what   *)
(* was, and that an undo that died can be repeated: for any number of      *)
(* turns, documents and texts, any window, and a crash between any two     *)
(* writes.                                                                 *)
(***************************************************************************)
EXTENDS WritingHost, FiniteSetTheorems, TLAPS

\* What the process that holds the lock works on, at each of its steps.
Shape ==
    /\ pc \in {"baseline", "mark", "engine", "finish", "restore", "drop"} => cur \in Turns
    /\ pc \in {"baseline", "mark"} => ledger[cur] # NoEntry
    /\ pc = "baseline" => todo \subseteq {d \in Docs : docs[d] # NoFile}
    /\ pc = "restore" => todo \subseteq Docs
    /\ pc \in {"sweep", "drop"} => todo \subseteq TurnFiles
    /\ pc = "restore" => manifest[cur] # NoFile

\* Inside the lock the ledger lists every manifest: what a collection takes for
\* unreferenced is not referenced by a manifest it does not know of.
AllListed ==
    pc # "idle" => \A t \in Turns : manifest[t] # NoFile => ledger[t] # NoEntry

\* A snapshot in progress has stored what it has read.
Stored ==
    pc = "baseline" => \A d \in Docs : docs[d] # NoFile /\ d \notin todo => docs[d] \in objects

\* The manifests that refer to a victim are victims themselves, and come first.
SweepSafe ==
    pc = "sweep" =>
        \A t \in Turns : manifest[t] # NoFile =>
            <<"manifest", t>> \in todo \/ TextsOf(manifest[t]) \cap junk = {}

\* An undo unlinks the manifest of every turn it is about to forget.
DropSafe ==
    pc = "drop" =>
        \A t \in Turns : manifest[t] # NoFile /\ t \in Dropped => <<"manifest", t>> \in todo

HostInv == TypeOK /\ Shape /\ AllListed /\ Stored /\ SweepSafe /\ DropSafe /\ SnapshotsWhole

\* What reconcile hands to an operation.
LEMMA AcquiredType ==
    ASSUME HostInv, NEW r \in Acquired
    PROVE  /\ pc = "idle"
           /\ hasLedger
           /\ r.entries \in [Turns -> Entries \cup {NoEntry}]
           /\ r.next \in Nat
           /\ \A t \in Turns : manifest[t] # NoFile => r.entries[t] # NoEntry
  <1>1. pc = "idle" /\ hasLedger /\ r \in Reconciliations
    BY DEF Acquired
  <1>2. PICK f \in Orders(Unlisted) :
          r = [entries |-> [t \in Turns |->
                     IF ledger[t] # NoEntry THEN Settled(t)
                     ELSE IF t \in Unlisted THEN RecoveredEntry(nextSeq + f[t])
                     ELSE NoEntry],
               next    |-> nextSeq + Cardinality(Unlisted)]
    BY <1>1 DEF Reconciliations
  <1>3. Unlisted \subseteq Turns
    BY DEF Unlisted
  <1>4. Cardinality(Unlisted) \in Nat
    BY <1>3, FinitelyManyTurns, FS_Subset, FS_CardinalityType
  <1>5. ASSUME NEW t \in Unlisted PROVE RecoveredEntry(nextSeq + f[t]) \in Entries
    <2>1. f[t] \in 0 .. Cardinality(Unlisted) - 1
      BY DEF Orders
    <2>2. f[t] \in Nat
      BY <2>1, <1>4
    <2>3. nextSeq + f[t] \in Nat
      BY <2>2 DEF HostInv, TypeOK
    <2> QED BY <2>3 DEF RecoveredEntry, Entries
  <1>6. ASSUME NEW t \in Turns, ledger[t] # NoEntry PROVE Settled(t) \in Entries
    <2>1. ledger[t] \in Entries
      BY <1>6 DEF HostInv, TypeOK
    <2>2. ledger[t].seq \in Nat /\ ledger[t].snapshot \in BOOLEAN
          /\ ledger[t].state \in {"running", "interrupted", "completed", "failed", "cancelled"}
      BY <2>1 DEF Entries
    <2>3. (ledger[t].snapshot \/ manifest[t] # NoFile) \in BOOLEAN
      OBVIOUS
    <2> QED BY <2>2, <2>3 DEF Settled, Entries
  <1>7. r.entries = [t \in Turns |->
                     IF ledger[t] # NoEntry THEN Settled(t)
                     ELSE IF t \in Unlisted THEN RecoveredEntry(nextSeq + f[t])
                     ELSE NoEntry]
    BY <1>2
  <1>8. r.entries \in [Turns -> Entries \cup {NoEntry}]
    BY <1>5, <1>6, <1>7
  <1>9. ASSUME NEW t \in Turns, manifest[t] # NoFile PROVE r.entries[t] # NoEntry
    BY <1>5, <1>6, <1>7, <1>9, NoEntryIsNone DEF Unlisted
  <1>10. r.next \in Nat
    BY <1>2, <1>4 DEF HostInv, TypeOK
  <1> QED BY <1>1, <1>8, <1>9, <1>10

LEMMA SetStateType ==
    ASSUME NEW l \in [Turns -> Entries \cup {NoEntry}], NEW t \in Turns,
           NEW s \in {"running", "interrupted", "completed", "failed", "cancelled"}
    PROVE  /\ SetState(l, t, s) \in [Turns -> Entries \cup {NoEntry}]
           /\ \A u \in Turns : l[u] # NoEntry => SetState(l, t, s)[u] # NoEntry
  <1>1. ASSUME l[t] # NoEntry PROVE [l[t] EXCEPT !.state = s] \in Entries
    BY <1>1 DEF Entries
  <1> QED BY <1>1, NoEntryIsNone DEF SetState

\* The trees that manifests and documents are.
LEMMA TextsOfType ==
    ASSUME NEW tree \in Trees
    PROVE  TextsOf(tree) \subseteq Texts
  BY DEF Trees, TextsOf

LEMMA SpendType ==
    ASSUME HostInv, NEW what \in Spendings, Spend(what)
    PROVE  spent' \in [Spendings -> Nat]
  BY DEF HostInv, TypeOK, Spend

\* A ledger restricted to some turns, and a history restricted to some turns.
LEMMA OnlyType ==
    ASSUME NEW l \in [Turns -> Entries \cup {NoEntry}], NEW S
    PROVE  /\ Only(l, S) \in [Turns -> Entries \cup {NoEntry}]
           /\ \A t \in S \cap Turns : Only(l, S)[t] = l[t]
  BY DEF Only

LEMMA InitHostInv ==
    ASSUME Init PROVE HostInv
  <1>1. objects \subseteq Texts
    BY TextsOfType DEF Init
  <1>2. TypeOK
    <2>1. begun \in [Turns -> SUBSET Trees]
      BY DEF Init
    <2>2. spent \in [Spendings -> Nat]
      BY DEF Init
    <2> QED BY <1>1, <2>1, <2>2 DEF Init, TypeOK
  <1>3. SnapshotsWhole
    BY DEF Init, SnapshotsWhole
  <1> QED BY <1>2, <1>3 DEF Init, HostInv, Shape, AllListed, Stored, SweepSafe, DropSafe

\* A turn: objects, then the manifest, then the mark in the ledger.
LEMMA TurnKeepsHostInv ==
    ASSUME HostInv, TurnStep PROVE HostInv'
  <1> USE DEF disk, book, work
  <1>1. ASSUME NEW t \in Turns, begin_turn(t) PROVE HostInv'
    <2>1. PICK r \in Acquired :
            /\ IF r.entries[t] # NoEntry
                 THEN /\ ledger' = SetState(r.entries, t, "running")
                      /\ nextSeq' = r.next
                 ELSE /\ ledger' = [r.entries EXCEPT ![t] = [seq |-> r.next, state |-> "running",
                                                             snapshot |-> FALSE]]
                      /\ nextSeq' = r.next + 1
            /\ corrupt' = MissingManifest(r.entries)
      BY <1>1 DEF begin_turn
    <2>2. /\ pc' = "baseline" /\ cur' = t
          /\ todo' = {d \in Docs : docs[d] # NoFile}
          /\ begun' = [begun EXCEPT ![t] = @ \cup {docs}]
          /\ torn' = NoTurn
          /\ Spend("starts")
          /\ UNCHANGED <<docs, objects, manifest, checkpoint, hasLedger, junk, fate>>
      BY <1>1 DEF begin_turn
    <2>3. /\ r.entries \in [Turns -> Entries \cup {NoEntry}]
          /\ r.next \in Nat
          /\ \A u \in Turns : manifest[u] # NoFile => r.entries[u] # NoEntry
      BY AcquiredType
    <2>4. [seq |-> r.next, state |-> "running", snapshot |-> FALSE] \in Entries
      BY <2>3 DEF Entries
    <2>5. /\ ledger' \in [Turns -> Entries \cup {NoEntry}]
          /\ \A u \in Turns : manifest[u] # NoFile => ledger'[u] # NoEntry
          /\ ledger'[t] # NoEntry
      <3>1. CASE r.entries[t] # NoEntry
        BY <2>1, <2>3, <3>1, SetStateType
      <3>2. CASE r.entries[t] = NoEntry
        BY <2>1, <2>3, <2>4, <3>2, NoEntryIsNone
      <3> QED BY <3>1, <3>2
    <2>6. nextSeq' \in Nat
      BY <2>1, <2>3
    <2>7. corrupt' \in BOOLEAN
      BY <2>1 DEF MissingManifest
    <2>8. spent' \in [Spendings -> Nat]
      BY <2>2, SpendType DEF Spendings
    <2>9. begun' \in [Turns -> SUBSET Trees]
      BY <2>2 DEF HostInv, TypeOK
    <2>10. TypeOK'
      BY <2>2, <2>5, <2>6, <2>7, <2>8, <2>9 DEF HostInv, TypeOK
    <2>11. (Shape /\ AllListed /\ Stored /\ SweepSafe /\ DropSafe /\ SnapshotsWhole)'
      BY <2>2, <2>5 DEF HostInv, Shape, AllListed, Stored, SweepSafe, DropSafe, SnapshotsWhole
    <2> QED BY <2>10, <2>11 DEF HostInv
  <1>2. ASSUME NEW t \in Turns, resume_turn(t) PROVE HostInv'
    <2>1. PICK r \in Acquired :
            /\ ledger' = SetState(r.entries, t, "running")
            /\ nextSeq' = r.next
            /\ corrupt' = MissingManifest(r.entries)
      BY <1>2 DEF resume_turn
    <2>2. /\ pc' \in {"engine", "finish"} /\ cur' = t
          /\ torn' = NoTurn
          /\ Spend("starts")
          /\ UNCHANGED <<docs, objects, manifest, checkpoint, hasLedger, todo, junk, fate, begun>>
      BY <1>2 DEF resume_turn
    <2>3. /\ r.entries \in [Turns -> Entries \cup {NoEntry}]
          /\ r.next \in Nat
          /\ \A u \in Turns : manifest[u] # NoFile => r.entries[u] # NoEntry
      BY AcquiredType
    <2>4. /\ ledger' \in [Turns -> Entries \cup {NoEntry}]
          /\ \A u \in Turns : manifest[u] # NoFile => ledger'[u] # NoEntry
      BY <2>1, <2>3, SetStateType
    <2>5. nextSeq' \in Nat /\ corrupt' \in BOOLEAN
      BY <2>1, <2>3 DEF MissingManifest
    <2>6. spent' \in [Spendings -> Nat]
      BY <2>2, SpendType DEF Spendings
    <2>7. TypeOK'
      BY <2>2, <2>4, <2>5, <2>6 DEF HostInv, TypeOK
    <2>8. (Shape /\ AllListed /\ Stored /\ SweepSafe /\ DropSafe /\ SnapshotsWhole)'
      BY <2>2, <2>4 DEF HostInv, Shape, AllListed, Stored, SweepSafe, DropSafe, SnapshotsWhole
    <2> QED BY <2>7, <2>8 DEF HostInv
  <1>3. ASSUME NEW d \in Docs, store_object(d) PROVE HostInv'
    <2>1. docs[d] \in Texts
      BY <1>3 DEF store_object, HostInv, TypeOK, Shape, Trees
    <2>2. TypeOK'
      BY <1>3, <2>1 DEF store_object, HostInv, TypeOK
    <2>3. (Stored /\ SnapshotsWhole)'
      BY <1>3 DEF store_object, HostInv, Stored, SnapshotsWhole
    <2>4. (Shape /\ AllListed /\ SweepSafe /\ DropSafe)'
      BY <1>3 DEF store_object, HostInv, Shape, AllListed, SweepSafe, DropSafe
    <2> QED BY <2>2, <2>3, <2>4 DEF HostInv
  <1>4. ASSUME write_manifest PROVE HostInv'
    <2>1. cur \in Turns /\ ledger[cur] # NoEntry
      BY <1>4 DEF write_manifest, HostInv, Shape
    <2>2. TypeOK'
      BY <1>4, <2>1 DEF write_manifest, HostInv, TypeOK
    <2>3. TextsOf(docs) \subseteq objects
      BY <1>4 DEF write_manifest, HostInv, Stored, TextsOf
    <2>4. manifest' = [manifest EXCEPT ![cur] = docs] /\ objects' = objects /\ ledger' = ledger
          /\ pc' = "mark" /\ cur' = cur /\ todo' = todo /\ pc = "baseline"
      BY <1>4 DEF write_manifest
    <2>5. \A t \in Turns : manifest'[t] = IF t = cur THEN docs ELSE manifest[t]
      BY <2>4 DEF HostInv, TypeOK
    <2>6. (SnapshotsWhole)'
      BY <2>3, <2>4, <2>5 DEF HostInv, SnapshotsWhole
    <2>7. (Shape /\ AllListed /\ Stored /\ SweepSafe /\ DropSafe)'
      BY <2>1, <2>4, <2>5 DEF HostInv, Shape, AllListed, Stored, SweepSafe, DropSafe
    <2> QED BY <2>2, <2>6, <2>7 DEF HostInv
  <1>5. ASSUME mark_snapshot PROVE HostInv'
    <2>1. cur \in Turns /\ ledger[cur] \in Entries
      BY <1>5 DEF mark_snapshot, HostInv, Shape, TypeOK
    <2>2. [ledger[cur] EXCEPT !.snapshot = TRUE] \in Entries
      BY <2>1 DEF Entries
    <2>3. ledger' = [ledger EXCEPT ![cur] = [ledger[cur] EXCEPT !.snapshot = TRUE]]
      BY <1>5, <2>1 DEF mark_snapshot, HostInv, TypeOK
    <2>4. /\ ledger' \in [Turns -> Entries \cup {NoEntry}]
          /\ \A t \in Turns : ledger[t] # NoEntry => ledger'[t] # NoEntry
      BY <2>1, <2>2, <2>3, NoEntryIsNone DEF HostInv, TypeOK
    <2>5. TypeOK'
      BY <1>5, <2>4 DEF mark_snapshot, HostInv, TypeOK
    <2>6. (Shape /\ AllListed /\ Stored /\ SweepSafe /\ DropSafe /\ SnapshotsWhole)'
      BY <1>5, <2>1, <2>4 DEF mark_snapshot, HostInv, Shape, AllListed, Stored, SweepSafe,
           DropSafe, SnapshotsWhole
    <2> QED BY <2>5, <2>6 DEF HostInv
  <1>6. ASSUME NEW d \in Docs, NEW x \in Texts \cup {NoFile}, engine_writes(d, x) PROVE HostInv'
    <2>1. TypeOK'
      <3>1. docs' \in Trees
        BY <1>6 DEF engine_writes, HostInv, TypeOK, Trees
      <3>2. spent' \in [Spendings -> Nat]
        BY <1>6, SpendType DEF engine_writes, Spendings
      <3> QED BY <1>6, <3>1, <3>2 DEF engine_writes, HostInv, TypeOK
    <2>2. (Shape /\ AllListed /\ Stored /\ SweepSafe /\ DropSafe /\ SnapshotsWhole)'
      BY <1>6 DEF engine_writes, HostInv, Shape, AllListed, Stored, SweepSafe, DropSafe,
           SnapshotsWhole
    <2> QED BY <2>1, <2>2 DEF HostInv
  <1>7. ASSUME save_checkpoint PROVE HostInv'
    <2>1. TypeOK'
      BY <1>7 DEF save_checkpoint, HostInv, TypeOK, Shape
    <2>2. (Shape /\ AllListed /\ Stored /\ SweepSafe /\ DropSafe /\ SnapshotsWhole)'
      BY <1>7 DEF save_checkpoint, HostInv, Shape, AllListed, Stored, SweepSafe, DropSafe,
           SnapshotsWhole
    <2> QED BY <2>1, <2>2 DEF HostInv
  <1>8. ASSUME NEW s \in {"completed", "failed", "cancelled"}, terminal(s) PROVE HostInv'
    <2>1. TypeOK'
      BY <1>8 DEF terminal, HostInv, TypeOK
    <2>2. (Shape /\ AllListed /\ Stored /\ SweepSafe /\ DropSafe /\ SnapshotsWhole)'
      BY <1>8 DEF terminal, HostInv, Shape, AllListed, Stored, SweepSafe, DropSafe,
           SnapshotsWhole
    <2> QED BY <2>1, <2>2 DEF HostInv
  <1>9. ASSUME finish_turn PROVE HostInv'
    <2>1. /\ ledger' \in [Turns -> Entries \cup {NoEntry}]
          /\ \A t \in Turns : ledger[t] # NoEntry => ledger'[t] # NoEntry
      <3>1. cur \in Turns /\ fate \in {"completed", "failed", "cancelled"}
        BY <1>9 DEF finish_turn, HostInv, Shape, TypeOK
      <3>2. ledger \in [Turns -> Entries \cup {NoEntry}] /\ ledger' = SetState(ledger, cur, fate)
        BY <1>9 DEF finish_turn, HostInv, TypeOK
      <3> QED BY <3>1, <3>2, SetStateType
    <2>2. TypeOK'
      BY <1>9, <2>1 DEF finish_turn, HostInv, TypeOK
    <2>3. (Shape /\ AllListed /\ Stored /\ SweepSafe /\ DropSafe /\ SnapshotsWhole)'
      BY <1>9, <2>1 DEF finish_turn, HostInv, Shape, AllListed, Stored, SweepSafe, DropSafe,
           SnapshotsWhole
    <2> QED BY <2>2, <2>3 DEF HostInv
  <1> QED BY <1>1, <1>2, <1>3, <1>4, <1>5, <1>6, <1>7, <1>8, <1>9 DEF TurnStep

\* A collection: the manifests that nothing keeps, then the objects that no kept
\* manifest refers to.
LEMMA CollectionKeepsHostInv ==
    ASSUME HostInv, Collection PROVE HostInv'
  <1> USE DEF disk, book, work
  <1>1. CASE gc_work
    <2>1. PICK r \in Acquired : ledger' = r.entries /\ nextSeq' = r.next
                                /\ corrupt' = MissingManifest(r.entries)
      BY <1>1 DEF gc_work
    <2>2. /\ ledger' \in [Turns -> Entries \cup {NoEntry}]
          /\ nextSeq' \in Nat
          /\ \A u \in Turns : manifest[u] # NoFile => ledger'[u] # NoEntry
      BY <2>1, AcquiredType
    <2>3. corrupt' \in BOOLEAN
      BY <2>1 DEF MissingManifest
    <2>4. TypeOK'
      BY <1>1, <2>2, <2>3 DEF gc_work, HostInv, TypeOK
    <2>5. (Shape /\ AllListed /\ Stored /\ SweepSafe /\ DropSafe /\ SnapshotsWhole)'
      BY <1>1, <2>2 DEF gc_work, HostInv, Shape, AllListed, Stored, SweepSafe, DropSafe,
           SnapshotsWhole
    <2> QED BY <2>4, <2>5 DEF HostInv
  <1>2. CASE gc_aborts \/ gc_out_of_time
    BY <1>2 DEF gc_aborts, gc_out_of_time, Release, HostInv, TypeOK, Shape, AllListed, Stored,
         SweepSafe, DropSafe, SnapshotsWhole
  <1>3. CASE gc_marks
    <2>1. FilesOf(Listed(ledger) \ Roots(ledger)) \subseteq TurnFiles
      BY DEF FilesOf
    <2>2. TypeOK'
      BY <1>3, <2>1 DEF gc_marks, HostInv, TypeOK
    <2>3. SweepSafe'
      <3>1. SUFFICES ASSUME NEW t \in Turns, manifest[t] # NoFile
                     PROVE  <<"manifest", t>> \in todo' \/ TextsOf(manifest[t]) \cap junk' = {}
        BY <1>3 DEF gc_marks, SweepSafe
      <3>2. CASE t \in Roots(ledger)
        <4>1. TextsOf(manifest[t]) \subseteq Referenced(ledger)
          <5>1. Roots(ledger) \subseteq Turns
            BY DEF Roots, Listed
          <5>2. t \in {u \in Roots(ledger) : manifest[u] # NoFile}
            BY <3>1, <3>2
          <5> QED BY <5>2 DEF Referenced
        <4> QED BY <1>3, <4>1 DEF gc_marks
      <3>3. CASE t \notin Roots(ledger)
        <4>1. t \in Listed(ledger) \ Roots(ledger)
          BY <1>3, <3>1, <3>3 DEF gc_marks, HostInv, AllListed, Listed
        <4>2. <<"manifest", t>> \in FilesOf(Listed(ledger) \ Roots(ledger))
          BY <3>1, <4>1 DEF FilesOf, TurnFiles
        <4> QED BY <1>3, <4>2 DEF gc_marks
      <3> QED BY <3>2, <3>3
    <2>4. (Shape /\ AllListed /\ Stored /\ DropSafe /\ SnapshotsWhole)'
      BY <1>3, <2>1 DEF gc_marks, HostInv, Shape, AllListed, Stored, DropSafe, SnapshotsWhole
    <2> QED BY <2>2, <2>3, <2>4 DEF HostInv
  <1>4. ASSUME NEW f \in TurnFiles, gc_unlinks_file(f) PROVE HostInv'
    <2>1. PICK k \in {"manifest", "checkpoint"}, t \in Turns : f = <<k, t>>
      BY DEF TurnFiles
    <2>2. /\ manifest' \in [Turns -> Trees \cup {NoFile}]
          /\ checkpoint' \subseteq Turns
          /\ \A u \in Turns : manifest'[u] # NoFile =>
                manifest'[u] = manifest[u] /\ f # <<"manifest", u>>
      BY <1>4, <2>1 DEF gc_unlinks_file, UnlinkTurnFile, HostInv, TypeOK
    <2>3. TypeOK'
      BY <1>4, <2>2 DEF gc_unlinks_file, HostInv, TypeOK
    <2>4. (Shape /\ AllListed /\ Stored /\ SweepSafe /\ DropSafe /\ SnapshotsWhole)'
      BY <1>4, <2>2 DEF gc_unlinks_file, HostInv, Shape, AllListed, Stored, SweepSafe, DropSafe,
           SnapshotsWhole
    <2> QED BY <2>3, <2>4 DEF HostInv
  <1>5. ASSUME NEW x \in Texts, gc_unlinks_object(x) PROVE HostInv'
    <2>1. TypeOK'
      BY <1>5 DEF gc_unlinks_object, HostInv, TypeOK
    <2>2. ASSUME NEW t \in Turns, manifest[t] # NoFile PROVE x \notin TextsOf(manifest[t])
      BY <1>5, <2>2 DEF gc_unlinks_object, HostInv, SweepSafe
    <2>3. SnapshotsWhole'
      BY <1>5, <2>2 DEF gc_unlinks_object, HostInv, SnapshotsWhole
    <2>4. (Shape /\ AllListed /\ Stored /\ SweepSafe /\ DropSafe)'
      BY <1>5 DEF gc_unlinks_object, HostInv, Shape, AllListed, Stored, SweepSafe, DropSafe
    <2> QED BY <2>1, <2>3, <2>4 DEF HostInv
  <1>6. CASE gc_trims
    <2>1. ledger' \in [Turns -> Entries \cup {NoEntry}]
      BY <1>6, OnlyType DEF gc_trims, HostInv, TypeOK
    <2>2. begun' \in [Turns -> SUBSET Trees]
      BY <1>6 DEF gc_trims, HostInv, TypeOK
    <2>3. TypeOK'
      BY <1>6, <2>1, <2>2 DEF gc_trims, Release, HostInv, TypeOK
    <2>4. (Shape /\ AllListed /\ Stored /\ SweepSafe /\ DropSafe /\ SnapshotsWhole)'
      BY <1>6 DEF gc_trims, Release, HostInv, Shape, AllListed, Stored, SweepSafe, DropSafe,
           SnapshotsWhole
    <2> QED BY <2>3, <2>4 DEF HostInv
  <1> QED BY <1>1, <1>2, <1>3, <1>4, <1>5, <1>6 DEF Collection

\* An undo: documents, then the files of the turns it drops, then their entries.
LEMMA UndoKeepsHostInv ==
    ASSUME HostInv, Undo PROVE HostInv'
  <1> USE DEF disk, book, work
  <1>1. ASSUME NEW t \in Turns, revert_turn(t) PROVE HostInv'
    <2>1. PICK r \in Acquired : /\ ledger' = r.entries /\ nextSeq' = r.next
                                /\ corrupt' = MissingManifest(r.entries)
                                /\ manifest[t] # NoFile
      BY <1>1 DEF revert_turn
    <2>2. /\ ledger' \in [Turns -> Entries \cup {NoEntry}]
          /\ nextSeq' \in Nat
          /\ \A u \in Turns : manifest[u] # NoFile => ledger'[u] # NoEntry
      BY <2>1, AcquiredType
    <2>3. corrupt' \in BOOLEAN
      BY <2>1 DEF MissingManifest
    <2>4. TypeOK'
      BY <1>1, <2>2, <2>3 DEF revert_turn, HostInv, TypeOK
    <2>5. (Shape /\ AllListed /\ Stored /\ SweepSafe /\ DropSafe /\ SnapshotsWhole)'
      BY <1>1, <2>1, <2>2 DEF revert_turn, HostInv, Shape, AllListed, Stored, SweepSafe,
           DropSafe, SnapshotsWhole
    <2> QED BY <2>4, <2>5 DEF HostInv
  <1>2. ASSUME NEW d \in Docs, restore_document(d) PROVE HostInv'
    <2>1. manifest[cur] \in Trees
      BY <1>2 DEF restore_document, HostInv, Shape, TypeOK
    <2>2. docs' \in Trees
      BY <1>2, <2>1 DEF restore_document, HostInv, TypeOK, Trees
    <2>3. TypeOK'
      BY <1>2, <2>2 DEF restore_document, HostInv, TypeOK
    <2>4. (Shape /\ AllListed /\ Stored /\ SweepSafe /\ DropSafe /\ SnapshotsWhole)'
      BY <1>2 DEF restore_document, HostInv, Shape, AllListed, Stored, SweepSafe, DropSafe,
           SnapshotsWhole
    <2> QED BY <2>3, <2>4 DEF HostInv
  <1>3. CASE revert_drops
    <2>1. FilesOf(Dropped) \subseteq TurnFiles
      BY DEF FilesOf
    <2>2. TypeOK'
      BY <1>3, <2>1 DEF revert_drops, HostInv, TypeOK
    <2>3. Dropped' = Dropped
      BY <1>3 DEF revert_drops, Dropped, Listed
    <2>4. \A t \in Turns : manifest[t] # NoFile /\ t \in Dropped
             => <<"manifest", t>> \in FilesOf(Dropped)
      BY DEF FilesOf, TurnFiles
    <2>5. DropSafe'
      BY <1>3, <2>3, <2>4 DEF revert_drops, DropSafe
    <2>6. (Shape /\ AllListed /\ Stored /\ SweepSafe /\ SnapshotsWhole)'
      BY <1>3, <2>1 DEF revert_drops, HostInv, Shape, AllListed, Stored, SweepSafe,
           SnapshotsWhole
    <2> QED BY <2>2, <2>5, <2>6 DEF HostInv
  <1>4. ASSUME NEW f \in TurnFiles, revert_unlinks(f) PROVE HostInv'
    <2>1. PICK k \in {"manifest", "checkpoint"}, t \in Turns : f = <<k, t>>
      BY DEF TurnFiles
    <2>2. /\ manifest' \in [Turns -> Trees \cup {NoFile}]
          /\ checkpoint' \subseteq Turns
          /\ \A u \in Turns : manifest'[u] # NoFile =>
                manifest'[u] = manifest[u] /\ f # <<"manifest", u>>
      BY <1>4, <2>1 DEF revert_unlinks, UnlinkTurnFile, HostInv, TypeOK
    <2>3. TypeOK'
      BY <1>4, <2>2 DEF revert_unlinks, HostInv, TypeOK
    <2>4. Dropped' = Dropped
      BY <1>4 DEF revert_unlinks, Dropped, Listed
    <2>5. (Shape /\ AllListed /\ Stored /\ SweepSafe /\ DropSafe /\ SnapshotsWhole)'
      BY <1>4, <2>2, <2>4 DEF revert_unlinks, HostInv, Shape, AllListed, Stored, SweepSafe,
           DropSafe, SnapshotsWhole
    <2> QED BY <2>3, <2>5 DEF HostInv
  <1>5. CASE revert_forgets
    <2>1. /\ ledger' \in [Turns -> Entries \cup {NoEntry}]
          /\ \A t \in (Listed(ledger) \ Dropped) \cap Turns : ledger'[t] = ledger[t]
      BY <1>5, OnlyType DEF revert_forgets, HostInv, TypeOK
    <2>2. begun' \in [Turns -> SUBSET Trees]
      BY <1>5 DEF revert_forgets, HostInv, TypeOK
    <2>3. TypeOK'
      BY <1>5, <2>1, <2>2 DEF revert_forgets, HostInv, TypeOK
    <2>4. ASSUME NEW t \in Turns, manifest[t] # NoFile PROVE ledger'[t] # NoEntry
      <3>1. t \notin Dropped
        BY <1>5, <2>4 DEF revert_forgets, HostInv, DropSafe
      <3>2. t \in Listed(ledger) /\ ledger[t] # NoEntry
        BY <1>5, <2>4 DEF revert_forgets, HostInv, AllListed, Listed
      <3> QED BY <2>1, <3>1, <3>2
    <2>5. (Shape /\ AllListed /\ Stored /\ SweepSafe /\ DropSafe /\ SnapshotsWhole)'
      BY <1>5, <2>4 DEF revert_forgets, HostInv, Shape, AllListed, Stored, SweepSafe, DropSafe,
           SnapshotsWhole
    <2> QED BY <2>3, <2>5 DEF HostInv
  <1> QED BY <1>1, <1>2, <1>3, <1>4, <1>5 DEF Undo

\* The author, imports, copies and a process that dies.
LEMMA OutsideKeepsHostInv ==
    ASSUME HostInv, Outside PROVE HostInv'
  <1> USE DEF disk, book, work
  <1>1. CASE Open
    <2>1. PICK r \in Acquired : ledger' = r.entries /\ nextSeq' = r.next
      BY <1>1 DEF Open
    <2>2. pc = "idle" /\ ledger' \in [Turns -> Entries \cup {NoEntry}] /\ nextSeq' \in Nat
      BY <2>1, AcquiredType
    <2>3. TypeOK'
      BY <1>1, <2>2 DEF Open, HostInv, TypeOK
    <2>4. (Shape /\ AllListed /\ Stored /\ SweepSafe /\ DropSafe /\ SnapshotsWhole)'
      BY <1>1, <2>2 DEF Open, HostInv, Shape, AllListed, Stored, SweepSafe, DropSafe,
           SnapshotsWhole
    <2> QED BY <2>3, <2>4 DEF HostInv
  <1>2. CASE Migrate
    <2>1. Unlisted \subseteq Turns /\ Cardinality(Unlisted) \in Nat
      <3>1. Unlisted \subseteq Turns
        BY DEF Unlisted
      <3> QED BY <3>1, FinitelyManyTurns, FS_Subset, FS_CardinalityType
    <2>2. PICK f \in Orders(Unlisted) :
            ledger' = [t \in Turns |-> IF t \in Unlisted THEN RecoveredEntry(nextSeq + f[t])
                                                          ELSE NoEntry]
      BY <1>2 DEF Migrate
    <2>3. ASSUME NEW t \in Unlisted PROVE RecoveredEntry(nextSeq + f[t]) \in Entries
      <3>1. f[t] \in 0 .. Cardinality(Unlisted) - 1
        BY DEF Orders
      <3>2. nextSeq + f[t] \in Nat
        BY <3>1, <2>1 DEF HostInv, TypeOK
      <3> QED BY <3>2 DEF RecoveredEntry, Entries
    <2>4. ledger' \in [Turns -> Entries \cup {NoEntry}]
      BY <2>2, <2>3
    <2>5. nextSeq' \in Nat
      BY <1>2, <2>1 DEF Migrate, HostInv, TypeOK
    <2>6. TypeOK'
      BY <1>2, <2>4, <2>5 DEF Migrate, HostInv, TypeOK
    <2>7. (Shape /\ AllListed /\ Stored /\ SweepSafe /\ DropSafe /\ SnapshotsWhole)'
      BY <1>2 DEF Migrate, HostInv, Shape, AllListed, Stored, SweepSafe, DropSafe,
           SnapshotsWhole
    <2> QED BY <2>6, <2>7 DEF HostInv
  <1>3. CASE Crash
    <2>1. docs' \in Trees
      BY <1>3, ValuesDiffer DEF Crash, BeingWritten, HostInv, TypeOK, Trees
    <2>2. spent' \in [Spendings -> Nat]
      BY <1>3, SpendType DEF Crash, Spendings
    <2>3. TypeOK'
      BY <1>3, <2>1, <2>2 DEF Crash, Release, HostInv, TypeOK
    <2>4. (Shape /\ AllListed /\ Stored /\ SweepSafe /\ DropSafe /\ SnapshotsWhole)'
      BY <1>3 DEF Crash, Release, HostInv, Shape, AllListed, Stored, SweepSafe, DropSafe,
           SnapshotsWhole
    <2> QED BY <2>3, <2>4 DEF HostInv
  <1>4. ASSUME NEW d \in Docs, NEW x \in Texts, write_document(d, x) PROVE HostInv'
    <2>1. PICK r \in Acquired : ledger' = r.entries /\ nextSeq' = r.next
      BY <1>4 DEF write_document
    <2>2. pc = "idle" /\ ledger' \in [Turns -> Entries \cup {NoEntry}] /\ nextSeq' \in Nat
      BY <2>1, AcquiredType
    <2>3. docs' \in Trees
      BY <1>4 DEF write_document, HostInv, TypeOK, Trees
    <2>4. spent' \in [Spendings -> Nat]
      BY <1>4, SpendType DEF write_document, Spendings
    <2>5. TypeOK'
      BY <1>4, <2>2, <2>3, <2>4 DEF write_document, HostInv, TypeOK
    <2>6. (Shape /\ AllListed /\ Stored /\ SweepSafe /\ DropSafe /\ SnapshotsWhole)'
      BY <1>4, <2>2 DEF write_document, HostInv, Shape, AllListed, Stored, SweepSafe, DropSafe,
           SnapshotsWhole
    <2> QED BY <2>5, <2>6 DEF HostInv
  <1>5. ASSUME NEW full \in BOOLEAN, import_work(full) PROVE HostInv'
    <2>1. PICK r \in Acquired :
            /\ nextSeq' = IF full THEN r.next ELSE 1
            /\ LET kept == IF full THEN {t \in Listed(r.entries) :
                                            r.entries[t].snapshot => manifest[t] # NoFile}
                                   ELSE {}
               IN /\ ledger' = Only(r.entries, kept)
                  /\ begun' = [t \in Turns |-> IF t \in kept THEN begun[t] ELSE {}]
      BY <1>5 DEF import_work
    <2>2. pc = "idle" /\ r.entries \in [Turns -> Entries \cup {NoEntry}] /\ r.next \in Nat
      BY AcquiredType
    <2>3. ledger' \in [Turns -> Entries \cup {NoEntry}] /\ nextSeq' \in Nat
      BY <2>1, <2>2, OnlyType
    <2>4. begun' \in [Turns -> SUBSET Trees]
      BY <2>1 DEF HostInv, TypeOK
    <2>5. spent' \in [Spendings -> Nat]
      BY <1>5, SpendType DEF import_work, Spendings
    <2>6. /\ pc' = pc /\ cur' = cur /\ todo' = todo /\ junk' = junk /\ corrupt' = corrupt
          /\ fate' = fate /\ docs' = docs /\ hasLedger' = hasLedger /\ torn' = NoTurn
          /\ objects' = IF full THEN objects ELSE {}
          /\ manifest' = IF full THEN manifest ELSE [t \in Turns |-> NoFile]
          /\ checkpoint' = IF full THEN checkpoint ELSE {}
      BY <1>5 DEF import_work
    <2>7. TypeOK'
      BY <2>3, <2>4, <2>5, <2>6 DEF HostInv, TypeOK
    <2>8. (Shape /\ AllListed /\ Stored /\ SweepSafe /\ DropSafe)'
      BY <2>2, <2>6 DEF HostInv, Shape, AllListed, Stored, SweepSafe, DropSafe
    <2>9. SnapshotsWhole'
      BY <2>6 DEF HostInv, SnapshotsWhole
    <2> QED BY <2>7, <2>8, <2>9 DEF HostInv
  <1>6. ASSUME NEW t \in Turns, copy_in(t) PROVE HostInv'
    <2>1. objects' = objects \cup TextsOf(docs) /\ objects' \subseteq Texts
      BY <1>6, TextsOfType DEF copy_in, HostInv, TypeOK
    <2>2. manifest' = [manifest EXCEPT ![t] = docs] /\ manifest' \in [Turns -> Trees \cup {NoFile}]
      BY <1>6 DEF copy_in, HostInv, TypeOK
    <2>3. begun' \in [Turns -> SUBSET Trees]
      BY <1>6 DEF copy_in, HostInv, TypeOK
    <2>4. spent' \in [Spendings -> Nat]
      BY <1>6, SpendType DEF copy_in, Spendings
    <2>5. TypeOK'
      BY <1>6, <2>1, <2>2, <2>3, <2>4 DEF copy_in, HostInv, TypeOK
    <2>6. \A u \in Turns : manifest'[u] = IF u = t THEN docs ELSE manifest[u]
      BY <2>2 DEF HostInv, TypeOK
    <2>7. SnapshotsWhole'
      BY <2>1, <2>6 DEF HostInv, SnapshotsWhole
    <2>8. (Shape /\ AllListed /\ Stored /\ SweepSafe /\ DropSafe)'
      BY <1>6 DEF copy_in, HostInv, Shape, AllListed, Stored, SweepSafe, DropSafe
    <2> QED BY <2>5, <2>7, <2>8 DEF HostInv
  <1> QED BY <1>1, <1>2, <1>3, <1>4, <1>5, <1>6 DEF Outside

LEMMA StutterKeepsHostInv ==
    ASSUME HostInv, UNCHANGED vars PROVE HostInv'
  <1> USE DEF vars, disk, book, work
  <1>1. TypeOK'
    BY DEF HostInv, TypeOK
  <1>2. (Shape /\ AllListed /\ Stored /\ SweepSafe /\ SnapshotsWhole)'
    BY DEF HostInv, Shape, AllListed, Stored, SweepSafe, SnapshotsWhole
  <1>3. DropSafe'
    BY DEF HostInv, DropSafe, Dropped, Listed
  <1> QED BY <1>1, <1>2, <1>3 DEF HostInv

\* The invariant of the host: every reachable state of the work directory satisfies it.
THEOREM HostInvariant == Spec => []HostInv
  <1>1. Init => HostInv
    BY InitHostInv
  <1>2. HostInv /\ [Next]_vars => HostInv'
    BY TurnKeepsHostInv, CollectionKeepsHostInv, UndoKeepsHostInv, OutsideKeepsHostInv,
       StutterKeepsHostInv DEF Next
  <1> QED BY <1>1, <1>2, PTL DEF Spec

\* The variables of the host have their types in every reachable state.
THEOREM HostTypeCorrect == Spec => []TypeOK
  <1>1. HostInv => TypeOK
    BY DEF HostInv
  <1> QED BY <1>1, HostInvariant, PTL

\* No manifest on disk ever lists an object that is not there: write_snapshot,
\* _gc_locked and revert_turn order their writes so that a crash, a spent budget or a
\* repeated turn id cannot make it so, and turns may share objects.
THEOREM SnapshotsAlwaysWhole == Spec => []SnapshotsWhole
  <1>1. HostInv => SnapshotsWhole
    BY DEF HostInv
  <1> QED BY <1>1, HostInvariant, PTL

(***************************************************************************)
(* Undo.                                                                   *)
(***************************************************************************)
\* A manifest is of the documents as they were when its turn began.
Dated == /\ \A t \in Turns : manifest[t] # NoFile => manifest[t] \in begun[t]
         /\ pc = "baseline" => docs \in begun[cur]

\* A collection unlinks the manifests of what it will trim, and no others.
Trimming == pc = "sweep" =>
    \A t \in Turns : manifest[t] # NoFile => (t \notin Roots(ledger) <=> <<"manifest", t>> \in todo)

\* An undo writes document after document, and unlinks nothing before it is through.
Restoring == /\ pc \in {"restore", "drop"} => torn = cur
             /\ pc = "restore" => /\ ledger[cur].snapshot
                                  /\ \A d \in Docs \ todo : docs[d] = manifest[cur][d]
             /\ pc = "drop" => docs \in begun[cur]

\* While an undo is torn nothing runs, so no reconciliation moves the window, and no
\* manifest comes in that would.
Torn == torn # NoTurn =>
    /\ pc \in {"idle", "collect", "sweep", "restore", "drop"}
    /\ hasLedger
    /\ torn \in Roots(ledger)
    /\ \A t \in Turns : ledger[t] # NoEntry => ledger[t].state # "running"
    /\ \A t \in Turns : manifest[t] # NoFile => ledger[t] # NoEntry
    /\ docs \in begun[torn] \/ (ledger[torn].snapshot /\ manifest[torn] # NoFile)

UndoInv == Dated /\ Trimming /\ Restoring /\ Torn

\* The window depends on the order of the turns and on which of them are open.
LEMMA SameRoots ==
    ASSUME NEW l, NEW m,
           \A t \in Turns : (l[t] = NoEntry) <=> (m[t] = NoEntry),
           \A t \in Turns : l[t] # NoEntry => l[t].seq = m[t].seq /\ l[t].state = m[t].state
    PROVE  Roots(m) = Roots(l)
<1>1. Listed(m) = Listed(l) /\ Listed(l) \subseteq Turns
  BY DEF Listed
<1>2. \A t \in Listed(l) : l[t].seq = m[t].seq /\ l[t].state = m[t].state
  BY DEF Listed
<1>3. \A t \in Listed(l) : {u \in Listed(m) : m[u].seq > m[t].seq}
                            = {u \in Listed(l) : l[u].seq > l[t].seq}
  BY <1>1, <1>2
<1>. QED
  BY <1>1, <1>2, <1>3 DEF Roots

\* A ledger that is trimmed to its window keeps the window.
LEMMA TrimmedRoots ==
    ASSUME NEW l \in [Turns -> Entries \cup {NoEntry}], NEW t \in Roots(l)
    PROVE  t \in Roots(Only(l, Roots(l)))
<1> DEFINE m == Only(l, Roots(l))
           A == {u \in Listed(l) : l[u].seq > l[t].seq}
           B == {u \in Listed(m) : m[u].seq > m[t].seq}
<1>1. Roots(l) \subseteq Listed(l) /\ Listed(l) \subseteq Turns
  BY DEF Roots, Listed
<1>2. \A u \in Turns : m[u] = IF u \in Roots(l) THEN l[u] ELSE NoEntry
  BY DEF Only
<1> HIDE DEF m
<1>3. Listed(m) = Roots(l) /\ m[t] = l[t]
  BY <1>1, <1>2 DEF Listed
<1>4. B \subseteq A
  BY <1>1, <1>2, <1>3
<1>5. IsFiniteSet(A)
  <2>1. A \in SUBSET Turns
    BY <1>1
  <2>. QED
    BY <2>1, FinitelyManyTurns, FS_Subset
<1>6. Cardinality(B) <= Cardinality(A) /\ Cardinality(A) \in Nat /\ Cardinality(B) \in Nat
  BY <1>4, <1>5, FS_Subset, FS_CardinalityType
<1>7. Keep \in Nat
  BY BoundsAreNaturals
<1>8. Cardinality(A) < Keep \/ l[t].state \in {"running", "interrupted"}
  BY DEF Roots
<1>9. Cardinality(B) < Keep \/ m[t].state \in {"running", "interrupted"}
  BY <1>3, <1>6, <1>7, <1>8
<1>10. t \in Roots(m)
  BY <1>3, <1>9 DEF Roots
<1>. QED
  BY <1>10 DEF m

\* A reconciliation that finds nothing running and nothing unlisted moves no turn out of
\* the window.
LEMMA SettledTorn ==
    ASSUME HostInv, UndoInv, torn # NoTurn, NEW r \in Acquired
    PROVE  /\ Roots(r.entries) = Roots(ledger)
           /\ \A t \in Turns : r.entries[t] # NoEntry => r.entries[t].state # "running"
           /\ ledger[torn].snapshot => r.entries[torn].snapshot
<1>1. PICK f \in Orders(Unlisted) :
        r.entries = [t \in Turns |->
                     IF ledger[t] # NoEntry THEN Settled(t)
                     ELSE IF t \in Unlisted THEN RecoveredEntry(nextSeq + f[t])
                     ELSE NoEntry]
  BY DEF Acquired, Reconciliations
<1>2. Unlisted = {}
  BY DEF UndoInv, Torn, Unlisted
<1>3. \A t \in Turns : r.entries[t] = IF ledger[t] # NoEntry THEN Settled(t) ELSE NoEntry
  BY <1>1, <1>2
<1>4. \A t \in Turns : ledger[t] # NoEntry =>
         /\ Settled(t).seq = ledger[t].seq /\ Settled(t).state = ledger[t].state
         /\ Settled(t).state # "running"
         /\ ledger[t].snapshot => Settled(t).snapshot
  BY DEF UndoInv, Torn, Settled
<1>5. ASSUME NEW t \in Turns, ledger[t] # NoEntry
      PROVE  r.entries[t] # NoEntry
  <2>1. ledger[t].seq \in Nat
    BY <1>5 DEF HostInv, TypeOK, Entries
  <2>2. Settled(t) \in Entries
    BY <1>4, <1>5 DEF HostInv, TypeOK, Entries, Settled
  <2>. QED
    BY <1>3, <1>5, <2>2, NoEntryIsNone
<1>6. Roots(r.entries) = Roots(ledger)
  <2>1. \A t \in Turns : (ledger[t] = NoEntry) <=> (r.entries[t] = NoEntry)
    BY <1>3, <1>5
  <2>2. \A t \in Turns : ledger[t] # NoEntry =>
           ledger[t].seq = r.entries[t].seq /\ ledger[t].state = r.entries[t].state
    BY <1>3, <1>4
  <2>. QED
    BY <2>1, <2>2, SameRoots
<1>7. torn \in Turns /\ ledger[torn] # NoEntry
  BY DEF UndoInv, Torn, Roots, Listed
<1>. QED
  BY <1>3, <1>4, <1>6, <1>7

\* After a reconciliation nothing is marked running.
LEMMA NothingRuns ==
    ASSUME HostInv, NEW r \in Acquired
    PROVE  \A t \in Turns : r.entries[t] # NoEntry => r.entries[t].state # "running"
<1>1. PICK f \in Orders(Unlisted) :
        r.entries = [t \in Turns |->
                     IF ledger[t] # NoEntry THEN Settled(t)
                     ELSE IF t \in Unlisted THEN RecoveredEntry(nextSeq + f[t])
                     ELSE NoEntry]
  BY DEF Acquired, Reconciliations
<1>2. \A t \in Turns : Settled(t).state # "running"
  BY DEF Settled
<1>3. \A n : RecoveredEntry(n).state # "running"
  BY DEF RecoveredEntry
<1>. QED
  BY <1>1, <1>2, <1>3

LEMMA InitUndo == Init => UndoInv
<1>1. ASSUME Init, NEW t \in Turns, manifest[t] # NoFile PROVE manifest[t] \in begun[t]
  BY <1>1 DEF Init
<1>. QED
  BY <1>1 DEF Init, UndoInv, Dated, Trimming, Restoring, Torn

\* No step of a turn is taken while an undo is torn: begin_turn and resume_turn give it up.
LEMMA TurnKeepsUndo ==
    ASSUME HostInv, UndoInv, TurnStep
    PROVE  UndoInv'
<1> USE DEF disk, book, work
<1>1. ASSUME NEW t \in Turns, begin_turn(t) PROVE UndoInv'
  <2>1. /\ pc' = "baseline" /\ cur' = t /\ torn' = NoTurn
        /\ begun' = [begun EXCEPT ![t] = @ \cup {docs}]
        /\ UNCHANGED <<docs, manifest>>
    BY <1>1 DEF begin_turn
  <2>2. \A u \in Turns : begun'[u] = IF u = t THEN begun[u] \cup {docs} ELSE begun[u]
    BY <2>1 DEF HostInv, TypeOK
  <2>. QED
    BY <2>1, <2>2 DEF UndoInv, Dated, Trimming, Restoring, Torn
<1>2. ASSUME NEW t \in Turns, resume_turn(t) PROVE UndoInv'
  BY <1>2 DEF resume_turn, UndoInv, Dated, Trimming, Restoring, Torn
<1>3. ASSUME torn = NoTurn, pc' \notin {"baseline", "sweep", "restore", "drop"},
             UNCHANGED <<manifest, begun, torn>>
      PROVE  UndoInv'
  BY <1>3 DEF UndoInv, Dated, Trimming, Restoring, Torn
<1>4. ASSUME NEW d \in Docs, store_object(d) PROVE UndoInv'
  BY <1>4 DEF store_object, UndoInv, Dated, Trimming, Restoring, Torn
<1>5. CASE write_manifest
  <2>1. pc = "baseline" /\ torn = NoTurn /\ cur \in Turns
    BY <1>5 DEF write_manifest, UndoInv, Torn, HostInv, Shape
  <2>2. \A u \in Turns : manifest'[u] = IF u = cur THEN docs ELSE manifest[u]
    BY <1>5, <2>1 DEF write_manifest, HostInv, TypeOK
  <2>. QED
    BY <1>5, <2>1, <2>2 DEF write_manifest, UndoInv, Dated, Trimming, Restoring, Torn
<1>6. ASSUME \/ mark_snapshot \/ save_checkpoint \/ finish_turn
             \/ \E d \in Docs, x \in Texts \cup {NoFile} : engine_writes(d, x)
             \/ \E s \in {"completed", "failed", "cancelled"} : terminal(s)
      PROVE  UndoInv'
  <2>1. torn = NoTurn
    BY <1>6 DEF mark_snapshot, save_checkpoint, finish_turn, engine_writes, terminal, UndoInv, Torn
  <2>2. /\ pc' \notin {"baseline", "sweep", "restore", "drop"}
        /\ UNCHANGED <<manifest, begun, torn>>
    BY <1>6 DEF mark_snapshot, save_checkpoint, finish_turn, engine_writes, terminal
  <2>. QED
    BY <1>3, <2>1, <2>2
<1>. QED
  BY <1>1, <1>2, <1>4, <1>5, <1>6 DEF TurnStep

\* A collection leaves the files of the window, and the window with them.
LEMMA CollectionKeepsUndo ==
    ASSUME HostInv, UndoInv, Collection
    PROVE  UndoInv'
<1> USE DEF disk, book, work
<1>1. CASE gc_work
  <2>1. PICK r \in Acquired : ledger' = r.entries
    BY <1>1 DEF gc_work
  <2>2. pc' = "collect" /\ UNCHANGED <<docs, manifest, begun, torn, hasLedger>>
    BY <1>1 DEF gc_work
  <2>3. \A t \in Turns : manifest[t] # NoFile => ledger'[t] # NoEntry
    BY <2>1, AcquiredType
  <2>4. Torn'
    BY <2>1, <2>2, <2>3, SettledTorn DEF UndoInv, Torn
  <2>. QED
    BY <2>2, <2>4 DEF UndoInv, Dated, Trimming, Restoring
<1>2. CASE gc_aborts \/ gc_out_of_time
  <2>1. pc' = "idle" /\ UNCHANGED <<docs, manifest, begun, torn, hasLedger, ledger>>
    BY <1>2 DEF gc_aborts, gc_out_of_time, Release
  <2>. QED
    BY <2>1 DEF UndoInv, Dated, Trimming, Restoring, Torn
<1>3. CASE gc_marks
  <2>1. /\ pc = "collect" /\ pc' = "sweep"
        /\ todo' = FilesOf(Listed(ledger) \ Roots(ledger))
        /\ UNCHANGED <<docs, manifest, begun, torn, hasLedger, ledger>>
    BY <1>3 DEF gc_marks
  <2>2. ASSUME NEW t \in Turns, manifest[t] # NoFile
        PROVE  t \notin Roots(ledger) <=> <<"manifest", t>> \in todo'
    <3>1. t \in Listed(ledger)
      BY <2>1, <2>2 DEF HostInv, AllListed, Listed
    <3>2. <<"manifest", t>> \in TurnFiles
      BY DEF TurnFiles
    <3>. QED
      BY <2>1, <2>2, <3>1, <3>2 DEF FilesOf
  <2>3. Trimming'
    BY <2>1, <2>2 DEF Trimming
  <2>. QED
    BY <2>1, <2>3 DEF UndoInv, Dated, Restoring, Torn
<1>4. ASSUME NEW f \in TurnFiles, gc_unlinks_file(f) PROVE UndoInv'
  <2>1. /\ pc = "sweep" /\ pc' = "sweep" /\ f \in todo /\ todo' = todo \ {f}
        /\ UNCHANGED <<docs, begun, torn, hasLedger, ledger>>
    BY <1>4 DEF gc_unlinks_file
  <2>2. PICK k \in {"manifest", "checkpoint"}, t \in Turns : f = <<k, t>>
    BY DEF TurnFiles
  <2>3. \A u \in Turns : manifest'[u] = IF f = <<"manifest", u>> THEN NoFile ELSE manifest[u]
    BY <1>4, <2>2 DEF gc_unlinks_file, UnlinkTurnFile, HostInv, TypeOK
  <2>4. Trimming'
    BY <2>1, <2>3 DEF UndoInv, Trimming
  <2>5. \A u \in Roots(ledger) : manifest[u] # NoFile => manifest'[u] = manifest[u]
    BY <2>1, <2>3 DEF UndoInv, Trimming, Roots, Listed
  <2>. QED
    BY <2>1, <2>3, <2>4, <2>5 DEF UndoInv, Dated, Restoring, Torn
<1>5. ASSUME NEW x \in Texts, gc_unlinks_object(x) PROVE UndoInv'
  BY <1>5 DEF gc_unlinks_object, UndoInv, Dated, Trimming, Restoring, Torn
<1>6. CASE gc_trims
  <2>1. /\ pc = "sweep" /\ pc' = "idle" /\ todo = {}
        /\ ledger' = Only(ledger, Roots(ledger))
        /\ begun' = [t \in Turns |-> IF t \in Roots(ledger) THEN begun[t] ELSE {}]
        /\ UNCHANGED <<docs, manifest, torn, hasLedger>>
    BY <1>6 DEF gc_trims, Release
  <2>2. \A t \in Turns : manifest[t] # NoFile => t \in Roots(ledger)
    BY <2>1 DEF UndoInv, Trimming
  <2>3. /\ \A t \in Turns : ledger'[t] = IF t \in Roots(ledger) THEN ledger[t] ELSE NoEntry
        /\ Roots(ledger) \subseteq {t \in Turns : ledger[t] # NoEntry}
    BY <2>1 DEF Only, Roots, Listed
  <2>4. \A t \in Roots(ledger) : t \in Roots(ledger')
    BY <2>1, TrimmedRoots DEF HostInv, TypeOK
  <2>5. Dated' /\ Trimming' /\ Restoring'
    BY <2>1, <2>2 DEF UndoInv, Dated, Trimming, Restoring
  <2>6. Torn'
    BY <2>1, <2>2, <2>3, <2>4 DEF UndoInv, Torn
  <2>. QED
    BY <2>5, <2>6 DEF UndoInv
<1>. QED
  BY <1>1, <1>2, <1>3, <1>4, <1>5, <1>6 DEF Collection

\* An undo restores the documents of the manifest, which are those of a beginning.
LEMMA UndoKeepsUndo ==
    ASSUME HostInv, UndoInv, Undo
    PROVE  UndoInv'
<1> USE DEF disk, book, work
<1>1. ASSUME NEW t \in Turns, revert_turn(t) PROVE UndoInv'
  <2>1. PICK r \in Acquired :
          /\ ledger' = r.entries /\ t \in Roots(r.entries)
          /\ r.entries[t].snapshot /\ manifest[t] # NoFile
    BY <1>1 DEF revert_turn
  <2>2. /\ pc' = "restore" /\ cur' = t /\ todo' = Docs /\ torn' = t
        /\ UNCHANGED <<docs, manifest, begun, hasLedger>>
    BY <1>1 DEF revert_turn
  <2>3. hasLedger /\ \A u \in Turns : manifest[u] # NoFile => ledger'[u] # NoEntry
    BY <2>1, AcquiredType
  <2>4. \A u \in Turns : ledger'[u] # NoEntry => ledger'[u].state # "running"
    BY <2>1, NothingRuns
  <2>5. Torn'
    BY <2>1, <2>2, <2>3, <2>4 DEF Torn
  <2>. QED
    BY <2>1, <2>2, <2>5 DEF UndoInv, Dated, Trimming, Restoring
<1>2. ASSUME NEW d \in Docs, restore_document(d) PROVE UndoInv'
  <2>1. /\ pc = "restore" /\ pc' = "restore" /\ todo' = todo \ {d}
        /\ docs' = [docs EXCEPT ![d] = manifest[cur][d]]
        /\ UNCHANGED <<manifest, begun, torn, cur, hasLedger, ledger>>
    BY <1>2 DEF restore_document
  <2>2. \A e \in Docs : docs'[e] = IF e = d THEN manifest[cur][d] ELSE docs[e]
    BY <2>1 DEF HostInv, TypeOK, Trees
  <2>3. Restoring'
    BY <2>1, <2>2 DEF UndoInv, Restoring
  <2>4. cur \in Turns /\ torn = cur /\ torn # NoTurn /\ manifest[torn] # NoFile
    BY <2>1, ValuesDiffer DEF HostInv, Shape, UndoInv, Restoring
  <2>5. ledger[torn].snapshot
    BY <2>1, <2>4 DEF UndoInv, Restoring
  <2>. QED
    BY <2>1, <2>3, <2>4, <2>5 DEF UndoInv, Dated, Trimming, Torn
<1>3. CASE revert_drops
  <2>1. /\ pc = "restore" /\ pc' = "drop" /\ todo = {}
        /\ UNCHANGED <<docs, manifest, begun, torn, cur, hasLedger, ledger>>
    BY <1>3 DEF revert_drops
  <2>2. cur \in Turns /\ manifest[cur] # NoFile
    BY <2>1 DEF HostInv, Shape
  <2>3. docs = manifest[cur]
    <3>1. docs \in Trees /\ manifest[cur] \in Trees
      BY <2>2 DEF HostInv, TypeOK
    <3>2. \A d \in Docs : docs[d] = manifest[cur][d]
      BY <2>1 DEF UndoInv, Restoring
    <3>. QED
      BY <3>1, <3>2 DEF Trees
  <2>4. docs \in begun[cur]
    BY <2>2, <2>3 DEF UndoInv, Dated
  <2>. QED
    BY <2>1, <2>4 DEF UndoInv, Dated, Trimming, Restoring, Torn
<1>4. ASSUME NEW f \in TurnFiles, revert_unlinks(f) PROVE UndoInv'
  <2>1. /\ pc = "drop" /\ pc' = "drop"
        /\ UNCHANGED <<docs, begun, torn, cur, hasLedger, ledger>>
    BY <1>4 DEF revert_unlinks
  <2>2. \A u \in Turns : manifest'[u] = manifest[u] \/ manifest'[u] = NoFile
    BY <1>4 DEF revert_unlinks, UnlinkTurnFile, HostInv, TypeOK
  <2>3. docs \in begun[torn]
    BY <2>1 DEF UndoInv, Restoring
  <2>. QED
    BY <2>1, <2>2, <2>3 DEF UndoInv, Dated, Trimming, Restoring, Torn
<1>5. CASE revert_forgets
  <2>1. /\ pc = "drop" /\ pc' = "collect" /\ todo = {} /\ torn' = NoTurn
        /\ begun' = [t \in Turns |-> IF t \in Dropped THEN {} ELSE begun[t]]
        /\ UNCHANGED <<docs, manifest>>
    BY <1>5 DEF revert_forgets
  <2>2. \A t \in Turns : manifest[t] # NoFile => t \notin Dropped
    BY <2>1 DEF HostInv, DropSafe
  <2>. QED
    BY <2>1, <2>2 DEF UndoInv, Dated, Trimming, Restoring, Torn
<1>. QED
  BY <1>1, <1>2, <1>3, <1>4, <1>5 DEF Undo

\* Whoever edits, imports or copies gives a torn undo up; a process that dies does not.
LEMMA OutsideKeepsUndo ==
    ASSUME HostInv, UndoInv, Outside
    PROVE  UndoInv'
<1> USE DEF disk, book, work
<1>1. CASE Open
  <2>1. PICK r \in Acquired : ledger' = r.entries
    BY <1>1 DEF Open
  <2>2. pc = "idle" /\ UNCHANGED <<docs, manifest, begun, torn, hasLedger, pc>>
    BY <1>1, <2>1, AcquiredType DEF Open
  <2>3. \A t \in Turns : manifest[t] # NoFile => ledger'[t] # NoEntry
    BY <2>1, AcquiredType
  <2>4. Torn'
    BY <2>1, <2>2, <2>3, SettledTorn DEF UndoInv, Torn
  <2>. QED
    BY <2>2, <2>4 DEF UndoInv, Dated, Trimming, Restoring
<1>2. CASE Migrate
  <2>1. pc = "idle" /\ torn = NoTurn /\ UNCHANGED <<docs, manifest, begun, torn, pc>>
    BY <1>2 DEF Migrate, UndoInv, Torn
  <2>. QED
    BY <2>1 DEF UndoInv, Dated, Trimming, Restoring, Torn
<1>3. CASE Crash
  <2>1. pc' = "idle" /\ UNCHANGED <<manifest, begun, torn, hasLedger, ledger>>
    BY <1>3 DEF Crash, Release
  <2>2. Dated' /\ Trimming' /\ Restoring'
    BY <2>1 DEF UndoInv, Dated, Trimming, Restoring
  <2>3. CASE docs' = docs
    BY <2>1, <2>2, <2>3 DEF UndoInv, Torn
  <2>4. CASE docs' # docs
    <3>1. pc = "restore"
      BY <1>3, <2>4 DEF Crash, BeingWritten
    <3>2. torn = cur /\ manifest[torn] # NoFile
      BY <3>1 DEF HostInv, Shape, UndoInv, Restoring
    <3>3. cur \in Turns /\ torn # NoTurn
      BY <3>1, <3>2, ValuesDiffer DEF HostInv, Shape
    <3>4. ledger[torn].snapshot
      BY <3>1, <3>2 DEF UndoInv, Restoring
    <3>. QED
      BY <2>1, <2>2, <3>2, <3>4 DEF UndoInv, Torn
  <2>. QED
    BY <2>3, <2>4
<1>4. ASSUME NEW d \in Docs, NEW x \in Texts, write_document(d, x) PROVE UndoInv'
  <2>1. PICK r \in Acquired : TRUE
    BY <1>4 DEF write_document
  <2>2. pc = "idle" /\ torn' = NoTurn /\ UNCHANGED <<manifest, begun, pc>>
    BY <1>4, <2>1, AcquiredType DEF write_document
  <2>. QED
    BY <2>2 DEF UndoInv, Dated, Trimming, Restoring, Torn
<1>5. ASSUME NEW full \in BOOLEAN, import_work(full) PROVE UndoInv'
  <2>1. PICK r \in Acquired :
          LET kept == IF full THEN {t \in Listed(r.entries) :
                                      r.entries[t].snapshot => manifest[t] # NoFile}
                              ELSE {}
          IN  begun' = [t \in Turns |-> IF t \in kept THEN begun[t] ELSE {}]
    BY <1>5 DEF import_work
  <2>2. /\ pc = "idle" /\ \A t \in Turns : manifest[t] # NoFile => r.entries[t] # NoEntry
    BY AcquiredType
  <2>3. /\ pc' = pc /\ torn' = NoTurn
        /\ manifest' = IF full THEN manifest ELSE [t \in Turns |-> NoFile]
    BY <1>5 DEF import_work
  <2>4. ASSUME NEW t \in Turns, manifest'[t] # NoFile PROVE manifest'[t] \in begun'[t]
    <3>1. full /\ manifest'[t] = manifest[t]
      BY <2>3, <2>4
    <3>2. begun'[t] = begun[t]
      BY <2>1, <2>2, <2>4, <3>1 DEF Listed
    <3>. QED
      BY <2>4, <3>1, <3>2 DEF UndoInv, Dated
  <2>. QED
    BY <2>2, <2>3, <2>4 DEF UndoInv, Dated, Trimming, Restoring, Torn
<1>6. ASSUME NEW t \in Turns, copy_in(t) PROVE UndoInv'
  <2>1. /\ pc = "idle" /\ pc' = pc /\ torn' = NoTurn
        /\ manifest' = [manifest EXCEPT ![t] = docs]
        /\ begun' = [begun EXCEPT ![t] = {docs}]
    BY <1>6 DEF copy_in
  <2>2. \A u \in Turns : manifest'[u] = IF u = t THEN docs ELSE manifest[u]
    BY <2>1 DEF HostInv, TypeOK
  <2>3. \A u \in Turns : begun'[u] = IF u = t THEN {docs} ELSE begun[u]
    BY <2>1 DEF HostInv, TypeOK
  <2>. QED
    BY <2>1, <2>2, <2>3 DEF UndoInv, Dated, Trimming, Restoring, Torn
<1>. QED
  BY <1>1, <1>2, <1>3, <1>4, <1>5, <1>6 DEF Outside

LEMMA UndoInductive == HostInv /\ UndoInv /\ [Next]_vars => UndoInv'
<1> SUFFICES ASSUME HostInv, UndoInv, [Next]_vars PROVE UndoInv'
  OBVIOUS
<1>1. CASE UNCHANGED vars
  BY <1>1 DEF vars, disk, book, work, UndoInv, Dated, Trimming, Restoring, Torn
<1>. QED
  BY <1>1, TurnKeepsUndo, CollectionKeepsUndo, UndoKeepsUndo, OutsideKeepsUndo DEF Next

THEOREM UndoInvariant == Spec => []UndoInv
BY HostInvariant, InitUndo, UndoInductive, PTL DEF Spec

\* A revert_turn that gets to drop the ledger's entries has put every document back to
\* what it was when the turn began.
THEOREM UndoesAreExact == Spec => UndoExact
<1>1. UndoInv /\ [Next]_vars => [pc = "drop" /\ pc' = "collect" => docs' \in begun[cur]]_vars
  <2> SUFFICES ASSUME UndoInv, Next, pc = "drop", pc' = "collect"
               PROVE  docs' \in begun[cur]
    OBVIOUS
  <2>1. docs \in begun[cur]
    BY DEF UndoInv, Restoring
  <2>2. docs' = docs
    BY DEF Next, TurnStep, Collection, Undo, Outside, begin_turn, resume_turn, store_object,
       write_manifest, mark_snapshot, engine_writes, save_checkpoint, terminal, finish_turn,
       gc_work, gc_aborts, gc_marks, gc_out_of_time, gc_trims, gc_unlinks_file, gc_unlinks_object,
       revert_turn, restore_document, revert_drops, revert_unlinks, revert_forgets, Open, Migrate,
       Crash, Release, BeingWritten, write_document, import_work, copy_in, Acquired, disk
  <2>. QED
    BY <2>1, <2>2
<1>. QED
  BY <1>1, UndoInvariant, PTL DEF Spec, UndoExact

\* A revert_turn that died half-way, with no edit since, has restored all documents or can
\* be repeated, however often reconcile and _gc_locked have run.
THEOREM UndoesCanBeRepeated == Spec => []UndoRepeatable
<1>1. HostInv /\ UndoInv => UndoRepeatable
  <2> SUFFICES ASSUME HostInv, UndoInv, pc = "idle", torn # NoTurn, docs \notin begun[torn]
               PROVE  /\ torn \in Roots(ledger)
                      /\ ledger[torn].snapshot
                      /\ manifest[torn] # NoFile
                      /\ TextsOf(manifest[torn]) \subseteq objects
    BY DEF UndoRepeatable
  <2>1. torn \in Roots(ledger) /\ ledger[torn].snapshot /\ manifest[torn] # NoFile
    BY DEF UndoInv, Torn
  <2>2. torn \in Turns
    BY <2>1 DEF Roots, Listed
  <2>. QED
    BY <2>1, <2>2 DEF HostInv, SnapshotsWhole
<1>. QED
  BY <1>1, HostInvariant, UndoInvariant, PTL

=============================================================================
