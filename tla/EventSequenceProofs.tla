------------------------- MODULE EventSequenceProofs -------------------------
(***************************************************************************)
(* EventSequence for any number of writers, readers and events: the        *)
(* sequences are dense, no row appears late, no stream skips one, and the  *)
(* whole implements AppendLog.                                             *)
(***************************************************************************)
EXTENDS EventSequence, TLAPS

\* R holds exactly one row for each of 1 .. n.
Upto(R, n) ==
    /\ n \in Nat
    /\ \A r \in R : r.sequence \in 1 .. n
    /\ \A i \in 1 .. n : \E r \in R : r.sequence = i
    /\ \A r, q \in R : r.sequence = q.sequence => r = q

Busy(w) == phase[w] # "idle"

\* Only the holder of the lock is inside a transaction.
LockInv ==
    \A w \in Writers :
        /\ Busy(w) => lock = w
        /\ ~Busy(w) => staged[w] = {}

\* The rows are dense; with the holder's own rows, which all come after the
\* committed ones, they still are, and the holder numbers from there.
DenseInv ==
    /\ Upto(rows, MaxOf(rows))
    /\ \A w \in Writers : Busy(w) =>
        /\ Upto(rows \cup staged[w], MaxOf(rows \cup staged[w]))
        /\ \A r \in staged[w] : r.sequence > MaxOf(rows)
        /\ phase[w] = "numbered" => next[w] = MaxOf(rows \cup staged[w]) + 1

\* What a stream was handed.
SeenInv ==
    \A c \in Readers :
        /\ cursor[c] <= MaxOf(rows)
        /\ seen[c] = {r \in rows : r.sequence <= cursor[c]}

IInv == TypeOK /\ LockInv /\ DenseInv /\ SeenInv

-----------------------------------------------------------------------------
(* MAX(sequence).                                                          *)

\* MAX over exactly one row for each of 1 .. n is n.
LEMMA MaxOfUpto ==
    ASSUME NEW R, R \subseteq Row, NEW n, Upto(R, n)
    PROVE  MaxOf(R) = n
<1>1. CASE R = {}
  <2>1. n = 0
    BY <1>1 DEF Upto
  <2>. QED BY <1>1, <2>1 DEF MaxOf
<1>2. CASE R # {}
  <2>1. n \in {r.sequence : r \in R} /\ \A r \in R : r.sequence <= n
    BY <1>2 DEF Upto, Row
  <2>2. ASSUME NEW m \in {r.sequence : r \in R}, \A r \in R : r.sequence <= m
        PROVE  m = n
    BY <2>1, <2>2 DEF Upto, Row
  <2>. QED BY <1>2, <2>1, <2>2 DEF MaxOf
<1>. QED BY <1>1, <1>2

\* One more row after the last keeps the rows dense.
LEMMA UptoNext ==
    ASSUME NEW R, NEW n, Upto(R, n), NEW x, x.sequence = n + 1
    PROVE  Upto(R \cup {x}, n + 1)
BY DEF Upto

\* More rows, no lower MAX.
LEMMA UptoSubset ==
    ASSUME NEW R, NEW Q, NEW n, NEW m, R \subseteq Q, Upto(R, n), Upto(Q, m)
    PROVE  n <= m
<1>1. CASE n = 0
  BY <1>1 DEF Upto
<1>2. CASE n # 0
  <2>1. \E r \in R : r.sequence = n
    BY <1>2 DEF Upto
  <2>. QED BY <2>1 DEF Upto
<1>. QED BY <1>1, <1>2

\* MAX never passes the bound of the rows.
LEMMA UptoBound ==
    ASSUME NEW R, R \subseteq Row, NEW n, Upto(R, n)
    PROVE  n \in 0 .. MaxSequence
<1>1. CASE n = 0
  BY <1>1, SequenceAssumption
<1>2. CASE n # 0
  <2>1. \E r \in R : r.sequence = n
    BY <1>2 DEF Upto
  <2>. QED BY <2>1 DEF Row, Upto
<1>. QED BY <1>1, <1>2

-----------------------------------------------------------------------------
(* The invariant is inductive.                                             *)

\* The invariant holds of an empty turn_events.
LEMMA InitIInv == Init => IInv
<1>. SUFFICES ASSUME Init PROVE IInv
  OBVIOUS
<1>1. MaxOf({}) = 0
  BY DEF MaxOf
<1>2. TypeOK
  BY SequenceAssumption DEF Init, TypeOK, Row
<1>3. LockInv
  BY DEF Init, LockInv, Busy
<1>4. DenseInv
  BY <1>1 DEF Init, DenseInv, Upto, Busy
<1>5. SeenInv
  BY <1>1 DEF Init, SeenInv
<1>. QED BY <1>2, <1>3, <1>4, <1>5 DEF IInv

\* A commit turns the holder's rows into committed ones and leaves the
\* streams level.
LEMMA CommitIInv ==
    ASSUME IInv, NEW w \in Writers, commit(w)
    PROVE  IInv'
<1>. USE DEF IInv
<1>1. Busy(w) /\ lock = w
  BY DEF LockInv, commit, Busy
<1>2. \A v \in Writers : v # w => ~Busy(v)
  BY <1>1 DEF LockInv
<1>3. /\ rows' = rows \cup staged[w]
      /\ lock' = NoWriter
      /\ phase' = [phase EXCEPT ![w] = "idle"]
      /\ staged' = [staged EXCEPT ![w] = {}]
      /\ next' = [next EXCEPT ![w] = 0]
      /\ cursor' = cursor /\ seen' = seen
  BY DEF commit, Finish
<1>4. TypeOK'
  BY <1>3, SequenceAssumption DEF TypeOK
<1>5. \A v \in Writers : ~Busy(v)' /\ staged'[v] = {}
  BY <1>2, <1>3 DEF Busy, LockInv, TypeOK
<1>6. Upto(rows, MaxOf(rows)) /\ Upto(rows', MaxOf(rows')) /\ MaxOf(rows) <= MaxOf(rows')
  <2>1. Upto(rows', MaxOf(rows')) /\ Upto(rows, MaxOf(rows))
    BY <1>1, <1>3 DEF DenseInv
  <2>. QED BY <2>1, <1>3, UptoSubset
<1>7. LockInv' /\ DenseInv'
  BY <1>5, <1>6 DEF LockInv, DenseInv
<1>8. SeenInv'
  <2>1. \A r \in staged[w] : r.sequence > MaxOf(rows)
    BY <1>1 DEF DenseInv
  <2>3. \A r \in staged[w] : r.sequence \in Nat
    BY DEF TypeOK, Row
  <2>2. ASSUME NEW c \in Readers
        PROVE  /\ cursor[c] <= MaxOf(rows')
               /\ seen[c] = {r \in rows' : r.sequence <= cursor[c]}
    <3>1. cursor[c] \in Nat /\ cursor[c] <= MaxOf(rows) /\ MaxOf(rows) \in Nat /\ MaxOf(rows') \in Nat
      BY <1>6 DEF SeenInv, TypeOK, Upto
    <3>2. \A r \in staged[w] : ~(r.sequence <= cursor[c])
      BY <2>1, <2>3, <3>1
    <3>. QED BY <1>3, <1>6, <3>1, <3>2 DEF SeenInv
  <2>. QED BY <2>2, <1>3 DEF SeenInv
<1>. QED BY <1>4, <1>7, <1>8

\* An insert extends the holder's rows by the next number.
LEMMA InsertIInv ==
    ASSUME IInv, NEW w \in Writers, NEW e \in Events, insert(w, e)
    PROVE  IInv'
<1>. USE DEF IInv
<1>. DEFINE x == [sequence |-> next[w], event |-> e]
            n == MaxOf(rows \cup staged[w])
<1>1. Busy(w) /\ lock = w /\ phase[w] = "numbered"
  BY DEF LockInv, insert, Busy
<1>2. \A v \in Writers : v # w => ~Busy(v)
  BY <1>1 DEF LockInv
<1>3. /\ staged' = [staged EXCEPT ![w] = @ \cup {x}]
      /\ rows' = rows /\ lock' = lock /\ cursor' = cursor /\ seen' = seen
      /\ \A v \in Writers : v # w => phase'[v] = phase[v]
      /\ \/ phase'[w] = "numbered" /\ next'[w] = next[w] + 1
         \/ phase'[w] = "locked"
  BY <1>1 DEF insert, TypeOK
<1>4. Upto(rows \cup staged[w], n) /\ next[w] = n + 1 /\ n \in Nat
  BY <1>1 DEF DenseInv, Upto
<1>5. x \in Row
  BY <1>4 DEF insert, Row, TypeOK
<1>6. TypeOK'
  <2>1. staged' \in [Writers -> SUBSET Row]
    BY <1>5 DEF TypeOK, insert
  <2>2. next' \in [Writers -> 0 .. MaxSequence + 1]
    <3>1. next[w] + 1 \in 0 .. MaxSequence + 1
      BY <1>4, SequenceAssumption DEF insert
    <3>. QED BY <3>1 DEF TypeOK, insert
  <2>3. phase' \in [Writers -> {"idle", "locked", "numbered"}]
    BY DEF TypeOK, insert
  <2>. QED BY <2>1, <2>2, <2>3 DEF TypeOK, insert
<1>7. staged'[w] = staged[w] \cup {x} /\ \A v \in Writers : v # w => staged'[v] = staged[v]
  BY <1>3 DEF TypeOK
<1>8. Upto(rows' \cup staged'[w], n + 1)
  <2>1. Upto((rows \cup staged[w]) \cup {x}, n + 1)
    BY <1>4, UptoNext
  <2>. QED BY <2>1, <1>3, <1>7
<1>9. MaxOf(rows' \cup staged'[w]) = n + 1
  <2>1. rows' \cup staged'[w] \subseteq Row
    BY <1>6 DEF TypeOK
  <2>. QED BY <2>1, <1>8, MaxOfUpto
<1>10. LockInv'
  BY <1>1, <1>2, <1>3, <1>7 DEF LockInv, Busy
<1>11. \A r \in staged'[w] : r.sequence > MaxOf(rows')
  <2>1. MaxOf(rows) \in Nat /\ MaxOf(rows) <= n
    <3>1. Upto(rows, MaxOf(rows))
      BY DEF DenseInv
    <3>2. MaxOf(rows) <= n
      BY <3>1, <1>4, UptoSubset
    <3>. QED BY <3>1, <3>2 DEF Upto
  <2>2. x.sequence > MaxOf(rows)
    BY <2>1, <1>4
  <2>. QED BY <2>2, <1>1, <1>3, <1>7 DEF DenseInv
<1>12. DenseInv'
  <2>1. phase'[w] = "numbered" => next'[w] = n + 1 + 1
    BY <1>3, <1>4
  <2>2. \A v \in Writers : v # w => ~Busy(v)'
    BY <1>2, <1>3 DEF Busy
  <2>. QED BY <2>1, <2>2, <1>3, <1>8, <1>9, <1>11 DEF DenseInv
<1>13. SeenInv'
  BY <1>3 DEF SeenInv
<1>. QED BY <1>6, <1>10, <1>12, <1>13

\* Taking the lock, reading MAX and rolling back keep the invariant.
LEMMA TransactionIInv ==
    ASSUME IInv, NEW w \in Writers,
           acquire(w) \/ next_sequence(w) \/ rollback(w)
    PROVE  IInv'
<1>. USE DEF IInv
<1>1. CASE acquire(w)
  <2>1. \A v \in Writers : ~Busy(v) /\ staged[v] = {}
    BY <1>1, SequenceAssumption DEF acquire, LockInv
  <2>2. rows \cup staged[w] = rows
    BY <2>1
  <2>3. TypeOK'
    BY <1>1 DEF acquire, TypeOK
  <2>4. LockInv'
    BY <1>1, <2>1 DEF acquire, LockInv, Busy, TypeOK
  <2>5. DenseInv'
    BY <1>1, <2>1, <2>2 DEF acquire, DenseInv, Busy, TypeOK
  <2>6. SeenInv'
    BY <1>1 DEF acquire, SeenInv
  <2>. QED BY <2>3, <2>4, <2>5, <2>6
<1>2. CASE next_sequence(w)
  <2>1. MaxOf(rows \cup staged[w]) \in 0 .. MaxSequence
    <3>1. Busy(w)
      BY <1>2 DEF next_sequence, Busy
    <3>2. Upto(rows \cup staged[w], MaxOf(rows \cup staged[w]))
      BY <3>1 DEF DenseInv
    <3>3. rows \cup staged[w] \subseteq Row
      BY DEF TypeOK
    <3>. QED BY <3>2, <3>3, UptoBound
  <2>2. TypeOK'
    BY <1>2, <2>1, SequenceAssumption DEF next_sequence, TypeOK
  <2>3. LockInv'
    BY <1>2 DEF next_sequence, LockInv, Busy, TypeOK
  <2>4. DenseInv'
    BY <1>2 DEF next_sequence, DenseInv, Busy, TypeOK
  <2>5. SeenInv'
    BY <1>2 DEF next_sequence, SeenInv
  <2>. QED BY <2>2, <2>3, <2>4, <2>5
<1>3. CASE rollback(w)
  <2>1. TypeOK'
    BY <1>3, SequenceAssumption DEF rollback, Finish, TypeOK
  <2>2. \A v \in Writers : ~Busy(v)' /\ staged'[v] = {}
    BY <1>3 DEF rollback, Finish, LockInv, Busy, TypeOK
  <2>3. LockInv' /\ DenseInv'
    BY <1>3, <2>2 DEF rollback, LockInv, DenseInv
  <2>4. SeenInv'
    BY <1>3 DEF rollback, Finish, SeenInv
  <2>. QED BY <2>1, <2>3, <2>4
<1>. QED BY <1>1, <1>2, <1>3

\* A page hands over the rows between the old cursor and the new one.
LEMMA FetchIInv ==
    ASSUME IInv, NEW c \in Readers, fetch_turn_events(c)
    PROVE  IInv'
<1>. USE DEF IInv
<1>1. PICK last \in {r.sequence : r \in rows} :
        /\ last > cursor[c]
        /\ cursor' = [cursor EXCEPT ![c] = last]
        /\ seen' = [seen EXCEPT ![c] = @ \cup
                       {r \in rows : cursor[c] < r.sequence /\ r.sequence <= last}]
  BY DEF fetch_turn_events
<1>2. last \in 1 .. MaxSequence /\ last <= MaxOf(rows) /\ \A r \in rows : r.sequence \in Nat
  BY DEF DenseInv, Upto, TypeOK, Row
<1>3. UNCHANGED <<rows, lock, phase, staged, next>>
  BY DEF fetch_turn_events
<1>4. TypeOK'
  BY <1>1, <1>2, <1>3 DEF TypeOK
<1>5. LockInv' /\ DenseInv'
  BY <1>3 DEF LockInv, DenseInv, Busy
<1>6. cursor[c] \in Nat /\ seen[c] = {r \in rows : r.sequence <= cursor[c]}
  BY DEF TypeOK, SeenInv
<1>7. seen'[c] = {r \in rows : r.sequence <= last}
  BY <1>1, <1>2, <1>6 DEF TypeOK
<1>8. SeenInv'
  BY <1>1, <1>2, <1>3, <1>7 DEF SeenInv, TypeOK
<1>. QED BY <1>4, <1>5, <1>8

\* Every step keeps the invariant.
LEMMA NextIInv == IInv /\ [Next]_vars => IInv'
<1>. SUFFICES ASSUME IInv, [Next]_vars PROVE IInv'
  OBVIOUS
<1>1. CASE UNCHANGED vars
  BY <1>1 DEF vars, IInv, TypeOK, LockInv, DenseInv, SeenInv, Busy
<1>2. CASE \E w \in Writers : acquire(w) \/ next_sequence(w) \/ rollback(w)
  BY <1>2, TransactionIInv
<1>3. CASE \E w \in Writers : \E e \in Events : insert(w, e)
  BY <1>3, InsertIInv
<1>4. CASE \E w \in Writers : commit(w)
  BY <1>4, CommitIInv
<1>5. CASE \E c \in Readers : fetch_turn_events(c)
  BY <1>5, FetchIInv
<1>. QED BY <1>1, <1>2, <1>3, <1>4, <1>5 DEF Next

\* The invariant holds throughout.
THEOREM Invariance == Spec => []IInv
BY InitIInv, NextIInv, PTL DEF Spec

\* The variables of the event log keep their types, for any number of writers and readers.
THEOREM SequenceTypeCorrect == Spec => []TypeOK
<1>1. IInv => TypeOK
  BY DEF IInv
<1>. QED BY <1>1, Invariance, PTL

\* next_sequence numbers the committed events 1, 2, 3, ... for every number of
\* concurrent writers, commits and rollbacks.
THEOREM DenseAlways == Spec => []Dense
<1>1. IInv => Dense
  BY DEF IInv, DenseInv, Upto, Dense
<1>. QED BY <1>1, Invariance, PTL

\* No stream skips an event, wherever its pages end and whenever it reconnects.
THEOREM NothingSkippedAlways == Spec => []NothingSkipped
<1>1. IInv => NothingSkipped
  BY DEF IInv, SeenInv, NothingSkipped
<1>. QED BY <1>1, Invariance, PTL

\* No event becomes visible behind one that already was.
THEOREM NoLateRowAlways == Spec => NoLateRow
<1>. DEFINE Ahead == \A r \in rows' \ rows : \A q \in rows : q.sequence < r.sequence
<1>1. IInv /\ [Next]_vars => [Ahead]_vars
  <2>. SUFFICES ASSUME IInv, Next, NEW r \in rows' \ rows, NEW q \in rows
                PROVE  q.sequence < r.sequence
    OBVIOUS
  <2>1. PICK w \in Writers : commit(w)
    BY DEF Next, acquire, next_sequence, insert, rollback, fetch_turn_events
  <2>2. Busy(w) /\ r \in staged[w]
    BY <2>1 DEF IInv, LockInv, commit, Busy
  <2>3. r.sequence > MaxOf(rows)
    BY <2>2 DEF IInv, DenseInv
  <2>5. r.sequence \in Nat
    BY <2>2 DEF IInv, TypeOK, Row
  <2>4. q.sequence \in 1 .. MaxOf(rows) /\ MaxOf(rows) \in Nat
    BY DEF IInv, DenseInv, Upto
  <2>. QED BY <2>3, <2>4, <2>5
<1>. QED BY <1>1, Invariance, PTL DEF Spec, NoLateRow

-----------------------------------------------------------------------------
(* Refinement.                                                             *)

LogBarOK ==
    logBar \in Seq(Events) /\ Len(logBar) = MaxOf(rows) /\ MaxOf(rows) \in Nat

ReceivedBarOK ==
    \A c \in Readers :
        /\ receivedBar[c] = [i \in 1 .. cursor[c] |-> logBar[i]]
        /\ Len(receivedBar[c]) = cursor[c]
        /\ cursor[c] \in Nat /\ cursor[c] <= MaxOf(rows)

\* Looking a sequence up in dense rows finds its one row.
LEMMA EventAtUpto ==
    ASSUME NEW R, NEW n, Upto(R, n), R \subseteq Row, NEW r \in R
    PROVE  EventAt(R, r.sequence) = r.event
BY DEF Upto, EventAt

\* The mapped log is a sequence of events as long as MAX.
LEMMA LogBarType == IInv => LogBarOK
<1>. SUFFICES ASSUME IInv PROVE LogBarOK
  OBVIOUS
<1>1. Upto(rows, MaxOf(rows)) /\ MaxOf(rows) \in Nat
  BY DEF IInv, DenseInv, Upto
<1>2. ASSUME NEW i \in 1 .. MaxOf(rows) PROVE EventAt(rows, i) \in Events
  <2>1. PICK r \in rows : r.sequence = i
    BY <1>1 DEF Upto
  <2>2. EventAt(rows, i) = r.event
    BY <2>1, <1>1, EventAtUpto DEF IInv, TypeOK
  <2>. QED BY <2>2 DEF IInv, TypeOK, Row
<1>. QED BY <1>1, <1>2 DEF logBar, LogBarOK

\* What a stream was handed is the log up to its cursor.
LEMMA ReceivedBarPrefix == IInv => ReceivedBarOK
<1>. SUFFICES ASSUME IInv, NEW c \in Readers
              PROVE  /\ receivedBar[c] = [i \in 1 .. cursor[c] |-> logBar[i]]
                     /\ Len(receivedBar[c]) = cursor[c]
                     /\ cursor[c] \in Nat /\ cursor[c] <= MaxOf(rows)
  BY DEF ReceivedBarOK
<1>1. Upto(rows, MaxOf(rows)) /\ MaxOf(rows) \in Nat
  BY DEF IInv, DenseInv, Upto
<1>2. cursor[c] \in Nat /\ cursor[c] <= MaxOf(rows)
  BY DEF IInv, TypeOK, SeenInv
<1>3. seen[c] = {r \in rows : r.sequence <= cursor[c]}
  BY DEF IInv, SeenInv
<1>4. ASSUME NEW i \in 1 .. cursor[c] PROVE EventAt(seen[c], i) = logBar[i]
  <2>1. PICK r \in rows : r.sequence = i
    BY <1>1, <1>2 DEF Upto
  <2>2. r \in seen[c] /\ \A q \in seen[c] : q.sequence = i => q = r
    BY <2>1, <1>1, <1>2, <1>3 DEF Upto
  <2>3. (CHOOSE q \in seen[c] : q.sequence = i) = r
    BY <2>1, <2>2
  <2>4. EventAt(rows, i) = r.event
    BY <2>1, <1>1, EventAtUpto DEF IInv, TypeOK
  <2>5. EventAt(seen[c], i) = r.event
    BY <2>3 DEF EventAt
  <2>6. i \in 1 .. MaxOf(rows)
    BY <1>1, <1>2
  <2>7. logBar[i] = EventAt(rows, i)
    BY <2>6 DEF logBar
  <2>. QED BY <2>4, <2>5, <2>7
<1>5. receivedBar[c] = [i \in 1 .. cursor[c] |-> logBar[i]]
  BY <1>4 DEF receivedBar
<1>. QED BY <1>2, <1>5

\* The advisory lock, MAX + 1 and the cursors implement the append-only log
\* with in-order, gap-free streams that turn_events promises.
THEOREM Refinement == Spec => ImplementsAppendLog
<1>1. Init => Promise!Init
  <2>. SUFFICES ASSUME Init PROVE Promise!Init
    OBVIOUS
  <2>1. MaxOf(rows) = 0
    BY DEF Init, MaxOf
  <2>2. logBar = <<>>
    BY <2>1 DEF logBar
  <2>3. \A c \in Readers : [i \in 1 .. cursor[c] |-> EventAt(seen[c], i)] = <<>>
    BY DEF Init
  <2>. QED BY <2>2, <2>3 DEF Promise!Init, receivedBar
<1>2. IInv => LogBarOK /\ ReceivedBarOK
  BY LogBarType, ReceivedBarPrefix
<1>3. IInv' => LogBarOK' /\ ReceivedBarOK'
  BY LogBarType, ReceivedBarPrefix, PTL
<1>4. IInv /\ IInv' /\ [Next]_vars => [Promise!Next]_<<logBar, receivedBar>>
  <2>. SUFFICES ASSUME IInv, IInv', [Next]_vars
                PROVE  Promise!Next \/ UNCHANGED <<logBar, receivedBar>>
    OBVIOUS
  <2>1. CASE UNCHANGED <<rows, cursor, seen>>
    BY <2>1 DEF logBar, receivedBar, MaxOf, EventAt
  <2>2. ASSUME NEW w \in Writers, commit(w) PROVE Promise!Next
    <3>1. /\ rows \subseteq rows' /\ cursor' = cursor /\ seen' = seen
          /\ staged[w] # {} /\ staged[w] \subseteq rows'
          /\ \A r \in staged[w] : r.sequence > MaxOf(rows)
      BY <2>2 DEF commit, Finish, IInv, DenseInv, LockInv, Busy
    <3>2. /\ logBar \in Seq(Events) /\ Len(logBar) = MaxOf(rows) /\ MaxOf(rows) \in Nat
          /\ logBar' \in Seq(Events) /\ Len(logBar') = MaxOf(rows)' /\ MaxOf(rows)' \in Nat
      BY <1>2, <1>3 DEF LogBarOK
    <3>3. Upto(rows, MaxOf(rows)) /\ Upto(rows', MaxOf(rows)')
      BY DEF IInv, DenseInv, Upto
    <3>4. Len(logBar') > Len(logBar)
      <4>1. PICK r \in staged[w] : r.sequence > MaxOf(rows)
        BY <3>1
      <4>2. r.sequence \in 1 .. MaxOf(rows)'
        BY <4>1, <3>1, <3>3 DEF Upto
      <4>. QED BY <4>1, <4>2, <3>2
    <3>5. ASSUME NEW i \in 1 .. Len(logBar) PROVE logBar'[i] = logBar[i]
      <4>1. i \in 1 .. MaxOf(rows) /\ i \in 1 .. MaxOf(rows)'
        BY <3>2, <3>4
      <4>2. PICK r \in rows : r.sequence = i
        BY <4>1, <3>3 DEF Upto
      <4>3. EventAt(rows, i) = r.event
        BY <4>2, <3>3, EventAtUpto DEF IInv, TypeOK
      <4>4. EventAt(rows', i) = r.event
        BY <4>2, <3>1, <3>3, EventAtUpto DEF IInv, TypeOK
      <4>5. logBar[i] = EventAt(rows, i) /\ logBar'[i] = EventAt(rows', i)
        BY <4>1 DEF logBar, EventAt
      <4>. QED BY <4>3, <4>4, <4>5
    <3>6. receivedBar' = receivedBar
      BY <3>1 DEF receivedBar, EventAt
    <3>. QED BY <3>2, <3>4, <3>5, <3>6 DEF Promise!Next, Promise!Extend
  <2>3. ASSUME NEW c \in Readers, fetch_turn_events(c) PROVE Promise!Next
    <3>1. PICK last \in {r.sequence : r \in rows} :
            last > cursor[c] /\ cursor' = [cursor EXCEPT ![c] = last]
      BY <2>3 DEF fetch_turn_events
    <3>2. rows' = rows /\ \A d \in Readers : d # c => cursor'[d] = cursor[d] /\ seen'[d] = seen[d]
      BY <2>3 DEF fetch_turn_events, IInv, TypeOK
    <3>3. logBar' = logBar
      BY <3>2 DEF logBar, MaxOf, EventAt
    <3>4. cursor'[c] = last
      BY <3>1 DEF IInv, TypeOK
    <3>5. last \in Len(receivedBar[c]) + 1 .. Len(logBar)
      <4>1. last \in 1 .. MaxOf(rows)
        BY <3>1 DEF IInv, DenseInv, Upto
      <4>2. /\ Len(logBar) = MaxOf(rows) /\ MaxOf(rows) \in Nat
            /\ Len(receivedBar[c]) = cursor[c] /\ cursor[c] \in Nat
        BY <1>2 DEF LogBarOK, ReceivedBarOK
      <4>. QED BY <4>1, <4>2, <3>1
    <3>6. receivedBar'[c] = [i \in 1 .. last |-> logBar[i]]
      <4>1. (receivedBar[c])' = [i \in 1 .. cursor'[c] |-> logBar'[i]]
        BY <1>3 DEF ReceivedBarOK
      <4>. QED BY <4>1, <3>3, <3>4
    <3>7. receivedBar' = [receivedBar EXCEPT ![c] = [i \in 1 .. last |-> logBar[i]]]
      <4>1. \A d \in Readers : d # c => receivedBar'[d] = receivedBar[d]
        <5>. SUFFICES ASSUME NEW d \in Readers, d # c
                      PROVE  receivedBar'[d] = receivedBar[d]
          OBVIOUS
        <5>1. cursor'[d] = cursor[d] /\ seen'[d] = seen[d]
          BY <3>2
        <5>2. receivedBar[d] = [i \in 1 .. cursor[d] |-> EventAt(seen[d], i)]
          BY DEF receivedBar
        <5>3. receivedBar'[d] = [i \in 1 .. cursor'[d] |-> EventAt(seen'[d], i)]
          BY DEF receivedBar, EventAt
        <5>. QED BY <5>1, <5>2, <5>3
      <4>. QED BY <4>1, <3>6 DEF receivedBar
    <3>. QED BY <3>3, <3>5, <3>7 DEF Promise!Next, Promise!Deliver
  <2>. QED BY <2>1, <2>2, <2>3 DEF Next, vars, acquire, next_sequence, insert, rollback, Finish
<1>. QED BY <1>1, <1>4, Invariance, PTL DEF Spec, ImplementsAppendLog, Promise!Spec
=============================================================================
