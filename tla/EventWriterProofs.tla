-------------------------- MODULE EventWriterProofs --------------------------
(***************************************************************************)
(* What BufferedEventWriter keeps for any number of producers and events:  *)
(* the types, the order of the deltas, that an event never overtakes a     *)
(* delta that was buffered before it, and that every event is in exactly   *)
(* one place: buffered, in somebody's hands, written or given up.          *)
(***************************************************************************)
EXTENDS EventWriter, FiniteSetTheorems, TLAPS

Pcs == {"idle", "none", "asleep", "flush", "beat", "writing", "append", "stopped",
        "closing", "ending", "done"}

\* What does not go through the buffer: late deltas and heartbeats.
Loose == {"late", "beat"}

\* x may be followed by y: a delta is younger than all that precedes it, these aside.
Follows(x, y) == x.kind \notin Loose /\ y.kind = "delta" => x.n < y.n

InOrder(s)   == \A i, j \in DOMAIN s : i < j => Follows(s[i], s[j])
Before(s, t) == \A x \in Elements(s), y \in Elements(t) : Follows(x, y)

\* The batch of deltas belongs to the holder of the flush lock; what is loose does not.
Kinds == /\ \A x \in Elements(buffer) : x.kind = "delta"
         /\ \A a \in Actors : \A x \in Elements(rows[a]) :
                (x.kind = "delta" /\ lock = a) \/ x.kind \in Loose
         /\ \A a \in Actors : pc[a] \notin {"writing", "beat"} => rows[a] = <<>>
         /\ \A p \in Producers : \A x \in Elements(event[p]) : x.kind = "event"

\* Whatever is to be issued gets a new number.
Numbered == /\ \A x \in Elements(buffer) \cup Elements(log) : x.n <= issued
            /\ \A a \in Actors : \A x \in Elements(rows[a]) : x.n <= issued
            /\ \A p \in Producers : \A x \in Elements(event[p]) : x.n <= issued

\* First the log, then the batch being written, then the buffer.
Ordered == /\ InOrder(log) /\ InOrder(buffer) /\ Before(log, buffer)
           /\ \A a \in Actors : /\ InOrder(rows[a])
                                /\ Before(log, rows[a])
                                /\ Before(rows[a], buffer)

\* A producer with an event gets the flush lock or finds the buffer empty; from then on
\* the buffer holds only deltas that came later.
Waiting == \A p \in Producers : event[p] # <<>> =>
    /\ pc[p] \in {"flush", "writing", "append"}
    /\ pc[p] = "writing" => lock = p /\ Before(event[p], buffer)
    /\ pc[p] = "append" => /\ Before(event[p], buffer)
                           /\ \A a \in Actors : Before(event[p], rows[a])

\* The closer empties the buffer, which stays empty.
Closing == /\ pc[Closer] \in {"none", "closing", "flush", "writing", "ending", "done"}
           /\ pc[Closer] # "none" => closed
           /\ pc[Closer] \in {"writing", "ending", "done"} => buffer = <<>>
           /\ pc[Closer] = "writing" => lock = Closer
           /\ pc[Closer] \in {"ending", "done"} =>
                  \A a \in Actors : \A x \in Elements(rows[a]) : x.kind # "delta"

WInv == TypeOK /\ Kinds /\ Numbered /\ Ordered /\ Waiting /\ Closing

-----------------------------------------------------------------------------
(* Sequences of items.                                                     *)

LEMMA ElementsType ==
    ASSUME NEW s \in Seq(Item)
    PROVE  /\ \A x \in Elements(s) : x \in Item /\ x.n \in Nat
           /\ s # <<>> => \E i \in 1 .. Len(s) : s[i] \in Elements(s)
           /\ DOMAIN s = 1 .. Len(s)
<1>1. \A i \in DOMAIN s : s[i] \in Item
  OBVIOUS
<1>2. \A x \in Item : x.n \in Nat
  BY DEF Item
<1>3. s # <<>> => 1 \in DOMAIN s
  OBVIOUS
<1>4. QED
  BY <1>1, <1>2, <1>3 DEF Elements

LEMMA NoElements == Elements(<<>>) = {} /\ InOrder(<<>>)
BY DEF Elements, InOrder

LEMMA OneElement ==
    ASSUME NEW x \in Item
    PROVE  <<x>> \in Seq(Item) /\ Elements(<<x>>) = {x} /\ InOrder(<<x>>)
<1>1. <<x>> \in Seq(Item) /\ DOMAIN <<x>> = {1} /\ <<x>>[1] = x
  OBVIOUS
<1>2. QED
  BY <1>1 DEF Elements, InOrder

\* What is written to the end of the log.
LEMMA Concat ==
    ASSUME NEW s \in Seq(Item), NEW t \in Seq(Item)
    PROVE  /\ s \o t \in Seq(Item)
           /\ Elements(s \o t) = Elements(s) \cup Elements(t)
           /\ InOrder(s) /\ InOrder(t) /\ Before(s, t) => InOrder(s \o t)
<1> DEFINE m == Len(s)
           n == Len(t)
           u == s \o t
<1>1. /\ m \in Nat /\ n \in Nat /\ u \in Seq(Item)
      /\ DOMAIN s = 1 .. m /\ DOMAIN t = 1 .. n /\ DOMAIN u = 1 .. m + n
      /\ \A i \in 1 .. m : u[i] = s[i]
      /\ \A i \in m + 1 .. m + n : u[i] = t[i - m]
  OBVIOUS
<1>2. \A i \in 1 .. n : m + i \in m + 1 .. m + n /\ u[m + i] = t[i]
  <2> TAKE i \in 1 .. n
  <2>1. m + i \in m + 1 .. m + n /\ (m + i) - m = i
    BY <1>1
  <2>2. QED
    BY <2>1, <1>1
<1> HIDE DEF m, n, u
<1>3. Elements(u) = Elements(s) \cup Elements(t)
  <2>1. ASSUME NEW x \in Elements(u) PROVE x \in Elements(s) \cup Elements(t)
    <3>1. PICK i \in 1 .. m + n : x = u[i]
      BY <2>1, <1>1 DEF Elements
    <3>2. CASE i \in 1 .. m
      BY <3>1, <3>2, <1>1 DEF Elements
    <3>3. CASE i \in m + 1 .. m + n
      <4>1. i - m \in 1 .. n /\ x = t[i - m]
        BY <3>1, <3>3, <1>1
      <4>2. QED
        BY <4>1, <1>1 DEF Elements
    <3>4. QED
      BY <3>1, <3>2, <3>3, <1>1
  <2>2. ASSUME NEW x \in Elements(s) PROVE x \in Elements(u)
    <3>1. PICK i \in 1 .. m : x = s[i]
      BY <2>2, <1>1 DEF Elements
    <3>2. i \in DOMAIN u /\ x = u[i]
      BY <3>1, <1>1
    <3>3. QED
      BY <3>2 DEF Elements
  <2>3. ASSUME NEW x \in Elements(t) PROVE x \in Elements(u)
    <3>1. PICK i \in 1 .. n : x = t[i]
      BY <2>3, <1>1 DEF Elements
    <3>2. m + i \in DOMAIN u /\ x = u[m + i]
      BY <3>1, <1>1, <1>2
    <3>3. QED
      BY <3>2 DEF Elements
  <2>4. QED
    BY <2>1, <2>2, <2>3
<1>4. ASSUME InOrder(s), InOrder(t), Before(s, t) PROVE InOrder(u)
  <2> SUFFICES ASSUME NEW i \in 1 .. m + n, NEW j \in 1 .. m + n, i < j
               PROVE  Follows(u[i], u[j])
    BY <1>1 DEF InOrder
  <2>1. CASE i \in 1 .. m /\ j \in 1 .. m
    BY <2>1, <1>1, <1>4 DEF InOrder
  <2>2. CASE i \in 1 .. m /\ j \in m + 1 .. m + n
    <3>1. j - m \in 1 .. n /\ u[j] = t[j - m] /\ u[i] = s[i]
      BY <2>2, <1>1
    <3>2. QED
      BY <2>2, <3>1, <1>1, <1>4 DEF Before, Elements
  <2>3. CASE i \in m + 1 .. m + n /\ j \in m + 1 .. m + n
    <3>1. i - m \in 1 .. n /\ j - m \in 1 .. n /\ i - m < j - m
      BY <2>3, <1>1
    <3>2. u[i] = t[i - m] /\ u[j] = t[j - m]
      BY <2>3, <1>1
    <3>3. QED
      BY <3>1, <3>2, <1>1, <1>4 DEF InOrder
  <2>4. QED
    BY <2>1, <2>2, <2>3, <1>1
<1>5. QED
  BY <1>1, <1>3, <1>4 DEF u

\* A batch that is split: the head is committed, the tail written again.
LEMMA Split ==
    ASSUME NEW s \in Seq(Item), NEW k \in 1 .. Len(s)
    PROVE  LET h == SubSeq(s, 1, k)
               t == SubSeq(s, k + 1, Len(s))
           IN  /\ h \in Seq(Item) /\ t \in Seq(Item)
               /\ Elements(h) \subseteq Elements(s) /\ Elements(t) \subseteq Elements(s)
               /\ k = Len(s) => t = <<>>
               /\ InOrder(s) => InOrder(h) /\ InOrder(t) /\ Before(h, t)
<1> DEFINE m == Len(s)
           h == SubSeq(s, 1, k)
           t == SubSeq(s, k + 1, m)
<1>1. /\ m \in Nat /\ k \in 1 .. m /\ DOMAIN s = 1 .. m
      /\ h \in Seq(Item) /\ DOMAIN h = 1 .. k
      /\ \A i \in 1 .. k : h[i] = s[i] /\ i \in 1 .. m
  OBVIOUS
<1>2. /\ t \in Seq(Item) /\ DOMAIN t = 1 .. m - k
      /\ \A i \in 1 .. m - k : t[i] = s[k + i] /\ k + i \in 1 .. m
  OBVIOUS
<1>3. k = m => t = <<>>
  OBVIOUS
<1> HIDE DEF m, h, t
<1>4. Elements(h) \subseteq Elements(s) /\ Elements(t) \subseteq Elements(s)
  BY <1>1, <1>2 DEF Elements
<1>5. ASSUME InOrder(s) PROVE InOrder(h) /\ InOrder(t) /\ Before(h, t)
  <2>1. InOrder(h)
    BY <1>1, <1>5 DEF InOrder
  <2>2. InOrder(t)
    <3> SUFFICES ASSUME NEW i \in 1 .. m - k, NEW j \in 1 .. m - k, i < j
                 PROVE  Follows(t[i], t[j])
      BY <1>2 DEF InOrder
    <3>1. k + i \in 1 .. m /\ k + j \in 1 .. m /\ k + i < k + j
      BY <1>1, <1>2
    <3>2. QED
      BY <3>1, <1>1, <1>2, <1>5 DEF InOrder
  <2>3. Before(h, t)
    <3> SUFFICES ASSUME NEW i \in 1 .. k, NEW j \in 1 .. m - k
                 PROVE  Follows(h[i], t[j])
      BY <1>1, <1>2 DEF Before, Elements
    <3>1. i \in 1 .. m /\ k + j \in 1 .. m /\ i < k + j
      BY <1>1, <1>2
    <3>2. QED
      BY <3>1, <1>1, <1>2, <1>5 DEF InOrder
  <2>4. QED
    BY <2>1, <2>2, <2>3
<1>6. QED
  BY <1>1, <1>2, <1>3, <1>4, <1>5 DEF m, h, t

-----------------------------------------------------------------------------
(* Steps.                                                                  *)

LEMMA ActorsApart ==
    /\ Timer \in Actors /\ Closer \in Actors /\ Liveness \in Actors /\ Producers \subseteq Actors
    /\ Timer \notin Producers /\ Closer \notin Producers /\ Liveness \notin Producers
    /\ Timer # Closer /\ Timer # Liveness /\ Closer # Liveness
    /\ Free \notin Actors
    /\ \A a \in Actors : a \in Producers \/ a = Timer \/ a = Closer \/ a = Liveness
<1>1. /\ Timer # Closer /\ Timer # Free /\ Closer # Free
      /\ Liveness # Timer /\ Liveness # Closer /\ Liveness # Free
  BY DEF Timer, Closer, Free, Liveness
<1>2. QED
  BY <1>1, WriterAssumption DEF Actors

LEMMA ReturnType ==
    ASSUME NEW a \in Actors
    PROVE  /\ Return(a) \in {"none", "ending", "asleep", "idle", "append"}
           /\ a = Timer => Return(a) = "none"
           /\ a = Closer => Return(a) = "ending"
           /\ a \in Producers => Return(a) = IF event[a] = <<>> THEN "idle" ELSE "append"
           /\ AfterFailure(a) \in {"stopped", "none", "ending"}
           /\ a = Closer => AfterFailure(a) = "ending"
<1>1. CASE a = Timer
  <2>1. Return(a) = "none" /\ AfterFailure(a) = "none"
    BY <1>1, ActorsApart, Zenon DEF Return, AfterFailure
  <2>2. QED
    BY <1>1, <2>1, ActorsApart
<1>2. CASE a = Closer
  <2>1. Return(a) = "ending" /\ AfterFailure(a) = "ending"
    BY <1>2, ActorsApart, Zenon DEF Return, AfterFailure
  <2>2. QED
    BY <1>2, <2>1, ActorsApart
<1>3. CASE a = Liveness
  <2>1. Return(a) = "asleep" /\ AfterFailure(a) = "none"
    BY <1>3, ActorsApart, Zenon DEF Return, AfterFailure
  <2>2. QED
    BY <1>3, <2>1, ActorsApart
<1>4. CASE a \in Producers
  <2>1. Return(a) = IF event[a] = <<>> THEN "idle" ELSE "append"
    BY <1>4, ActorsApart, Zenon DEF Return
  <2>2. AfterFailure(a) = "stopped"
    BY <1>4, ActorsApart, Zenon DEF AfterFailure
  <2>3. QED
    BY <1>4, <2>1, <2>2, ActorsApart
<1>5. QED
  BY <1>1, <1>2, <1>3, <1>4, ActorsApart

\* The types of what the tasks hold, and of a new event, which is younger than all others.
LEMMA ItemTypes ==
    ASSUME WInv
    PROVE  /\ issued \in Nat /\ buffer \in Seq(Item) /\ log \in Seq(Item)
           /\ \A a \in Actors : rows[a] \in Seq(Item) /\ pc[a] \in Pcs
           /\ \A p \in Producers : event[p] \in Seq(Item)
           /\ \A x \in Elements(buffer) \cup Elements(log) : x \in Item /\ x.n \in Nat
           /\ \A a \in Actors : \A x \in Elements(rows[a]) : x \in Item /\ x.n \in Nat
           /\ \A p \in Producers : \A x \in Elements(event[p]) : x \in Item /\ x.n \in Nat
<1>1. /\ issued \in Nat /\ buffer \in Seq(Item) /\ log \in Seq(Item)
      /\ \A a \in Actors : rows[a] \in Seq(Item) /\ pc[a] \in Pcs
      /\ \A p \in Producers : event[p] \in Seq(Item)
  BY DEF WInv, TypeOK, Pcs
<1>2. QED
  BY <1>1, ElementsType

LEMMA NextItemType ==
    ASSUME WInv, NEW kind \in {"delta", "late", "beat", "event", "end"}
    PROVE  /\ NextItem(kind) \in Item
           /\ NextItem(kind).kind = kind
           /\ NextItem(kind).n = issued + 1
BY DEF WInv, TypeOK, NextItem, Item

LEMMA WriterInit == Init => WInv
<1> SUFFICES ASSUME Init PROVE WInv
  OBVIOUS
<1>1. TypeOK
  <2>1. <<>> \in Seq(Item)
    OBVIOUS
  <2>2. QED
    BY <2>1 DEF Init, TypeOK, Actors
<1>2. Kinds /\ Numbered /\ Ordered
  <2>1. /\ buffer = <<>> /\ log = <<>>
        /\ \A a \in Actors : rows[a] = <<>>
        /\ \A p \in Producers : event[p] = <<>>
    BY DEF Init
  <2>2. QED
    BY <2>1, NoElements DEF Kinds, Numbered, Ordered, Before
<1>3. Waiting
  BY DEF Init, Waiting
<1>4. Closing
  <2>1. pc[Closer] = "none"
    BY ActorsApart DEF Init
  <2>2. QED
    BY <2>1 DEF Closing
<1>5. QED
  BY <1>1, <1>2, <1>3, <1>4 DEF WInv

LEMMA DeltaKeeps ==
    ASSUME WInv, NEW p \in Producers, append_delta(p)
    PROVE  WInv'
<1> DEFINE x == NextItem("delta")
<1> USE DEF WInv
<1>1. x \in Item /\ x.kind = "delta" /\ x.n = issued + 1 /\ issued \in Nat
  BY NextItemType, ItemTypes
<1>2. /\ buffer' = Append(buffer, x) /\ issued' = issued + 1
      /\ UNCHANGED <<lock, rows, event, closed, flushed, log, lost>>
      /\ pc[p] = "idle" /\ ~closed
      /\ \/ pc' = [pc EXCEPT ![p] = "flush"]
         \/ pc' = [pc EXCEPT ![Timer] = IF @ = "none" THEN "asleep" ELSE @]
  BY DEF append_delta, Issue
<1> HIDE DEF x
<1>3. /\ buffer' \in Seq(Item)
      /\ Elements(buffer') = Elements(buffer) \cup {x}
      /\ InOrder(buffer) /\ Before(buffer, <<x>>) => InOrder(buffer')
  <2>1. buffer' = buffer \o <<x>>
    BY <1>1, <1>2, ItemTypes
  <2>2. QED
    BY <2>1, <1>1, ItemTypes, OneElement, Concat
<1>4. /\ pc' \in [Actors -> Pcs]
      /\ \A a \in Actors : \/ pc'[a] = pc[a]
                           \/ a = p /\ pc'[a] = "flush"
                           \/ a = Timer /\ pc[a] = "none" /\ pc'[a] = "asleep"
  BY <1>2, ActorsApart DEF TypeOK, Pcs
<1>5. TypeOK'
  BY <1>1, <1>2, <1>3, <1>4 DEF TypeOK, Pcs
<1>6. Kinds'
  BY <1>1, <1>2, <1>3, <1>4 DEF Kinds
<1>7. Numbered'
  BY <1>1, <1>2, <1>3, ItemTypes DEF Numbered
<1>8. \A y : y.n \in Nat /\ y.n <= issued => y.n < x.n
  BY <1>1
<1>9. Ordered'
  <2>1. Before(buffer, <<x>>)
    BY <1>1, <1>8, ItemTypes, OneElement DEF Numbered, Before, Follows
  <2>2. Before(log, buffer)'
    BY <1>1, <1>2, <1>3, <1>8, ItemTypes DEF Ordered, Numbered, Before, Follows
  <2>3. \A a \in Actors : Before(rows[a], buffer)'
    BY <1>1, <1>2, <1>3, <1>8, ItemTypes DEF Ordered, Numbered, Before, Follows
  <2>4. QED
    BY <2>1, <2>2, <2>3, <1>2, <1>3 DEF Ordered
<1>10. Waiting'
  <2>1. ASSUME NEW q \in Producers PROVE Before(event[q], buffer) => Before(event[q], buffer')
    BY <1>1, <1>3, <1>8, ItemTypes DEF Numbered, Before, Follows
  <2>2. ASSUME NEW q \in Producers, event[q] # <<>> PROVE pc'[q] = pc[q]
    BY <2>2, <1>2, <1>4, ActorsApart DEF Waiting
  <2>3. QED
    BY <2>1, <2>2, <1>2 DEF Waiting
<1>11. Closing'
  <2>1. pc[Closer] = "none" /\ pc'[Closer] = "none"
    BY <1>2, <1>4, ActorsApart DEF Closing
  <2>2. QED
    BY <2>1 DEF Closing
<1>12. QED
  BY <1>5, <1>6, <1>7, <1>9, <1>10, <1>11

\* A task takes an event that does not go through the buffer.
LEMMA HoldKeeps ==
    ASSUME WInv, NEW a \in Actors, a # Closer, NEW kind \in Loose,
           NEW w \in {"writing", "beat"},
           pc[a] \in {"idle", "asleep"},
           issued' = issued + 1,
           rows' = [rows EXCEPT ![a] = <<NextItem(kind)>>],
           pc' = [pc EXCEPT ![a] = w],
           UNCHANGED <<buffer, lock, event, closed, flushed, log, lost>>
    PROVE  WInv'
<1> DEFINE x == NextItem(kind)
<1> USE DEF WInv
<1>1. x \in Item /\ x.kind \in Loose /\ x.n = issued + 1 /\ issued \in Nat
  BY NextItemType, ItemTypes DEF Loose
<1>2. /\ issued' = issued + 1 /\ pc[a] \in {"idle", "asleep"}
      /\ rows' = [rows EXCEPT ![a] = <<x>>]
      /\ pc' = [pc EXCEPT ![a] = w]
      /\ UNCHANGED <<buffer, lock, event, closed, flushed, log, lost>>
  OBVIOUS
<1> HIDE DEF x
<1>3. /\ \A b \in Actors : rows'[b] = IF b = a THEN <<x>> ELSE rows[b]
      /\ \A b \in Actors : pc'[b] = IF b = a THEN w ELSE pc[b]
  BY <1>2 DEF TypeOK
<1>4. <<x>> \in Seq(Item) /\ Elements(<<x>>) = {x} /\ InOrder(<<x>>)
  BY <1>1, OneElement
<1>5. TypeOK'
  <2>1. rows' \in [Actors -> Seq(Item)]
    BY <1>2, <1>4 DEF TypeOK
  <2>2. issued' \in Nat
    BY <1>1, <1>2
  <2>3. QED
    BY <2>1, <2>2, <1>2 DEF TypeOK
<1>6. Kinds'
  <2>1. \A b \in Actors : \A y \in Elements(rows'[b]) :
            (y.kind = "delta" /\ lock = b) \/ y.kind \in Loose
    BY <1>1, <1>3, <1>4 DEF Kinds
  <2>2. \A b \in Actors : pc'[b] \notin {"writing", "beat"} => rows'[b] = <<>>
    BY <1>3 DEF Kinds
  <2>3. QED
    BY <2>1, <2>2, <1>2 DEF Kinds
<1>7. Numbered'
  BY <1>1, <1>2, <1>3, <1>4, ItemTypes DEF Numbered
<1>8. Ordered'
  <2>1. Before(log, <<x>>) /\ Before(<<x>>, buffer)
    BY <1>1, <1>4 DEF Before, Follows, Loose
  <2>2. QED
    BY <2>1, <1>2, <1>3, <1>4 DEF Ordered
<1>9. Waiting'
  <2>1. a \in Producers => event[a] = <<>>
    BY <1>2 DEF Waiting
  <2>2. ASSUME NEW q \in Producers PROVE Before(event[q], <<x>>)
    BY <1>1, <1>4 DEF Before, Follows, Loose
  <2>3. QED
    BY <2>1, <2>2, <1>2, <1>3, ActorsApart DEF Waiting
<1>10. Closing'
  <2>1. pc'[Closer] = pc[Closer]
    BY <1>3, ActorsApart
  <2>2. \A y \in Elements(<<x>>) : y.kind # "delta"
    BY <1>1, <1>4 DEF Loose
  <2>3. QED
    BY <2>1, <2>2, <1>2, <1>3 DEF Closing
<1>11. QED
  BY <1>5, <1>6, <1>7, <1>8, <1>9, <1>10

LEMMA LateKeeps ==
    ASSUME WInv, NEW p \in Producers, append_delta_late(p) \/ write_heartbeat(p)
    PROVE  WInv'
<1>1. p \in Actors /\ p # Closer /\ "late" \in Loose /\ "beat" \in Loose
  BY ActorsApart DEF Loose
<1>2. CASE append_delta_late(p)
  BY <1>1, <1>2, HoldKeeps DEF append_delta_late, Issue
<1>3. CASE write_heartbeat(p)
  BY <1>1, <1>3, HoldKeeps DEF write_heartbeat, Issue
<1>4. QED
  BY <1>2, <1>3

LEMMA BeatKeeps ==
    ASSUME WInv, _stream_liveness_loop
    PROVE  WInv'
<1>1. Liveness \in Actors /\ Liveness # Closer /\ "beat" \in Loose
  BY ActorsApart DEF Loose
<1>2. QED
  BY <1>1, HoldKeeps DEF _stream_liveness_loop

\* The heartbeat that gets the flush lock is not the closer's, which holds none.
LEMMA LockKeeps ==
    ASSUME WInv, NEW a \in Actors, lock_heartbeat(a)
    PROVE  WInv'
<1> USE DEF WInv
<1>1. /\ pc[a] = "beat" /\ lock = Free /\ lock' = a
      /\ pc' = [pc EXCEPT ![a] = "writing"]
      /\ UNCHANGED <<buffer, rows, event, closed, flushed, log, issued, lost>>
  BY DEF lock_heartbeat
<1>2. \A b \in Actors : pc'[b] = IF b = a THEN "writing" ELSE pc[b]
  BY <1>1 DEF TypeOK
<1>3. a # Closer /\ pc'[Closer] = pc[Closer]
  BY <1>1, <1>2, ActorsApart DEF Closing
<1>4. TypeOK'
  BY <1>1 DEF TypeOK
<1>5. Kinds'
  <2>1. \A b \in Actors : \A x \in Elements(rows[b]) : x.kind \in Loose
    BY <1>1, ActorsApart DEF Kinds
  <2>2. \A b \in Actors : pc'[b] \notin {"writing", "beat"} => rows'[b] = <<>>
    BY <1>1, <1>2 DEF Kinds
  <2>3. QED
    BY <2>1, <2>2, <1>1 DEF Kinds
<1>6. Numbered' /\ Ordered'
  BY <1>1 DEF Numbered, Ordered
<1>7. Waiting'
  <2>1. ASSUME NEW q \in Producers, event[q] # <<>> PROVE q # a /\ pc[q] # "writing" /\ pc'[q] = pc[q]
    BY <2>1, <1>1, <1>2, ActorsApart DEF Waiting
  <2>2. QED
    BY <2>1, <1>1 DEF Waiting
<1>8. Closing'
  <2>1. pc[Closer] # "writing"
    BY <1>1, ActorsApart DEF Closing
  <2>2. QED
    BY <2>1, <1>1, <1>3 DEF Closing
<1>9. QED
  BY <1>4, <1>5, <1>6, <1>7, <1>8

LEMMA StartKeeps ==
    ASSUME WInv, NEW p \in Producers, start_stream_liveness(p)
    PROVE  WInv'
<1> USE DEF WInv
<1>1. /\ pc[Liveness] = "none" /\ pc' = [pc EXCEPT ![Liveness] = "asleep"]
      /\ UNCHANGED <<buffer, lock, rows, event, closed, flushed, log, issued, lost>>
  BY DEF start_stream_liveness
<1>2. \A b \in Actors : pc'[b] = IF b = Liveness THEN "asleep" ELSE pc[b]
  BY <1>1 DEF TypeOK
<1>3. TypeOK'
  BY <1>1 DEF TypeOK
<1>4. Kinds'
  <2>1. \A b \in Actors : pc'[b] \notin {"writing", "beat"} => rows'[b] = <<>>
    BY <1>1, <1>2, ActorsApart DEF Kinds
  <2>2. QED
    BY <2>1, <1>1 DEF Kinds
<1>5. Numbered' /\ Ordered'
  BY <1>1 DEF Numbered, Ordered
<1>6. Waiting'
  <2>1. \A q \in Producers : pc'[q] = pc[q]
    BY <1>2, ActorsApart
  <2>2. QED
    BY <2>1, <1>1 DEF Waiting
<1>7. Closing'
  <2>1. pc'[Closer] = pc[Closer]
    BY <1>2, ActorsApart
  <2>2. QED
    BY <2>1, <1>1 DEF Closing
<1>8. QED
  BY <1>3, <1>4, <1>5, <1>6, <1>7

LEMMA EventKeeps ==
    ASSUME WInv, NEW p \in Producers, write_event(p)
    PROVE  WInv'
<1> DEFINE x == NextItem("event")
<1> USE DEF WInv
<1>1. x \in Item /\ x.kind = "event" /\ x.n = issued + 1 /\ issued \in Nat
  BY NextItemType, ItemTypes
<1>2. /\ issued' = issued + 1 /\ pc[p] = "idle" /\ p \in Actors
      /\ event' = [event EXCEPT ![p] = <<x>>]
      /\ pc' = [pc EXCEPT ![p] = "flush"]
      /\ UNCHANGED <<buffer, lock, rows, closed, flushed, log, lost>>
  BY ActorsApart DEF write_event, Issue
<1> HIDE DEF x
<1>3. /\ \A q \in Producers : event'[q] = IF q = p THEN <<x>> ELSE event[q]
      /\ \A a \in Actors : pc'[a] = IF a = p THEN "flush" ELSE pc[a]
  BY <1>2 DEF TypeOK
<1>4. <<x>> \in Seq(Item) /\ Elements(<<x>>) = {x}
  BY <1>1, OneElement
<1>5. TypeOK'
  BY <1>1, <1>2, <1>4 DEF TypeOK
<1>6. Kinds'
  <2>1. \A q \in Producers : \A y \in Elements(event'[q]) : y.kind = "event"
    BY <1>1, <1>3, <1>4 DEF Kinds
  <2>2. \A a \in Actors : pc'[a] \notin {"writing", "beat"} => rows'[a] = <<>>
    BY <1>2, <1>3 DEF Kinds
  <2>3. QED
    BY <2>1, <2>2, <1>2 DEF Kinds
<1>7. Numbered'
  <2>1. \A y : y.n \in Nat /\ y.n <= issued => y.n <= issued'
    BY <1>1, <1>2
  <2>2. ASSUME NEW q \in Producers, NEW y \in Elements(event'[q]) PROVE y.n <= issued'
    <3>1. CASE q = p
      <4>1. y = x
        BY <3>1, <1>3, <1>4
      <4>2. QED
        BY <4>1, <1>1, <1>2
    <3>2. CASE q # p
      <4>1. y \in Elements(event[q])
        BY <3>2, <1>3
      <4>2. y.n \in Nat /\ y.n <= issued
        BY <4>1, ItemTypes DEF Numbered
      <4>3. QED
        BY <4>2, <2>1
    <3>3. QED
      BY <3>1, <3>2
  <2>3. QED
    BY <2>1, <2>2, <1>2, ItemTypes DEF Numbered
<1>8. Ordered'
  BY <1>2 DEF Ordered
<1>9. Waiting'
  BY <1>2, <1>3, ActorsApart DEF Waiting
<1>10. Closing'
  <2>1. pc'[Closer] = pc[Closer]
    BY <1>3, ActorsApart
  <2>2. QED
    BY <2>1, <1>2 DEF Closing
<1>11. QED
  BY <1>5, <1>6, <1>7, <1>8, <1>9, <1>10

LEMMA AppendKeeps ==
    ASSUME WInv, NEW p \in Producers, append_event(p)
    PROVE  WInv'
<1> USE DEF WInv
<1>1. /\ pc[p] = "append" /\ p \in Actors
      /\ log' = log \o event[p]
      /\ event' = [event EXCEPT ![p] = <<>>]
      /\ pc' = [pc EXCEPT ![p] = "idle"]
      /\ UNCHANGED <<buffer, lock, rows, closed, flushed, issued, lost>>
  BY ActorsApart DEF append_event
<1>2. /\ \A q \in Producers : event'[q] = IF q = p THEN <<>> ELSE event[q]
      /\ \A a \in Actors : pc'[a] = IF a = p THEN "idle" ELSE pc[a]
  BY <1>1 DEF TypeOK
<1>3. /\ log' \in Seq(Item)
      /\ Elements(log') = Elements(log) \cup Elements(event[p])
      /\ InOrder(log) /\ InOrder(event[p]) /\ Before(log, event[p]) => InOrder(log')
  BY <1>1, ItemTypes, Concat
<1>4. \A x \in Elements(event[p]) : x.kind = "event" /\ x.n <= issued
  BY DEF Kinds, Numbered
<1>5. TypeOK'
  <2>1. <<>> \in Seq(Item)
    OBVIOUS
  <2>2. QED
    BY <2>1, <1>1, <1>3 DEF TypeOK
<1>6. Kinds'
  <2>1. \A q \in Producers : \A y \in Elements(event'[q]) : y.kind = "event"
    BY <1>2, NoElements DEF Kinds
  <2>2. \A a \in Actors : pc'[a] \notin {"writing", "beat"} => rows'[a] = <<>>
    BY <1>1, <1>2 DEF Kinds
  <2>3. QED
    BY <2>1, <2>2, <1>1 DEF Kinds
<1>7. Numbered'
  BY <1>1, <1>2, <1>3, <1>4, NoElements DEF Numbered
<1>8. Ordered'
  <2>1. InOrder(event[p])
    <3>1. \A i \in DOMAIN event[p] : event[p][i].kind = "event"
      BY <1>4 DEF Elements
    <3>2. QED
      BY <3>1 DEF InOrder, Follows
  <2>2. Before(log, event[p])
    BY <1>4 DEF Before, Follows
  <2>3. event[p] = <<>> \/ (Before(event[p], buffer) /\ \A a \in Actors : Before(event[p], rows[a]))
    BY <1>1 DEF Waiting
  <2>4. /\ Before(event[p], buffer)
        /\ \A a \in Actors : Before(event[p], rows[a])
    BY <2>3, NoElements DEF Before
  <2>5. Before(log', buffer)
    BY <2>4, <1>3 DEF Ordered, Before
  <2>6. \A a \in Actors : Before(log', rows[a])
    BY <2>4, <1>3 DEF Ordered, Before
  <2>7. QED
    BY <2>1, <2>2, <2>5, <2>6, <1>1, <1>3 DEF Ordered
<1>9. Waiting'
  BY <1>1, <1>2, ActorsApart DEF Waiting
<1>10. Closing'
  <2>1. pc'[Closer] = pc[Closer]
    BY <1>2, ActorsApart
  <2>2. QED
    BY <2>1, <1>1 DEF Closing
<1>11. QED
  BY <1>5, <1>6, <1>7, <1>8, <1>9, <1>10

LEMMA FlushKeeps ==
    ASSUME WInv, NEW a \in Actors, flush(a)
    PROVE  WInv'
<1> USE DEF WInv
<1>1. /\ pc[a] = "flush" /\ lock = Free
      /\ UNCHANGED <<event, closed, log, issued, lost>>
  BY DEF flush
<1>2. \A b \in Actors : \A x \in Elements(rows[b]) : x.kind \in Loose
  BY <1>1, ActorsApart DEF Kinds
<1>3. \A q \in Producers, b \in Actors : Before(event[q], rows[b])
  BY <1>2 DEF Before, Follows, Loose
<1>4. CASE buffer = <<>>
  <2>1. /\ UNCHANGED <<buffer, lock, rows, flushed>>
        /\ \A b \in Actors : pc'[b] = IF b = a THEN Return(a) ELSE pc[b]
        /\ pc' \in [Actors -> Pcs]
    <3>1. pc' = [pc EXCEPT ![a] = Return(a)] /\ UNCHANGED <<buffer, lock, rows, flushed>>
      BY <1>4 DEF flush
    <3>2. Return(a) \in Pcs
      BY ReturnType DEF Pcs
    <3>3. QED
      BY <3>1, <3>2 DEF TypeOK, Pcs
  <2>2. TypeOK'
    BY <1>1, <2>1 DEF TypeOK, Pcs
  <2>3. Kinds'
    BY <1>1, <2>1 DEF Kinds
  <2>4. Numbered' /\ Ordered'
    BY <1>1, <2>1 DEF Numbered, Ordered, Before
  <2>5. Waiting'
    <3>1. \A q \in Producers : Before(event[q], buffer)
      BY <1>4, NoElements DEF Before
    <3>2. ASSUME NEW q \in Producers, event[q] # <<>>, q = a PROVE pc'[q] = "append"
      BY <3>2, <2>1, ReturnType
    <3>3. ASSUME NEW q \in Producers, q # a PROVE pc'[q] = pc[q]
      BY <3>3, <2>1, ActorsApart
    <3>4. \A q \in Producers, b \in Actors : Before(event[q], rows[b])
      BY <1>3
    <3>5. QED
      BY <3>1, <3>2, <3>3, <3>4, <1>1, <2>1 DEF Waiting
  <2>6. Closing'
    <3>1. a = Closer => pc'[Closer] = "ending"
      BY <2>1, ReturnType
    <3>2. a # Closer => pc'[Closer] = pc[Closer]
      BY <2>1, ActorsApart
    <3>3. QED
      BY <3>1, <3>2, <1>1, <1>2, <1>4, <2>1 DEF Closing, Loose
  <2>7. QED
    BY <2>2, <2>3, <2>4, <2>5, <2>6
<1>5. CASE buffer # <<>>
  <2>1. /\ lock' = a /\ buffer' = <<>> /\ flushed' = TRUE
        /\ pc' = [pc EXCEPT ![a] = "writing"]
        /\ rows' = [rows EXCEPT ![a] = buffer]
    BY <1>5 DEF flush
  <2>2. /\ \A b \in Actors : pc'[b] = IF b = a THEN "writing" ELSE pc[b]
        /\ \A b \in Actors : rows'[b] = IF b = a THEN buffer ELSE rows[b]
    BY <2>1 DEF TypeOK
  <2>3. TypeOK'
    <3>1. <<>> \in Seq(Item)
      OBVIOUS
    <3>2. QED
      BY <3>1, <1>1, <2>1 DEF TypeOK
  <2>4. Kinds'
    <3>1. \A b \in Actors : \A x \in Elements(rows'[b]) :
              (x.kind = "delta" /\ lock' = b) \/ x.kind \in Loose
      BY <1>2, <2>1, <2>2 DEF Kinds
    <3>2. \A b \in Actors : pc'[b] \notin {"writing", "beat"} => rows'[b] = <<>>
      BY <2>2 DEF Kinds
    <3>3. \A x \in Elements(buffer') : x.kind = "delta"
      BY <2>1, NoElements
    <3>4. QED
      BY <3>1, <3>2, <3>3, <1>1 DEF Kinds
  <2>5. Numbered'
    BY <1>1, <2>1, <2>2, NoElements DEF Numbered
  <2>6. Ordered'
    BY <1>1, <2>1, <2>2, NoElements DEF Ordered, Before
  <2>7. Waiting'
    <3>1. \A q \in Producers : Before(event[q], buffer')
      BY <2>1, NoElements DEF Before
    <3>2. ASSUME NEW q \in Producers, pc'[q] = "writing", event[q] # <<>> PROVE q = a
      BY <3>2, <1>1, <2>2, ActorsApart DEF Waiting
    <3>3. ASSUME NEW q \in Producers, pc'[q] = "append", event[q] # <<>>, NEW b \in Actors
          PROVE  Before(event[q], rows'[b])
      BY <3>3, <1>3, <2>2, ActorsApart DEF Waiting
    <3>4. ASSUME NEW q \in Producers, event[q] # <<>>
          PROVE  pc'[q] \in {"flush", "writing", "append"}
      BY <3>4, <2>2, ActorsApart DEF Waiting
    <3>5. QED
      BY <3>1, <3>2, <3>3, <3>4, <1>1, <2>1 DEF Waiting
  <2>8. Closing'
    <3>1. pc[Closer] \in {"none", "closing", "flush"}
      BY <1>1, <1>5, ActorsApart DEF Closing
    <3>2. pc'[Closer] = IF a = Closer THEN "writing" ELSE pc[Closer]
      BY <2>2, ActorsApart
    <3>3. QED
      BY <3>1, <3>2, <1>1, <2>1 DEF Closing
  <2>9. QED
    BY <2>3, <2>4, <2>5, <2>6, <2>7, <2>8
<1>6. QED
  BY <1>4, <1>5

LEMMA WriteKeeps ==
    ASSUME WInv, NEW a \in Actors, _write_rows(a)
    PROVE  WInv'
<1> USE DEF WInv
<1>1. PICK k \in 1 .. Len(rows[a]) :
        /\ log' = log \o SubSeq(rows[a], 1, k)
        /\ rows' = [rows EXCEPT ![a] = SubSeq(@, k + 1, Len(@))]
        /\ IF k = Len(rows[a])
           THEN pc' = [pc EXCEPT ![a] = Return(a)] /\ Release(a)
           ELSE UNCHANGED <<pc, lock>>
  BY DEF _write_rows
<1> DEFINE h == SubSeq(rows[a], 1, k)
           t == SubSeq(rows[a], k + 1, Len(rows[a]))
<1>2. pc[a] = "writing" /\ UNCHANGED <<buffer, event, closed, flushed, issued, lost>>
  BY DEF _write_rows
<1>3. /\ h \in Seq(Item) /\ t \in Seq(Item)
      /\ Elements(h) \subseteq Elements(rows[a]) /\ Elements(t) \subseteq Elements(rows[a])
      /\ k = Len(rows[a]) => t = <<>>
      /\ InOrder(h) /\ InOrder(t) /\ Before(h, t)
  BY Split, ItemTypes DEF Ordered
<1>4. log' = log \o h /\ rows' = [rows EXCEPT ![a] = t]
  BY <1>1 DEF TypeOK
<1>5. \/ /\ t = <<>> /\ pc' = [pc EXCEPT ![a] = Return(a)]
         /\ lock' = IF lock = a THEN Free ELSE lock
      \/ UNCHANGED <<pc, lock>>
  BY <1>1, <1>3 DEF Release
<1> HIDE DEF h, t
<1>6. /\ log' \in Seq(Item)
      /\ Elements(log') = Elements(log) \cup Elements(h)
      /\ InOrder(log) /\ InOrder(h) /\ Before(log, h) => InOrder(log')
  BY <1>3, <1>4, ItemTypes, Concat
<1>7. /\ \A b \in Actors : rows'[b] = IF b = a THEN t ELSE rows[b]
      /\ \A b \in Actors : Elements(rows'[b]) \subseteq Elements(rows[b])
      /\ \A b \in Actors : b # a => pc'[b] = pc[b]
      /\ \/ t = <<>> /\ pc'[a] = Return(a) /\ lock' = IF lock = a THEN Free ELSE lock
         \/ UNCHANGED <<pc, lock>>
      /\ pc' \in [Actors -> Pcs]
  <2>1. \A b \in Actors : rows'[b] = IF b = a THEN t ELSE rows[b]
    BY <1>4 DEF TypeOK
  <2>2. Return(a) \in Pcs
    BY ReturnType DEF Pcs
  <2>3. QED
    BY <2>1, <2>2, <1>3, <1>5 DEF TypeOK, Pcs
<1>8. TypeOK'
  BY <1>2, <1>3, <1>4, <1>6, <1>7 DEF TypeOK, Pcs
<1>9. Kinds'
  <2>1. ASSUME NEW b \in Actors, NEW x \in Elements(rows'[b])
        PROVE  (x.kind = "delta" /\ lock' = b) \/ x.kind \in Loose
    <3>1. x \in Elements(rows[b])
      BY <2>1, <1>7
    <3>2. (x.kind = "delta" /\ lock = b) \/ x.kind \in Loose
      BY <3>1 DEF Kinds
    <3>3. CASE lock' = lock
      BY <3>2, <3>3
    <3>4. CASE t = <<>> /\ lock = a /\ lock' = Free
      <4>1. b # a
        BY <2>1, <3>4, <1>7, NoElements
      <4>2. QED
        BY <4>1, <3>2, <3>4
    <3>5. QED
      BY <3>3, <3>4, <1>7
  <2>2. \A b \in Actors : pc'[b] \notin {"writing", "beat"} => rows'[b] = <<>>
    BY <1>2, <1>7 DEF Kinds
  <2>3. QED
    BY <2>1, <2>2, <1>2 DEF Kinds
<1>10. Numbered'
  BY <1>2, <1>3, <1>6, <1>7 DEF Numbered
<1>11. Ordered'
  <2>1. InOrder(log')
    BY <1>3, <1>6 DEF Ordered, Before
  <2>2. Before(log', buffer)
    BY <1>3, <1>6 DEF Ordered, Before
  <2>3. ASSUME NEW b \in Actors
        PROVE  InOrder(rows'[b]) /\ Before(log', rows'[b]) /\ Before(rows'[b], buffer)
    <3>1. InOrder(rows'[b]) /\ Before(rows'[b], buffer)
      BY <1>3, <1>7 DEF Ordered, Before
    <3>2. Before(log, rows'[b])
      BY <1>7 DEF Ordered, Before
    <3>3. Before(h, rows'[b])
      <4>1. CASE b = a
        BY <4>1, <1>3, <1>7
      <4>2. CASE b # a
        <5>1. ASSUME NEW x \in Elements(h), NEW y \in Elements(rows[b]),
                     x.kind \notin Loose, y.kind = "delta"
              PROVE  FALSE
          BY <5>1, <4>2, <1>3 DEF Kinds
        <5>2. QED
          BY <5>1, <4>2, <1>7 DEF Before, Follows
      <4>3. QED
        BY <4>1, <4>2
    <3>4. QED
      BY <3>1, <3>2, <3>3, <1>6 DEF Before
  <2>4. QED
    BY <2>1, <2>2, <2>3, <1>2 DEF Ordered
<1>12. Waiting'
  <2> SUFFICES ASSUME NEW q \in Producers, event[q] # <<>>
               PROVE  /\ pc'[q] \in {"flush", "writing", "append"}
                      /\ pc'[q] = "writing" => lock' = q /\ Before(event[q], buffer)
                      /\ pc'[q] = "append" => /\ Before(event[q], buffer)
                                              /\ \A b \in Actors : Before(event[q], rows'[b])
    BY <1>2 DEF Waiting
  <2>0. q \in Actors
    BY ActorsApart
  <2>1. CASE q = a
    <3>1. lock = q /\ Before(event[q], buffer)
      BY <2>1, <1>2 DEF Waiting
    <3>2. CASE t = <<>> /\ pc'[q] = Return(q)
      <4>1. pc'[q] = "append"
        BY <3>2, ReturnType, <2>0
      <4>2. ASSUME NEW b \in Actors, NEW y \in Elements(rows'[b]) PROVE y.kind \in Loose
        <5>1. b # q
          BY <4>2, <2>1, <3>2, <1>7, NoElements
        <5>2. QED
          BY <5>1, <4>2, <3>1, <1>7 DEF Kinds
      <4>3. QED
        BY <4>1, <4>2, <3>1 DEF Before, Follows, Loose
    <3>3. CASE UNCHANGED <<pc, lock>>
      BY <3>1, <3>3, <2>1, <1>2
    <3>4. QED
      BY <3>2, <3>3, <2>1, <1>7
  <2>2. CASE q # a
    <3>1. pc'[q] = pc[q]
      BY <2>0, <2>2, <1>7
    <3>2. pc[q] = "writing" => lock' = lock
      BY <2>2, <1>7 DEF Waiting
    <3>3. pc[q] = "append" => \A b \in Actors : Before(event[q], rows'[b])
      BY <1>7 DEF Waiting, Before
    <3>4. QED
      BY <3>1, <3>2, <3>3 DEF Waiting
  <2>3. QED
    BY <2>1, <2>2
<1>13. Closing'
  <2>1. CASE a = Closer
    <3>1. pc[Closer] = "writing" /\ lock = Closer /\ closed /\ buffer = <<>>
      BY <2>1, <1>2 DEF Closing
    <3>2. CASE t = <<>> /\ pc'[a] = Return(a)
      <4>1. pc'[Closer] = "ending"
        BY <2>1, <3>2, ReturnType
      <4>2. ASSUME NEW b \in Actors, NEW y \in Elements(rows'[b]) PROVE y.kind \in Loose
        <5>1. b # a
          BY <4>2, <3>2, <1>7, NoElements
        <5>2. QED
          BY <5>1, <4>2, <2>1, <3>1, <1>7 DEF Kinds
      <4>3. QED
        BY <4>1, <4>2, <3>1, <1>2 DEF Closing, Loose
    <3>3. CASE UNCHANGED <<pc, lock>>
      BY <3>1, <3>3, <1>2 DEF Closing
    <3>4. QED
      BY <3>2, <3>3, <1>7
  <2>2. CASE a # Closer
    <3>1. pc'[Closer] = pc[Closer]
      BY <2>2, <1>7, ActorsApart
    <3>2. pc[Closer] = "writing" => lock' = lock
      BY <2>2, <1>7 DEF Closing
    <3>3. QED
      BY <3>1, <3>2, <1>2, <1>7 DEF Closing
  <2>3. QED
    BY <2>1, <2>2
<1>14. QED
  BY <1>8, <1>9, <1>10, <1>11, <1>12, <1>13

LEMMA FailKeeps ==
    ASSUME WInv, NEW a \in Actors, write_fails(a)
    PROVE  WInv'
<1> USE DEF WInv
<1>1. /\ pc[a] \in {"writing", "append"}
      /\ lost' = lost \cup Elements(rows[a])
                      \cup (IF a \in Producers THEN Elements(event[a]) ELSE {})
      /\ rows' = [rows EXCEPT ![a] = <<>>]
      /\ event' = IF a \in Producers THEN [event EXCEPT ![a] = <<>>] ELSE event
      /\ pc' = [pc EXCEPT ![a] = AfterFailure(a)]
      /\ lock' = IF lock = a THEN Free ELSE lock
      /\ UNCHANGED <<buffer, closed, flushed, log, issued>>
  BY DEF write_fails, Release
<1>2. /\ \A b \in Actors : rows'[b] = IF b = a THEN <<>> ELSE rows[b]
      /\ \A b \in Actors : b # a => pc'[b] = pc[b]
      /\ \A q \in Producers : event'[q] = IF q = a THEN <<>> ELSE event[q]
      /\ pc' \in [Actors -> Pcs]
      /\ pc'[a] = AfterFailure(a)
  <2>1. AfterFailure(a) \in Pcs
    BY ReturnType DEF Pcs
  <2>2. QED
    BY <1>1, <2>1 DEF TypeOK, Pcs
<1>3. TypeOK'
  <2>1. <<>> \in Seq(Item)
    OBVIOUS
  <2>2. rows' \in [Actors -> Seq(Item)] /\ event' \in [Producers -> Seq(Item)]
    BY <2>1, <1>1 DEF TypeOK
  <2>3. lost' \subseteq Item
    BY <1>1, ItemTypes DEF TypeOK
  <2>4. lock' \in Actors \cup {Free}
    BY <1>1 DEF TypeOK
  <2>5. QED
    BY <2>2, <2>3, <2>4, <1>1, <1>2 DEF TypeOK, Pcs
<1>4. Kinds'
  <2>1. ASSUME NEW b \in Actors, NEW x \in Elements(rows'[b])
        PROVE  (x.kind = "delta" /\ lock' = b) \/ x.kind \in Loose
    <3>1. b # a
      BY <2>1, <1>2, NoElements
    <3>2. QED
      BY <2>1, <3>1, <1>1, <1>2 DEF Kinds
  <2>2. \A b \in Actors : pc'[b] \notin {"writing", "beat"} => rows'[b] = <<>>
    BY <1>2 DEF Kinds
  <2>3. \A q \in Producers : \A x \in Elements(event'[q]) : x.kind = "event"
    BY <1>2, NoElements DEF Kinds
  <2>4. QED
    BY <2>1, <2>2, <2>3, <1>1 DEF Kinds
<1>5. Numbered'
  BY <1>1, <1>2, NoElements DEF Numbered
<1>6. Ordered'
  BY <1>1, <1>2, NoElements DEF Ordered, Before
<1>7. Waiting'
  <2> SUFFICES ASSUME NEW q \in Producers, event'[q] # <<>>
               PROVE  /\ pc'[q] \in {"flush", "writing", "append"}
                      /\ pc'[q] = "writing" => lock' = q /\ Before(event'[q], buffer)
                      /\ pc'[q] = "append" => /\ Before(event'[q], buffer)
                                              /\ \A b \in Actors : Before(event'[q], rows'[b])
    BY <1>1 DEF Waiting
  <2>1. q # a /\ event'[q] = event[q] /\ event[q] # <<>>
    BY <1>2
  <2>2. pc'[q] = pc[q]
    BY <2>1, <1>2, ActorsApart
  <2>3. pc[q] = "append" => \A b \in Actors : Before(event[q], rows'[b])
    BY <2>1, <1>2, NoElements DEF Waiting, Before
  <2>4. pc[q] = "writing" => lock' = lock
    BY <2>1, <1>1 DEF Waiting
  <2>5. QED
    BY <2>1, <2>2, <2>3, <2>4 DEF Waiting
<1>8. Closing'
  <2>1. CASE a = Closer
    <3>1. pc[Closer] = "writing" /\ lock = Closer /\ closed /\ buffer = <<>>
      BY <2>1, <1>1 DEF Closing
    <3>2. pc'[Closer] = "ending"
      BY <2>1, <1>2, ReturnType, ActorsApart
    <3>3. ASSUME NEW b \in Actors, NEW y \in Elements(rows'[b]) PROVE y.kind \in Loose
      <4>1. b # a
        BY <3>3, <1>2, NoElements
      <4>2. QED
        BY <4>1, <3>3, <2>1, <3>1, <1>2 DEF Kinds
    <3>4. QED
      BY <3>1, <3>2, <3>3, <1>1 DEF Closing, Loose
  <2>2. CASE a # Closer
    <3>1. pc'[Closer] = pc[Closer]
      BY <2>2, <1>2, ActorsApart
    <3>2. pc[Closer] = "writing" => lock' = lock
      BY <2>2, <1>1 DEF Closing
    <3>3. \A b \in Actors : Elements(rows'[b]) \subseteq Elements(rows[b])
      BY <1>2, NoElements
    <3>4. QED
      BY <3>1, <3>2, <3>3, <1>1 DEF Closing
  <2>3. QED
    BY <2>1, <2>2
<1>9. QED
  BY <1>3, <1>4, <1>5, <1>6, <1>7, <1>8

LEMMA DelayedKeeps ==
    ASSUME WInv, _delayed_flush
    PROVE  WInv'
<1> USE DEF WInv
<1>1. /\ pc[Timer] = "asleep" /\ pc' = [pc EXCEPT ![Timer] = "flush"]
      /\ UNCHANGED <<buffer, lock, rows, event, closed, flushed, log, issued, lost>>
  BY DEF _delayed_flush
<1>2. \A b \in Actors : pc'[b] = IF b = Timer THEN "flush" ELSE pc[b]
  BY <1>1 DEF TypeOK
<1>3. TypeOK'
  BY <1>1 DEF TypeOK
<1>4. Kinds'
  <2>1. \A b \in Actors : pc'[b] \notin {"writing", "beat"} => rows'[b] = <<>>
    BY <1>1, <1>2, ActorsApart DEF Kinds
  <2>2. QED
    BY <2>1, <1>1 DEF Kinds
<1>5. Numbered' /\ Ordered'
  BY <1>1 DEF Numbered, Ordered
<1>6. Waiting'
  <2>1. \A q \in Producers : pc'[q] = pc[q]
    BY <1>2, ActorsApart
  <2>2. QED
    BY <2>1, <1>1 DEF Waiting
<1>7. Closing'
  <2>1. pc'[Closer] = pc[Closer]
    BY <1>2, ActorsApart
  <2>2. QED
    BY <2>1, <1>1 DEF Closing
<1>8. QED
  BY <1>3, <1>4, <1>5, <1>6, <1>7

\* Cancelling the timer or the liveness task disturbs nobody else.
LEMMA CancelKeeps ==
    ASSUME WInv, NEW a \in {Timer, Liveness}, Cancel(a),
           pc' \in [Actors -> Pcs],
           \A b \in Actors : b # Closer => pc'[b] = IF b = a THEN "none" ELSE pc[b],
           pc'[Closer] = pc[Closer] \/ pc[Closer] \in {"none", "closing"},
           closed' \in BOOLEAN,
           UNCHANGED <<buffer, event, flushed, log, issued>>
    PROVE  /\ TypeOK' /\ Kinds' /\ Numbered' /\ Ordered' /\ Waiting'
           /\ \A b \in Actors : Elements(rows'[b]) \subseteq Elements(rows[b])
           /\ lock = Closer => lock' = Closer
<1> USE DEF WInv
<1>1. /\ a \in Actors /\ a \notin Producers /\ a # Closer
      /\ lost' = lost \cup Elements(rows[a])
      /\ rows' = [rows EXCEPT ![a] = <<>>]
      /\ lock' = IF lock = a THEN Free ELSE lock
  BY ActorsApart DEF Cancel, Release
<1>2. \A b \in Actors : rows'[b] = IF b = a THEN <<>> ELSE rows[b]
  BY <1>1 DEF TypeOK
<1>3. TypeOK'
  <2>1. <<>> \in Seq(Item)
    OBVIOUS
  <2>2. rows' \in [Actors -> Seq(Item)]
    BY <2>1, <1>1 DEF TypeOK
  <2>3. lost' \subseteq Item
    BY <1>1, ItemTypes DEF TypeOK
  <2>4. lock' \in Actors \cup {Free}
    BY <1>1 DEF TypeOK
  <2>5. QED
    BY <2>2, <2>3, <2>4 DEF TypeOK, Pcs
<1>4. Kinds'
  <2>1. ASSUME NEW b \in Actors, NEW x \in Elements(rows'[b])
        PROVE  (x.kind = "delta" /\ lock' = b) \/ x.kind \in Loose
    <3>1. b # a
      BY <2>1, <1>2, NoElements
    <3>2. QED
      BY <2>1, <3>1, <1>1, <1>2 DEF Kinds
  <2>2. \A b \in Actors : pc'[b] \notin {"writing", "beat"} => rows'[b] = <<>>
    BY <1>1, <1>2 DEF Kinds
  <2>3. QED
    BY <2>1, <2>2, <1>1 DEF Kinds
<1>5. Numbered'
  BY <1>1, <1>2, NoElements DEF Numbered
<1>6. Ordered'
  BY <1>1, <1>2, NoElements DEF Ordered, Before
<1>7. Waiting'
  <2> SUFFICES ASSUME NEW q \in Producers, event[q] # <<>>
               PROVE  /\ pc'[q] \in {"flush", "writing", "append"}
                      /\ pc'[q] = "writing" => lock' = q /\ Before(event[q], buffer)
                      /\ pc'[q] = "append" => /\ Before(event[q], buffer)
                                              /\ \A b \in Actors : Before(event[q], rows'[b])
    BY <1>1 DEF Waiting
  <2>1. pc'[q] = pc[q]
    BY <1>1, ActorsApart
  <2>2. pc[q] = "append" => \A b \in Actors : Before(event[q], rows'[b])
    BY <1>2, NoElements DEF Waiting, Before
  <2>3. pc[q] = "writing" => lock' = lock
    BY <1>1, ActorsApart DEF Waiting
  <2>4. QED
    BY <2>1, <2>2, <2>3 DEF Waiting
<1>8. \A b \in Actors : Elements(rows'[b]) \subseteq Elements(rows[b])
  BY <1>2, NoElements
<1>9. QED
  BY <1>1, <1>3, <1>4, <1>5, <1>6, <1>7, <1>8

LEMMA StopKeeps ==
    ASSUME WInv, NEW p \in Producers, stop_stream_liveness(p)
    PROVE  WInv'
<1> USE DEF WInv
<1>1. /\ pc' = [pc EXCEPT ![Liveness] = "none"]
      /\ Cancel(Liveness)
      /\ UNCHANGED <<buffer, event, closed, flushed, log, issued>>
  BY DEF stop_stream_liveness
<1>2. /\ pc' \in [Actors -> Pcs]
      /\ \A b \in Actors : pc'[b] = IF b = Liveness THEN "none" ELSE pc[b]
  BY <1>1 DEF TypeOK, Pcs
<1>3. pc'[Closer] = pc[Closer] /\ closed' \in BOOLEAN
  BY <1>1, <1>2, ActorsApart DEF TypeOK
<1>4. /\ TypeOK' /\ Kinds' /\ Numbered' /\ Ordered' /\ Waiting'
      /\ \A b \in Actors : Elements(rows'[b]) \subseteq Elements(rows[b])
      /\ lock = Closer => lock' = Closer
  BY <1>1, <1>2, <1>3, CancelKeeps
<1>5. Closing'
  BY <1>1, <1>3, <1>4 DEF Closing
<1>6. QED
  BY <1>4, <1>5

LEMMA CloseKeeps ==
    ASSUME WInv, close \/ cancel_timer
    PROVE  WInv'
<1> USE DEF WInv
<1>1. PICK a \in {Timer, Liveness} :
        /\ pc' \in [Actors -> Pcs]
        /\ \A b \in Actors : b # Closer => pc'[b] = IF b = a THEN "none" ELSE pc[b]
        /\ pc'[Closer] \in {"closing", "flush"} /\ pc[Closer] \in {"none", "closing"}
        /\ closed' = TRUE
        /\ Cancel(a)
        /\ UNCHANGED <<buffer, event, flushed, log, issued>>
  <2>1. CASE close
    <3>1. /\ pc' = [pc EXCEPT ![Liveness] = "none", ![Closer] = "closing"]
          /\ pc[Closer] = "none" /\ closed' = TRUE /\ Cancel(Liveness)
          /\ UNCHANGED <<buffer, event, flushed, log, issued>>
      BY <2>1 DEF close
    <3>2. /\ pc' \in [Actors -> Pcs] /\ pc'[Closer] = "closing"
          /\ \A b \in Actors : b # Closer => pc'[b] = IF b = Liveness THEN "none" ELSE pc[b]
      BY <3>1, ActorsApart DEF TypeOK, Pcs
    <3>3. QED
      BY <3>1, <3>2
  <2>2. CASE cancel_timer
    <3>1. /\ pc' = [pc EXCEPT ![Timer] = "none", ![Closer] = "flush"]
          /\ pc[Closer] = "closing" /\ closed' = closed /\ Cancel(Timer)
          /\ UNCHANGED <<buffer, event, flushed, log, issued>>
      BY <2>2 DEF cancel_timer
    <3>2. /\ pc' \in [Actors -> Pcs] /\ pc'[Closer] = "flush"
          /\ \A b \in Actors : b # Closer => pc'[b] = IF b = Timer THEN "none" ELSE pc[b]
      BY <3>1, ActorsApart DEF TypeOK, Pcs
    <3>3. closed = TRUE
      BY <3>1 DEF Closing, TypeOK
    <3>4. QED
      BY <3>1, <3>2, <3>3
  <2>3. QED
    BY <2>1, <2>2
<1>2. TypeOK' /\ Kinds' /\ Numbered' /\ Ordered' /\ Waiting'
  <2>1. closed' \in BOOLEAN /\ pc[Closer] \in {"none", "closing"}
    BY <1>1
  <2>2. QED
    BY <1>1, <2>1, CancelKeeps
<1>3. Closing'
  BY <1>1 DEF Closing
<1>4. QED
  BY <1>2, <1>3

LEMMA TerminalKeeps ==
    ASSUME WInv, terminal_event
    PROVE  WInv'
<1> DEFINE x == NextItem("end")
<1> USE DEF WInv
<1>1. x \in Item /\ x.kind = "end" /\ x.n = issued + 1 /\ issued \in Nat
  BY NextItemType, ItemTypes
<1>2. /\ pc[Closer] = "ending" /\ issued' = issued + 1
      /\ log' = Append(log, x)
      /\ pc' = [pc EXCEPT ![Closer] = "done"]
      /\ UNCHANGED <<buffer, lock, rows, event, closed, flushed, lost>>
  BY DEF terminal_event
<1> HIDE DEF x
<1>3. /\ log' \in Seq(Item)
      /\ Elements(log') = Elements(log) \cup {x}
      /\ InOrder(log) /\ Before(log, <<x>>) => InOrder(log')
      /\ Elements(<<x>>) = {x}
  <2>1. log' = log \o <<x>>
    BY <1>1, <1>2, ItemTypes
  <2>2. QED
    BY <2>1, <1>1, ItemTypes, OneElement, Concat
<1>4. \A b \in Actors : pc'[b] = IF b = Closer THEN "done" ELSE pc[b]
  BY <1>2 DEF TypeOK
<1>5. /\ buffer = <<>> /\ closed
      /\ \A b \in Actors : \A y \in Elements(rows[b]) : y.kind # "delta"
  BY <1>2 DEF Closing
<1>6. TypeOK'
  <2>1. issued' \in Nat
    BY <1>1, <1>2
  <2>2. pc' \in [Actors -> Pcs]
    BY <1>2 DEF TypeOK, Pcs
  <2>3. QED
    BY <2>1, <2>2, <1>2, <1>3 DEF TypeOK, Pcs
<1>7. Kinds'
  <2>1. \A b \in Actors : pc'[b] \notin {"writing", "beat"} => rows'[b] = <<>>
    BY <1>2, <1>4, ActorsApart DEF Kinds
  <2>2. QED
    BY <2>1, <1>2 DEF Kinds
<1>8. Numbered'
  <2>1. \A y : y.n \in Nat /\ y.n <= issued => y.n <= issued'
    BY <1>1, <1>2
  <2>2. x.n <= issued'
    BY <1>1, <1>2
  <2>3. QED
    BY <2>1, <2>2, <1>2, <1>3, ItemTypes DEF Numbered
<1>9. Ordered'
  <2>1. Before(log, <<x>>)
    BY <1>1, <1>3 DEF Before, Follows
  <2>2. Before(log', buffer)
    BY <1>5, NoElements DEF Before
  <2>3. \A b \in Actors : Before(log', rows[b])
    BY <1>5 DEF Before, Follows
  <2>4. QED
    BY <2>1, <2>2, <2>3, <1>2, <1>3 DEF Ordered
<1>10. Waiting'
  <2>1. \A q \in Producers : pc'[q] = pc[q]
    BY <1>4, ActorsApart
  <2>2. QED
    BY <2>1, <1>2 DEF Waiting
<1>11. Closing'
  <2>1. pc'[Closer] = "done"
    BY <1>4, ActorsApart
  <2>2. QED
    BY <2>1, <1>2, <1>5 DEF Closing
<1>12. QED
  BY <1>6, <1>7, <1>8, <1>9, <1>10, <1>11

LEMMA WriterStep == WInv /\ [Next]_vars => WInv'
<1> SUFFICES ASSUME WInv, [Next]_vars PROVE WInv'
  OBVIOUS
<1>1. ASSUME NEW p \in Producers,
             append_delta(p) \/ append_delta_late(p) \/ write_event(p) \/ write_heartbeat(p)
               \/ start_stream_liveness(p) \/ stop_stream_liveness(p)
      PROVE  WInv'
  BY <1>1, DeltaKeeps, LateKeeps, EventKeeps, StartKeeps, StopKeeps
<1>2. ASSUME NEW a \in Actors, TaskStep(a)
      PROVE  WInv'
  BY <1>2, FlushKeeps, LockKeeps, WriteKeeps, FailKeeps, AppendKeeps, DelayedKeeps, BeatKeeps,
     CloseKeeps, TerminalKeeps DEF TaskStep
<1>3. CASE close
  BY <1>3, CloseKeeps
<1>4. CASE UNCHANGED vars
  <2>1. UNCHANGED <<buffer, lock, pc, rows, event, closed, flushed, log, issued, lost>>
    BY <1>4 DEF vars
  <2>2. TypeOK' /\ Kinds' /\ Numbered' /\ Ordered' /\ Waiting' /\ Closing'
    BY <2>1 DEF WInv, TypeOK, Kinds, Numbered, Ordered, Waiting, Closing
  <2>3. QED
    BY <2>2 DEF WInv
<1>5. QED
  BY <1>1, <1>2, <1>3, <1>4 DEF Next

-----------------------------------------------------------------------------
(* Theorems.                                                               *)

\* The inductive invariant of flush, _write_rows and close holds throughout.
THEOREM WriterInvariant == Spec => []WInv
BY WriterInit, WriterStep, PTL DEF Spec

\* Every variable of BufferedEventWriter keeps to its domain.
THEOREM WriterTypeCorrect == Spec => []TypeOK
<1>1. WInv => TypeOK
  BY DEF WInv
<1>2. QED
  BY WriterInvariant, <1>1, PTL

\* Whichever task flushes, and however _write_rows splits a batch, deltas are
\* inserted in the order they were issued.
THEOREM DeltasInOrder == Spec => []DeltaOrder
<1>1. WInv => DeltaOrder
  <2> SUFFICES ASSUME WInv, NEW i \in DOMAIN log, NEW j \in DOMAIN log,
                      i < j, log[i].kind = "delta", log[j].kind = "delta"
               PROVE  log[i].n < log[j].n
    BY DEF DeltaOrder
  <2>1. Follows(log[i], log[j])
    BY DEF WInv, Ordered, InOrder
  <2>2. QED
    BY <2>1 DEF Follows, Loose
<1>2. QED
  BY WriterInvariant, <1>1, PTL

\* write_event flushes before it appends, and close_event_writer before the
\* terminal event: neither overtakes a delta that was buffered before it.
THEOREM EventsBehindDeltas == Spec => []EventsAfterDeltas
<1>1. WInv => EventsAfterDeltas
  <2> SUFFICES ASSUME WInv, NEW j \in DOMAIN log, log[j].kind \in {"event", "end"}
               PROVE  /\ ~\E i \in DOMAIN buffer :
                             buffer[i].kind = "delta" /\ buffer[i].n < log[j].n
                      /\ \A a \in Actors : ~\E i \in DOMAIN rows[a] :
                             rows[a][i].kind = "delta" /\ rows[a][i].n < log[j].n
                      /\ LET t == SubSeq(log, j + 1, Len(log))
                         IN  ~\E i \in DOMAIN t : t[i].kind = "delta" /\ t[i].n < log[j].n
    BY Zenon DEF EventsAfterDeltas
  <2>1. log[j] \in Elements(log) /\ log[j].n \in Nat /\ log[j].kind \notin Loose
    BY ItemTypes DEF Elements, Loose
  <2>2. ASSUME NEW y, y.n \in Nat, y.kind = "delta", Follows(log[j], y)
        PROVE  ~(y.n < log[j].n)
    BY <2>1, <2>2 DEF Follows
  <2>3. ASSUME NEW i \in DOMAIN buffer, buffer[i].kind = "delta"
        PROVE  ~(buffer[i].n < log[j].n)
    <3>1. buffer[i] \in Elements(buffer)
      BY DEF Elements
    <3>2. Follows(log[j], buffer[i]) /\ buffer[i].n \in Nat
      BY <3>1, <2>1, ItemTypes DEF WInv, Ordered, Before
    <3>3. QED
      BY <3>2, <2>2, <2>3
  <2>4. ASSUME NEW a \in Actors, NEW i \in DOMAIN rows[a], rows[a][i].kind = "delta"
        PROVE  ~(rows[a][i].n < log[j].n)
    <3>1. rows[a][i] \in Elements(rows[a])
      BY DEF Elements
    <3>2. Follows(log[j], rows[a][i]) /\ rows[a][i].n \in Nat
      BY <3>1, <2>1, ItemTypes DEF WInv, Ordered, Before
    <3>3. QED
      BY <3>2, <2>2, <2>4
  <2>5. ASSUME NEW i \in DOMAIN SubSeq(log, j + 1, Len(log)),
               SubSeq(log, j + 1, Len(log))[i].kind = "delta"
        PROVE  ~(SubSeq(log, j + 1, Len(log))[i].n < log[j].n)
    <3>1. log \in Seq(Item) /\ DOMAIN log = 1 .. Len(log) /\ Len(log) \in Nat
      BY ItemTypes
    <3>2. /\ i \in 1 .. Len(log) - j
          /\ SubSeq(log, j + 1, Len(log))[i] = log[j + i]
      BY <3>1
    <3>3. j + i \in DOMAIN log /\ j < j + i
      BY <3>1, <3>2
    <3>4. log[j + i] \in Elements(log)
      BY <3>3 DEF Elements
    <3>5. Follows(log[j], log[j + i]) /\ log[j + i].n \in Nat
      BY <3>3, <3>4, ItemTypes DEF WInv, Ordered, InOrder
    <3>6. QED
      BY <3>2, <3>5, <2>2, <2>5
  <2>6. QED
    BY <2>3, <2>4, <2>5
<1>2. QED
  BY WriterInvariant, <1>1, PTL
-----------------------------------------------------------------------------
(* Accounting: every event is in exactly one place.                        *)

\* The numbers in a sequence; each at one position.
Numbers(s) == {s[i].n : i \in DOMAIN s}
Single(s)  == \A i, j \in DOMAIN s : s[i].n = s[j].n => i = j

GivenUp == {x.n : x \in lost}

Singles == /\ Single(buffer) /\ Single(log)
           /\ \A a \in Actors : Single(rows[a])
           /\ \A p \in Producers : Single(event[p])

\* No number is in two places ...
Apart ==
    \A n :
      /\ n \in Numbers(buffer) => n \notin Numbers(log) /\ n \notin GivenUp
      /\ n \in Numbers(log) => n \notin GivenUp
      /\ \A a \in Actors : n \in Numbers(rows[a]) =>
           /\ n \notin Numbers(buffer) /\ n \notin Numbers(log) /\ n \notin GivenUp
           /\ \A b \in Actors : n \in Numbers(rows[b]) => a = b
           /\ \A p \in Producers : n \notin Numbers(event[p])
      /\ \A p \in Producers : n \in Numbers(event[p]) =>
           /\ n \notin Numbers(buffer) /\ n \notin Numbers(log) /\ n \notin GivenUp
           /\ \A q \in Producers : n \in Numbers(event[q]) => p = q

\* ... and none of an issued event is nowhere.
Covered == \A n \in 1 .. issued :
              \/ n \in Numbers(buffer) \cup Numbers(log) \cup GivenUp
              \/ \E a \in Actors : n \in Numbers(rows[a])
              \/ \E p \in Producers : n \in Numbers(event[p])

Issued == /\ Numbers(buffer) \cup Numbers(log) \cup GivenUp \subseteq 1 .. issued
          /\ \A a \in Actors : Numbers(rows[a]) \subseteq 1 .. issued
          /\ \A p \in Producers : Numbers(event[p]) \subseteq 1 .. issued

Ledger == Singles /\ Apart /\ Covered /\ Issued

LEMMA NoNumbers == Numbers(<<>>) = {} /\ Single(<<>>)
BY DEF Numbers, Single

LEMMA OneNumber ==
    ASSUME NEW x \in Item
    PROVE  Numbers(<<x>>) = {x.n} /\ Single(<<x>>)
<1>1. DOMAIN <<x>> = {1} /\ <<x>>[1] = x
  OBVIOUS
<1>. QED
  BY <1>1 DEF Numbers, Single

\* The numbers of a sequence are those of its elements.
LEMMA NumbersElements ==
    ASSUME NEW s
    PROVE  Numbers(s) = {x.n : x \in Elements(s)}
BY DEF Numbers, Elements

LEMMA ConcatNumbers ==
    ASSUME NEW s \in Seq(Item), NEW t \in Seq(Item)
    PROVE  /\ Numbers(s \o t) = Numbers(s) \cup Numbers(t)
           /\ Single(s) /\ Single(t) /\ Numbers(s) \cap Numbers(t) = {} => Single(s \o t)
<1> DEFINE m == Len(s)
           n == Len(t)
           u == s \o t
<1>1. /\ m \in Nat /\ n \in Nat
      /\ DOMAIN s = 1 .. m /\ DOMAIN t = 1 .. n /\ DOMAIN u = 1 .. m + n
      /\ \A i \in 1 .. m : u[i] = s[i]
      /\ \A i \in m + 1 .. m + n : u[i] = t[i - m]
  OBVIOUS
<1>2. Elements(u) = Elements(s) \cup Elements(t)
  BY Concat
<1> HIDE DEF m, n, u
<1>3. Numbers(u) = Numbers(s) \cup Numbers(t)
  BY <1>2, NumbersElements
<1>4. ASSUME Single(s), Single(t), Numbers(s) \cap Numbers(t) = {},
             NEW i \in 1 .. m + n, NEW j \in 1 .. m + n, u[i].n = u[j].n
      PROVE  i = j
  <2>1. \A k \in 1 .. m : u[k] = s[k] /\ u[k].n \in Numbers(s)
    BY <1>1 DEF Numbers
  <2>2. ASSUME NEW k \in m + 1 .. m + n
        PROVE  k - m \in 1 .. n /\ u[k] = t[k - m] /\ u[k].n \in Numbers(t)
    <3>1. k - m \in 1 .. n /\ u[k] = t[k - m]
      BY <1>1
    <3>. QED
      BY <3>1, <1>1 DEF Numbers
  <2>3. CASE i \in 1 .. m /\ j \in 1 .. m
    BY <2>3, <2>1, <1>1, <1>4 DEF Single
  <2>4. CASE i \in m + 1 .. m + n /\ j \in m + 1 .. m + n
    <3>1. i - m = j - m
      BY <2>4, <2>2, <1>1, <1>4 DEF Single
    <3>. QED
      BY <3>1, <2>4, <1>1
  <2>5. i \in 1 .. m /\ j \in m + 1 .. m + n => FALSE
    BY <2>1, <2>2, <1>4
  <2>6. j \in 1 .. m /\ i \in m + 1 .. m + n => FALSE
    BY <2>1, <2>2, <1>4
  <2>7. (i \in 1 .. m \/ i \in m + 1 .. m + n) /\ (j \in 1 .. m \/ j \in m + 1 .. m + n)
    BY <1>1
  <2>. QED
    BY <2>3, <2>4, <2>5, <2>6, <2>7
<1>. QED
  BY <1>1, <1>3, <1>4 DEF Single, u

\* A split divides the numbers of the batch.
LEMMA SplitNumbers ==
    ASSUME NEW s \in Seq(Item), NEW k \in 1 .. Len(s), Single(s)
    PROVE  LET h == SubSeq(s, 1, k)
               t == SubSeq(s, k + 1, Len(s))
           IN  /\ h \in Seq(Item) /\ t \in Seq(Item)
               /\ Single(h) /\ Single(t)
               /\ Numbers(h) \cup Numbers(t) = Numbers(s)
               /\ Numbers(h) \cap Numbers(t) = {}
<1> DEFINE m == Len(s)
           h == SubSeq(s, 1, k)
           t == SubSeq(s, k + 1, m)
<1>1. /\ m \in Nat /\ k \in 1 .. m /\ DOMAIN s = 1 .. m
      /\ h \in Seq(Item) /\ DOMAIN h = 1 .. k
      /\ \A i \in 1 .. k : h[i] = s[i] /\ i \in 1 .. m
  OBVIOUS
<1>2. /\ t \in Seq(Item) /\ DOMAIN t = 1 .. m - k
      /\ \A i \in 1 .. m - k : t[i] = s[k + i] /\ k + i \in 1 .. m
  OBVIOUS
<1> HIDE DEF m, h, t
<1>3. Single(h)
  BY <1>1 DEF Single
<1>4. Single(t)
  <2> SUFFICES ASSUME NEW i \in 1 .. m - k, NEW j \in 1 .. m - k, t[i].n = t[j].n
               PROVE  i = j
    BY <1>2 DEF Single
  <2>1. t[i] = s[k + i] /\ t[j] = s[k + j] /\ k + i \in DOMAIN s /\ k + j \in DOMAIN s
    BY <1>1, <1>2
  <2>2. k + i = k + j
    BY <2>1 DEF Single
  <2>. QED
    BY <2>2, <1>1
<1>5. Numbers(h) \cup Numbers(t) \subseteq Numbers(s)
  <2>1. Elements(h) \subseteq Elements(s) /\ Elements(t) \subseteq Elements(s)
    BY Split DEF h, t, m
  <2>. QED
    BY <2>1, NumbersElements
<1>6. ASSUME NEW i \in 1 .. m
      PROVE  s[i].n \in Numbers(h) \cup Numbers(t)
  <2>1. CASE i <= k
    <3>1. i \in 1 .. k
      BY <2>1, <1>1
    <3>. QED
      BY <3>1, <1>1 DEF Numbers
  <2>2. CASE i > k
    <3>1. i - k \in 1 .. m - k /\ k + (i - k) = i
      BY <2>2, <1>1
    <3>. QED
      BY <3>1, <1>2 DEF Numbers
  <2>. QED
    BY <2>1, <2>2, <1>1
<1>7. ASSUME NEW i \in 1 .. k, NEW j \in 1 .. m - k, h[i].n = t[j].n
      PROVE  FALSE
  <2>1. i = k + j
    BY <1>1, <1>2, <1>7 DEF Single
  <2>. QED
    BY <2>1, <1>1
<1>8. Numbers(h) \cap Numbers(t) = {}
  BY <1>1, <1>2, <1>7 DEF Numbers
<1>9. Numbers(s) \subseteq Numbers(h) \cup Numbers(t)
  BY <1>1, <1>6 DEF Numbers
<1>. QED
  BY <1>1, <1>2, <1>3, <1>4, <1>5, <1>8, <1>9 DEF m, h, t

LEMMA LedgerInit == Init => Ledger
<1> SUFFICES ASSUME Init PROVE Ledger
  OBVIOUS
<1>1. /\ buffer = <<>> /\ log = <<>> /\ lost = {} /\ issued = 0
      /\ \A a \in Actors : rows[a] = <<>>
      /\ \A p \in Producers : event[p] = <<>>
  BY DEF Init
<1>2. Numbers(buffer) = {} /\ Numbers(log) = {} /\ GivenUp = {}
  BY <1>1, NoNumbers DEF GivenUp
<1>. QED
  BY <1>1, <1>2, NoNumbers DEF Ledger, Singles, Apart, Covered, Issued

\* A new event enters one place, which held nothing that it could be confused with.
LEMMA DeltaLedger ==
    ASSUME WInv, Ledger, NEW p \in Producers, append_delta(p)
    PROVE  Ledger'
<1> DEFINE x == NextItem("delta")
<1>1. x \in Item /\ x.n = issued + 1 /\ issued \in Nat
  BY NextItemType, ItemTypes
<1>2. /\ buffer' = Append(buffer, x) /\ issued' = issued + 1
      /\ UNCHANGED <<rows, event, log, lost>>
  BY DEF append_delta, Issue
<1> HIDE DEF x
<1>3. buffer' = buffer \o <<x>>
  BY <1>1, <1>2, ItemTypes
<1>4. Numbers(<<x>>) = {issued + 1} /\ Single(<<x>>) /\ <<x>> \in Seq(Item)
  BY <1>1, OneNumber, OneElement
<1>5. issued + 1 \notin 1 .. issued /\ 1 .. issued' = (1 .. issued) \cup {issued + 1}
  BY <1>1, <1>2
<1>6. /\ Numbers(buffer') = Numbers(buffer) \cup {issued + 1}
      /\ Single(buffer) /\ issued + 1 \notin Numbers(buffer) => Single(buffer')
  <2>1. buffer \in Seq(Item)
    BY ItemTypes
  <2>. QED
    BY <1>3, <1>4, <2>1, ConcatNumbers
<1>7. GivenUp' = GivenUp
  BY <1>2 DEF GivenUp
<1>q1. Singles'
  BY ONLY <1>2, <1>5, <1>6, <1>7, Ledger DEF Ledger, Singles, Apart, Issued
<1>q2. Apart'
  BY ONLY <1>2, <1>5, <1>6, <1>7, Ledger DEF Ledger, Apart, Issued
<1>q3. Covered'
  BY ONLY <1>2, <1>5, <1>6, <1>7, Ledger DEF Ledger, Covered
<1>q4. Issued'
  BY ONLY <1>2, <1>5, <1>6, <1>7, Ledger DEF Ledger, Issued
<1>. QED
  BY <1>q1, <1>q2, <1>q3, <1>q4 DEF Ledger

LEMMA HoldLedger ==
    ASSUME WInv, Ledger, NEW p \in Actors, NEW kind \in Loose,
           pc[p] \in {"idle", "asleep"},
           issued' = issued + 1,
           rows' = [rows EXCEPT ![p] = <<NextItem(kind)>>],
           UNCHANGED <<buffer, event, log, lost>>
    PROVE  Ledger'
<1> DEFINE x == NextItem(kind)
<1>1. x \in Item /\ x.n = issued + 1 /\ issued \in Nat
  BY NextItemType, ItemTypes DEF Loose
<1>2. /\ issued' = issued + 1 /\ p \in Actors /\ pc[p] \in {"idle", "asleep"}
      /\ rows' = [rows EXCEPT ![p] = <<x>>]
      /\ UNCHANGED <<buffer, event, log, lost>>
  OBVIOUS
<1> HIDE DEF x
<1>3. \A a \in Actors : rows'[a] = IF a = p THEN <<x>> ELSE rows[a]
  BY <1>2 DEF WInv, TypeOK
<1>4. Numbers(<<x>>) = {issued + 1} /\ Single(<<x>>)
  BY <1>1, OneNumber
<1>5. issued + 1 \notin 1 .. issued /\ 1 .. issued' = (1 .. issued) \cup {issued + 1}
  BY <1>1, <1>2
<1>6. rows[p] = <<>> /\ Numbers(rows[p]) = {}
  BY <1>2, NoNumbers DEF WInv, Kinds
<1>7. GivenUp' = GivenUp
  BY <1>2 DEF GivenUp
<1>8. \A a \in Actors : /\ Numbers(rows'[a]) = IF a = p THEN {issued + 1} ELSE Numbers(rows[a])
                        /\ Single(rows[a]) => Single(rows'[a])
  BY <1>3, <1>4
<1>q1. Singles'
  BY ONLY <1>2, <1>5, <1>6, <1>7, <1>8, Ledger DEF Ledger, Singles, Apart, Issued
<1>q2. Apart'
  BY ONLY <1>2, <1>5, <1>6, <1>7, <1>8, Ledger DEF Ledger, Apart, Issued
<1>q3. Covered'
  BY ONLY <1>2, <1>5, <1>6, <1>7, <1>8, Ledger DEF Ledger, Covered
<1>q4. Issued'
  BY ONLY <1>2, <1>5, <1>6, <1>7, <1>8, Ledger DEF Ledger, Issued
<1>. QED
  BY <1>q1, <1>q2, <1>q3, <1>q4 DEF Ledger

LEMMA LateLedger ==
    ASSUME WInv, Ledger, NEW p \in Producers, append_delta_late(p) \/ write_heartbeat(p)
    PROVE  Ledger'
<1>1. p \in Actors /\ "late" \in Loose /\ "beat" \in Loose
  BY ActorsApart DEF Loose
<1>2. CASE append_delta_late(p)
  BY <1>1, <1>2, HoldLedger DEF append_delta_late, Issue
<1>3. CASE write_heartbeat(p)
  BY <1>1, <1>3, HoldLedger DEF write_heartbeat, Issue
<1>. QED
  BY <1>2, <1>3

LEMMA BeatLedger ==
    ASSUME WInv, Ledger, _stream_liveness_loop
    PROVE  Ledger'
<1>1. Liveness \in Actors /\ "beat" \in Loose
  BY ActorsApart DEF Loose
<1>. QED
  BY <1>1, HoldLedger DEF _stream_liveness_loop

LEMMA EventLedger ==
    ASSUME WInv, Ledger, NEW p \in Producers, write_event(p)
    PROVE  Ledger'
<1> DEFINE x == NextItem("event")
<1>1. x \in Item /\ x.n = issued + 1 /\ issued \in Nat
  BY NextItemType, ItemTypes
<1>2. /\ issued' = issued + 1 /\ pc[p] = "idle"
      /\ event' = [event EXCEPT ![p] = <<x>>]
      /\ UNCHANGED <<buffer, rows, log, lost>>
  BY DEF write_event, Issue
<1> HIDE DEF x
<1>3. \A q \in Producers : event'[q] = IF q = p THEN <<x>> ELSE event[q]
  BY <1>2 DEF WInv, TypeOK
<1>4. Numbers(<<x>>) = {issued + 1} /\ Single(<<x>>)
  BY <1>1, OneNumber
<1>5. issued + 1 \notin 1 .. issued /\ 1 .. issued' = (1 .. issued) \cup {issued + 1}
  BY <1>1, <1>2
<1>6. event[p] = <<>> /\ Numbers(event[p]) = {}
  BY <1>2, NoNumbers DEF WInv, Waiting
<1>7. GivenUp' = GivenUp
  BY <1>2 DEF GivenUp
<1>8. \A q \in Producers :
         /\ Numbers(event'[q]) = IF q = p THEN {issued + 1} ELSE Numbers(event[q])
         /\ Single(event[q]) => Single(event'[q])
  BY <1>3, <1>4
<1>q1. Singles'
  BY ONLY <1>2, <1>5, <1>6, <1>7, <1>8, Ledger, p \in Producers DEF Ledger, Singles, Apart, Issued
<1>q2. Apart'
  BY ONLY <1>2, <1>5, <1>6, <1>7, <1>8, Ledger, p \in Producers DEF Ledger, Apart, Issued
<1>q3. Covered'
  BY ONLY <1>2, <1>5, <1>6, <1>7, <1>8, Ledger, p \in Producers DEF Ledger, Covered
<1>q4. Issued'
  BY ONLY <1>2, <1>5, <1>6, <1>7, <1>8, Ledger, p \in Producers DEF Ledger, Issued
<1>. QED
  BY <1>q1, <1>q2, <1>q3, <1>q4 DEF Ledger

\* append_event moves the producer's event to the log.
LEMMA AppendLedger ==
    ASSUME WInv, Ledger, NEW p \in Producers, append_event(p)
    PROVE  Ledger'
<1>1. /\ log' = log \o event[p]
      /\ event' = [event EXCEPT ![p] = <<>>]
      /\ UNCHANGED <<buffer, rows, issued, lost>>
  BY DEF append_event
<1>2. \A q \in Producers : event'[q] = IF q = p THEN <<>> ELSE event[q]
  BY <1>1 DEF WInv, TypeOK
<1>3. /\ Numbers(log') = Numbers(log) \cup Numbers(event[p])
      /\ Single(log')
  BY <1>1, ItemTypes, ConcatNumbers DEF Ledger, Singles, Apart
<1>4. \A q \in Producers : /\ Numbers(event'[q]) = IF q = p THEN {} ELSE Numbers(event[q])
                           /\ Single(event[q]) => Single(event'[q])
  BY <1>2, NoNumbers
<1>5. GivenUp' = GivenUp
  BY <1>1 DEF GivenUp
<1>q1. Singles'
  BY ONLY <1>1, <1>3, <1>4, <1>5, Ledger, p \in Producers DEF Ledger, Singles, Apart, Issued
<1>q2. Apart'
  BY ONLY <1>1, <1>3, <1>4, <1>5, Ledger, p \in Producers DEF Ledger, Apart, Issued
<1>q3. Covered'
  BY ONLY <1>1, <1>3, <1>4, <1>5, Ledger, p \in Producers DEF Ledger, Covered
<1>q4. Issued'
  BY ONLY <1>1, <1>3, <1>4, <1>5, Ledger, p \in Producers DEF Ledger, Issued
<1>. QED
  BY <1>q1, <1>q2, <1>q3, <1>q4 DEF Ledger

\* flush moves the buffer to a task that holds no rows.
LEMMA FlushLedger ==
    ASSUME WInv, Ledger, NEW a \in Actors, flush(a)
    PROVE  Ledger'
<1>1. pc[a] = "flush" /\ UNCHANGED <<event, log, issued, lost>>
  BY DEF flush
<1>2. GivenUp' = GivenUp
  BY <1>1 DEF GivenUp
<1>3. CASE buffer = <<>>
  <2>1. UNCHANGED <<buffer, rows>>
    BY <1>3 DEF flush
  <2>. QED
    BY ONLY <1>1, <1>2, <2>1, Ledger DEF Ledger, Singles, Apart, Covered, Issued
<1>4. CASE buffer # <<>>
  <2>1. buffer' = <<>> /\ \A b \in Actors : rows'[b] = IF b = a THEN buffer ELSE rows[b]
    BY <1>4 DEF flush, WInv, TypeOK
  <2>2. Numbers(rows[a]) = {}
    BY <1>1, NoNumbers DEF WInv, Kinds
  <2>3. Numbers(buffer') = {} /\ Single(buffer')
    BY <2>1, NoNumbers
  <2>4. \A b \in Actors :
           /\ Numbers(rows'[b]) = IF b = a THEN Numbers(buffer) ELSE Numbers(rows[b])
           /\ Single(buffer) /\ Single(rows[b]) => Single(rows'[b])
    BY <2>1
  <2>. QED
    BY ONLY <1>1, <1>2, <2>2, <2>3, <2>4, Ledger, a \in Actors
       DEF Ledger, Singles, Apart, Covered, Issued
<1>. QED
  BY <1>3, <1>4

\* A commit moves the head of the batch to the log.
LEMMA WriteLedger ==
    ASSUME WInv, Ledger, NEW a \in Actors, _write_rows(a)
    PROVE  Ledger'
<1>1. PICK k \in 1 .. Len(rows[a]) :
        /\ log' = log \o SubSeq(rows[a], 1, k)
        /\ rows' = [rows EXCEPT ![a] = SubSeq(@, k + 1, Len(@))]
  BY DEF _write_rows
<1> DEFINE h == SubSeq(rows[a], 1, k)
           t == SubSeq(rows[a], k + 1, Len(rows[a]))
<1>2. UNCHANGED <<buffer, event, issued, lost>>
  BY DEF _write_rows
<1>3. /\ h \in Seq(Item) /\ t \in Seq(Item) /\ Single(h) /\ Single(t)
      /\ Numbers(h) \cup Numbers(t) = Numbers(rows[a])
      /\ Numbers(h) \cap Numbers(t) = {}
  BY SplitNumbers, ItemTypes DEF Ledger, Singles
<1>4. log' = log \o h /\ \A b \in Actors : rows'[b] = IF b = a THEN t ELSE rows[b]
  BY <1>1 DEF WInv, TypeOK
<1> HIDE DEF h, t
<1>5. Numbers(h) \cap Numbers(log) = {}
  BY <1>3 DEF Ledger, Apart
<1>6. Numbers(log') = Numbers(log) \cup Numbers(h) /\ Single(log')
  BY <1>3, <1>4, <1>5, ItemTypes, ConcatNumbers DEF Ledger, Singles
<1>7. \A b \in Actors :
         /\ Numbers(rows'[b]) = IF b = a THEN Numbers(t) ELSE Numbers(rows[b])
         /\ Single(rows[b]) => Single(rows'[b])
  BY <1>3, <1>4
<1>8. GivenUp' = GivenUp
  BY <1>2 DEF GivenUp
<1>q1. Singles'
  BY ONLY <1>2, <1>3, <1>6, <1>7, <1>8, Ledger, a \in Actors DEF Ledger, Singles, Apart, Issued
<1>q2. Apart'
  BY ONLY <1>2, <1>3, <1>6, <1>7, <1>8, Ledger, a \in Actors DEF Ledger, Apart, Issued
<1>q3. Covered'
  BY ONLY <1>2, <1>3, <1>6, <1>7, <1>8, Ledger, a \in Actors DEF Ledger, Covered
<1>q4. Issued'
  BY ONLY <1>2, <1>3, <1>6, <1>7, <1>8, Ledger, a \in Actors DEF Ledger, Issued
<1>. QED
  BY <1>q1, <1>q2, <1>q3, <1>q4 DEF Ledger

\* A write that fails, and the timer that is cancelled, move what they held to the loss.
LEMMA FailLedger ==
    ASSUME WInv, Ledger, NEW a \in Actors, write_fails(a)
    PROVE  Ledger'
<1>1. /\ lost' = lost \cup Elements(rows[a])
                      \cup (IF a \in Producers THEN Elements(event[a]) ELSE {})
      /\ rows' = [rows EXCEPT ![a] = <<>>]
      /\ event' = IF a \in Producers THEN [event EXCEPT ![a] = <<>>] ELSE event
      /\ UNCHANGED <<buffer, log, issued>>
  BY DEF write_fails
<1>2. /\ \A b \in Actors : /\ Numbers(rows'[b]) = IF b = a THEN {} ELSE Numbers(rows[b])
                           /\ Single(rows[b]) => Single(rows'[b])
      /\ \A q \in Producers : /\ Numbers(event'[q]) = IF q = a THEN {} ELSE Numbers(event[q])
                              /\ Single(event[q]) => Single(event'[q])
  BY <1>1, NoNumbers DEF WInv, TypeOK
<1>3. GivenUp' = GivenUp \cup Numbers(rows[a])
                         \cup (IF a \in Producers THEN Numbers(event[a]) ELSE {})
  BY <1>1, NumbersElements DEF GivenUp
<1>q1. Singles'
  BY ONLY <1>1, <1>2, <1>3, Ledger, a \in Actors DEF Ledger, Singles, Apart, Issued
<1>q2. Apart'
  BY ONLY <1>1, <1>2, <1>3, Ledger, a \in Actors DEF Ledger, Apart, Issued
<1>q3. Covered'
  BY ONLY <1>1, <1>2, <1>3, Ledger, a \in Actors DEF Ledger, Covered
<1>q4. Issued'
  BY ONLY <1>1, <1>2, <1>3, Ledger, a \in Actors DEF Ledger, Issued
<1>. QED
  BY <1>q1, <1>q2, <1>q3, <1>q4 DEF Ledger

LEMMA CancelLedger ==
    ASSUME WInv, Ledger, NEW a \in {Timer, Liveness}, Cancel(a),
           UNCHANGED <<buffer, event, log, issued>>
    PROVE  Ledger'
<1>1. /\ lost' = lost \cup Elements(rows[a])
      /\ rows' = [rows EXCEPT ![a] = <<>>]
      /\ UNCHANGED <<buffer, event, log, issued>>
  BY DEF Cancel
<1>2. \A b \in Actors : /\ Numbers(rows'[b]) = IF b = a THEN {} ELSE Numbers(rows[b])
                        /\ Single(rows[b]) => Single(rows'[b])
  BY <1>1, NoNumbers DEF WInv, TypeOK
<1>3. GivenUp' = GivenUp \cup Numbers(rows[a])
  BY <1>1, NumbersElements DEF GivenUp
<1>4. a \in Actors
  BY ActorsApart
<1>q1. Singles'
  BY ONLY <1>1, <1>2, <1>3, <1>4, Ledger DEF Ledger, Singles, Apart, Issued
<1>q2. Apart'
  BY ONLY <1>1, <1>2, <1>3, <1>4, Ledger DEF Ledger, Apart, Issued
<1>q3. Covered'
  BY ONLY <1>1, <1>2, <1>3, <1>4, Ledger DEF Ledger, Covered
<1>q4. Issued'
  BY ONLY <1>1, <1>2, <1>3, <1>4, Ledger DEF Ledger, Issued
<1>. QED
  BY <1>q1, <1>q2, <1>q3, <1>q4 DEF Ledger

LEMMA CloseLedger ==
    ASSUME WInv, Ledger, close \/ cancel_timer \/ \E p \in Producers : stop_stream_liveness(p)
    PROVE  Ledger'
<1>1. PICK a \in {Timer, Liveness} : Cancel(a) /\ UNCHANGED <<buffer, event, log, issued>>
  BY DEF close, cancel_timer, stop_stream_liveness
<1>. QED
  BY <1>1, CancelLedger

LEMMA TerminalLedger ==
    ASSUME WInv, Ledger, terminal_event
    PROVE  Ledger'
<1> DEFINE x == NextItem("end")
<1>1. x \in Item /\ x.n = issued + 1 /\ issued \in Nat
  BY NextItemType, ItemTypes
<1>2. /\ log' = Append(log, x) /\ issued' = issued + 1
      /\ UNCHANGED <<buffer, rows, event, lost>>
  BY DEF terminal_event
<1> HIDE DEF x
<1>3. log' = log \o <<x>>
  BY <1>1, <1>2, ItemTypes
<1>4. Numbers(<<x>>) = {issued + 1} /\ Single(<<x>>) /\ <<x>> \in Seq(Item)
  BY <1>1, OneNumber, OneElement
<1>5. issued + 1 \notin 1 .. issued /\ 1 .. issued' = (1 .. issued) \cup {issued + 1}
  BY <1>1, <1>2
<1>6. /\ Numbers(log') = Numbers(log) \cup {issued + 1}
      /\ Single(log) /\ issued + 1 \notin Numbers(log) => Single(log')
  <2>1. log \in Seq(Item)
    BY ItemTypes
  <2>. QED
    BY <1>3, <1>4, <2>1, ConcatNumbers
<1>7. GivenUp' = GivenUp
  BY <1>2 DEF GivenUp
<1>q1. Singles'
  BY ONLY <1>2, <1>5, <1>6, <1>7, Ledger DEF Ledger, Singles, Apart, Issued
<1>q2. Apart'
  BY ONLY <1>2, <1>5, <1>6, <1>7, Ledger DEF Ledger, Apart, Issued
<1>q3. Covered'
  BY ONLY <1>2, <1>5, <1>6, <1>7, Ledger DEF Ledger, Covered
<1>q4. Issued'
  BY ONLY <1>2, <1>5, <1>6, <1>7, Ledger DEF Ledger, Issued
<1>. QED
  BY <1>q1, <1>q2, <1>q3, <1>q4 DEF Ledger

LEMMA LedgerStep == WInv /\ Ledger /\ [Next]_vars => Ledger'
<1> SUFFICES ASSUME WInv, Ledger, [Next]_vars PROVE Ledger'
  OBVIOUS
<1>0. ASSUME UNCHANGED <<buffer, rows, event, log, issued, lost>>
      PROVE  Ledger'
  BY ONLY <1>0, Ledger DEF Ledger, Singles, Apart, Covered, Issued, GivenUp
<1>1. ASSUME NEW p \in Producers,
             append_delta(p) \/ append_delta_late(p) \/ write_event(p) \/ write_heartbeat(p)
      PROVE  Ledger'
  BY <1>1, DeltaLedger, LateLedger, EventLedger
<1>2. ASSUME NEW p \in Producers, start_stream_liveness(p) \/ stop_stream_liveness(p)
      PROVE  Ledger'
  <2>1. CASE start_stream_liveness(p)
    BY <2>1, <1>0 DEF start_stream_liveness
  <2>. QED
    BY <1>2, <2>1, CloseLedger
<1>3. ASSUME NEW a \in Actors, TaskStep(a)
      PROVE  Ledger'
  <2>1. CASE flush(a) \/ _write_rows(a) \/ write_fails(a)
    BY <2>1, FlushLedger, WriteLedger, FailLedger
  <2>2. CASE (a \in Producers /\ append_event(a)) \/ terminal_event
    BY <2>2, AppendLedger, TerminalLedger
  <2>3. CASE _delayed_flush
    BY <2>3, <1>0 DEF _delayed_flush
  <2>4. CASE lock_heartbeat(a)
    BY <2>4, <1>0 DEF lock_heartbeat
  <2>5. CASE _stream_liveness_loop \/ cancel_timer
    BY <2>5, BeatLedger, CloseLedger
  <2>. QED
    BY <1>3, <2>1, <2>2, <2>3, <2>4, <2>5 DEF TaskStep
<1>4. CASE close
  BY <1>4, CloseLedger
<1>5. CASE UNCHANGED vars
  BY <1>5, <1>0 DEF vars
<1>. QED
  BY <1>1, <1>2, <1>3, <1>4, <1>5 DEF Next

\* The positions of a number in a sequence.
Positions(s, n) == {i \in DOMAIN s : s[i].n = n}

LEMMA OnePosition ==
    ASSUME NEW s, NEW n
    PROVE  /\ n \notin Numbers(s) => Positions(s, n) = {}
           /\ n \in Numbers(s) /\ Single(s) => \E i \in DOMAIN s : Positions(s, n) = {i}
BY DEF Numbers, Positions, Single

LEMMA LedgerAccounts == Ledger => Accounted
<1> SUFFICES ASSUME Ledger, NEW n \in 1 .. issued
             PROVE  \E x : Places(n) = {x}
  BY FS_Singleton DEF Accounted
<1> DEFINE B == {"buffer"} \X Positions(buffer, n)
           L == {"log"} \X Positions(log, n)
           R == UNION {{a} \X Positions(rows[a], n) : a \in Actors}
           E == UNION {{<<p, "event">>} \X Positions(event[p], n) : p \in Producers}
           X == {x \in {<<"lost", 0>>} : n \in GivenUp}
<1>0. Places(n) = B \cup L \cup R \cup E \cup X
  <2>1. (\E i \in lost : i.n = n) <=> n \in GivenUp
    BY DEF GivenUp
  <2>. QED
    BY <2>1, Zenon DEF Places, Positions
<1>1. /\ n \notin Numbers(buffer) => B = {}
      /\ n \notin Numbers(log) => L = {}
      /\ n \notin GivenUp => X = {}
  BY OnePosition
<1>2. (\A a \in Actors : n \notin Numbers(rows[a])) => R = {}
  BY OnePosition
<1>3. (\A p \in Producers : n \notin Numbers(event[p])) => E = {}
  BY OnePosition
<1>4. CASE n \in Numbers(buffer)
  <2>0. PICK i : Positions(buffer, n) = {i}
    BY <1>4, OnePosition DEF Ledger, Singles
  <2>1. B = {<<"buffer", i>>}
    BY <2>0
  <2>2. L = {} /\ X = {} /\ R = {} /\ E = {}
    BY <1>1, <1>2, <1>3, <1>4 DEF Ledger, Apart
  <2> HIDE DEF B, L, R, E, X
  <2>. QED
    BY <1>0, <2>1, <2>2
<1>5. CASE n \in Numbers(log)
  <2>0. PICK i : Positions(log, n) = {i}
    BY <1>5, OnePosition DEF Ledger, Singles
  <2>1. L = {<<"log", i>>}
    BY <2>0
  <2>2. B = {} /\ X = {} /\ R = {} /\ E = {}
    BY <1>1, <1>2, <1>3, <1>5 DEF Ledger, Apart
  <2> HIDE DEF B, L, R, E, X
  <2>. QED
    BY <1>0, <2>1, <2>2
<1>6. CASE n \in GivenUp
  <2>1. X = {<<"lost", 0>>}
    BY <1>6
  <2>2. B = {} /\ L = {} /\ R = {} /\ E = {}
    BY <1>1, <1>2, <1>3, <1>6 DEF Ledger, Apart
  <2> HIDE DEF B, L, R, E, X
  <2>. QED
    BY <1>0, <2>1, <2>2
<1>7. ASSUME NEW a \in Actors, n \in Numbers(rows[a])
      PROVE  \E x : Places(n) = {x}
  <2>1. PICK i : Positions(rows[a], n) = {i}
    BY <1>7, OnePosition DEF Ledger, Singles
  <2>2. \A b \in Actors : b # a => Positions(rows[b], n) = {}
    BY <1>7, OnePosition DEF Ledger, Apart
  <2>3. R = {<<a, i>>}
    BY <2>1, <2>2
  <2>4. B = {} /\ L = {} /\ X = {} /\ E = {}
    BY <1>1, <1>3, <1>7 DEF Ledger, Apart
  <2> HIDE DEF B, L, R, E, X
  <2>. QED
    BY <1>0, <2>3, <2>4
<1>8. ASSUME NEW p \in Producers, n \in Numbers(event[p])
      PROVE  \E x : Places(n) = {x}
  <2>1. PICK i : Positions(event[p], n) = {i}
    BY <1>8, OnePosition DEF Ledger, Singles
  <2>2. \A q \in Producers : q # p => Positions(event[q], n) = {}
    BY <1>8, OnePosition DEF Ledger, Apart
  <2>3. E = {<<<<p, "event">>, i>>}
    BY <2>1, <2>2
  <2>4. B = {} /\ L = {} /\ X = {} /\ R = {}
    BY <1>1, <1>2, <1>8 DEF Ledger, Apart
  <2> HIDE DEF B, L, R, E, X
  <2>. QED
    BY <1>0, <2>3, <2>4
<1>. QED
  BY <1>4, <1>5, <1>6, <1>7, <1>8 DEF Ledger, Covered

\* Every event issued to the writer is in one place: waiting, being written, in turn_events,
\* or given up for a reason the program logs.  No interleaving of the producers, the timer
\* and close_event_writer drops one unnoticed or inserts one twice.
THEOREM EveryEventAccounted == Spec => []Accounted
BY WriterInit, WriterStep, LedgerInit, LedgerStep, LedgerAccounts, PTL DEF Spec
=============================================================================
