-------------------------- MODULE TranscriptProofs --------------------------
(* What the operators of Transcript do to a transcript of any length.  They are    *)
(* defined by Max and FlattenSeq, so the proofs go by least counterexamples.       *)
(*                                                                                 *)
(* A transcript is sound when no call is made twice, every result is in the run of *)
(* results behind its call and every answered call has one there.  The splice and  *)
(* the dropped attempt keep it sound; a window is cut out of it at clean places    *)
(* only; and the repair of such a window pairs every call with its result.         *)
EXTENDS AgentEngine, FiniteSetTheorems, SequenceTheorems, WellFoundedInduction, TLAPS

\* A reply's calls are numbered by its step.
OwnIds == (1..MaxSteps) \X (1..MaxCalls)
Uses == [id : OwnIds, name : Names]

\* The calls of the transcript and of the children behind them have ids.
LEMMA IdTypes ==
    /\ NoId \in IdSet /\ OwnIds \subseteq IdSet
    /\ \A id \in OwnIds : ChildCall(id) \in IdSet
    /\ NoAsk \in [id : IdSet, parent : IdSet]
  <1>1. NoId \in IdSet
    BY DEF IdSet
  <1>2. \A a \in 1..MaxSteps, b \in 1..MaxCalls : <<a, b>> \in IdSet /\ <<a, -b>> \in IdSet
    BY EngineAssumption DEF IdSet
  <1>3. \A id \in OwnIds : id = <<id[1], id[2]>> /\ id[1] \in 1..MaxSteps /\ id[2] \in 1..MaxCalls
    BY DEF OwnIds
  <1>4. OwnIds \subseteq IdSet /\ \A id \in OwnIds : ChildCall(id) \in IdSet
    BY <1>2, <1>3 DEF ChildCall
  <1>. QED
    BY <1>1, <1>4 DEF NoAsk, Ask

\* No call of this transcript is a child's.
LEMMA IdFacts ==
    /\ NoId \notin OwnIds
    /\ \A id \in OwnIds : ChildCall(id) \notin OwnIds /\ id # NoId /\ id[1] \in Nat /\ id \in IdSet
  <1>1. NoId \notin OwnIds
    BY DEF OwnIds, NoId
  <1>2. ASSUME NEW id \in OwnIds
        PROVE  ChildCall(id) \notin OwnIds /\ id # NoId /\ id[1] \in Nat /\ id \in IdSet
    <2>1. id[1] \in 1..MaxSteps /\ id[2] \in 1..MaxCalls
      BY <1>2 DEF OwnIds
    <2>2. -id[2] \notin 1..MaxCalls
      BY <2>1, EngineAssumption
    <2>. QED
      BY <1>1, <2>1, <2>2, IdTypes, EngineAssumption DEF OwnIds, ChildCall
  <1>. QED
    BY <1>1, <1>2

----------------------------------------------------------------------------
(* Largest members, and sequences that are joined.                                *)

\* The largest of some integers of an interval is one of them.
LEMMA MaxOf ==
    ASSUME NEW a \in Int, NEW b \in Int, NEW S \in SUBSET (a..b), S # {}
    PROVE  Max(S) \in S /\ \A i \in S : i <= Max(S)
  <1>. DEFINE T == {b - i : i \in S}
  <1>1. T \subseteq Nat /\ T # {}
    <2>1. \A i \in S : b - i \in Nat
      OBVIOUS
    <2>. QED
      BY <2>1
  <1>2. PICK m \in T : \A k \in T : ~(<<k, m>> \in OpToRel(<, Nat))
    <2>. HIDE DEF T
    <2>. QED
      BY <1>1, NatLessThanWellFounded, WFMin
  <1>3. \A k \in T : ~(k < m)
    BY <1>1, <1>2 DEF OpToRel
  <1>4. PICK i \in S : m = b - i
    BY <1>2
  <1>5. \A j \in S : i >= j
    <2>. SUFFICES ASSUME NEW j \in S PROVE i >= j
      OBVIOUS
    <2>1. ~(b - j < b - i)
      BY <1>3, <1>4
    <2>. QED
      BY <1>4, <2>1
  <1>6. Max(S) \in S /\ \A y \in S : Max(S) >= y
    BY <1>5 DEF Max
  <1>. QED
    BY <1>6

\* The largest of some of the first n numbers is one of them.
LEMMA MaxIsIn ==
    ASSUME NEW n \in Nat, NEW S \in SUBSET (1..n), S # {}
    PROVE  Max(S) \in S
  <1>1. 1 \in Int /\ n \in Int
    OBVIOUS
  <1>. QED
    BY <1>1, MaxOf

\* A member that no other exceeds is the largest.
LEMMA MaxIs ==
    ASSUME NEW S \in SUBSET Int, NEW m \in S, \A i \in S : i <= m
    PROVE  Max(S) = m
  <1>1. m \in Int /\ \A y \in S : m >= y
    OBVIOUS
  <1>2. Max(S) \in S /\ \A y \in S : Max(S) >= y
    BY <1>1 DEF Max
  <1>3. Max(S) \in Int /\ Max(S) >= m /\ Max(S) <= m
    BY <1>2
  <1>. QED
    BY <1>1, <1>3

\* The smaller of two integers.
LEMMA MinOf ==
    ASSUME NEW a \in Int, NEW b \in Int
    PROVE  Min({a, b}) \in {a, b} /\ Min({a, b}) <= a /\ Min({a, b}) <= b
  <1>1. \E x \in {a, b} : \A y \in {a, b} : x <= y
    OBVIOUS
  <1>2. Min({a, b}) \in {a, b} /\ \A y \in {a, b} : Min({a, b}) <= y
    BY <1>1 DEF Min
  <1>. QED
    BY <1>2

\* FlattenSeq joins the members one by one: what holds of the first, and of whatever is joined
\* to the next if it held before, holds of the whole.
LEMMA FlattenSteps ==
    ASSUME NEW n \in Nat \ {0}, NEW s, Len(s) = n, NEW G, s[1] \in G[1],
           \A i \in 2..n : \A x \in G[i - 1] : x \o s[i] \in G[i]
    PROVE  FlattenSeq(s) \in G[n]
  <1>. DEFINE Step(g, m) == [i \in 1..m |-> IF i = 1 THEN s[i] ELSE g[i - 1] \o s[i]]
              Bad == {m \in Nat : ~\E g : g = Step(g, m)}
  <1>1. ASSUME Bad # {} PROVE FALSE
    <2>1. PICK m \in Bad : \A k \in Bad : ~(<<k, m>> \in OpToRel(<, Nat))
      <3>1. Bad \subseteq Nat
        OBVIOUS
      <3>. HIDE DEF Bad
      <3>. QED
        BY <1>1, <3>1, NatLessThanWellFounded, WFMin
    <2>2. \A k \in Nat : k < m => k \notin Bad
      BY <2>1 DEF OpToRel
    <2>3. m # 0
      <3>1. <<>> = Step(<<>>, 0)
        OBVIOUS
      <3>. QED
        BY <3>1
    <2>4. m - 1 \in Nat /\ m - 1 < m
      BY <2>3
    <2>5. PICK g : g = Step(g, m - 1)
      BY <2>2, <2>4
    <2>. DEFINE h == [i \in 1..m |-> IF i < m THEN g[i]
                                     ELSE IF m = 1 THEN s[m] ELSE g[m - 1] \o s[m]]
    <2>6. h = Step(h, m)
      <3>1. \A i \in 1..m : h[i] = IF i = 1 THEN s[i] ELSE h[i - 1] \o s[i]
        <4>. SUFFICES ASSUME NEW i \in 1..m
                      PROVE  h[i] = IF i = 1 THEN s[i] ELSE h[i - 1] \o s[i]
          OBVIOUS
        <4>1. CASE i < m
          <5>1. i \in 1..(m - 1) /\ (i # 1 => i - 1 \in 1..m /\ i - 1 < m)
            BY <4>1
          <5>2. g[i] = IF i = 1 THEN s[i] ELSE g[i - 1] \o s[i]
            BY <5>1, <2>5
          <5>. QED
            BY <4>1, <5>1, <5>2
        <4>2. CASE i = m
          <5>1. i # 1 => i - 1 \in 1..m /\ i - 1 < m
            BY <4>2
          <5>. QED
            BY <4>2, <5>1
        <4>. QED
          BY <4>1, <4>2
      <3>. HIDE DEF h
      <3>2. h = [i \in 1..m |-> h[i]]
        BY DEF h
      <3>. QED
        BY <3>1, <3>2
    <2>. QED
      BY <2>6
  <1>2. \E g : g = Step(g, n)
    <2>1. n \notin Bad
      BY <1>1
    <2>. QED
      BY <2>1
  <1>. DEFINE f == CHOOSE g : g = [i \in 1..n |-> IF i = 1 THEN s[i] ELSE g[i - 1] \o s[i]]
  <1>3. f = Step(f, n)
    BY <1>2
  <1>4. FlattenSeq(s) = f[n]
    BY DEF FlattenSeq
  <1>. HIDE DEF f
  <1>. DEFINE Off == {m \in 1..n : f[m] \notin G[m]}
  <1>5. ASSUME Off # {} PROVE FALSE
    <2>1. PICK m \in Off : \A k \in Off : ~(<<k, m>> \in OpToRel(<, Nat))
      <3>1. Off \subseteq Nat
        OBVIOUS
      <3>. HIDE DEF Off
      <3>. QED
        BY <1>5, <3>1, NatLessThanWellFounded, WFMin
    <2>2. ASSUME NEW k \in 1..n, k < m PROVE k \notin Off
      <3>1. m \in Nat /\ k \in Nat
        OBVIOUS
      <3>. HIDE DEF Off
      <3>. QED
        BY <2>1, <2>2, <3>1 DEF OpToRel
    <2>3. CASE m = 1
      <3>1. f[1] = s[1]
        BY <1>3
      <3>. QED
        BY <2>3, <3>1
    <2>4. CASE m # 1
      <3>1. m \in 2..n /\ m - 1 \in 1..n /\ m - 1 < m
        BY <2>4
      <3>2. f[m - 1] \in G[m - 1]
        <4>1. m - 1 \notin Off
          BY <2>2, <3>1
        <4>. QED
          BY <3>1, <4>1
      <3>3. f[m] = f[m - 1] \o s[m]
        BY <1>3, <2>4, <3>1
      <3>. QED
        BY <3>1, <3>2, <3>3
    <2>. QED
      BY <2>3, <2>4
  <1>6. f[n] \in G[n]
    BY <1>5
  <1>. QED
    BY <1>4, <1>6

\* FlattenSeq holds what its members hold.
LEMMA FlattenHolds ==
    ASSUME NEW S, NEW n \in Nat \ {0}, NEW s \in [1..n -> Seq(S)]
    PROVE  /\ FlattenSeq(s) \in Seq(S)
           /\ ToSet(FlattenSeq(s)) = UNION {ToSet(s[k]) : k \in 1..n}
  <1>. DEFINE G == [m \in 1..n |-> {x \in Seq(S) :
                /\ \A i \in DOMAIN x : \E k \in 1..m : \E j \in DOMAIN s[k] : x[i] = s[k][j]
                /\ \A k \in 1..m : \A j \in DOMAIN s[k] : \E i \in DOMAIN x : x[i] = s[k][j]}]
  <1>1. Len(s) = n
    OBVIOUS
  <1>2. s[1] \in G[1]
    <2>1. 1..1 = {1} /\ 1 \in 1..n
      OBVIOUS
    <2>. QED
      BY <2>1
  <1>3. ASSUME NEW m \in 2..n, NEW x \in G[m - 1] PROVE x \o s[m] \in G[m]
    <2>1. m - 1 \in 1..n /\ m \in 1..n /\ 1..m = 1..(m - 1) \cup {m}
      OBVIOUS
    <2>2. /\ x \in Seq(S)
          /\ \A i \in DOMAIN x : \E k \in 1..(m - 1) : \E j \in DOMAIN s[k] : x[i] = s[k][j]
          /\ \A k \in 1..(m - 1) : \A j \in DOMAIN s[k] : \E i \in DOMAIN x : x[i] = s[k][j]
      BY <1>3, <2>1
    <2>3. s[m] \in Seq(S)
      BY <2>1
    <2>4. /\ x \o s[m] \in Seq(S)
          /\ Len(x \o s[m]) = Len(x) + Len(s[m])
          /\ \A i \in 1..(Len(x) + Len(s[m])) :
               (x \o s[m])[i] = IF i <= Len(x) THEN x[i] ELSE s[m][i - Len(x)]
      BY <2>2, <2>3, ConcatProperties
    <2>5. /\ DOMAIN x = 1..Len(x) /\ Len(x) \in Nat
          /\ DOMAIN s[m] = 1..Len(s[m]) /\ Len(s[m]) \in Nat
          /\ DOMAIN (x \o s[m]) = 1..(Len(x) + Len(s[m]))
      BY <2>2, <2>3, <2>4, LenProperties
    <2>6. ASSUME NEW i \in DOMAIN (x \o s[m])
          PROVE  \E k \in 1..m : \E j \in DOMAIN s[k] : (x \o s[m])[i] = s[k][j]
      <3>1. CASE i <= Len(x)
        <4>1. i \in DOMAIN x /\ (x \o s[m])[i] = x[i]
          BY <2>4, <2>5, <3>1
        <4>2. PICK k \in 1..(m - 1) : \E j \in DOMAIN s[k] : x[i] = s[k][j]
          BY <2>2, <4>1
        <4>3. k \in 1..m
          BY <2>1
        <4>. QED
          BY <4>1, <4>2, <4>3
      <3>2. CASE i > Len(x)
        <4>1. i - Len(x) \in DOMAIN s[m] /\ (x \o s[m])[i] = s[m][i - Len(x)]
          BY <2>4, <2>5, <3>2
        <4>. QED
          BY <2>1, <4>1
      <3>. QED
        BY <2>5, <3>1, <3>2
    <2>7. ASSUME NEW k \in 1..m, NEW j \in DOMAIN s[k]
          PROVE  \E i \in DOMAIN (x \o s[m]) : (x \o s[m])[i] = s[k][j]
      <3>1. CASE k \in 1..(m - 1)
        <4>1. PICK i \in DOMAIN x : x[i] = s[k][j]
          BY <2>2, <3>1
        <4>2. i \in DOMAIN (x \o s[m]) /\ (x \o s[m])[i] = x[i]
          BY <2>4, <2>5
        <4>. QED
          BY <4>1, <4>2
      <3>2. CASE k = m
        <4>1. /\ j + Len(x) \in DOMAIN (x \o s[m])
              /\ (x \o s[m])[j + Len(x)] = s[m][j]
          BY <2>4, <2>5, <3>2
        <4>. QED
          BY <3>2, <4>1
      <3>. QED
        BY <2>1, <3>1, <3>2
    <2>. QED
      BY <2>1, <2>4, <2>6, <2>7
  <1>. HIDE DEF G
  <1>4. FlattenSeq(s) \in G[n]
    BY <1>1, <1>2, <1>3, FlattenSteps
  <1>5. PICK x : x = FlattenSeq(s)
    OBVIOUS
  <1>6. /\ n \in 1..n /\ x \in Seq(S)
        /\ \A i \in DOMAIN x : \E k \in 1..n : \E j \in DOMAIN s[k] : x[i] = s[k][j]
        /\ \A k \in 1..n : \A j \in DOMAIN s[k] : \E i \in DOMAIN x : x[i] = s[k][j]
    <2>1. n \in 1..n
      OBVIOUS
    <2>2. G[n] = {y \in Seq(S) :
            /\ \A i \in DOMAIN y : \E k \in 1..n : \E j \in DOMAIN s[k] : y[i] = s[k][j]
            /\ \A k \in 1..n : \A j \in DOMAIN s[k] : \E i \in DOMAIN y : y[i] = s[k][j]}
      BY <2>1 DEF G
    <2>3. x \in G[n]
      BY <1>4, <1>5
    <2>. HIDE DEF G
    <2>. QED
      BY <2>1, <2>2, <2>3
  <1>7. \A y : y \in ToSet(x) <=> \E k \in 1..n : y \in ToSet(s[k])
    <2>1. ASSUME NEW y \in ToSet(x) PROVE \E k \in 1..n : y \in ToSet(s[k])
      <3>1. PICK i \in DOMAIN x : y = x[i]
        BY DEF ToSet
      <3>2. PICK k \in 1..n : \E j \in DOMAIN s[k] : x[i] = s[k][j]
        BY <1>6
      <3>. QED
        BY <3>1, <3>2 DEF ToSet
    <2>2. ASSUME NEW k \in 1..n, NEW y \in ToSet(s[k]) PROVE y \in ToSet(x)
      <3>1. PICK j \in DOMAIN s[k] : y = s[k][j]
        BY DEF ToSet
      <3>2. PICK i \in DOMAIN x : x[i] = s[k][j]
        BY <1>6
      <3>. QED
        BY <3>1, <3>2 DEF ToSet
    <2>. QED
      BY <2>1, <2>2
  <1>. QED
    BY <1>5, <1>6, <1>7

----------------------------------------------------------------------------
(* Messages, and the runs of results behind calls.                                *)

\* The messages the engine and the controller write.
Msgs == {User(n) : n \in Nat} \cup {ToolUses(us) : us \in Seq(Uses)}
        \cup {ToolResult(id) : id \in IdSet}

\* Position i is in the run of results behind position a.
Run(ms, a, i) == a < i /\ \A k \in (a + 1)..i : IsTool(ms[k])
\* Every result of a call of this transcript is in the run behind the call.
Chained(ms) ==
    \A i \in DOMAIN ms : IsTool(ms[i]) /\ ms[i].of \in OwnIds =>
        \E a \in DOMAIN ms : ms[i].of \in Ids(ms[a]) /\ Run(ms, a, i)
\* Every call with one of these ids has a result in its run.
Behind(ms, ids) ==
    \A a \in DOMAIN ms : \A id \in Ids(ms[a]) \cap ids :
        \E i \in DOMAIN ms : Run(ms, a, i) /\ ms[i].of = id
\* No two calls have the same id.
Unique(ms) ==
    \A a, b \in DOMAIN ms : \A k \in DOMAIN ms[a].uses, l \in DOMAIN ms[b].uses :
        ms[a].uses[k].id = ms[b].uses[l].id => a = b /\ k = l
\* Nothing but results follows the message that made these calls.
Open(ms, ids) ==
    \E a \in DOMAIN ms : ids \subseteq Ids(ms[a]) /\ \A i \in DOMAIN ms : i > a => IsTool(ms[i])
\* m is the last message of the user.
Instructed(ms, m) ==
    \E p \in DOMAIN ms : ms[p] = m /\ \A i \in DOMAIN ms : i > p => ~IsUser(ms[i])

\* What the role of a message says of it: only an assistant's message makes calls, only
\* a tool message answers one.
LEMMA MsgFacts ==
    ASSUME NEW m \in Msgs
    PROVE  /\ m.uses \in Seq(Uses) /\ Ids(m) \subseteq OwnIds
           /\ IsUser(m) \/ IsTool(m) => m.uses = <<>> /\ Ids(m) = {} /\ ~Calls(m)
           /\ Calls(m) => ~IsUser(m) /\ ~IsTool(m) /\ m = ToolUses(m.uses)
           /\ IsTool(m) => m = ToolResult(m.of) /\ m.of \in IdSet /\ ~IsUser(m)
           /\ ~IsTool(m) => m.of \notin OwnIds
           /\ IsUser(m) => \E n \in Nat : m = User(n)
  <1>0. \A n \in Nat : <<0, n>> \notin OwnIds /\ NoId \notin OwnIds
    BY DEF OwnIds, NoId
  <1>1. CASE \E n \in Nat : m = User(n)
    <2>1. PICK n \in Nat : m = User(n)
      BY <1>1
    <2>2. m.uses = <<>> /\ m.role = "user" /\ m.of = <<0, n>>
      BY <2>1 DEF User
    <2>3. Ids(m) = {}
      BY <2>2 DEF Ids
    <2>. QED
      BY <1>0, <1>1, <2>2, <2>3 DEF IsUser, IsTool, Calls
  <1>2. CASE \E us \in Seq(Uses) : m = ToolUses(us)
    <2>1. PICK us \in Seq(Uses) : m = ToolUses(us)
      BY <1>2
    <2>2. m.uses = us /\ m.role = "assistant" /\ m.of = NoId
      BY <2>1 DEF ToolUses
    <2>3. Ids(m) \subseteq OwnIds
      <3>1. \A k \in DOMAIN us : us[k] \in Uses
        BY <2>1, LenProperties, ElementOfSeq
      <3>. QED
        BY <2>2, <3>1 DEF Ids, Uses
    <2>. QED
      BY <1>0, <2>1, <2>2, <2>3 DEF IsUser, IsTool
  <1>3. CASE \E id \in IdSet : m = ToolResult(id)
    <2>1. PICK id \in IdSet : m = ToolResult(id)
      BY <1>3
    <2>2. m.uses = <<>> /\ m.role = "tool" /\ m.of = id
      BY <2>1 DEF ToolResult
    <2>3. Ids(m) = {}
      BY <2>2 DEF Ids
    <2>. QED
      BY <2>1, <2>2, <2>3 DEF IsUser, IsTool, Calls
  <1>. QED
    BY <1>1, <1>2, <1>3 DEF Msgs

\* The messages the engine and the controller build are such messages.
LEMMA MsgTypes ==
    /\ \A n \in Nat : User(n) \in Msgs /\ IsUser(User(n))
    /\ \A us \in Seq(Uses) : ToolUses(us) \in Msgs /\ ~IsUser(ToolUses(us))
                             /\ ~IsTool(ToolUses(us)) /\ ToolUses(us).uses = us
    /\ \A id \in IdSet : ToolResult(id) \in Msgs /\ IsTool(ToolResult(id))
                         /\ ToolResult(id).of = id
    /\ Text = ToolUses(<<>>) /\ Text \in Msgs /\ Pointer \in Msgs
  <1>1. <<>> \in Seq(Uses)
    OBVIOUS
  <1>2. Text = ToolUses(<<>>)
    BY DEF Text, ToolUses
  <1>. QED
    BY <1>1, <1>2 DEF Msgs, Pointer, User, ToolUses, ToolResult, IsUser, IsTool

\* The positions of a transcript.
LEMMA SeqMsgs ==
    ASSUME NEW ms \in Seq(Msgs)
    PROVE  /\ Len(ms) \in Nat /\ DOMAIN ms = 1..Len(ms)
           /\ \A i \in DOMAIN ms : ms[i] \in Msgs
BY LenProperties, ElementOfSeq

----------------------------------------------------------------------------
(* Transcripts that grow.                                                         *)

\* More messages behind those of ms.
Extends(more, ms) ==
    /\ ms \in Seq(Msgs) /\ more \in Seq(Msgs)
    /\ Len(ms) <= Len(more) /\ \A i \in 1..Len(ms) : more[i] = ms[i]
Added(more, ms) == (Len(ms) + 1)..Len(more)

\* A call is in one message only.
LEMMA OneCall ==
    ASSUME NEW ms, Unique(ms), NEW a \in DOMAIN ms, NEW b \in DOMAIN ms, NEW id,
           id \in Ids(ms[a]), id \in Ids(ms[b])
    PROVE  a = b
  <1>1. PICK k \in DOMAIN ms[a].uses : id = ms[a].uses[k].id
    BY DEF Ids
  <1>2. PICK l \in DOMAIN ms[b].uses : id = ms[b].uses[l].id
    BY DEF Ids
  <1>3. ms[a].uses[k].id = ms[b].uses[l].id => a = b /\ k = l
    BY Zenon DEF Unique
  <1>. QED
    BY <1>1, <1>2, <1>3

\* Joined messages come behind those there.
LEMMA ConcatExtends ==
    ASSUME NEW ms \in Seq(Msgs), NEW xs \in Seq(Msgs)
    PROVE  /\ Extends(ms \o xs, ms)
           /\ Len(ms \o xs) = Len(ms) + Len(xs)
           /\ \A i \in 1..Len(xs) : (ms \o xs)[Len(ms) + i] = xs[i]
           /\ \A i \in Added(ms \o xs, ms) :
                i - Len(ms) \in DOMAIN xs /\ (ms \o xs)[i] = xs[i - Len(ms)]
  <1>1. /\ ms \o xs \in Seq(Msgs)
        /\ Len(ms \o xs) = Len(ms) + Len(xs)
        /\ \A i \in 1..(Len(ms) + Len(xs)) :
             (ms \o xs)[i] = IF i <= Len(ms) THEN ms[i] ELSE xs[i - Len(ms)]
    BY ConcatProperties
  <1>2. Len(ms) \in Nat /\ Len(xs) \in Nat /\ DOMAIN xs = 1..Len(xs)
    BY LenProperties
  <1>. QED
    BY <1>1, <1>2 DEF Extends, Added

\* Results behind the last calls keep the transcript chained.
LEMMA ChainedGrows ==
    ASSUME NEW ms, NEW more, Extends(more, ms), Chained(ms),
           \A i \in Added(more, ms) : IsTool(more[i]) /\ more[i].of \in OwnIds =>
               /\ Open(ms, {more[i].of})
               /\ \A k \in Added(more, ms) : k <= i => IsTool(more[k])
    PROVE  Chained(more)
  <1>1. /\ DOMAIN ms = 1..Len(ms) /\ DOMAIN more = 1..Len(more)
        /\ Len(ms) \in Nat /\ Len(more) \in Nat /\ Len(ms) <= Len(more)
        /\ \A i \in 1..Len(ms) : more[i] = ms[i]
    BY SeqMsgs DEF Extends
  <1>. SUFFICES ASSUME NEW i \in DOMAIN more, IsTool(more[i]), more[i].of \in OwnIds
                PROVE  \E a \in DOMAIN more : more[i].of \in Ids(more[a]) /\ Run(more, a, i)
    BY DEF Chained
  <1>2. CASE i <= Len(ms)
    <2>1. i \in DOMAIN ms /\ more[i] = ms[i]
      BY <1>1, <1>2
    <2>2. PICK a \in DOMAIN ms : ms[i].of \in Ids(ms[a]) /\ Run(ms, a, i)
      BY <2>1 DEF Chained
    <2>3. a \in DOMAIN more /\ more[a] = ms[a] /\ Run(more, a, i)
      BY <1>1, <2>1, <2>2 DEF Run
    <2>. QED
      BY <2>1, <2>2, <2>3
  <1>3. CASE i > Len(ms)
    <2>1. i \in Added(more, ms)
      BY <1>1, <1>3 DEF Added
    <2>2. PICK a \in DOMAIN ms : /\ more[i].of \in Ids(ms[a])
                                 /\ \A k \in DOMAIN ms : k > a => IsTool(ms[k])
      BY <2>1 DEF Open
    <2>3. a \in DOMAIN more /\ more[a] = ms[a] /\ a < i
      BY <1>1, <1>3
    <2>4. ASSUME NEW k \in (a + 1)..i PROVE IsTool(more[k])
      <3>1. CASE k <= Len(ms)
        BY <1>1, <2>2, <3>1
      <3>2. CASE k > Len(ms)
        <4>1. k \in Added(more, ms) /\ k <= i
          BY <1>1, <3>2 DEF Added
        <4>. QED
          BY <2>1, <4>1
      <3>. QED
        BY <1>1, <3>1, <3>2
    <2>. QED
      BY <2>2, <2>3, <2>4 DEF Run
  <1>. QED
    BY <1>1, <1>2, <1>3

\* New calls are not among the answered ones, and new answers are in an open run.
LEMMA BehindGrows ==
    ASSUME NEW ms, NEW more, Extends(more, ms), NEW ids, NEW new,
           Behind(ms, ids), Unique(ms),
           \A i \in Added(more, ms) : Ids(more[i]) \cap (ids \cup new) = {},
           \A id \in new : /\ Open(ms, {id})
                           /\ \E i \in Added(more, ms) :
                                /\ more[i].of = id
                                /\ \A k \in Added(more, ms) : k <= i => IsTool(more[k])
    PROVE  Behind(more, ids \cup new)
  <1>1. /\ DOMAIN ms = 1..Len(ms) /\ DOMAIN more = 1..Len(more)
        /\ Len(ms) \in Nat /\ Len(more) \in Nat /\ Len(ms) <= Len(more)
        /\ \A i \in 1..Len(ms) : more[i] = ms[i]
    BY SeqMsgs DEF Extends
  <1>. SUFFICES ASSUME NEW a \in DOMAIN more, NEW id \in Ids(more[a]) \cap (ids \cup new)
                PROVE  \E i \in DOMAIN more : Run(more, a, i) /\ more[i].of = id
    BY DEF Behind
  <1>2. a \in DOMAIN ms /\ more[a] = ms[a]
    <2>1. a \notin Added(more, ms)
      OBVIOUS
    <2>. QED
      BY <1>1, <2>1 DEF Added
  <1>3. CASE id \in ids
    <2>1. PICK i \in DOMAIN ms : Run(ms, a, i) /\ ms[i].of = id
      BY <1>2, <1>3 DEF Behind
    <2>2. i \in DOMAIN more /\ more[i] = ms[i] /\ Run(more, a, i)
      BY <1>1, <1>2, <2>1 DEF Run
    <2>. QED
      BY <2>1, <2>2
  <1>4. CASE id \in new
    <2>1. PICK b \in DOMAIN ms : /\ id \in Ids(ms[b])
                                 /\ \A k \in DOMAIN ms : k > b => IsTool(ms[k])
      BY <1>4 DEF Open
    <2>2. a = b
      BY <1>2, <2>1, OneCall
    <2>3. PICK i \in Added(more, ms) : /\ more[i].of = id
                                       /\ \A k \in Added(more, ms) : k <= i => IsTool(more[k])
      BY <1>4
    <2>4. i \in DOMAIN more /\ a < i
      BY <1>1, <1>2, <2>3 DEF Added
    <2>5. ASSUME NEW k \in (a + 1)..i PROVE IsTool(more[k])
      <3>1. CASE k <= Len(ms)
        BY <1>1, <1>2, <2>1, <2>2, <3>1
      <3>2. CASE k > Len(ms)
        <4>1. k \in Added(more, ms) /\ k <= i
          BY <1>1, <2>4, <3>2 DEF Added
        <4>. QED
          BY <2>3, <4>1
      <3>. QED
        BY <1>1, <1>2, <2>4, <3>1, <3>2
    <2>. QED
      BY <2>3, <2>4, <2>5 DEF Run
  <1>. QED
    BY <1>3, <1>4

\* Results do not end the run behind a call.
LEMMA OpenGrows ==
    ASSUME NEW ms, NEW more, Extends(more, ms), NEW ids, Open(ms, ids),
           \A i \in Added(more, ms) : IsTool(more[i])
    PROVE  Open(more, ids)
  <1>1. /\ DOMAIN ms = 1..Len(ms) /\ DOMAIN more = 1..Len(more)
        /\ Len(ms) \in Nat /\ Len(more) \in Nat /\ Len(ms) <= Len(more)
        /\ \A i \in 1..Len(ms) : more[i] = ms[i]
    BY SeqMsgs DEF Extends
  <1>2. PICK a \in DOMAIN ms : ids \subseteq Ids(ms[a]) /\ \A i \in DOMAIN ms : i > a => IsTool(ms[i])
    BY DEF Open
  <1>3. a \in DOMAIN more /\ more[a] = ms[a]
    BY <1>1
  <1>4. ASSUME NEW i \in DOMAIN more, i > a PROVE IsTool(more[i])
    <2>1. CASE i <= Len(ms)
      BY <1>1, <1>2, <1>4, <2>1
    <2>2. CASE i > Len(ms)
      BY <1>1, <2>2 DEF Added
    <2>. QED
      BY <1>1, <2>1, <2>2
  <1>. QED
    BY <1>2, <1>3, <1>4 DEF Open

\* No call twice in one message.
Distinct(us) == \A k, l \in DOMAIN us : us[k].id = us[l].id => k = l

\* A call is at one place of one message only.
LEMMA OneUse ==
    ASSUME NEW ms, Unique(ms), NEW a \in DOMAIN ms, NEW b \in DOMAIN ms,
           NEW k \in DOMAIN ms[a].uses, NEW l \in DOMAIN ms[b].uses,
           ms[a].uses[k].id = ms[b].uses[l].id
    PROVE  a = b /\ k = l
  BY Zenon DEF Unique

\* Added messages make calls of their own, once each.
LEMMA UniqueGrows ==
    ASSUME NEW ms, NEW more, Extends(more, ms), Unique(ms),
           \A i \in Added(more, ms) :
               /\ Distinct(more[i].uses)
               /\ \A a \in 1..(i - 1) : Ids(more[i]) \cap Ids(more[a]) = {}
    PROVE  Unique(more)
  <1>1. /\ DOMAIN ms = 1..Len(ms) /\ DOMAIN more = 1..Len(more)
        /\ Len(ms) \in Nat /\ Len(more) \in Nat /\ Len(ms) <= Len(more)
        /\ \A i \in 1..Len(ms) : more[i] = ms[i]
    BY SeqMsgs DEF Extends
  <1>. SUFFICES ASSUME NEW a \in DOMAIN more, NEW b \in DOMAIN more,
                       NEW k \in DOMAIN more[a].uses, NEW l \in DOMAIN more[b].uses,
                       more[a].uses[k].id = more[b].uses[l].id
                PROVE  a = b /\ k = l
    BY Zenon DEF Unique
  <1>2. \A i \in DOMAIN more : (i \in DOMAIN ms /\ more[i] = ms[i]) \/ i \in Added(more, ms)
    BY <1>1 DEF Added
  <1>3. more[a].uses[k].id \in Ids(more[a]) /\ more[a].uses[k].id \in Ids(more[b])
    BY DEF Ids
  <1>4. CASE a \in DOMAIN ms /\ b \in DOMAIN ms
    <2>1. more[a] = ms[a] /\ more[b] = ms[b]
      BY <1>1, <1>4
    <2>2. /\ k \in DOMAIN ms[a].uses /\ l \in DOMAIN ms[b].uses
          /\ ms[a].uses[k].id = ms[b].uses[l].id
      BY <2>1
    <2>. QED
      BY <1>4, <2>2, OneUse
  <1>5. CASE a = b /\ a \in Added(more, ms)
    BY <1>5 DEF Distinct
  <1>6. CASE a < b /\ b \in Added(more, ms)
    <2>1. a \in 1..(b - 1)
      BY <1>1, <1>6
    <2>2. Ids(more[b]) \cap Ids(more[a]) = {}
      BY <1>6, <2>1
    <2>. QED
      BY <1>3, <2>2
  <1>7. CASE b < a /\ a \in Added(more, ms)
    <2>1. b \in 1..(a - 1)
      BY <1>1, <1>7
    <2>2. Ids(more[a]) \cap Ids(more[b]) = {}
      BY <1>7, <2>1
    <2>. QED
      BY <1>3, <2>2
  <1>8. a < b \/ b < a \/ a = b
    BY <1>1
  <1>9. CASE a = b
    BY <1>2, <1>4, <1>5, <1>9
  <1>10. CASE a < b
    <2>1. b \in DOMAIN ms => a \in DOMAIN ms
      BY <1>1, <1>10
    <2>. QED
      BY <1>2, <1>4, <1>6, <1>10, <2>1
  <1>11. CASE b < a
    <2>1. a \in DOMAIN ms => b \in DOMAIN ms
      BY <1>1, <1>11
    <2>. QED
      BY <1>2, <1>4, <1>7, <1>11, <2>1
  <1>. QED
    BY <1>8, <1>9, <1>10, <1>11

\* The positions of what the user said.
Spoken(ms) == {i \in DOMAIN ms : IsUser(ms[i]) /\ ms[i] # Pointer}

\* The number of the user's messages.
LEMMA UsersType ==
    ASSUME NEW ms \in Seq(Msgs)
    PROVE  /\ Users(ms) = Cardinality(Spoken(ms)) /\ Users(ms) \in Nat
           /\ IsFiniteSet(Spoken(ms))
  <1>1. IsFiniteSet(DOMAIN ms)
    BY SeqMsgs, FS_Interval
  <1>2. IsFiniteSet(Spoken(ms))
    BY <1>1, FS_Subset DEF Spoken
  <1>. QED
    BY <1>2, FS_CardinalityType DEF Users, Spoken

\* Messages of the engine leave what the user said as it is.
LEMMA UsersStay ==
    ASSUME NEW ms, NEW more, Extends(more, ms), NEW m, Instructed(ms, m),
           \A i \in Added(more, ms) : ~IsUser(more[i])
    PROVE  Users(more) = Users(ms) /\ Instructed(more, m)
  <1>1. /\ DOMAIN ms = 1..Len(ms) /\ DOMAIN more = 1..Len(more)
        /\ Len(ms) \in Nat /\ Len(more) \in Nat /\ Len(ms) <= Len(more)
        /\ \A i \in 1..Len(ms) : more[i] = ms[i]
    BY SeqMsgs DEF Extends
  <1>2. \A i \in DOMAIN more : (i \in DOMAIN ms /\ more[i] = ms[i]) \/ i \in Added(more, ms)
    BY <1>1 DEF Added
  <1>3. Spoken(more) = Spoken(ms)
    BY <1>1, <1>2 DEF Spoken
  <1>4. PICK p \in DOMAIN ms : ms[p] = m /\ \A i \in DOMAIN ms : i > p => ~IsUser(ms[i])
    BY DEF Instructed
  <1>5. p \in DOMAIN more /\ more[p] = m
    BY <1>1, <1>4
  <1>6. \A i \in DOMAIN more : i > p => ~IsUser(more[i])
    BY <1>1, <1>2, <1>4
  <1>. QED
    BY <1>3, <1>5, <1>6 DEF Users, Spoken, Instructed

\* The user's new messages are numbered on from those there: the last is the last one
\* there is.
LEMMA UsersSpeak ==
    ASSUME NEW ms \in Seq(Msgs), NEW n \in Nat \ {0},
           NEW more, more = ms \o [k \in 1..n |-> User(Users(ms) + k)]
    PROVE  /\ Extends(more, ms) /\ Instructed(more, User(Users(more)))
           /\ \A i \in Added(more, ms) : more[i] \in Msgs /\ IsUser(more[i])
  <1>. DEFINE u == Users(ms)
              xs == [k \in 1..n |-> User(u + k)]
  <1>1. u \in Nat /\ \A k \in 1..n : User(u + k) \in Msgs /\ IsUser(User(u + k))
    BY UsersType, MsgTypes
  <1>2. xs \in Seq(Msgs) /\ Len(xs) = n /\ \A k \in 1..n : xs[k] = User(u + k)
    BY <1>1
  <1>3. /\ Extends(more, ms)
        /\ Len(more) = Len(ms) + n
        /\ \A k \in 1..n : more[Len(ms) + k] = User(u + k)
    BY <1>2, ConcatExtends
  <1>. HIDE DEF xs, u
  <1>4. /\ DOMAIN ms = 1..Len(ms) /\ DOMAIN more = 1..Len(more) /\ Len(ms) \in Nat
        /\ \A i \in 1..Len(ms) : more[i] = ms[i]
    BY <1>3, SeqMsgs DEF Extends
  <1>5. \A i \in Added(more, ms) : i - Len(ms) \in 1..n /\ more[i] = User(u + (i - Len(ms)))
    <2>. SUFFICES ASSUME NEW i \in Added(more, ms)
                  PROVE  i - Len(ms) \in 1..n /\ more[i] = User(u + (i - Len(ms)))
      OBVIOUS
    <2>1. i - Len(ms) \in 1..n /\ i = Len(ms) + (i - Len(ms))
      BY <1>3, <1>4 DEF Added
    <2>2. more[Len(ms) + (i - Len(ms))] = User(u + (i - Len(ms)))
      BY <1>3, <2>1
    <2>. QED
      BY <2>1, <2>2
  <1>6. \A i \in Added(more, ms) : more[i] \in Msgs /\ IsUser(more[i]) /\ more[i] # Pointer
    <2>1. \A k \in 1..n : User(u + k) # Pointer
      BY <1>1 DEF User, Pointer
    <2>. QED
      BY <1>1, <1>5, <2>1
  <1>7. Spoken(more) = Spoken(ms) \cup Added(more, ms)
    <2>1. DOMAIN more = DOMAIN ms \cup Added(more, ms)
      BY <1>3, <1>4 DEF Added
    <2>. QED
      BY <1>4, <1>6, <2>1 DEF Spoken
  <1>8. Cardinality(Spoken(more)) = u + n
    <2>1. Spoken(ms) \cap Added(more, ms) = {}
      BY <1>4 DEF Spoken, Added
    <2>2. IsFiniteSet(Added(more, ms)) /\ Cardinality(Added(more, ms)) = n
      <3>1. Added(more, ms) = (Len(ms) + 1)..(Len(ms) + n)
        BY <1>3 DEF Added
      <3>2. Len(ms) + 1 \in Int /\ Len(ms) + n \in Int /\ Len(ms) + 1 <= Len(ms) + n
            /\ (Len(ms) + n) - (Len(ms) + 1) + 1 = n
        BY <1>4
      <3>. QED
        BY <3>1, <3>2, FS_Interval
    <2>3. Cardinality(Spoken(ms) \cup Added(more, ms))
            = Cardinality(Spoken(ms)) + Cardinality(Added(more, ms)) - Cardinality(Spoken(ms) \cap Added(more, ms))
      BY <2>2, UsersType, FS_Union
    <2>4. Cardinality(Spoken(ms) \cap Added(more, ms)) = 0
      BY <2>1, FS_EmptySet
    <2>5. Cardinality(Spoken(ms)) = u
      BY UsersType DEF u
    <2>6. u \in Nat /\ Cardinality(Spoken(more)) = Cardinality(Spoken(ms) \cup Added(more, ms))
      BY <1>1, <1>7
    <2>7. Cardinality(Spoken(ms) \cup Added(more, ms)) = u + n - 0
      BY <2>2, <2>3, <2>4, <2>5
    <2>. QED
      BY <2>6, <2>7
  <1>9. Users(more) = u + n
    BY <1>3, <1>8, UsersType DEF Extends
  <1>10. /\ Len(ms) + n \in DOMAIN more /\ more[Len(ms) + n] = User(u + n)
         /\ \A i \in DOMAIN more : ~(i > Len(ms) + n)
    BY <1>3, <1>4
  <1>11. Instructed(more, User(u + n))
    BY <1>10 DEF Instructed
  <1>. QED
    BY <1>3, <1>6, <1>9, <1>11

CallIds(ms) == UNION {Ids(ms[i]) : i \in DOMAIN ms}
IdsOf(us) == {us[k].id : k \in DOMAIN us}

\* The calls of this transcript, as the controller looks them up.
LEMMA OwnCallIds ==
    ASSUME messages \in Seq(Msgs)
    PROVE  OwnCalls = CallIds(messages)
  <1>1. \A i \in DOMAIN messages : \A u : u \in ToSet(messages[i].uses) <=>
          \E k \in DOMAIN messages[i].uses : u = messages[i].uses[k]
    BY DEF ToSet
  <1>2. \A u : u \in UsesIn(messages) <=> \E i \in DOMAIN messages : u \in ToSet(messages[i].uses)
    BY Zenon DEF UsesIn
  <1>4. \A id : id \in OwnCalls <=> \E i \in DOMAIN messages : \E k \in DOMAIN messages[i].uses :
          id = messages[i].uses[k].id
    <2>. SUFFICES ASSUME NEW id
                  PROVE  id \in OwnCalls <=> \E i \in DOMAIN messages :
                           \E k \in DOMAIN messages[i].uses : id = messages[i].uses[k].id
      OBVIOUS
    <2>1. id \in OwnCalls <=> \E u \in UsesIn(messages) : id = u.id
      BY Zenon DEF OwnCalls
    <2>2. ASSUME id \in OwnCalls
          PROVE  \E i \in DOMAIN messages : \E k \in DOMAIN messages[i].uses :
                   id = messages[i].uses[k].id
      <3>1. PICK u \in UsesIn(messages) : id = u.id
        BY <2>1, <2>2
      <3>2. PICK i \in DOMAIN messages : u \in ToSet(messages[i].uses)
        BY <1>2
      <3>3. PICK k \in DOMAIN messages[i].uses : u = messages[i].uses[k]
        BY <1>1, <3>2
      <3>. QED
        BY <3>1, <3>3
    <2>3. ASSUME NEW i \in DOMAIN messages, NEW k \in DOMAIN messages[i].uses,
                 id = messages[i].uses[k].id
          PROVE  id \in OwnCalls
      <3>1. messages[i].uses[k] \in ToSet(messages[i].uses)
        BY <1>1
      <3>2. messages[i].uses[k] \in UsesIn(messages)
        BY <1>2, <3>1
      <3>. QED
        BY <2>1, <2>3, <3>2
    <2>. QED
      BY <2>2, <2>3
  <1>3. \A id : id \in CallIds(messages) <=> \E i \in DOMAIN messages :
          \E k \in DOMAIN messages[i].uses : id = messages[i].uses[k].id
    BY DEF CallIds, Ids
  <1>. QED
    BY <1>3, <1>4

\* Added messages add their calls.
LEMMA CallIdsGrow ==
    ASSUME NEW ms, NEW more, Extends(more, ms)
    PROVE  /\ CallIds(ms) \subseteq CallIds(more)
           /\ \A id \in CallIds(more) : id \in CallIds(ms) \/ \E i \in Added(more, ms) : id \in Ids(more[i])
  <1>1. /\ DOMAIN ms = 1..Len(ms) /\ DOMAIN more = 1..Len(more)
        /\ Len(ms) \in Nat /\ Len(more) \in Nat /\ Len(ms) <= Len(more)
        /\ \A i \in 1..Len(ms) : more[i] = ms[i]
    BY SeqMsgs DEF Extends
  <1>2. \A i \in DOMAIN more : (i \in DOMAIN ms /\ more[i] = ms[i]) \/ i \in Added(more, ms)
    BY <1>1 DEF Added
  <1>3. \A i \in DOMAIN ms : i \in DOMAIN more /\ more[i] = ms[i]
    BY <1>1
  <1>. QED
    BY <1>2, <1>3 DEF CallIds

\* The messages up to one that calls tools, or to the last before it, are as good as all.
LEMMA PrefixKeeps ==
    ASSUME NEW ms \in Seq(Msgs), NEW n \in 0..Len(ms), NEW head, head = SubSeq(ms, 1, n)
    PROVE  /\ Extends(ms, head) /\ Len(head) = n /\ head \in Seq(Msgs)
           /\ \A i \in 1..n : head[i] = ms[i]
           /\ Chained(ms) => Chained(head)
           /\ Unique(ms) => Unique(head)
           /\ CallIds(head) \subseteq CallIds(ms)
  <1>1. Len(ms) \in Nat /\ DOMAIN ms = 1..Len(ms) /\ \A i \in 1..n : ms[i] \in Msgs
    BY SeqMsgs
  <1>2. head \in Seq(Msgs) /\ Len(head) = n /\ \A i \in 1..n : head[i] = ms[i]
    BY <1>1, SubSeqProperties
  <1>3. DOMAIN head = 1..n
    BY <1>2, SeqMsgs
  <1>4. Extends(ms, head)
    BY <1>1, <1>2 DEF Extends
  <1>5. ASSUME Chained(ms) PROVE Chained(head)
    <2>. SUFFICES ASSUME NEW i \in DOMAIN head, IsTool(head[i]), head[i].of \in OwnIds
                  PROVE  \E a \in DOMAIN head : head[i].of \in Ids(head[a]) /\ Run(head, a, i)
      BY DEF Chained
    <2>1. i \in DOMAIN ms /\ head[i] = ms[i]
      BY <1>1, <1>2, <1>3
    <2>2. PICK a \in DOMAIN ms : ms[i].of \in Ids(ms[a]) /\ Run(ms, a, i)
      BY <1>5, <2>1 DEF Chained
    <2>3. a \in DOMAIN head /\ head[a] = ms[a] /\ Run(head, a, i)
      BY <1>1, <1>2, <1>3, <2>2 DEF Run
    <2>. QED
      BY <2>1, <2>2, <2>3
  <1>6. ASSUME Unique(ms) PROVE Unique(head)
    <2>. SUFFICES ASSUME NEW a \in DOMAIN head, NEW b \in DOMAIN head,
                         NEW k \in DOMAIN head[a].uses, NEW l \in DOMAIN head[b].uses,
                         head[a].uses[k].id = head[b].uses[l].id
                  PROVE  a = b /\ k = l
      BY Zenon DEF Unique
    <2>1. a \in DOMAIN ms /\ b \in DOMAIN ms /\ head[a] = ms[a] /\ head[b] = ms[b]
      BY <1>1, <1>2, <1>3
    <2>2. k \in DOMAIN ms[a].uses /\ l \in DOMAIN ms[b].uses
          /\ ms[a].uses[k].id = ms[b].uses[l].id
      BY <2>1
    <2>. QED
      BY <1>6, <2>1, <2>2, OneUse
  <1>7. CallIds(head) \subseteq CallIds(ms)
    BY <1>4, CallIdsGrow
  <1>. QED
    BY <1>2, <1>4, <1>5, <1>6, <1>7

\* A call with a result is not the last message.
LEMMA BehindPrefix ==
    ASSUME NEW ms \in Seq(Msgs), NEW a \in DOMAIN ms, ~IsTool(ms[a]), NEW ids, Behind(ms, ids),
           NEW n \in {a - 1, a}, NEW head, head = SubSeq(ms, 1, n)
    PROVE  Behind(head, IF n = a THEN ids \ Ids(ms[a]) ELSE ids)
  <1>1. Len(ms) \in Nat /\ DOMAIN ms = 1..Len(ms) /\ n \in 0..Len(ms)
    BY SeqMsgs
  <1>2. head \in Seq(Msgs) /\ Len(head) = n /\ \A i \in 1..n : head[i] = ms[i]
    BY <1>1, PrefixKeeps
  <1>3. DOMAIN head = 1..n
    BY <1>2, SeqMsgs
  <1>. SUFFICES ASSUME NEW b \in DOMAIN head,
                       NEW id \in Ids(head[b]) \cap (IF n = a THEN ids \ Ids(ms[a]) ELSE ids)
                PROVE  \E i \in DOMAIN head : Run(head, b, i) /\ head[i].of = id
    BY DEF Behind
  <1>4. b \in DOMAIN ms /\ head[b] = ms[b] /\ id \in ids
    BY <1>1, <1>2, <1>3
  <1>5. b < a
    <2>1. b <= n /\ n <= a
      BY <1>1, <1>3
    <2>2. b # a
      BY <1>1, <1>3, <1>4
    <2>. QED
      BY <1>1, <1>3, <2>1, <2>2
  <1>6. PICK i \in DOMAIN ms : Run(ms, b, i) /\ ms[i].of = id
    BY <1>4 DEF Behind
  <1>7. i < a
    <2>1. ASSUME a <= i PROVE FALSE
      <3>1. a \in (b + 1)..i
        BY <1>1, <1>4, <1>5, <2>1
      <3>. QED
        BY <1>6, <3>1 DEF Run
    <2>. QED
      BY <1>1, <2>1
  <1>8. i \in DOMAIN head /\ head[i] = ms[i] /\ Run(head, b, i)
    BY <1>1, <1>2, <1>3, <1>4, <1>6, <1>7 DEF Run
  <1>. QED
    BY <1>6, <1>8

\* A prefix that holds all the user's messages ends with the same instruction.
LEMMA UsersPrefix ==
    ASSUME NEW ms \in Seq(Msgs), NEW n \in 0..Len(ms), NEW head, head = SubSeq(ms, 1, n),
           NEW m, Instructed(ms, m), \A i \in (n + 1)..Len(ms) : ~IsUser(ms[i]), IsUser(m)
    PROVE  Users(head) = Users(ms) /\ Instructed(head, m)
  <1>1. Len(ms) \in Nat /\ DOMAIN ms = 1..Len(ms)
    BY SeqMsgs
  <1>2. Extends(ms, head) /\ Len(head) = n /\ \A i \in 1..n : head[i] = ms[i]
    BY PrefixKeeps
  <1>3. DOMAIN head = 1..n
    BY <1>2, SeqMsgs DEF Extends
  <1>4. PICK p \in DOMAIN ms : ms[p] = m /\ \A i \in DOMAIN ms : i > p => ~IsUser(ms[i])
    BY DEF Instructed
  <1>5. p \in 1..n
    BY <1>1, <1>4
  <1>6. Instructed(head, m)
    BY <1>1, <1>2, <1>3, <1>4, <1>5 DEF Instructed
  <1>7. \A i \in Added(ms, head) : ~IsUser(ms[i])
    BY <1>2 DEF Added
  <1>. QED
    BY <1>2, <1>6, <1>7, UsersStay

----------------------------------------------------------------------------
(* drop_pond_tool_attempt, splice_child_results, and results put behind their calls.*)

\* Forgetting a call leaves the others of its message, once each.
LEMMA KeptUses ==
    ASSUME NEW us \in Seq(Uses), us # <<>>, Distinct(us), NEW id,
           NEW kept, kept = FlattenSeq([k \in DOMAIN us |-> IF us[k].id = id THEN <<>> ELSE <<us[k]>>])
    PROVE  kept \in Seq(Uses) /\ Distinct(kept) /\ IdsOf(kept) = IdsOf(us) \ {id}
  <1>. DEFINE n == Len(us)
              s == [k \in 1..n |-> IF us[k].id = id THEN <<>> ELSE <<us[k]>>]
              G == [m \in 1..n |-> {x \in Seq(Uses) :
                       Distinct(x) /\ IdsOf(x) = {us[k].id : k \in 1..m} \ {id}}]
  <1>1. n \in Nat \ {0} /\ DOMAIN us = 1..n /\ \A k \in 1..n : us[k] \in Uses
    BY LenProperties, ElementOfSeq, EmptySeq
  <1>2. Len(s) = n /\ kept = FlattenSeq(s)
    BY <1>1
  <1>3. \A k \in 1..n : <<us[k]>> \in Seq(Uses) /\ Distinct(<<us[k]>>) /\ IdsOf(<<us[k]>>) = {us[k].id}
    <2>. SUFFICES ASSUME NEW k \in 1..n
                  PROVE  <<us[k]>> \in Seq(Uses) /\ Distinct(<<us[k]>>) /\ IdsOf(<<us[k]>>) = {us[k].id}
      OBVIOUS
    <2>1. DOMAIN <<us[k]>> = {1} /\ <<us[k]>>[1] = us[k]
      OBVIOUS
    <2>. QED
      BY <1>1, <2>1 DEF Distinct, IdsOf
  <1>4. <<>> \in Seq(Uses) /\ Distinct(<<>>) /\ IdsOf(<<>>) = {}
    BY DEF Distinct, IdsOf
  <1>5. s[1] \in G[1]
    <2>1. 1 \in 1..n /\ {us[k].id : k \in 1..1} = {us[1].id}
      BY <1>1
    <2>. QED
      BY <1>3, <1>4, <2>1
  <1>6. ASSUME NEW m \in 2..n, NEW x \in G[m - 1] PROVE x \o s[m] \in G[m]
    <2>1. m - 1 \in 1..n /\ m \in 1..n /\ 1..m = 1..(m - 1) \cup {m}
      BY <1>1
    <2>2. x \in Seq(Uses) /\ Distinct(x) /\ IdsOf(x) = {us[k].id : k \in 1..(m - 1)} \ {id}
      BY <2>1, <1>6
    <2>3. {us[k].id : k \in 1..m} = {us[k].id : k \in 1..(m - 1)} \cup {us[m].id}
      BY <2>1
    <2>4. CASE us[m].id = id
      <3>1. x \o s[m] = x
        BY <2>1, <2>2, <2>4, ConcatEmptySeq
      <3>2. IdsOf(x) = {us[k].id : k \in 1..m} \ {id}
        BY <2>2, <2>3, <2>4
      <3>. QED
        BY <2>1, <2>2, <3>1, <3>2
    <2>5. CASE us[m].id # id
      <3>1. s[m] = <<us[m]>>
        BY <2>1, <2>5
      <3>2. /\ x \o <<us[m]>> \in Seq(Uses)
            /\ Len(x \o <<us[m]>>) = Len(x) + 1
            /\ \A i \in 1..(Len(x) + 1) :
                 (x \o <<us[m]>>)[i] = IF i <= Len(x) THEN x[i] ELSE us[m]
        BY <1>1, <2>1, <2>2
      <3>3. DOMAIN x = 1..Len(x) /\ Len(x) \in Nat /\ DOMAIN (x \o <<us[m]>>) = 1..(Len(x) + 1)
        BY <2>2, <3>2, LenProperties
      <3>. DEFINE y == x \o <<us[m]>>
      <3>4. IdsOf(y) = IdsOf(x) \cup {us[m].id}
        <4>1. \A i \in DOMAIN x : i \in DOMAIN y /\ y[i] = x[i]
          BY <3>2, <3>3
        <4>2. Len(x) + 1 \in DOMAIN y /\ y[Len(x) + 1] = us[m]
          BY <3>2, <3>3
        <4>3. \A i \in DOMAIN y : i \in DOMAIN x \/ i = Len(x) + 1
          BY <3>3
        <4>. HIDE DEF y
        <4>. QED
          BY <4>1, <4>2, <4>3 DEF IdsOf
      <3>5. us[m].id \notin IdsOf(x)
        <4>1. \A k \in 1..(m - 1) : us[k].id # us[m].id
          BY <1>1, <2>1 DEF Distinct
        <4>. QED
          BY <2>2, <4>1
      <3>6. Distinct(y)
        <4>1. \A i \in DOMAIN x : x[i].id \in IdsOf(x)
          BY DEF IdsOf
        <4>2. \A i \in DOMAIN y : (i \in DOMAIN x /\ y[i] = x[i]) \/ (i = Len(x) + 1 /\ y[i] = us[m])
          BY <3>2, <3>3
        <4>. HIDE DEF y
        <4>. SUFFICES ASSUME NEW i \in DOMAIN y, NEW j \in DOMAIN y, y[i].id = y[j].id
                      PROVE  i = j
          BY DEF Distinct
        <4>. QED
          BY <2>2, <3>5, <4>1, <4>2 DEF Distinct
      <3>7. IdsOf(y) = {us[k].id : k \in 1..m} \ {id}
        BY <2>2, <2>3, <2>5, <3>4
      <3>. QED
        BY <2>1, <3>1, <3>2, <3>6, <3>7
    <2>. QED
      BY <2>4, <2>5
  <1>. HIDE DEF G, s
  <1>7. FlattenSeq(s) \in G[n]
    BY <1>1, <1>2, <1>5, <1>6, FlattenSteps
  <1>8. n \in 1..n /\ IdsOf(us) = {us[k].id : k \in 1..n}
    BY <1>1 DEF IdsOf
  <1>9. kept \in Seq(Uses) /\ Distinct(kept) /\ IdsOf(kept) = {us[k].id : k \in 1..n} \ {id}
    BY <1>2, <1>7, <1>8 DEF G
  <1>. QED
    BY <1>8, <1>9

\* A transcript in which these calls are answered.
Sound(ms, ids) ==
    /\ ms \in Seq(Msgs) /\ Len(ms) > 0 /\ ms[1] = User(1)
    /\ Instructed(ms, User(Users(ms)))
    /\ Unique(ms) /\ Chained(ms) /\ Behind(ms, ids)
    /\ ids \subseteq CallIds(ms)

\* Only an assistant's message makes a call.
LEMMA CallFacts ==
    ASSUME NEW m \in Msgs, NEW id \in Ids(m)
    PROVE  Calls(m) /\ ~IsTool(m) /\ ~IsUser(m) /\ m = ToolUses(m.uses)
           /\ m.uses # <<>> /\ m.uses \in Seq(Uses) /\ id \in OwnIds
  <1>1. m.uses # <<>>
    BY DEF Ids
  <1>. QED
    BY <1>1, MsgFacts DEF Calls

\* drop_pond_tool_attempt: a failed attempt that has no result goes, and takes no other
\* call's result with it.
LEMMA DropKeeps ==
    ASSUME NEW ms, NEW ids, Sound(ms, ids), NEW id, NEW more, more = drop_pond_tool_attempt(ms, id)
    PROVE  /\ Sound(more, ids) /\ CallIds(more) \subseteq CallIds(ms)
           /\ \A S : Open(ms, S \cup {id}) /\ id \notin S /\ S # {} => Open(more, S)
  <1>. DEFINE n == Len(ms)
  <1>1. /\ ms \in Seq(Msgs) /\ n = Len(ms) /\ n \in Nat \ {0} /\ DOMAIN ms = 1..n
        /\ \A i \in DOMAIN ms : ms[i] \in Msgs
        /\ n - 1 \in 0..n /\ n - 1 # n
    BY SeqMsgs DEF Sound
  <1>. HIDE DEF n
  <1>2. CASE id \notin Ids(ms[n])
    <2>1. more = ms
      BY <1>2 DEF drop_pond_tool_attempt, Last, n
    <2>2. \A S : Open(ms, S \cup {id}) => Open(ms, S)
      BY DEF Open
    <2>. QED
      BY <2>1, <2>2
  <1>3. CASE id \in Ids(ms[n])
    <2>. DEFINE us == ms[n].uses
                kept == FlattenSeq([k \in DOMAIN us |-> IF us[k].id = id THEN <<>> ELSE <<us[k]>>])
                head == SubSeq(ms, 1, n - 1)
    <2>1. n \in DOMAIN ms /\ ms[n] \in Msgs
      BY <1>1
    <2>2. us # <<>> /\ us \in Seq(Uses) /\ ~IsTool(ms[n]) /\ ~IsUser(ms[n])
      BY <1>3, <2>1, CallFacts
    <2>3. Distinct(us)
      BY <2>1 DEF Sound, Unique, Distinct
    <2>4. kept \in Seq(Uses) /\ Distinct(kept) /\ IdsOf(kept) = Ids(ms[n]) \ {id}
      <3>1. IdsOf(us) = Ids(ms[n])
        BY DEF IdsOf, Ids
      <3>. HIDE DEF us
      <3>. QED
        BY <2>2, <2>3, <3>1, KeptUses
    <2>5. more = IF kept = <<>> THEN head ELSE Append(head, ToolUses(kept))
      BY <1>3 DEF drop_pond_tool_attempt, Last, Front, n
    <2>. HIDE DEF us, kept, head
    <2>6. n - 1 \in 0..n /\ n # 1
      <3>1. IsUser(ms[1])
        BY MsgTypes DEF Sound
      <3>. QED
        BY <1>1, <2>2, <3>1
    <2>7. /\ head \in Seq(Msgs) /\ Len(head) = n - 1 /\ \A i \in 1..(n - 1) : head[i] = ms[i]
          /\ Chained(head) /\ Unique(head) /\ CallIds(head) \subseteq CallIds(ms) /\ Extends(ms, head)
      <3>1. n - 1 \in 0..Len(ms) /\ head = SubSeq(ms, 1, n - 1)
        BY <1>1 DEF head
      <3>2. Chained(ms) /\ Unique(ms)
        BY DEF Sound
      <3>3. PICK h \in 0..Len(ms) : h = n - 1
        BY <3>1
      <3>4. head = SubSeq(ms, 1, h) /\ ms \in Seq(Msgs)
        BY <1>1, <3>1, <3>3
      <3>5. /\ head \in Seq(Msgs) /\ Len(head) = h /\ \A i \in 1..h : head[i] = ms[i]
            /\ Chained(head) /\ Unique(head) /\ CallIds(head) \subseteq CallIds(ms) /\ Extends(ms, head)
        BY <3>2, <3>4, PrefixKeeps
      <3>. QED
        BY <3>3, <3>5
    <2>8. Users(head) = Users(ms) /\ Instructed(head, User(Users(ms)))
      <3>1. Users(ms) \in Nat /\ IsUser(User(Users(ms)))
        BY <1>1, UsersType, MsgTypes
      <3>2. \A i \in ((n - 1) + 1)..n : ~IsUser(ms[i])
        BY <1>1, <2>2
      <3>3. Instructed(ms, User(Users(ms)))
        BY DEF Sound
      <3>4. n - 1 \in 0..Len(ms) /\ head = SubSeq(ms, 1, n - 1)
            /\ \A i \in ((n - 1) + 1)..Len(ms) : ~IsUser(ms[i])
        BY <1>1, <3>2 DEF head
      <3>. QED
        BY <1>1, <3>1, <3>3, <3>4, UsersPrefix
    <2>9. Behind(head, ids)
      <3>1. n - 1 # n /\ n - 1 \in {n - 1, n}
        BY <1>1
      <3>2. Behind(ms, ids)
        BY DEF Sound
      <3>3. Behind(head, IF n - 1 = n THEN ids \ Ids(ms[n]) ELSE ids)
        BY <1>1, <2>1, <2>2, <3>1, <3>2, BehindPrefix DEF head
      <3>. QED
        BY <3>1, <3>3
    <2>10. ids \cap Ids(ms[n]) = {}
      <3>. SUFFICES ASSUME NEW x \in Ids(ms[n]) \cap ids PROVE FALSE
        OBVIOUS
      <3>1. PICK i \in DOMAIN ms : Run(ms, n, i)
        BY <2>1 DEF Sound, Behind
      <3>. QED
        BY <1>1, <3>1 DEF Run
    <2>11. ids \subseteq CallIds(head)
      <3>. SUFFICES ASSUME NEW x \in ids PROVE x \in CallIds(head)
        OBVIOUS
      <3>1. PICK a \in DOMAIN ms : x \in Ids(ms[a])
        BY DEF Sound, CallIds
      <3>2. a # n
        BY <2>10, <3>1
      <3>3. a \in DOMAIN head /\ head[a] = ms[a]
        BY <1>1, <2>7, <3>2, SeqMsgs
      <3>. QED
        BY <3>1, <3>3 DEF CallIds
    <2>12. Len(head) > 0 /\ head[1] = User(1)
      BY <1>1, <2>6, <2>7 DEF Sound
    <2>13. ASSUME NEW S, Open(ms, S \cup {id}), id \notin S PROVE S \subseteq IdsOf(kept)
      <3>1. PICK a \in DOMAIN ms : S \cup {id} \subseteq Ids(ms[a])
        BY <2>13 DEF Open
      <3>2. a = n
        <4>1. Unique(ms) /\ id \in Ids(ms[a])
          BY <3>1 DEF Sound
        <4>. QED
          BY <1>3, <2>1, <4>1, OneCall
      <3>. QED
        BY <2>4, <2>13, <3>1, <3>2
    <2>14. CASE kept = <<>>
      <3>1. more = head
        BY <2>5, <2>14
      <3>2. IdsOf(kept) = {}
        BY <2>14 DEF IdsOf
      <3>3. Sound(more, ids)
        BY <2>7, <2>8, <2>9, <2>11, <2>12, <3>1 DEF Sound
      <3>. QED
        BY <2>7, <2>13, <3>1, <3>2, <3>3
    <2>15. CASE kept # <<>>
      <3>. DEFINE m == ToolUses(kept)
      <3>1. m \in Msgs /\ ~IsUser(m) /\ ~IsTool(m) /\ m.uses = kept
        BY <2>4, MsgTypes
      <3>2. Ids(m) = IdsOf(kept)
        BY <3>1 DEF Ids, IdsOf
      <3>. HIDE DEF m
      <3>3. /\ more \in Seq(Msgs) /\ Len(more) = n /\ more[n] = m
            /\ \A i \in 1..(n - 1) : more[i] = head[i]
        BY <1>1, <2>5, <2>7, <2>15, <3>1, AppendProperties DEF m
      <3>4. Extends(more, head) /\ Added(more, head) = {n}
        BY <1>1, <2>7, <3>3 DEF Extends, Added
      <3>5. Chained(more)
        BY <2>7, <3>1, <3>3, <3>4, ChainedGrows
      <3>6. Behind(more, ids)
        <4>1. Behind(more, ids \cup {})
          <5>1. \A i \in Added(more, head) : Ids(more[i]) \cap (ids \cup {}) = {}
            BY <2>4, <2>10, <3>2, <3>3, <3>4
          <5>. QED
            BY <2>7, <2>9, <3>4, <5>1, BehindGrows
        <4>. QED
          BY <4>1
      <3>7. Unique(more)
        <4>1. \A i \in Added(more, head) : \A a \in DOMAIN head : Ids(more[i]) \cap Ids(head[a]) = {}
          <5>. SUFFICES ASSUME NEW a \in DOMAIN head, NEW x \in Ids(m) \cap Ids(head[a]) PROVE FALSE
            BY <3>3, <3>4
          <5>1. a \in DOMAIN ms /\ a # n /\ head[a] = ms[a]
            BY <1>1, <2>7, SeqMsgs
          <5>2. x \in Ids(ms[n]) /\ x \in Ids(ms[a]) /\ Unique(ms)
            BY <2>4, <3>2, <5>1 DEF Sound
          <5>. QED
            BY <2>1, <5>1, <5>2, OneCall
        <4>2. Distinct(more[n].uses)
          BY <2>4, <3>1, <3>3
        <4>3. \A i \in 1..(n - 1) : Ids(more[n]) \cap Ids(more[i]) = {}
          BY <2>7, <3>3, <3>4, <4>1, SeqMsgs
        <4>4. \A i \in Added(more, head) :
                /\ Distinct(more[i].uses)
                /\ \A c \in 1..(i - 1) : Ids(more[i]) \cap Ids(more[c]) = {}
          BY <3>4, <4>2, <4>3
        <4>. QED
          BY <2>7, <3>4, <4>4, UniqueGrows
      <3>8. Users(more) = Users(head) /\ Instructed(more, User(Users(ms)))
        BY <2>8, <3>1, <3>3, <3>4, UsersStay
      <3>9. CallIds(head) \subseteq CallIds(more) /\ CallIds(more) \subseteq CallIds(ms)
        <4>1. CallIds(head) \subseteq CallIds(more)
              /\ \A x \in CallIds(more) : x \in CallIds(head) \/ x \in Ids(m)
          BY <3>3, <3>4, CallIdsGrow
        <4>2. Ids(m) \subseteq CallIds(ms)
          BY <2>1, <2>4, <3>2 DEF CallIds
        <4>. QED
          BY <2>7, <4>1, <4>2
      <3>10. Sound(more, ids)
        <4>1. Len(more) > 0 /\ more[1] = User(1)
          BY <1>1, <2>6, <2>7, <2>12, <3>3
        <4>. QED
          BY <2>8, <2>11, <3>3, <3>5, <3>6, <3>7, <3>8, <3>9, <4>1 DEF Sound
      <3>11. ASSUME NEW S, S \subseteq IdsOf(kept) PROVE Open(more, S)
        <4>1. n \in DOMAIN more /\ S \subseteq Ids(more[n]) /\ \A i \in DOMAIN more : ~(i > n)
          BY <1>1, <3>2, <3>3, <3>11, SeqMsgs
        <4>. QED
          BY <4>1 DEF Open
      <3>. QED
        BY <2>13, <3>9, <3>10, <3>11
    <2>. QED
      BY <2>14, <2>15
  <1>. QED
    BY <1>2, <1>3

\* The results of some of the calls of a message, in call order.
LEMMA ResultsOf ==
    ASSUME NEW us \in Seq(Uses), us # <<>>, NEW K, K \subseteq DOMAIN us,
           NEW flat,
           flat = FlattenSeq([k \in DOMAIN us |-> IF k \in K THEN <<ToolResult(us[k].id)>> ELSE <<>>])
    PROVE  flat \in Seq(Msgs) /\ ToSet(flat) = {ToolResult(us[k].id) : k \in K}
  <1>1. PICK m \in Nat \ {0} : DOMAIN us = 1..m
    BY LenProperties, EmptySeq
  <1>2. PICK q : q = [k \in 1..m |-> IF k \in K THEN <<ToolResult(us[k].id)>> ELSE <<>>]
    OBVIOUS
  <1>3. \A k \in 1..m : us[k] \in Uses
    BY <1>1, LenProperties, ElementOfSeq
  <1>4. \A k \in 1..m : us[k].id \in OwnIds
    BY <1>3 DEF Uses
  <1>5. \A k \in 1..m : ToolResult(us[k].id) \in Msgs
    BY <1>4, IdTypes, MsgTypes
  <1>6. \A k \in 1..m : <<ToolResult(us[k].id)>> \in Seq(Msgs) /\ <<>> \in Seq(Msgs)
    BY <1>5
  <1>7. q \in [1..m -> Seq(Msgs)]
    BY <1>2, <1>6
  <1>8. FlattenSeq(q) \in Seq(Msgs) /\ ToSet(FlattenSeq(q)) = UNION {ToSet(q[k]) : k \in 1..m}
    BY <1>7, FlattenHolds
  <1>9. flat = FlattenSeq(q)
    BY <1>1, <1>2
  <1>10. ASSUME NEW k \in 1..m
         PROVE  ToSet(q[k]) = IF k \in K THEN {ToolResult(us[k].id)} ELSE {}
    <2>1. q[k] = IF k \in K THEN <<ToolResult(us[k].id)>> ELSE <<>>
      BY <1>2
    <2>2. ToSet(<<>>) = {} /\ \A y : ToSet(<<y>>) = {y}
      BY DEF ToSet
    <2>. QED
      BY <2>1, <2>2
  <1>11. UNION {ToSet(q[k]) : k \in 1..m} = {ToolResult(us[k].id) : k \in K}
    BY <1>1, <1>10
  <1>. QED
    BY <1>8, <1>9, <1>11

\* splice_child_results: the children's results join the run behind their calls, and the
\* results there stay.
LEMMA SpliceKeeps ==
    ASSUME NEW ms, NEW ids, Sound(ms, ids), NEW new, new # {}, Open(ms, new),
           NEW more, more = splice_child_results(ms, new)
    PROVE  Sound(more, ids \cup new) /\ CallIds(more) = CallIds(ms)
  <1>. DEFINE n == Len(ms)
  <1>1. /\ ms \in Seq(Msgs) /\ n = Len(ms) /\ n \in Nat \ {0} /\ DOMAIN ms = 1..n
        /\ \A i \in DOMAIN ms : ms[i] \in Msgs
    BY SeqMsgs DEF Sound
  <1>. HIDE DEF n
  <1>2. PICK a \in DOMAIN ms : new \subseteq Ids(ms[a]) /\ \A i \in DOMAIN ms : i > a => IsTool(ms[i])
    BY DEF Open
  <1>. DEFINE us == ms[a].uses
  <1>3. /\ Calls(ms[a]) /\ ~IsTool(ms[a]) /\ ~IsUser(ms[a]) /\ us # <<>> /\ us \in Seq(Uses)
        /\ ms[a] \in Msgs
    <2>1. PICK id \in new : TRUE
      OBVIOUS
    <2>. QED
      BY <1>1, <1>2, <2>1, CallFacts
  <1>4. Max({0} \cup {i \in DOMAIN ms : Calls(ms[i])}) = a
    <2>. DEFINE S == {0} \cup {i \in DOMAIN ms : Calls(ms[i])}
    <2>1. S \in SUBSET Int /\ S # {} /\ a \in S /\ \A i \in S : i <= n
      BY <1>1, <1>3
    <2>2. \A i \in S : i <= a
      <3>. SUFFICES ASSUME NEW i \in DOMAIN ms, Calls(ms[i]), i > a PROVE FALSE
        BY <1>1
      <3>. QED
        BY <1>1, <1>2, MsgFacts
    <2>. HIDE DEF S
    <2>3. Max(S) = a
      BY <2>1, <2>2, MaxIs
    <2>. QED
      BY <2>3 DEF S
  <1>5. RunEnd(ms, a) = n
    <2>. DEFINE S == {j \in a..Len(ms) : \A k \in (a + 1)..j : IsTool(ms[k])}
    <2>1. n \in S /\ S \in SUBSET Int /\ \A i \in S : i <= n
      BY <1>1, <1>2
    <2>2. RunEnd(ms, a) = Max(S)
      BY DEF RunEnd
    <2>. HIDE DEF S
    <2>. QED
      BY <2>1, <2>2, MaxIs
  <1>. DEFINE there == {ms[i].of : i \in (a + 1)..n}
              s == [k \in DOMAIN us |-> IF us[k].id \in new \cup there
                                        THEN <<ToolResult(us[k].id)>> ELSE <<>>]
              head == SubSeq(ms, 1, a)
              flat == FlattenSeq(s)
  <1>6. more = head \o flat
    <2>1. SubSeq(ms, n + 1, Len(ms)) = <<>> /\ head \o flat \o <<>> = head \o flat
      BY <1>1, SubSeqEmpty
    <2>2. a # 0
      BY <1>1
    <2>. DEFINE b == Max({0} \cup {i \in DOMAIN ms : Calls(ms[i])})
                e == RunEnd(ms, b)
                found == {ms[i].of : i \in (b + 1)..e}
                parts == [k \in DOMAIN ms[b].uses |-> IF ms[b].uses[k].id \in new \cup found
                                                      THEN <<ToolResult(ms[b].uses[k].id)>> ELSE <<>>]
    <2>3. b = a /\ e = n
      BY <1>4, <1>5
    <2>4. more = SubSeq(ms, 1, b) \o FlattenSeq(parts) \o SubSeq(ms, e + 1, Len(ms))
      <3>1. b # 0
        BY <2>2, <2>3
      <3>. QED
        BY <3>1 DEF splice_child_results
    <2>. HIDE DEF b, e
    <2>5. found = there
      BY <2>3
    <2>. HIDE DEF found, there
    <2>6. parts = s
      BY <2>3, <2>5
    <2>. HIDE DEF parts, s
    <2>. QED
      BY <2>1, <2>3, <2>4, <2>6, Zenon
  <1>7. /\ DOMAIN us = 1..Len(us) /\ Len(us) \in Nat \ {0}
        /\ \A k \in 1..Len(us) : us[k].id \in OwnIds
        /\ \A id : id \in Ids(ms[a]) <=> \E k \in 1..Len(us) : id = us[k].id
    <2>1. DOMAIN us = 1..Len(us) /\ Len(us) \in Nat \ {0} /\ \A k \in 1..Len(us) : us[k] \in Uses
      BY <1>3, LenProperties, ElementOfSeq, EmptySeq
    <2>. QED
      BY <2>1 DEF Ids, Uses
  <1>9. /\ flat \in Seq(Msgs)
        /\ \A i \in DOMAIN flat : \E k \in 1..Len(us) : flat[i] = ToolResult(us[k].id)
        /\ \A k \in 1..Len(us) : us[k].id \in new \cup there =>
             \E i \in DOMAIN flat : flat[i] = ToolResult(us[k].id)
    <2>. DEFINE K == {k \in DOMAIN us : us[k].id \in new \cup there}
    <2>1. s = [k \in DOMAIN us |-> IF k \in K THEN <<ToolResult(us[k].id)>> ELSE <<>>]
      BY <1>3
    <2>2. K \subseteq DOMAIN us /\ \A k \in DOMAIN us : us[k].id \in new \cup there => k \in K
      OBVIOUS
    <2>3. flat = FlattenSeq([k \in DOMAIN us |-> IF k \in K THEN <<ToolResult(us[k].id)>> ELSE <<>>])
      BY <2>1
    <2>. HIDE DEF s, K, us, there, flat
    <2>4. flat \in Seq(Msgs) /\ ToSet(flat) = {ToolResult(us[k].id) : k \in K}
      BY <1>3, <2>2, <2>3, ResultsOf
    <2>5. ASSUME NEW i \in DOMAIN flat PROVE \E k \in 1..Len(us) : flat[i] = ToolResult(us[k].id)
      <3>1. flat[i] \in ToSet(flat)
        BY DEF ToSet
      <3>. QED
        BY <1>7, <2>2, <2>4, <3>1
    <2>6. ASSUME NEW k \in 1..Len(us), us[k].id \in new \cup there
          PROVE  \E i \in DOMAIN flat : flat[i] = ToolResult(us[k].id)
      <3>1. ToolResult(us[k].id) \in ToSet(flat)
        BY <1>7, <2>2, <2>4, <2>6
      <3>. QED
        BY <3>1 DEF ToSet
    <2>. QED
      BY <2>4, <2>5, <2>6
  <1>10. /\ head \in Seq(Msgs) /\ Len(head) = a /\ \A i \in 1..a : head[i] = ms[i]
         /\ Chained(head) /\ Unique(head) /\ CallIds(head) \subseteq CallIds(ms) /\ Extends(ms, head)
         /\ DOMAIN head = 1..a /\ a \in 1..n
    <2>1. a \in 0..Len(ms) /\ a \in 1..n
      BY <1>1
    <2>2. Chained(ms) /\ Unique(ms)
      BY DEF Sound
    <2>3. PICK h \in 0..Len(ms) : h = a
      BY <2>1
    <2>4. head = SubSeq(ms, 1, h) /\ ms \in Seq(Msgs)
      BY <1>1, <2>3
    <2>5. /\ head \in Seq(Msgs) /\ Len(head) = h /\ \A i \in 1..h : head[i] = ms[i]
          /\ Chained(head) /\ Unique(head) /\ CallIds(head) \subseteq CallIds(ms) /\ Extends(ms, head)
      BY <2>2, <2>4, PrefixKeeps
    <2>. QED
      BY <2>1, <2>3, <2>5, SeqMsgs
  <1>11. Behind(head, ids \ Ids(ms[a]))
    <2>1. a \in {a - 1, a} /\ Behind(ms, ids)
      BY DEF Sound
    <2>. QED
      BY <1>1, <1>3, <2>1, BehindPrefix
  <1>12. Open(head, Ids(ms[a])) /\ \A id \in Ids(ms[a]) : Open(head, {id})
    <2>1. a \in DOMAIN head /\ head[a] = ms[a] /\ \A i \in DOMAIN head : ~(i > a)
      BY <1>10
    <2>. QED
      BY <2>1 DEF Open
  <1>. HIDE DEF head, flat, s, there, us
  <1>13. /\ Extends(more, head) /\ more \in Seq(Msgs)
         /\ \A i \in Added(more, head) : IsTool(more[i]) /\ more[i].of \in Ids(ms[a])
         /\ \A i \in Added(more, head) : Ids(more[i]) = {} /\ ~IsUser(more[i]) /\ more[i].uses = <<>>
         /\ \A id \in Ids(ms[a]) \cap (new \cup there) : \E i \in Added(more, head) : more[i].of = id
    <2>1. /\ Extends(more, head) /\ Len(more) = a + Len(flat)
          /\ \A i \in 1..Len(flat) : more[a + i] = flat[i]
          /\ \A i \in Added(more, head) : i - a \in DOMAIN flat /\ more[i] = flat[i - a]
      <3>1. head \in Seq(Msgs) /\ flat \in Seq(Msgs)
        BY <1>9, <1>10
      <3>2. /\ Extends(head \o flat, head) /\ Len(head \o flat) = Len(head) + Len(flat)
            /\ \A i \in 1..Len(flat) : (head \o flat)[Len(head) + i] = flat[i]
            /\ \A i \in Added(head \o flat, head) :
                 i - Len(head) \in DOMAIN flat /\ (head \o flat)[i] = flat[i - Len(head)]
        BY <3>1, ConcatExtends
      <3>. QED
        BY <1>6, <1>10, <3>2
    <2>2. DOMAIN flat = 1..Len(flat) /\ Len(flat) \in Nat
      BY <1>9, LenProperties
    <2>3. \A i \in Added(more, head) : \E k \in 1..Len(us) : more[i] = ToolResult(us[k].id)
      BY <1>9, <2>1
    <2>4. \A i \in Added(more, head) : IsTool(more[i]) /\ more[i].of \in Ids(ms[a])
      BY <1>7, <2>3, IdTypes, MsgTypes
    <2>5. \A i \in Added(more, head) : more[i] \in Msgs
      BY <1>7, <2>3, IdTypes, MsgTypes
    <2>6. \A i \in Added(more, head) : Ids(more[i]) = {} /\ ~IsUser(more[i]) /\ more[i].uses = <<>>
      BY <2>4, <2>5, MsgFacts
    <2>7. ASSUME NEW id \in Ids(ms[a]) \cap (new \cup there)
          PROVE  \E i \in Added(more, head) : more[i].of = id
      <3>1. PICK k \in 1..Len(us) : id = us[k].id
        BY <1>7
      <3>2. PICK i \in DOMAIN flat : flat[i] = ToolResult(id)
        BY <1>9, <3>1
      <3>3. a + i \in Added(more, head) /\ more[a + i] = ToolResult(id)
        BY <1>10, <2>1, <2>2, <3>2 DEF Added
      <3>4. ToolResult(id).of = id
        BY DEF ToolResult
      <3>. QED
        BY <3>3, <3>4
    <2>. QED
      BY <2>1, <2>4, <2>6, <2>7 DEF Extends
  <1>14. Chained(more)
    BY <1>10, <1>12, <1>13, ChainedGrows
  <1>15. Behind(more, ids \cup new)
    <2>. DEFINE old == ids \ Ids(ms[a])
                now == (ids \cup new) \cap Ids(ms[a])
    <2>1. ASSUME NEW id \in now PROVE id \in Ids(ms[a]) \cap (new \cup there)
      <3>1. CASE id \in new
        BY <3>1
      <3>2. CASE id \in ids
        <4>1. PICK i \in DOMAIN ms : Run(ms, a, i) /\ ms[i].of = id
          BY <3>2 DEF Sound, Behind
        <4>2. i \in (a + 1)..n
          BY <1>1, <4>1 DEF Run
        <4>. QED
          BY <4>1, <4>2 DEF there
      <3>. QED
        BY <3>1, <3>2
    <2>2. \A id \in now : /\ Open(head, {id})
                          /\ \E i \in Added(more, head) :
                               /\ more[i].of = id
                               /\ \A k \in Added(more, head) : k <= i => IsTool(more[k])
      BY <1>12, <1>13, <2>1
    <2>3. \A i \in Added(more, head) : Ids(more[i]) \cap (old \cup now) = {}
      BY <1>13
    <2>4. ids \cup new = old \cup now
      BY <1>2
    <2>. HIDE DEF old, now
    <2>5. Behind(head, old)
      BY <1>11 DEF old
    <2>6. Behind(more, old \cup now)
      BY <1>10, <1>13, <2>2, <2>3, <2>5, BehindGrows
    <2>. QED
      BY <2>4, <2>6
  <1>16. Unique(more)
    <2>1. Distinct(<<>>)
      BY DEF Distinct
    <2>2. \A i \in Added(more, head) : /\ Distinct(more[i].uses)
                                       /\ \A b \in 1..(i - 1) : Ids(more[i]) \cap Ids(more[b]) = {}
      BY <1>13, <2>1
    <2>. QED
      BY <1>10, <1>13, <2>2, UniqueGrows
  <1>17. CallIds(more) = CallIds(ms) /\ CallIds(head) = CallIds(ms)
    <2>1. CallIds(head) \subseteq CallIds(more) /\ \A x \in CallIds(more) : x \in CallIds(head)
      BY <1>13, CallIdsGrow
    <2>2. CallIds(ms) \subseteq CallIds(head)
      <3>1. \A i \in Added(ms, head) : Ids(ms[i]) = {}
        <4>1. \A i \in Added(ms, head) : i \in DOMAIN ms /\ i > a
          BY <1>1, <1>10 DEF Added
        <4>. QED
          BY <1>1, <1>2, <4>1, MsgFacts
      <3>2. \A id \in CallIds(ms) : id \in CallIds(head) \/ \E i \in Added(ms, head) : id \in Ids(ms[i])
        BY <1>10, CallIdsGrow
      <3>. QED
        BY <3>1, <3>2
    <2>. QED
      BY <1>10, <2>1, <2>2
  <1>18. Users(more) = Users(ms) /\ Instructed(more, User(Users(ms)))
    <2>1. Users(ms) \in Nat /\ IsUser(User(Users(ms))) /\ Instructed(ms, User(Users(ms)))
      BY <1>1, UsersType, MsgTypes DEF Sound
    <2>2. \A i \in (a + 1)..Len(ms) : ~IsUser(ms[i])
      <3>1. \A i \in (a + 1)..Len(ms) : i \in DOMAIN ms /\ IsTool(ms[i])
        BY <1>1, <1>2
      <3>. QED
        BY <1>1, <3>1, MsgFacts
    <2>3. a \in 0..Len(ms) /\ head = SubSeq(ms, 1, a)
      BY <1>1 DEF head
    <2>4. Users(head) = Users(ms) /\ Instructed(head, User(Users(ms)))
      BY <1>1, <2>1, <2>2, <2>3, UsersPrefix
    <2>. QED
      BY <1>13, <2>4, UsersStay
  <1>19. Len(more) > 0 /\ more[1] = User(1)
    BY <1>10, <1>13, SeqMsgs DEF Extends, Sound
  <1>20. ids \cup new \subseteq CallIds(more)
    <2>1. new \subseteq CallIds(ms)
      BY <1>2 DEF CallIds
    <2>. QED
      BY <1>17, <2>1 DEF Sound
  <1>. QED
    BY <1>13, <1>14, <1>15, <1>16, <1>17, <1>18, <1>19, <1>20 DEF Sound

\* What the user or the model says leaves the calls and their results as they are.
LEMMA TalkKeeps ==
    ASSUME NEW ms, NEW ids, Sound(ms, ids), NEW more, Extends(more, ms),
           \A i \in Added(more, ms) : ~IsTool(more[i]) /\ more[i].uses = <<>>,
           Instructed(more, User(Users(more)))
    PROVE  Sound(more, ids) /\ CallIds(more) = CallIds(ms)
  <1>1. \A i \in Added(more, ms) : Ids(more[i]) = {} /\ DOMAIN more[i].uses = {}
    BY DEF Ids
  <1>2. Unique(ms) /\ Chained(ms) /\ Behind(ms, ids)
    BY DEF Sound
  <1>3. Chained(more)
    BY <1>2, ChainedGrows
  <1>4. Behind(more, ids)
    <2>1. Behind(more, ids \cup {})
      <3>1. \A i \in Added(more, ms) : Ids(more[i]) \cap (ids \cup {}) = {}
        BY <1>1
      <3>. QED
        BY <1>2, <3>1, BehindGrows
    <2>. QED
      BY <2>1
  <1>5. Unique(more)
    <2>1. Distinct(<<>>)
      BY DEF Distinct
    <2>2. \A i \in Added(more, ms) : /\ Distinct(more[i].uses)
                                     /\ \A b \in 1..(i - 1) : Ids(more[i]) \cap Ids(more[b]) = {}
      BY <1>1, <2>1
    <2>. QED
      BY <1>2, <2>2, UniqueGrows
  <1>6. CallIds(more) = CallIds(ms)
    <2>1. CallIds(ms) \subseteq CallIds(more)
      BY CallIdsGrow
    <2>2. \A id \in CallIds(more) : id \in CallIds(ms) \/ \E i \in Added(more, ms) : id \in Ids(more[i])
      BY CallIdsGrow
    <2>. QED
      BY <1>1, <2>1, <2>2
  <1>7. more \in Seq(Msgs) /\ Len(more) > 0 /\ more[1] = User(1)
    <2>1. ms \in Seq(Msgs) /\ Len(ms) > 0 /\ ms[1] = User(1)
      BY DEF Sound
    <2>. QED
      BY <2>1, SeqMsgs DEF Extends
  <1>. QED
    BY <1>3, <1>4, <1>5, <1>6, <1>7 DEF Sound

\* A reply with new calls, which nothing follows yet.
LEMMA CallsKeep ==
    ASSUME NEW ms, NEW ids, Sound(ms, ids), NEW us \in Seq(Uses), Distinct(us),
           IdsOf(us) \cap CallIds(ms) = {},
           NEW more, more = Append(ms, ToolUses(us))
    PROVE  /\ Sound(more, ids) /\ Open(more, IdsOf(us))
           /\ \A id \in CallIds(more) : id \in CallIds(ms) \/ id \in IdsOf(us)
  <1>. DEFINE n == Len(ms)
              m == ToolUses(us)
  <1>1. /\ ms \in Seq(Msgs) /\ n \in Nat \ {0} /\ DOMAIN ms = 1..n
        /\ \A i \in DOMAIN ms : ms[i] \in Msgs /\ Ids(ms[i]) \subseteq CallIds(ms)
        /\ Unique(ms) /\ Chained(ms) /\ Behind(ms, ids) /\ ids \subseteq CallIds(ms)
        /\ ms[1] = User(1)
    BY SeqMsgs DEF Sound, CallIds
  <1>2. m \in Msgs /\ ~IsTool(m) /\ ~IsUser(m) /\ m.uses = us
    BY MsgTypes
  <1>3. Ids(m) = IdsOf(us)
    BY <1>2 DEF Ids, IdsOf
  <1>. HIDE DEF m
  <1>4. /\ more \in Seq(Msgs) /\ Len(more) = n + 1 /\ more[n + 1] = m
        /\ \A i \in 1..n : more[i] = ms[i] /\ DOMAIN more = 1..(n + 1)
    BY <1>1, <1>2, AppendProperties DEF m
  <1>. HIDE DEF n
  <1>5. Extends(more, ms) /\ Added(more, ms) = {n + 1}
    BY <1>1, <1>4 DEF Extends, Added, n
  <1>6. Chained(more)
    <2>1. \A i \in Added(more, ms) : ~IsTool(more[i])
      BY <1>2, <1>4, <1>5
    <2>. QED
      BY <1>1, <1>5, <2>1, ChainedGrows
  <1>7. Behind(more, ids)
    <2>1. Behind(more, ids \cup {})
      <3>1. \A i \in Added(more, ms) : Ids(more[i]) \cap (ids \cup {}) = {}
        BY <1>1, <1>3, <1>4, <1>5
      <3>. QED
        BY <1>1, <1>5, <3>1, BehindGrows
    <2>. QED
      BY <2>1
  <1>8. Unique(more)
    <2>1. \A a \in 1..n : Ids(more[n + 1]) \cap Ids(more[a]) = {}
      BY <1>1, <1>3, <1>4
    <2>2. Distinct(more[n + 1].uses) /\ (n + 1) - 1 = n
      BY <1>1, <1>2, <1>4
    <2>3. \A i \in Added(more, ms) : /\ Distinct(more[i].uses)
                                     /\ \A b \in 1..(i - 1) : Ids(more[i]) \cap Ids(more[b]) = {}
      BY <1>5, <2>1, <2>2
    <2>. QED
      BY <1>1, <1>5, <2>3, UniqueGrows
  <1>9. CallIds(ms) \subseteq CallIds(more)
        /\ \A id \in CallIds(more) : id \in CallIds(ms) \/ id \in IdsOf(us)
    <2>1. CallIds(ms) \subseteq CallIds(more)
      BY <1>5, CallIdsGrow
    <2>2. \A id \in CallIds(more) : id \in CallIds(ms) \/ \E i \in Added(more, ms) : id \in Ids(more[i])
      BY <1>5, CallIdsGrow
    <2>. QED
      BY <1>3, <1>4, <1>5, <2>1, <2>2
  <1>10. Users(more) = Users(ms) /\ Instructed(more, User(Users(ms)))
    <2>1. \A i \in Added(more, ms) : ~IsUser(more[i])
      BY <1>2, <1>4, <1>5
    <2>2. Instructed(ms, User(Users(ms)))
      BY DEF Sound
    <2>. QED
      BY <1>5, <2>1, <2>2, UsersStay
  <1>11. Open(more, IdsOf(us))
    <2>1. n + 1 \in DOMAIN more /\ \A i \in DOMAIN more : ~(i > n + 1)
      BY <1>1, <1>4, SeqMsgs
    <2>. QED
      BY <1>3, <1>4, <2>1 DEF Open
  <1>12. Len(more) > 0 /\ more[1] = User(1)
    BY <1>1, <1>4
  <1>. QED
    BY <1>1, <1>4, <1>6, <1>7, <1>8, <1>9, <1>10, <1>11, <1>12 DEF Sound

\* Results behind the open message that made their calls, or of calls of another transcript.
Returns(ms, rs, new) ==
    /\ rs \in Seq(Msgs)
    /\ \A i \in DOMAIN rs : IsTool(rs[i]) /\ (rs[i].of \in OwnIds => Open(ms, {rs[i].of}))
    /\ \A id \in new : Open(ms, {id}) /\ \E i \in DOMAIN rs : rs[i].of = id

\* Results put behind the open calls keep the transcript sound.
LEMMA ResultsKeep ==
    ASSUME NEW ms, NEW ids, Sound(ms, ids), NEW rs, NEW new, Returns(ms, rs, new),
           NEW more, more = ms \o rs
    PROVE  /\ Sound(more, ids \cup new) /\ CallIds(more) = CallIds(ms)
           /\ \A S : Open(ms, S) => Open(more, S)
  <1>1. /\ ms \in Seq(Msgs) /\ Unique(ms) /\ Chained(ms) /\ Behind(ms, ids) /\ ids \subseteq CallIds(ms)
        /\ Instructed(ms, User(Users(ms))) /\ ms[1] = User(1) /\ Len(ms) > 0
    BY DEF Sound
  <1>0. /\ rs \in Seq(Msgs)
        /\ \A i \in DOMAIN rs : IsTool(rs[i]) /\ (rs[i].of \in OwnIds => Open(ms, {rs[i].of}))
        /\ \A id \in new : Open(ms, {id}) /\ \E i \in DOMAIN rs : rs[i].of = id
    BY DEF Returns
  <1>2. /\ DOMAIN rs = 1..Len(rs) /\ Len(rs) \in Nat /\ \A i \in DOMAIN rs : rs[i] \in Msgs
        /\ Len(ms) \in Nat
    BY <1>0, <1>1, SeqMsgs
  <1>3. Extends(more, ms) /\ Len(more) = Len(ms) + Len(rs)
    BY <1>0, <1>1, ConcatExtends
  <1>4. \A i \in 1..Len(rs) : more[Len(ms) + i] = rs[i]
    BY <1>0, <1>1, ConcatExtends
  <1>5. \A i \in Added(more, ms) : i - Len(ms) \in DOMAIN rs /\ more[i] = rs[i - Len(ms)]
    BY <1>0, <1>1, ConcatExtends
  <1>6. \A i \in Added(more, ms) : /\ IsTool(more[i]) /\ more[i] \in Msgs
                                   /\ more[i].of \in OwnIds => Open(ms, {more[i].of})
    BY <1>0, <1>2, <1>5
  <1>7. \A i \in Added(more, ms) : Ids(more[i]) = {} /\ more[i].uses = <<>> /\ ~IsUser(more[i])
    BY <1>6, MsgFacts
  <1>8. Chained(more)
    BY <1>1, <1>3, <1>6, ChainedGrows
  <1>9. Behind(more, ids \cup new)
    <2>1. ASSUME NEW id \in new
          PROVE  \E i \in Added(more, ms) : more[i].of = id
      <3>1. PICK i \in DOMAIN rs : rs[i].of = id
        BY <1>0
      <3>2. Len(ms) + i \in Added(more, ms)
        BY <1>2, <1>3 DEF Added
      <3>. QED
        BY <1>2, <1>4, <3>1, <3>2
    <2>2. \A id \in new : /\ Open(ms, {id})
                          /\ \E i \in Added(more, ms) :
                                /\ more[i].of = id
                                /\ \A k \in Added(more, ms) : k <= i => IsTool(more[k])
      BY <1>0, <1>6, <2>1
    <2>3. \A i \in Added(more, ms) : Ids(more[i]) \cap (ids \cup new) = {}
      BY <1>7
    <2>. QED
      BY <1>1, <1>3, <2>2, <2>3, BehindGrows
  <1>10. Unique(more)
    <2>1. Distinct(<<>>)
      BY DEF Distinct
    <2>2. \A i \in Added(more, ms) : /\ Distinct(more[i].uses)
                                     /\ \A b \in 1..(i - 1) : Ids(more[i]) \cap Ids(more[b]) = {}
      BY <1>7, <2>1
    <2>. QED
      BY <1>1, <1>3, <2>2, UniqueGrows
  <1>11. CallIds(more) = CallIds(ms)
    <2>1. CallIds(ms) \subseteq CallIds(more)
      BY <1>3, CallIdsGrow
    <2>2. \A id \in CallIds(more) : id \in CallIds(ms) \/ \E i \in Added(more, ms) : id \in Ids(more[i])
      BY <1>3, CallIdsGrow
    <2>. QED
      BY <1>7, <2>1, <2>2
  <1>12. Users(more) = Users(ms) /\ Instructed(more, User(Users(ms)))
    BY <1>1, <1>3, <1>7, UsersStay
  <1>13. ids \cup new \subseteq CallIds(more)
    <2>1. \A id \in new : id \in CallIds(ms)
      BY <1>0 DEF Open, CallIds
    <2>. QED
      BY <1>1, <1>11, <2>1
  <1>14. more \in Seq(Msgs) /\ Len(more) > 0 /\ more[1] = User(1)
    BY <1>1, <1>2, <1>3 DEF Extends
  <1>15. ASSUME NEW S, Open(ms, S) PROVE Open(more, S)
    BY <1>3, <1>6, <1>15, OpenGrows
  <1>. QED
    BY <1>8, <1>9, <1>10, <1>11, <1>12, <1>13, <1>14, <1>15 DEF Sound

\* Answered calls are this transcript's.
LEMMA AnsweredOwn ==
    ASSUME NEW ms, NEW ids, Sound(ms, ids)
    PROVE  ids \in SUBSET OwnIds
  <1>1. ms \in Seq(Msgs) /\ ids \subseteq CallIds(ms)
    BY DEF Sound
  <1>2. \A x \in CallIds(ms) : x \in OwnIds
    BY <1>1, SeqMsgs, MsgFacts DEF CallIds
  <1>. QED
    BY <1>1, <1>2

----------------------------------------------------------------------------
(* Cuts: collapse_tool_history and pop_oldest_message_group.                      *)

\* RunEnd is the end of the results behind a position.
LEMMA RunEndFacts ==
    ASSUME NEW ms \in Seq(Msgs), NEW i \in DOMAIN ms
    PROVE  /\ RunEnd(ms, i) \in i..Len(ms)
           /\ \A j \in DOMAIN ms : Run(ms, i, j) <=> j \in (i + 1)..RunEnd(ms, i)
           /\ RunEnd(ms, i) < Len(ms) => ~IsTool(ms[RunEnd(ms, i) + 1])
  <1>1. Len(ms) \in Nat /\ DOMAIN ms = 1..Len(ms)
    BY SeqMsgs
  <1>. DEFINE S == {j \in i..Len(ms) : \A k \in (i + 1)..j : IsTool(ms[k])}
              e == Max(S)
  <1>2. S \in SUBSET (i..Len(ms)) /\ i \in S /\ i \in Int /\ Len(ms) \in Int
    BY <1>1
  <1>3. e \in S /\ \A j \in S : j <= e
    <2>. HIDE DEF S
    <2>. QED
      BY <1>1, <1>2, MaxOf
  <1>4. RunEnd(ms, i) = e
    BY DEF RunEnd
  <1>5. e \in i..Len(ms) /\ \A k \in (i + 1)..e : IsTool(ms[k])
    BY <1>3
  <1>6. ASSUME NEW j \in DOMAIN ms, Run(ms, i, j) PROVE j \in (i + 1)..e
    <2>1. j \in S
      BY <1>1, <1>6 DEF Run
    <2>. HIDE DEF S, e
    <2>. QED
      BY <1>1, <1>3, <1>6, <2>1 DEF Run
  <1>7. ASSUME e < Len(ms) PROVE ~IsTool(ms[e + 1])
    <2>. SUFFICES ASSUME IsTool(ms[e + 1]) PROVE FALSE
      OBVIOUS
    <2>0. PICK d : d = e
      OBVIOUS
    <2>1. /\ d \in i..Len(ms) /\ i \in 1..Len(ms) /\ d < Len(ms) /\ IsTool(ms[d + 1])
          /\ \A k \in (i + 1)..d : IsTool(ms[k])
      BY <1>1, <1>5, <1>7, <2>0
    <2>2. d + 1 \in S
      <3>1. \A k \in (i + 1)..(d + 1) : k \in (i + 1)..d \/ k = d + 1
        BY <2>1
      <3>. QED
        BY <1>1, <2>1, <3>1
    <2>3. d + 1 <= d
      <3>. HIDE DEF S
      <3>. QED
        BY <1>3, <2>0, <2>2
    <2>. QED
      BY <2>1, <2>3
  <1>. HIDE DEF e, S
  <1>8. ASSUME NEW j \in (i + 1)..e PROVE Run(ms, i, j)
    BY <1>1, <1>5 DEF Run
  <1>. QED
    BY <1>4, <1>5, <1>6, <1>7, <1>8

\* RunHead is the position whose results reach here, or the first.
LEMMA RunHeadFacts ==
    ASSUME NEW ms \in Seq(Msgs), NEW i \in DOMAIN ms
    PROVE  /\ RunHead(ms, i) \in 1..i
           /\ RunHead(ms, i) = 1 \/ ~IsTool(ms[RunHead(ms, i)])
           /\ \A j \in (RunHead(ms, i) + 1)..i : IsTool(ms[j])
  <1>1. Len(ms) \in Nat /\ DOMAIN ms = 1..Len(ms) /\ i \in 1..Len(ms)
    BY SeqMsgs
  <1>. DEFINE S == {j \in 1..i : j = 1 \/ ~IsTool(ms[j])}
              h == Max(S)
  <1>2. S \in SUBSET (1..i) /\ 1 \in S /\ i \in Int
    BY <1>1
  <1>3. h \in S /\ \A j \in S : j <= h
    <2>. HIDE DEF S
    <2>1. 1 \in Int /\ S # {}
      BY <1>2
    <2>2. Max(S) \in S /\ \A j \in S : j <= Max(S)
      BY <1>2, <2>1, MaxOf
    <2>. QED
      BY <2>2
  <1>4. RunHead(ms, i) = h
    BY DEF RunHead
  <1>5. h \in 1..i /\ (h = 1 \/ ~IsTool(ms[h]))
    BY <1>3
  <1>6. ASSUME NEW j \in (h + 1)..i PROVE IsTool(ms[j])
    <2>1. j \notin S
      <3>. HIDE DEF S, h
      <3>. QED
        BY <1>1, <1>3, <1>5
    <2>. HIDE DEF h
    <2>. QED
      BY <1>1, <1>5, <2>1
  <1>. QED
    BY <1>4, <1>5, <1>6

\* What comes behind position n is not in the run of a call before it.
Clean(ms, n) == \A a \in 1..n : Calls(ms[a]) => ~Run(ms, a, n + 1)

\* A cut at the head of a run, or anywhere outside the results of a call, is clean.
LEMMA CleanAtHead ==
    ASSUME NEW ms \in Seq(Msgs), NEW i \in DOMAIN ms, NEW h, h = RunHead(ms, i)
    PROVE  Clean(ms, IF Calls(ms[h]) THEN h - 1 ELSE i - 1)
  <1>1. /\ Len(ms) \in Nat /\ DOMAIN ms = 1..Len(ms) /\ i \in 1..Len(ms)
        /\ \A j \in DOMAIN ms : ms[j] \in Msgs
    BY SeqMsgs
  <1>2. h \in 1..i /\ (h = 1 \/ ~IsTool(ms[h])) /\ \A j \in (h + 1)..i : IsTool(ms[j])
    BY RunHeadFacts
  <1>3. CASE Calls(ms[h])
    <2>1. ~IsTool(ms[h]) /\ (h - 1) + 1 = h
      BY <1>1, <1>2, <1>3, MsgFacts
    <2>2. \A a \in 1..(h - 1) : ~Run(ms, a, h)
      BY <1>1, <1>2, <2>1 DEF Run
    <2>3. Clean(ms, h - 1)
      BY <2>1, <2>2 DEF Clean
    <2>. QED
      BY <1>3, <2>3
  <1>4. CASE ~Calls(ms[h])
    <2>1. (i - 1) + 1 = i
      BY <1>1
    <2>2. ASSUME NEW a \in 1..(i - 1), Calls(ms[a]), Run(ms, a, i) PROVE FALSE
      <3>1. a \in DOMAIN ms /\ a # h /\ ~IsTool(ms[a])
        BY <1>1, <1>4, <2>2, MsgFacts
      <3>2. ~(a > h)
        BY <1>1, <1>2, <3>1
      <3>3. a < h
        BY <1>1, <1>2, <3>1, <3>2
      <3>4. IsTool(ms[h])
        BY <1>1, <1>2, <2>2, <3>3 DEF Run
      <3>. QED
        BY <1>1, <1>2, <3>3, <3>4
    <2>3. Clean(ms, i - 1)
      BY <2>1, <2>2 DEF Clean
    <2>. QED
      BY <1>4, <2>3
  <1>. QED
    BY <1>3, <1>4

\* A cut before a message that is no result is clean.
LEMMA CleanBefore ==
    ASSUME NEW ms \in Seq(Msgs), NEW n \in Nat, ~IsTool(ms[n + 1])
    PROVE  Clean(ms, n)
  BY DEF Clean, Run

\* The messages from a clean cut on.
Suffix(tail, ms, n) ==
    /\ tail \in Seq(Msgs) /\ Len(tail) = Len(ms) - n
    /\ \A i \in DOMAIN tail : i + n \in DOMAIN ms /\ tail[i] = ms[i + n]
    /\ \A i \in DOMAIN ms : i > n => i - n \in DOMAIN tail /\ tail[i - n] = ms[i]

\* No result behind a clean cut is cut off from its call, and no call from its results.
LEMMA SuffixKeeps ==
    ASSUME NEW ms \in Seq(Msgs), Chained(ms), NEW ids, Behind(ms, ids), NEW n \in 0..Len(ms), Clean(ms, n),
           NEW tail, tail = SubSeq(ms, n + 1, Len(ms))
    PROVE  Suffix(tail, ms, n) /\ Chained(tail) /\ Behind(tail, ids)
  <1>. DEFINE m == Len(ms)
  <1>1. /\ m \in Nat /\ DOMAIN ms = 1..m /\ \A i \in DOMAIN ms : ms[i] \in Msgs /\ m = Len(ms)
        /\ n \in 0..m
    BY SeqMsgs
  <1>. HIDE DEF m
  <1>2. /\ tail \in Seq(Msgs) /\ Len(tail) = m - n
        /\ \A i \in 1..(m - n) : tail[i] = ms[i + n]
    <2>1. n + 1 \in Int /\ m \in Int /\ \A i \in (n + 1)..m : ms[i] \in Msgs
      BY <1>1
    <2>2. /\ tail \in Seq(Msgs) /\ Len(tail) = (IF n + 1 <= m THEN m - (n + 1) + 1 ELSE 0)
          /\ \A i \in 1..(m - (n + 1) + 1) : tail[i] = ms[(n + 1) + i - 1]
      BY <2>1, SubSeqProperties DEF m
    <2>3. Len(tail) = m - n
      <3>1. CASE n + 1 <= m
        BY <1>1, <2>2, <3>1
      <3>2. CASE ~(n + 1 <= m)
        <4>1. m = n
          BY <1>1, <3>2
        <4>. QED
          BY <1>1, <2>2, <3>2, <4>1
      <3>. QED
        BY <3>1, <3>2
    <2>4. ASSUME NEW i \in 1..(m - n) PROVE tail[i] = ms[i + n]
      <3>1. i \in 1..(m - (n + 1) + 1) /\ (n + 1) + i - 1 = i + n
        BY <1>1
      <3>2. tail[i] = ms[(n + 1) + i - 1]
        BY <2>2, <3>1
      <3>. QED
        BY <3>1, <3>2
    <2>. QED
      BY <2>2, <2>3, <2>4
  <1>3. DOMAIN tail = 1..(m - n)
    BY <1>2, SeqMsgs
  <1>4. \A i \in DOMAIN tail : i + n \in DOMAIN ms /\ tail[i] = ms[i + n]
    BY <1>1, <1>2, <1>3
  <1>5. \A i \in DOMAIN ms : i > n => i - n \in DOMAIN tail /\ tail[i - n] = ms[i]
    <2>. SUFFICES ASSUME NEW i \in DOMAIN ms, i > n PROVE i - n \in DOMAIN tail /\ tail[i - n] = ms[i]
      OBVIOUS
    <2>1. i - n \in DOMAIN tail /\ (i - n) + n = i
      BY <1>1, <1>3
    <2>. QED
      BY <1>4, <2>1
  <1>6. ASSUME NEW a \in DOMAIN tail, NEW i \in DOMAIN tail
        PROVE  Run(tail, a, i) <=> Run(ms, a + n, i + n)
    <2>1. a \in 1..(m - n) /\ i \in 1..(m - n)
      BY <1>3
    <2>2. ASSUME Run(tail, a, i) PROVE Run(ms, a + n, i + n)
      <3>1. ASSUME NEW k \in ((a + n) + 1)..(i + n) PROVE IsTool(ms[k])
        <4>1. k \in DOMAIN ms /\ k > n /\ k - n \in (a + 1)..i
          BY <1>1, <2>1
        <4>. QED
          BY <1>5, <2>2, <4>1 DEF Run
      <3>. QED
        BY <1>1, <2>1, <2>2, <3>1 DEF Run
    <2>3. ASSUME Run(ms, a + n, i + n) PROVE Run(tail, a, i)
      <3>1. ASSUME NEW k \in (a + 1)..i PROVE IsTool(tail[k])
        <4>1. k \in DOMAIN tail /\ k + n \in ((a + n) + 1)..(i + n)
          BY <1>1, <1>3, <2>1
        <4>. QED
          BY <1>4, <2>3, <4>1 DEF Run
      <3>. QED
        BY <1>1, <2>1, <2>3, <3>1 DEF Run
    <2>. QED
      BY <2>2, <2>3
  <1>7. Chained(tail)
    <2>. SUFFICES ASSUME NEW i \in DOMAIN tail, IsTool(tail[i]), tail[i].of \in OwnIds
                  PROVE  \E a \in DOMAIN tail : tail[i].of \in Ids(tail[a]) /\ Run(tail, a, i)
      BY DEF Chained
    <2>1. i + n \in DOMAIN ms /\ tail[i] = ms[i + n]
      BY <1>4
    <2>2. PICK a \in DOMAIN ms : ms[i + n].of \in Ids(ms[a]) /\ Run(ms, a, i + n)
      BY <2>1 DEF Chained
    <2>3. Calls(ms[a])
      BY <1>1, <2>2, CallFacts
    <2>4. a > n
      <3>. SUFFICES ASSUME ~(a > n) PROVE FALSE
        OBVIOUS
      <3>1. a \in 1..n
        BY <1>1
      <3>2. Run(ms, a, n + 1)
        BY <1>1, <1>3, <2>2, <3>1 DEF Run
      <3>. QED
        BY <2>3, <3>1, <3>2 DEF Clean
    <2>5. a - n \in DOMAIN tail /\ tail[a - n] = ms[a] /\ (a - n) + n = a
      BY <1>1, <1>5, <2>4
    <2>. QED
      BY <1>6, <2>1, <2>2, <2>5
  <1>8. Behind(tail, ids)
    <2>. SUFFICES ASSUME NEW a \in DOMAIN tail, NEW id \in Ids(tail[a]) \cap ids
                  PROVE  \E i \in DOMAIN tail : Run(tail, a, i) /\ tail[i].of = id
      BY DEF Behind
    <2>1. a + n \in DOMAIN ms /\ id \in Ids(ms[a + n]) \cap ids
      BY <1>4
    <2>2. PICK i \in DOMAIN ms : Run(ms, a + n, i) /\ ms[i].of = id
      BY <2>1 DEF Behind
    <2>3. i > n
      BY <1>1, <1>3, <2>2 DEF Run
    <2>4. i - n \in DOMAIN tail /\ tail[i - n] = ms[i] /\ (i - n) + n = i
      BY <1>1, <1>5, <2>3
    <2>. QED
      BY <1>6, <2>2, <2>4
  <1>. QED
    BY <1>1, <1>2, <1>4, <1>5, <1>7, <1>8 DEF Suffix

\* The window: every result it shows behind its call, and of these answered calls every result.
Shown(ws, ids) == ws \in Seq(Msgs) /\ Len(ws) > 0 /\ Chained(ws) /\ Behind(ws, ids)
\* The last message of the user, but for the pointer that follows the first message.
SteeredAt(ws, m, p) == ws[p] = m /\ \A i \in DOMAIN ws : i > p /\ IsUser(ws[i]) => p = 1 /\ i = 2
Steered(ws, m) == \E p \in DOMAIN ws : SteeredAt(ws, m, p)

\* The protected tail begins at or before the last user message, at a clean cut.
LEMMA ProtectedFacts ==
    ASSUME NEW ms \in Seq(Msgs), Len(ms) > 0, NEW safe, safe = protected_tail_start(ms)
    PROVE  /\ safe \in 0..(Len(ms) - 1) /\ Clean(ms, safe)
           /\ \A u \in DOMAIN ms : IsUser(ms[u]) /\ (\A i \in DOMAIN ms : i > u => ~IsUser(ms[i]))
                                   => safe <= u - 1
           /\ (IsUser(ms[1]) /\ safe = 0) => \A i \in DOMAIN ms : i > 1 => ~IsUser(ms[i])
  <1>. DEFINE n == Len(ms)
              U == {1} \cup {i \in DOMAIN ms : IsUser(ms[i])}
              reads == {i \in DOMAIN ms : IsTool(ms[i]) /\ Use(ms[i].of, "read") \in UsesIn(ms)}
              r == Max(reads)
              h == RunHead(ms, r)
              user0 == Max(U) - 1
              cut == IF Calls(ms[h]) THEN h - 1 ELSE r - 1
  <1>1. n \in Nat \ {0} /\ DOMAIN ms = 1..n /\ n = Len(ms) /\ \A i \in DOMAIN ms : ms[i] \in Msgs
    BY SeqMsgs
  <1>2. safe = IF reads = {} THEN user0 ELSE Min({user0, cut})
    BY DEF protected_tail_start
  <1>. HIDE DEF n
  <1>3. PICK u0 : u0 = Max(U)
    OBVIOUS
  <1>4. u0 \in U /\ u0 \in 1..n /\ (u0 = 1 \/ IsUser(ms[u0])) /\ \A i \in DOMAIN ms : i > u0 => ~IsUser(ms[i])
    <2>1. U \in SUBSET (1..n) /\ U # {} /\ n \in Int /\ 1 \in Int
      BY <1>1
    <2>2. u0 \in U /\ \A i \in U : i <= u0
      <3>. HIDE DEF U
      <3>. QED
        BY <1>3, <2>1, MaxOf
    <2>3. u0 \in 1..n /\ (u0 = 1 \/ IsUser(ms[u0]))
      BY <1>1, <2>2
    <2>4. ASSUME NEW i \in DOMAIN ms, i > u0, IsUser(ms[i]) PROVE FALSE
      <3>1. i \in U
        BY <2>4
      <3>. QED
        BY <1>1, <2>2, <2>3, <2>4, <3>1
    <2>. QED
      BY <2>2, <2>3, <2>4
  <1>5. user0 = u0 - 1
    BY <1>3
  <1>6. Clean(ms, u0 - 1)
    <2>1. CASE u0 = 1
      BY <2>1 DEF Clean
    <2>2. CASE IsUser(ms[u0])
      <3>1. u0 - 1 \in Nat /\ ~IsTool(ms[(u0 - 1) + 1])
        BY <1>1, <1>4, <2>2, MsgFacts
      <3>. QED
        BY <3>1, CleanBefore
    <2>. QED
      BY <1>4, <2>1, <2>2
  <1>7. CASE reads = {}
    <2>1. safe = u0 - 1
      BY <1>2, <1>5, <1>7
    <2>. QED
      BY <1>1, <1>4, <1>6, <2>1
  <1>8. CASE reads # {}
    <2>1. PICK r0 : r0 = r
      OBVIOUS
    <2>2. r0 \in DOMAIN ms /\ IsTool(ms[r0])
      <3>1. reads \in SUBSET (1..n) /\ n \in Nat
        BY <1>1
      <3>2. r0 \in reads
        <4>. HIDE DEF reads
        <4>. QED
          BY <1>8, <2>1, <3>1, MaxIsIn
      <3>. QED
        BY <3>2
    <2>3. PICK h0 : h0 = RunHead(ms, r0)
      OBVIOUS
    <2>4. h0 \in 1..r0
      BY <2>2, <2>3, RunHeadFacts
    <2>5. PICK c : c = IF Calls(ms[h0]) THEN h0 - 1 ELSE r0 - 1
      OBVIOUS
    <2>6. cut = c
      BY <2>1, <2>3, <2>5
    <2>7. Clean(ms, c)
      BY <2>2, <2>3, <2>5, CleanAtHead
    <2>8. c \in 0..(n - 1)
      BY <1>1, <2>2, <2>4, <2>5
    <2>. HIDE DEF reads, user0, cut
    <2>9. safe = Min({u0 - 1, c})
      BY <1>2, <1>5, <1>8, <2>6
    <2>10. safe \in {u0 - 1, c} /\ safe <= u0 - 1
      <3>1. PICK v \in Int : v = u0 - 1
        BY <1>4
      <3>2. c \in Int /\ safe = Min({v, c})
        BY <1>1, <2>8, <2>9, <3>1
      <3>3. Min({v, c}) \in {v, c} /\ Min({v, c}) <= v
        BY <3>2, MinOf
      <3>. QED
        BY <3>1, <3>2, <3>3
    <2>11. ASSUME IsUser(ms[1]), c = 0 PROVE FALSE
      <3>1. ~Calls(ms[1]) /\ ~IsTool(ms[1])
        BY <1>1, <2>11, MsgFacts
      <3>2. r0 # 1 /\ (Calls(ms[h0]) => h0 # 1)
        BY <2>2, <3>1
      <3>. QED
        BY <1>1, <2>2, <2>4, <2>5, <2>11, <3>1, <3>2
    <2>. QED
      BY <1>1, <1>4, <1>6, <2>7, <2>8, <2>10, <2>11
  <1>. QED
    BY <1>7, <1>8

\* align_tail_start: a tail that leaves something out starts at a clean cut.
LEMMA AlignFacts ==
    ASSUME NEW ms \in Seq(Msgs), Len(ms) > 0, NEW hot \in 0..(Len(ms) - 1),
           NEW tail, tail = align_tail_start(ms, hot)
    PROVE  tail \in Int /\ (tail > 1 => tail \in 0..(Len(ms) - 1) /\ Clean(ms, tail))
  <1>1. Len(ms) \in Nat \ {0} /\ DOMAIN ms = 1..Len(ms) /\ hot \in Int
    BY SeqMsgs
  <1>2. Min({hot, Len(ms) - 1}) = hot
    <2>. DEFINE v == Len(ms) - 1
    <2>1. v \in Int /\ v = Len(ms) - 1
      BY <1>1
    <2>. HIDE DEF v
    <2>2. Min({hot, v}) \in {hot, v} /\ Min({hot, v}) <= hot /\ Min({hot, v}) <= v
      BY <1>1, <2>1, MinOf
    <2>. QED
      BY <1>1, <2>1, <2>2
  <1>3. PICK h : h = RunHead(ms, hot + 1)
    OBVIOUS
  <1>4. tail = IF Calls(ms[h]) THEN h - 1 ELSE Max({1, hot})
    BY <1>2, <1>3 DEF align_tail_start
  <1>5. hot + 1 \in DOMAIN ms
    BY <1>1
  <1>6. h \in 1..(hot + 1)
    BY <1>3, <1>5, RunHeadFacts
  <1>7. Clean(ms, IF Calls(ms[h]) THEN h - 1 ELSE (hot + 1) - 1)
    BY <1>3, <1>5, CleanAtHead
  <1>8. Max({1, hot}) = IF hot >= 1 THEN hot ELSE 1
    <2>1. CASE hot >= 1
      <3>1. hot \in {1, hot} /\ {1, hot} \in SUBSET Int /\ \A i \in {1, hot} : i <= hot
        BY <1>1, <2>1
      <3>2. Max({1, hot}) = hot
        BY <3>1, MaxIs
      <3>. QED
        BY <2>1, <3>2
    <2>2. CASE ~(hot >= 1)
      <3>1. 1 \in {1, hot} /\ {1, hot} \in SUBSET Int /\ \A i \in {1, hot} : i <= 1
        BY <1>1, <2>2
      <3>2. Max({1, hot}) = 1
        BY <3>1, MaxIs
      <3>. QED
        BY <2>2, <3>2
    <2>. QED
      BY <2>1, <2>2
  <1>9. CASE Calls(ms[h])
    BY <1>1, <1>4, <1>6, <1>7, <1>9
  <1>10. CASE ~Calls(ms[h])
    <2>1. tail \in Int /\ (tail > 1 => tail = hot) /\ (hot + 1) - 1 = hot
      BY <1>1, <1>4, <1>8, <1>10
    <2>. QED
      BY <1>7, <1>10, <2>1
  <1>. QED
    BY <1>9, <1>10

\* Users' messages in front change no run.
LEMMA PrefixedKeeps ==
    ASSUME NEW xs \in Seq(Msgs), \A i \in DOMAIN xs : IsUser(xs[i]),
           NEW ms \in Seq(Msgs), Chained(ms), NEW ids, Behind(ms, ids), NEW more, more = xs \o ms
    PROVE  /\ more \in Seq(Msgs) /\ Len(more) = Len(xs) + Len(ms)
           /\ \A i \in 1..Len(xs) : more[i] = xs[i]
           /\ \A i \in 1..Len(ms) : more[Len(xs) + i] = ms[i]
           /\ Chained(more) /\ Behind(more, ids)
  <1>. DEFINE n == Len(xs)
              m == Len(ms)
  <1>1. /\ n \in Nat /\ m \in Nat /\ DOMAIN xs = 1..n /\ DOMAIN ms = 1..m
        /\ \A i \in DOMAIN xs : xs[i] \in Msgs
    BY SeqMsgs
  <1>2. more \in Seq(Msgs) /\ Len(more) = n + m
        /\ \A i \in 1..(n + m) : more[i] = IF i <= n THEN xs[i] ELSE ms[i - n]
    BY ConcatProperties
  <1>3. DOMAIN more = 1..(n + m)
    BY <1>2, SeqMsgs
  <1>. HIDE DEF n, m
  <1>4. \A i \in 1..n : more[i] = xs[i] /\ i \in DOMAIN more /\ ~IsTool(more[i]) /\ Ids(more[i]) = {}
    <2>. SUFFICES ASSUME NEW i \in 1..n
                  PROVE  more[i] = xs[i] /\ i \in DOMAIN more /\ ~IsTool(more[i]) /\ Ids(more[i]) = {}
      OBVIOUS
    <2>1. i \in 1..(n + m) /\ i <= n
      BY <1>1
    <2>2. more[i] = xs[i] /\ i \in DOMAIN more
      BY <1>2, <1>3, <2>1
    <2>3. xs[i] \in Msgs /\ IsUser(xs[i])
      BY <1>1
    <2>. QED
      BY <2>2, <2>3, MsgFacts
  <1>5. \A i \in 1..m : more[n + i] = ms[i] /\ n + i \in DOMAIN more
    <2>. SUFFICES ASSUME NEW i \in 1..m PROVE more[n + i] = ms[i] /\ n + i \in DOMAIN more
      OBVIOUS
    <2>1. n + i \in 1..(n + m) /\ ~(n + i <= n) /\ (n + i) - n = i
      BY <1>1
    <2>. QED
      BY <1>2, <1>3, <2>1
  <1>6. \A i \in DOMAIN more : i \in 1..n \/ (i - n \in 1..m /\ n + (i - n) = i)
    BY <1>1, <1>3
  <1>7. ASSUME NEW a \in 1..m, NEW i \in 1..m PROVE Run(more, n + a, n + i) <=> Run(ms, a, i)
    <2>1. ASSUME Run(ms, a, i) PROVE Run(more, n + a, n + i)
      <3>1. ASSUME NEW k \in ((n + a) + 1)..(n + i) PROVE IsTool(more[k])
        <4>1. k - n \in (a + 1)..i /\ k - n \in 1..m /\ n + (k - n) = k
          BY <1>1
        <4>. QED
          BY <1>5, <2>1, <4>1 DEF Run
      <3>. QED
        BY <1>1, <2>1, <3>1 DEF Run
    <2>2. ASSUME Run(more, n + a, n + i) PROVE Run(ms, a, i)
      <3>1. ASSUME NEW k \in (a + 1)..i PROVE IsTool(ms[k])
        <4>1. k \in 1..m /\ n + k \in ((n + a) + 1)..(n + i)
          BY <1>1
        <4>. QED
          BY <1>5, <2>2, <4>1 DEF Run
      <3>. QED
        BY <1>1, <2>2, <3>1 DEF Run
    <2>. QED
      BY <2>1, <2>2
  <1>8. Chained(more)
    <2>. SUFFICES ASSUME NEW i \in DOMAIN more, IsTool(more[i]), more[i].of \in OwnIds
                  PROVE  \E a \in DOMAIN more : more[i].of \in Ids(more[a]) /\ Run(more, a, i)
      BY DEF Chained
    <2>1. PICK j \in 1..m : n + j = i
      BY <1>4, <1>6
    <2>2. more[i] = ms[j] /\ j \in DOMAIN ms
      BY <1>1, <1>5, <2>1
    <2>3. PICK a \in DOMAIN ms : ms[j].of \in Ids(ms[a]) /\ Run(ms, a, j)
      BY <2>2 DEF Chained
    <2>4. a \in 1..m /\ more[n + a] = ms[a] /\ n + a \in DOMAIN more
      BY <1>1, <1>5
    <2>. QED
      BY <1>7, <2>1, <2>2, <2>3, <2>4
  <1>9. Behind(more, ids)
    <2>. SUFFICES ASSUME NEW a \in DOMAIN more, NEW id \in Ids(more[a]) \cap ids
                  PROVE  \E i \in DOMAIN more : Run(more, a, i) /\ more[i].of = id
      BY DEF Behind
    <2>1. PICK b \in 1..m : n + b = a
      BY <1>4, <1>6
    <2>2. more[a] = ms[b] /\ b \in DOMAIN ms
      BY <1>1, <1>5, <2>1
    <2>3. PICK j \in DOMAIN ms : Run(ms, b, j) /\ ms[j].of = id
      BY <2>2 DEF Behind
    <2>4. j \in 1..m /\ more[n + j] = ms[j] /\ n + j \in DOMAIN more
      BY <1>1, <1>5
    <2>. QED
      BY <1>7, <2>1, <2>3, <2>4
  <1>. QED
    BY <1>2, <1>4, <1>5, <1>8, <1>9 DEF n, m

\* The parts of a history that is collapsed, and the start of its tail.
CollapsedTo(ws, ms, t) ==
    \E xs \in Seq(Msgs) : /\ Len(xs) = 2 /\ xs[1] = ms[1] /\ xs[2] = Pointer
                          /\ ws = xs \o SubSeq(ms, t + 1, Len(ms))
TailStart(ms, hot) ==
    IF protected_tail_start(ms) > 0
    THEN Min({align_tail_start(ms, hot), protected_tail_start(ms)}) ELSE align_tail_start(ms, hot)

\* What collapse_tool_history leaves if it collapses anything.
LEMMA CollapsedAs ==
    ASSUME NEW ms \in Seq(Msgs), Len(ms) > 0, IsUser(ms[1]), NEW hot,
           NEW t, t = TailStart(ms, hot),
           NEW ws, ws = collapse_tool_history(ms, hot), ws # ms
    PROVE  ~(t <= 1) /\ CollapsedTo(ws, ms, t)
  <1>1. ws = IF Len(ms) <= 4 \/ t <= 1 THEN ms
             ELSE SubSeq(ms, 1, 1) \o <<Pointer>> \o SubSeq(ms, t + 1, Len(ms))
    BY DEF collapse_tool_history, TailStart
  <1>2. PICK one : one = SubSeq(ms, 1, 1)
    OBVIOUS
  <1>3. one \in Seq(Msgs) /\ Len(one) = 1 /\ one[1] = ms[1]
    <2>1. Len(ms) \in Nat /\ 1 \in DOMAIN ms /\ ms[1] \in Msgs /\ DOMAIN ms = 1..Len(ms)
      BY SeqMsgs
    <2>2. \A i \in 1..1 : ms[i] \in Msgs
      BY <2>1
    <2>. QED
      BY <1>2, <2>1, <2>2, SubSeqProperties
  <1>4. PICK two : two = <<Pointer>>
    OBVIOUS
  <1>5. two \in Seq(Msgs) /\ Len(two) = 1 /\ two[1] = Pointer
    BY <1>4, MsgTypes
  <1>6. PICK xs : xs = one \o two
    OBVIOUS
  <1>7. xs \in Seq(Msgs) /\ Len(xs) = 2 /\ xs[1] = ms[1] /\ xs[2] = Pointer
    <2>1. xs \in Seq(Msgs) /\ Len(xs) = Len(one) + Len(two)
          /\ \A i \in 1..(Len(one) + Len(two)) : xs[i] = IF i <= Len(one) THEN one[i] ELSE two[i - Len(one)]
      BY <1>3, <1>5, <1>6, ConcatProperties
    <2>2. \A i \in 1..2 : xs[i] = IF i <= 1 THEN one[i] ELSE two[i - 1]
      BY <1>3, <1>5, <2>1
    <2>3. xs[1] = one[1] /\ xs[2] = two[1]
      BY <2>2
    <2>. QED
      BY <1>3, <1>5, <2>1, <2>3
  <1>8. ~(t <= 1) /\ ws = xs \o SubSeq(ms, t + 1, Len(ms))
    BY <1>1, <1>2, <1>4, <1>6
  <1>. QED
    BY <1>7, <1>8 DEF CollapsedTo

\* A collapsed history shows what it keeps, and the user's last message.
LEMMA CollapseShows ==
    ASSUME NEW ms \in Seq(Msgs), Len(ms) > 0, IsUser(ms[1]), Chained(ms), NEW ids, Behind(ms, ids),
           NEW m, Instructed(ms, m), IsUser(m), NEW hot \in 0..(Len(ms) - 1),
           NEW ws, ws = collapse_tool_history(ms, hot)
    PROVE  Shown(ws, ids) /\ Steered(ws, m)
  <1>1. PICK p \in DOMAIN ms : ms[p] = m /\ \A i \in DOMAIN ms : i > p => ~IsUser(ms[i])
    BY DEF Instructed
  <1>2. CASE ws = ms
    BY <1>1, <1>2 DEF Shown, Steered, SteeredAt
  <1>3. CASE ws # ms
    <2>1. Len(ms) \in Nat \ {0} /\ DOMAIN ms = 1..Len(ms) /\ ms[1] \in Msgs
      BY SeqMsgs
    <2>2. PICK a : a = align_tail_start(ms, hot)
      OBVIOUS
    <2>3. PICK safe : safe = protected_tail_start(ms)
      OBVIOUS
    <2>4. PICK t : t = IF safe > 0 THEN Min({a, safe}) ELSE a
      OBVIOUS
    <2>5. ~(t <= 1) /\ CollapsedTo(ws, ms, t)
      <3>1. t = TailStart(ms, hot)
        BY <2>2, <2>3, <2>4 DEF TailStart
      <3>. QED
        BY <1>3, <3>1, CollapsedAs
    <2>6. a \in Int /\ (a > 1 => a \in 0..(Len(ms) - 1) /\ Clean(ms, a))
      BY <2>2, AlignFacts
    <2>7. /\ safe \in 0..(Len(ms) - 1) /\ Clean(ms, safe)
          /\ p > 1 => safe <= p - 1 /\ safe > 0
      <3>1. /\ safe \in 0..(Len(ms) - 1) /\ Clean(ms, safe)
            /\ \A u \in DOMAIN ms : IsUser(ms[u]) /\ (\A i \in DOMAIN ms : i > u => ~IsUser(ms[i]))
                                   => safe <= u - 1
            /\ (IsUser(ms[1]) /\ safe = 0) => \A i \in DOMAIN ms : i > 1 => ~IsUser(ms[i])
        BY <2>3, ProtectedFacts
      <3>2. safe <= p - 1
        BY <1>1, <3>1
      <3>3. p > 1 => safe # 0
        BY <1>1, <3>1
      <3>. QED
        BY <3>1, <3>2, <3>3
    <2>8. t > 1 /\ t \in 0..(Len(ms) - 1) /\ Clean(ms, t) /\ (p > 1 => t <= p - 1)
      <3>1. CASE safe > 0
        <4>1. Min({a, safe}) \in {a, safe} /\ Min({a, safe}) <= a /\ Min({a, safe}) <= safe
          <5>1. safe \in Int
            BY <2>7
          <5>. QED
            BY <2>6, <5>1, MinOf
        <4>2. t \in {a, safe} /\ t <= a /\ t <= safe
          BY <2>4, <3>1, <4>1
        <4>. QED
          BY <1>1, <2>1, <2>5, <2>6, <2>7, <4>2
      <3>2. CASE ~(safe > 0)
        BY <2>4, <2>5, <2>6, <2>7, <3>2
      <3>. QED
        BY <3>1, <3>2
    <2>9. PICK xs \in Seq(Msgs) : /\ Len(xs) = 2 /\ xs[1] = ms[1] /\ xs[2] = Pointer
                                  /\ ws = xs \o SubSeq(ms, t + 1, Len(ms))
      BY <2>5 DEF CollapsedTo
    <2>10. Len(xs) = 2 /\ xs[1] = ms[1] /\ \A i \in DOMAIN xs : IsUser(xs[i])
      <3>1. IsUser(Pointer)
        BY MsgTypes DEF Pointer
      <3>2. \A i \in DOMAIN xs : i = 1 \/ i = 2
        BY <2>9, SeqMsgs
      <3>. QED
        BY <2>9, <3>1, <3>2
    <2>11. PICK tail : tail = SubSeq(ms, t + 1, Len(ms))
      OBVIOUS
    <2>12a. Suffix(tail, ms, t) /\ Chained(tail) /\ Behind(tail, ids)
      <3>1. t \in 0..Len(ms) /\ Clean(ms, t)
        BY <2>1, <2>8
      <3>. QED
        BY <2>11, <3>1, SuffixKeeps
    <2>12. /\ tail \in Seq(Msgs) /\ Len(tail) = Len(ms) - t
           /\ \A i \in DOMAIN tail : i + t \in DOMAIN ms /\ tail[i] = ms[i + t]
           /\ \A i \in DOMAIN ms : i > t => i - t \in DOMAIN tail /\ tail[i - t] = ms[i]
           /\ Chained(tail) /\ Behind(tail, ids)
      BY <2>12a DEF Suffix
    <2>13. /\ ws \in Seq(Msgs) /\ Len(ws) = Len(xs) + Len(tail)
           /\ \A i \in 1..Len(xs) : ws[i] = xs[i]
           /\ \A i \in 1..Len(tail) : ws[Len(xs) + i] = tail[i]
           /\ Chained(ws) /\ Behind(ws, ids)
      <3>1. ws = xs \o tail
        BY <2>9, <2>11
      <3>. QED
        BY <2>10, <2>12, <3>1, PrefixedKeeps
    <2>14. DOMAIN tail = 1..Len(tail) /\ DOMAIN ws = 1..Len(ws) /\ Len(tail) \in Nat
      BY <2>12, <2>13, SeqMsgs
    <2>15. Shown(ws, ids)
      BY <2>10, <2>13, <2>14 DEF Shown
    <2>16. \A i \in DOMAIN ws : i > 2 => i - 2 \in DOMAIN tail /\ ws[i] = ms[i - 2 + t] /\ i - 2 + t \in DOMAIN ms
      <3>. SUFFICES ASSUME NEW i \in DOMAIN ws, i > 2
                    PROVE  i - 2 \in DOMAIN tail /\ ws[i] = ms[i - 2 + t] /\ i - 2 + t \in DOMAIN ms
        OBVIOUS
      <3>1. i - 2 \in DOMAIN tail /\ 2 + (i - 2) = i
        BY <2>10, <2>13, <2>14
      <3>2. ws[2 + (i - 2)] = tail[i - 2]
        BY <2>10, <2>13, <2>14, <3>1
      <3>. QED
        BY <2>12, <3>1, <3>2
    <2>17. CASE p = 1
      <3>1. 1 \in DOMAIN ws /\ ws[1] = m
        BY <1>1, <2>10, <2>13, <2>14, <2>17
      <3>2. ASSUME NEW i \in DOMAIN ws, i > 1, IsUser(ws[i]) PROVE i = 2
        <4>. SUFFICES ASSUME i > 2 PROVE FALSE
          BY <2>14, <3>2
        <4>1. i - 2 + t > 1 /\ i - 2 + t \in DOMAIN ms /\ IsUser(ms[i - 2 + t])
          BY <2>8, <2>14, <2>16, <3>2
        <4>. QED
          BY <1>1, <2>17, <4>1
      <3>3. SteeredAt(ws, m, 1)
        BY <3>1, <3>2 DEF SteeredAt
      <3>. QED
        BY <2>15, <3>1, <3>3 DEF Steered
    <2>18. CASE p > 1
      <3>1. PICK q : q = p - t + 2
        OBVIOUS
      <3>2. q \in DOMAIN ws /\ q > 2 /\ q - 2 + t = p
        <4>1. p \in 1..Len(ms) /\ t \in 0..Len(ms) /\ t <= p - 1 /\ Len(ms) \in Nat
          BY <1>1, <2>1, <2>8, <2>18
        <4>2. Len(ws) = 2 + (Len(ms) - t)
          BY <2>10, <2>12, <2>13
        <4>3. t \in Int /\ p \in Int /\ q = p - t + 2 /\ p - t >= 1
          BY <3>1, <4>1
        <4>4. q \in Int /\ q > 2 /\ q - 2 + t = p
          BY <4>3
        <4>5. q <= Len(ws) /\ Len(ws) \in Int
          BY <4>1, <4>2, <4>3
        <4>6. q \in 1..Len(ws)
          BY <4>4, <4>5
        <4>. QED
          BY <2>14, <4>4, <4>6
      <3>3. ws[q] = m
        BY <1>1, <2>16, <3>2
      <3>4. ASSUME NEW i \in DOMAIN ws, i > q, IsUser(ws[i]) PROVE FALSE
        <4>1. i > 2 /\ i - 2 + t > p
          <5>1. i \in Int /\ q \in Int /\ t \in Int
            BY <2>8, <2>14, <3>2
          <5>. QED
            BY <3>2, <3>4, <5>1
        <4>2. i - 2 + t \in DOMAIN ms /\ IsUser(ms[i - 2 + t])
          BY <2>16, <3>4, <4>1
        <4>. QED
          BY <1>1, <4>1, <4>2
      <3>5. SteeredAt(ws, m, q)
        BY <3>3, <3>4 DEF SteeredAt
      <3>. QED
        BY <2>15, <3>2, <3>5 DEF Steered
    <2>. QED
      BY <2>1, <2>15, <2>17, <2>18, <1>1
  <1>. QED
    BY <1>2, <1>3

\* What comes before the user's last message may go.
LEMMA SuffixSteers ==
    ASSUME NEW ws \in Seq(Msgs), NEW n \in 0..Len(ws), NEW tail, Suffix(tail, ws, n),
           NEW p \in DOMAIN ws, n < p, NEW m, SteeredAt(ws, m, p)
    PROVE  p - n \in DOMAIN tail /\ SteeredAt(tail, m, p - n)
  <1>1. Len(ws) \in Nat /\ DOMAIN ws = 1..Len(ws) /\ p \in 1..Len(ws)
    BY SeqMsgs
  <1>2. /\ \A i \in DOMAIN tail : i + n \in DOMAIN ws /\ tail[i] = ws[i + n]
        /\ \A i \in DOMAIN ws : i > n => i - n \in DOMAIN tail /\ tail[i - n] = ws[i]
        /\ DOMAIN tail = 1..Len(tail) /\ Len(tail) \in Nat
    BY SeqMsgs DEF Suffix
  <1>3. ws[p] = m /\ \A i \in DOMAIN ws : i > p /\ IsUser(ws[i]) => p = 1 /\ i = 2
    BY DEF SteeredAt
  <1>4. p - n \in DOMAIN tail /\ tail[p - n] = m
    BY <1>2, <1>3
  <1>5. ASSUME NEW i \in DOMAIN tail, i > p - n, IsUser(tail[i]) PROVE p - n = 1 /\ i = 2
    <2>1. i + n \in DOMAIN ws /\ i + n > p /\ IsUser(ws[i + n])
      BY <1>1, <1>2, <1>5
    <2>2. p = 1 /\ i + n = 2
      BY <1>3, <2>1
    <2>3. n = 0
      BY <1>1, <2>2
    <2>. QED
      BY <1>2, <2>2, <2>3
  <1>. QED
    BY <1>4, <1>5 DEF SteeredAt

\* The oldest group is cut off at a clean place.
Oldest(rem) ==
    IF Calls(rem[1]) THEN RunEnd(rem, 1)
    ELSE IF IsUser(rem[1])
    THEN Max({j \in 1..Len(rem) : \A k \in 2..j : ~IsUser(rem[k])})
    ELSE 1

\* The group that goes ends at a clean cut, and something is left behind it.
LEMMA OldestIsClean ==
    ASSUME NEW rem \in Seq(Msgs), NEW g, g = Oldest(rem), Len(rem) > 1,
           Calls(rem[1]) \/ IsUser(rem[1]) => g < Len(rem)
    PROVE  g \in 1..(Len(rem) - 1) /\ Clean(rem, g)
  <1>1. Len(rem) \in Nat /\ DOMAIN rem = 1..Len(rem) /\ \A i \in DOMAIN rem : rem[i] \in Msgs
    BY SeqMsgs
  <1>2. CASE Calls(rem[1])
    <2>1. g = RunEnd(rem, 1) /\ 1 \in DOMAIN rem
      BY <1>1, <1>2 DEF Oldest
    <2>2. g \in 1..Len(rem) /\ (g < Len(rem) => ~IsTool(rem[g + 1]))
      BY <2>1, RunEndFacts
    <2>3. g \in Nat /\ ~IsTool(rem[g + 1])
      BY <1>1, <1>2, <2>2
    <2>4. Clean(rem, g)
      BY <2>3, CleanBefore
    <2>. QED
      BY <1>1, <1>2, <2>2, <2>4
  <1>3. CASE ~Calls(rem[1]) /\ IsUser(rem[1])
    <2>. DEFINE S == {j \in 1..Len(rem) : \A k \in 2..j : ~IsUser(rem[k])}
    <2>1. g = Max(S)
      BY <1>3 DEF Oldest
    <2>2. g \in S /\ \A j \in S : j <= g
      <3>1. S \in SUBSET (1..Len(rem)) /\ 1 \in S /\ 1 \in Int /\ Len(rem) \in Int
        BY <1>1
      <3>. HIDE DEF S
      <3>. QED
        BY <2>1, <3>1, MaxOf
    <2>3. g \in 1..Len(rem) /\ \A k \in 2..g : ~IsUser(rem[k])
      BY <2>2
    <2>4. g < Len(rem)
      BY <1>3
    <2>5. IsUser(rem[g + 1])
      <3>. SUFFICES ASSUME ~IsUser(rem[g + 1]) PROVE FALSE
        OBVIOUS
      <3>1. \A k \in 2..(g + 1) : k \in 2..g \/ k = g + 1
        BY <1>1, <2>3
      <3>2. g + 1 \in S
        BY <1>1, <2>3, <2>4, <3>1
      <3>3. g + 1 <= g
        <4>. HIDE DEF S
        <4>. QED
          BY <2>2, <3>2
      <3>. QED
        BY <1>1, <2>3, <3>3
    <2>6. ~IsTool(rem[g + 1]) /\ g \in Nat
      BY <1>1, <2>3, <2>4, <2>5, MsgFacts
    <2>7. Clean(rem, g)
      BY <2>6, CleanBefore
    <2>. QED
      BY <1>1, <2>3, <2>4, <2>7
  <1>4. CASE ~Calls(rem[1]) /\ ~IsUser(rem[1])
    <2>1. g = 1
      BY <1>4 DEF Oldest
    <2>2. Clean(rem, g)
      BY <1>4, <2>1 DEF Clean
    <2>. QED
      BY <1>1, <2>1, <2>2
  <1>. QED
    BY <1>2, <1>3, <1>4

\* The results the history starts with.
LEMMA LeadingResults ==
    ASSUME NEW ws \in Seq(Msgs), NEW safe \in 0..Len(ws),
           NEW n, n = Max({j \in 0..safe : \A k \in 1..j : IsTool(ws[k])})
    PROVE  n \in 0..safe /\ Clean(ws, n) /\ \A k \in 1..n : IsTool(ws[k])
  <1>. DEFINE S == {j \in 0..safe : \A k \in 1..j : IsTool(ws[k])}
  <1>1. Len(ws) \in Nat /\ DOMAIN ws = 1..Len(ws) /\ \A i \in DOMAIN ws : ws[i] \in Msgs
    BY SeqMsgs
  <1>2. n \in S
    <2>1. S \in SUBSET (0..safe) /\ 0 \in S /\ 0 \in Int /\ safe \in Int /\ n = Max(S)
      BY <1>1
    <2>. HIDE DEF S
    <2>. QED
      BY <2>1, MaxOf
  <1>3. n \in 0..safe /\ \A k \in 1..n : IsTool(ws[k])
    BY <1>2
  <1>4. \A k \in 1..n : ~Calls(ws[k])
    BY <1>1, <1>3, MsgFacts
  <1>. QED
    BY <1>3, <1>4 DEF Clean

\* pop_oldest_message_group leaves no result without its call, and the user's last message.
LEMMA PopShows ==
    ASSUME NEW ws, NEW ids, Shown(ws, ids), NEW m, IsUser(m), Steered(ws, m),
           NEW left, left = pop_oldest_message_group(ws).ms
    PROVE  Shown(left, ids) /\ Steered(left, m)
  <1>1. /\ ws \in Seq(Msgs) /\ Len(ws) \in Nat \ {0} /\ DOMAIN ws = 1..Len(ws)
        /\ Len(ws) > 0 /\ Chained(ws) /\ Behind(ws, ids) /\ \A i \in DOMAIN ws : ws[i] \in Msgs
    BY SeqMsgs DEF Shown
  <1>2. PICK p \in DOMAIN ws : SteeredAt(ws, m, p)
    BY DEF Steered
  <1>3. PICK safe : safe = protected_tail_start(ws)
    OBVIOUS
  <1>4. PICK n : n = Max({j \in 0..safe : \A k \in 1..j : IsTool(ws[k])})
    OBVIOUS
  <1>5. PICK rem : rem = SubSeq(ws, n + 1, Len(ws))
    OBVIOUS
  <1>6. PICK g : g = Oldest(rem)
    OBVIOUS
  <1>7. \/ left = rem
        \/ /\ left = SubSeq(rem, g + 1, Len(rem)) /\ safe - n > 1
           /\ (Calls(rem[1]) \/ IsUser(rem[1])) => g < Len(rem) /\ g <= safe - n
    BY <1>3, <1>4, <1>5, <1>6 DEF pop_oldest_message_group, Oldest
  <1>8. /\ safe \in 0..(Len(ws) - 1)
        /\ \A u \in DOMAIN ws : IsUser(ws[u]) /\ (\A i \in DOMAIN ws : i > u => ~IsUser(ws[i]))
                                => safe <= u - 1
    BY <1>1, <1>3, ProtectedFacts
  <1>9. n \in 0..safe /\ Clean(ws, n) /\ \A k \in 1..n : IsTool(ws[k])
    <2>1. safe \in 0..Len(ws)
      BY <1>1, <1>8
    <2>. QED
      BY <1>1, <1>4, <2>1, LeadingResults
  <1>10. Suffix(rem, ws, n) /\ Chained(rem) /\ Behind(rem, ids)
    <2>1. n \in 0..Len(ws)
      BY <1>1, <1>8, <1>9
    <2>. QED
      BY <1>1, <1>5, <1>9, <2>1, SuffixKeeps
  <1>11. rem \in Seq(Msgs) /\ Len(rem) = Len(ws) - n /\ Len(rem) > 0 /\ Len(rem) \in Nat
    BY <1>1, <1>8, <1>9, <1>10 DEF Suffix
  <1>12. n < p
    <2>1. IsUser(ws[p])
      BY <1>2 DEF SteeredAt
    <2>2. ~IsTool(ws[p])
      BY <1>1, <2>1, MsgFacts
    <2>. QED
      BY <1>1, <1>8, <1>9, <2>2
  <1>13. PICK q : q = p - n
    OBVIOUS
  <1>14. q \in DOMAIN rem /\ SteeredAt(rem, m, q)
    <2>1. n \in 0..Len(ws)
      BY <1>1, <1>8, <1>9
    <2>2. p - n \in DOMAIN rem /\ SteeredAt(rem, m, p - n)
      BY <1>1, <1>2, <1>10, <1>12, <2>1, SuffixSteers
    <2>. QED
      BY <1>13, <2>2
  <1>15. CASE left = rem
    BY <1>10, <1>11, <1>14, <1>15 DEF Shown, Steered
  <1>16. CASE /\ left = SubSeq(rem, g + 1, Len(rem)) /\ safe - n > 1
              /\ (Calls(rem[1]) \/ IsUser(rem[1])) => g < Len(rem) /\ g <= safe - n
    <2>1. Len(rem) > 1
      BY <1>1, <1>8, <1>9, <1>11, <1>16
    <2>2. g \in 1..(Len(rem) - 1) /\ Clean(rem, g)
      BY <1>6, <1>11, <1>16, <2>1, OldestIsClean
    <2>3. g <= safe - n
      <3>1. CASE Calls(rem[1]) \/ IsUser(rem[1])
        BY <1>16, <3>1
      <3>2. CASE ~(Calls(rem[1]) \/ IsUser(rem[1]))
        <4>1. g = 1
          BY <1>6, <3>2 DEF Oldest
        <4>. QED
          BY <1>8, <1>9, <1>16, <4>1
      <3>. QED
        BY <3>1, <3>2
    <2>4. safe <= p - 1
      <3>1. ws[p] = m /\ \A i \in DOMAIN ws : i > p /\ IsUser(ws[i]) => p = 1 /\ i = 2
        BY <1>2 DEF SteeredAt
      <3>2. CASE \A i \in DOMAIN ws : i > p => ~IsUser(ws[i])
        BY <1>8, <3>1, <3>2
      <3>3. ASSUME NEW i \in DOMAIN ws, i > p, IsUser(ws[i]) PROVE FALSE
        <4>1. p = 1 /\ i = 2
          BY <3>1, <3>3
        <4>2. \A j \in DOMAIN ws : j > i => ~IsUser(ws[j])
          <5>. SUFFICES ASSUME NEW j \in DOMAIN ws, j > i, IsUser(ws[j]) PROVE FALSE
            OBVIOUS
          <5>1. j > p
            BY <1>1, <4>1
          <5>2. j = 2
            BY <3>1, <5>1
          <5>. QED
            BY <4>1, <5>2
        <4>3. safe <= 1
          BY <1>8, <3>3, <4>1, <4>2
        <4>. QED
          BY <1>8, <1>9, <1>16, <4>3
      <3>. QED
        BY <3>2, <3>3
    <2>5. g < q
      BY <1>1, <1>8, <1>9, <1>13, <2>2, <2>3, <2>4
    <2>6. Suffix(left, rem, g) /\ Chained(left) /\ Behind(left, ids)
      <3>1. g \in 0..Len(rem)
        BY <1>11, <2>2
      <3>. QED
        BY <1>10, <1>11, <1>16, <2>2, <3>1, SuffixKeeps
    <2>7. left \in Seq(Msgs) /\ Len(left) > 0
      BY <1>11, <2>2, <2>6 DEF Suffix
    <2>8. q - g \in DOMAIN left /\ SteeredAt(left, m, q - g)
      <3>1. g \in 0..Len(rem)
        BY <1>11, <2>2
      <3>. QED
        BY <1>11, <1>14, <2>5, <2>6, <3>1, SuffixSteers
    <2>. QED
      BY <2>6, <2>7, <2>8 DEF Shown, Steered
  <1>. QED
    BY <1>7, <1>15, <1>16

----------------------------------------------------------------------------
(* repair_tool_call_chains.                                                       *)

\* The messages of a request, and what the repair makes of one message of the history.
Reqs == Msgs \cup {Missing(id) : id \in OwnIds}
Given(ms, i, id) == \E j \in (i + 1)..RunEnd(ms, i) : ms[j].of = id
Block(ms, i) ==
    IF IsTool(ms[i]) THEN <<>>
    ELSE <<ms[i]>> \o [k \in DOMAIN ms[i].uses |->
            IF Given(ms, i, ms[i].uses[k].id) THEN ToolResult(ms[i].uses[k].id) ELSE Missing(ms[i].uses[k].id)]

\* The calls of a request's message.
LEMMA ReqFacts ==
    ASSUME NEW m \in Reqs
    PROVE  /\ m.uses \in Seq(Uses) /\ Len(m.uses) \in Nat /\ DOMAIN m.uses = 1..Len(m.uses)
           /\ Ids(m) = {m.uses[k].id : k \in 1..Len(m.uses)}
           /\ IsTool(m) => Len(m.uses) = 0 /\ Ids(m) = {}
  <1>1. m.uses \in Seq(Uses) /\ (IsTool(m) => m.uses = <<>> /\ Ids(m) = {})
    <2>1. CASE m \in Msgs
      BY <2>1, MsgFacts
    <2>2. CASE \E id \in OwnIds : m = Missing(id)
      <3>1. PICK id \in OwnIds : m = Missing(id)
        BY <2>2
      <3>2. m.uses = <<>>
        BY <3>1 DEF Missing, ToolResult
      <3>3. Ids(m) = {}
        BY <3>2 DEF Ids
      <3>. QED
        BY <3>2, <3>3
    <2>. QED
      BY <2>1, <2>2 DEF Reqs
  <1>2. Len(m.uses) \in Nat /\ DOMAIN m.uses = 1..Len(m.uses)
    BY <1>1, LenProperties
  <1>3. Ids(m) = {m.uses[k].id : k \in 1..Len(m.uses)}
    BY <1>2 DEF Ids
  <1>4. IsTool(m) => Len(m.uses) = 0
    BY <1>1
  <1>. QED
    BY <1>1, <1>2, <1>3, <1>4

\* A result and its placeholder answer the same call.
LEMMA MissingFacts ==
    ASSUME NEW id
    PROVE  /\ IsTool(Missing(id)) /\ Missing(id).of = id /\ ~Missing(id).real
           /\ IsTool(ToolResult(id)) /\ ToolResult(id).of = id /\ ToolResult(id).real
  BY DEF Missing, ToolResult, IsTool

\* The results of a block: one behind each call, the real one if the history has it.
Answers(ms, i, b) ==
    /\ b \in Seq(Reqs) /\ Len(b) = 1 + Len(ms[i].uses) /\ b[1] = ms[i]
    /\ \A k \in 1..Len(ms[i].uses) :
          /\ IsTool(b[1 + k]) /\ b[1 + k].of = ms[i].uses[k].id
          /\ b[1 + k].real <=> Given(ms, i, ms[i].uses[k].id)
          /\ Given(ms, i, ms[i].uses[k].id) => b[1 + k] = ToolResult(ms[i].uses[k].id)

\* The repair leaves out a result, and puts one behind each call.
LEMMA BlockFacts ==
    ASSUME NEW ms \in Seq(Msgs), NEW i \in DOMAIN ms, NEW b, b = Block(ms, i)
    PROVE  /\ IsTool(ms[i]) => b = <<>>
           /\ ~IsTool(ms[i]) => Answers(ms, i, b)
  <1>1. ms[i] \in Msgs
    BY SeqMsgs
  <1>2. CASE IsTool(ms[i])
    BY <1>2 DEF Block
  <1>3. CASE ~IsTool(ms[i])
    <2>1. PICK us : us = ms[i].uses
      OBVIOUS
    <2>2. PICK n : n = Len(us)
      OBVIOUS
    <2>3. n \in Nat /\ DOMAIN us = 1..n /\ us \in Seq(Uses) /\ Ids(ms[i]) = {us[k].id : k \in 1..n}
      BY <1>1, <2>1, <2>2, ReqFacts DEF Reqs
    <2>4. \A k \in 1..n : us[k].id \in OwnIds
      BY <1>1, <2>3, MsgFacts
    <2>. DEFINE One(k) == IF Given(ms, i, us[k].id) THEN ToolResult(us[k].id) ELSE Missing(us[k].id)
    <2>5. PICK rs : rs = [k \in 1..n |-> One(k)]
      OBVIOUS
    <2>6. \A k \in 1..n : rs[k] \in Reqs
      <3>. SUFFICES ASSUME NEW k \in 1..n PROVE rs[k] \in Reqs
        OBVIOUS
      <3>1. us[k].id \in IdSet
        BY <2>4, IdFacts
      <3>2. ToolResult(us[k].id) \in Msgs
        BY <3>1, MsgTypes
      <3>3. ToolResult(us[k].id) \in Reqs /\ Missing(us[k].id) \in Reqs
        BY <2>4, <3>2 DEF Reqs
      <3>. QED
        BY <2>5, <3>3
    <2>7. rs \in Seq(Reqs) /\ Len(rs) = n
      BY <2>3, <2>5, <2>6
    <2>8. PICK one : one = <<ms[i]>>
      OBVIOUS
    <2>9. one \in Seq(Reqs) /\ Len(one) = 1 /\ one[1] = ms[i]
      <3>1. ms[i] \in Reqs
        BY <1>1 DEF Reqs
      <3>. QED
        BY <2>8, <3>1
    <2>10. b = one \o rs
      BY <1>3, <2>1, <2>3, <2>5, <2>8 DEF Block
    <2>11. /\ b \in Seq(Reqs) /\ Len(b) = 1 + n
           /\ \A j \in 1..(1 + n) : b[j] = IF j <= 1 THEN one[j] ELSE rs[j - 1]
      <3>1. /\ b \in Seq(Reqs) /\ Len(b) = Len(one) + Len(rs)
            /\ \A j \in 1..(Len(one) + Len(rs)) :
                 b[j] = IF j <= Len(one) THEN one[j] ELSE rs[j - Len(one)]
        <4>. HIDE DEF One
        <4>1. one \in Seq(Reqs) /\ rs \in Seq(Reqs)
          BY <2>7, <2>9
        <4>2. PICK c : c = one \o rs
          OBVIOUS
        <4>3. /\ c \in Seq(Reqs) /\ Len(c) = Len(one) + Len(rs)
              /\ \A j \in 1..(Len(one) + Len(rs)) :
                   c[j] = IF j <= Len(one) THEN one[j] ELSE rs[j - Len(one)]
          BY <4>1, <4>2, ConcatProperties
        <4>4. c = b
          BY <2>10, <4>2
        <4>. QED
          BY <4>3, <4>4
      <3>. QED
        BY <2>7, <2>9, <3>1
    <2>12. b[1] = ms[i]
      BY <2>3, <2>9, <2>11
    <2>13. ASSUME NEW k \in 1..n
           PROVE  /\ IsTool(b[1 + k]) /\ b[1 + k].of = us[k].id
                  /\ b[1 + k].real <=> Given(ms, i, us[k].id)
                  /\ Given(ms, i, us[k].id) => b[1 + k] = ToolResult(us[k].id)
      <3>1. 1 + k \in 1..(1 + n) /\ ~(1 + k <= 1) /\ (1 + k) - 1 = k
        BY <2>3
      <3>2. b[1 + k] = rs[k]
        BY <2>11, <3>1
      <3>3. rs[k] = One(k)
        BY <2>5
      <3>4. CASE Given(ms, i, us[k].id)
        <4>1. b[1 + k] = ToolResult(us[k].id)
          BY <3>2, <3>3, <3>4
        <4>. QED
          BY <3>4, <4>1, MissingFacts
      <3>5. CASE ~Given(ms, i, us[k].id)
        <4>1. b[1 + k] = Missing(us[k].id)
          BY <3>2, <3>3, <3>5
        <4>. QED
          BY <3>5, <4>1, MissingFacts
      <3>. QED
        BY <3>4, <3>5
    <2>. QED
      BY <1>3, <2>1, <2>2, <2>11, <2>12, <2>13 DEF Answers
  <1>. QED
    BY <1>2, <1>3

\* A call is given its result if there is one in the run behind it.
LEMMA GivenIs ==
    ASSUME NEW ms \in Seq(Msgs), NEW i \in DOMAIN ms, NEW id
    PROVE  Given(ms, i, id) <=> \E j \in DOMAIN ms : Run(ms, i, j) /\ ms[j].of = id
  <1>1. Len(ms) \in Nat /\ DOMAIN ms = 1..Len(ms)
    BY SeqMsgs
  <1>2. /\ RunEnd(ms, i) \in i..Len(ms)
        /\ \A j \in DOMAIN ms : Run(ms, i, j) <=> j \in (i + 1)..RunEnd(ms, i)
    BY RunEndFacts
  <1>3. \A j \in (i + 1)..RunEnd(ms, i) : j \in DOMAIN ms
    BY <1>1, <1>2
  <1>. QED
    BY <1>2, <1>3 DEF Given

\* Every call is followed by its results, and every result by a call before it.
Followed(x, i) ==
    \A k \in 1..Len(x[i].uses) :
        i + k \in DOMAIN x /\ IsTool(x[i + k]) /\ x[i + k].of = x[i].uses[k].id
CalledAt(x, i, h) == h \in DOMAIN x /\ ~IsTool(x[h]) /\ Run(x, h, i) /\ x[i].of \in Ids(x[h])
Linked(x) ==
    /\ x \in Seq(Reqs)
    /\ \A i \in DOMAIN x : Followed(x, i)
    /\ \A i \in DOMAIN x : IsTool(x[i]) => \E h \in DOMAIN x : CalledAt(x, i, h)

\* The positions of a request.
LEMMA SeqReqs ==
    ASSUME NEW x \in Seq(Reqs)
    PROVE  Len(x) \in Nat /\ DOMAIN x = 1..Len(x) /\ \A i \in DOMAIN x : x[i] \in Reqs
BY LenProperties, ElementOfSeq

\* A joined sequence holds its parts.
Joined(z, x, y) ==
    /\ z \in Seq(Reqs) /\ DOMAIN z = 1..(Len(x) + Len(y))
    /\ \A i \in DOMAIN x : i \in DOMAIN z /\ z[i] = x[i]
    /\ \A i \in DOMAIN y : Len(x) + i \in DOMAIN z /\ z[Len(x) + i] = y[i]
    /\ \A i \in DOMAIN z : i \in DOMAIN x \/ (i - Len(x) \in DOMAIN y /\ Len(x) + (i - Len(x)) = i)

\* Where the parts of a joined sequence are.
LEMMA JoinParts ==
    ASSUME NEW x \in Seq(Reqs), NEW y \in Seq(Reqs), NEW z, z = x \o y
    PROVE  Joined(z, x, y)
  <1>1. /\ Len(x) \in Nat /\ Len(y) \in Nat /\ DOMAIN x = 1..Len(x) /\ DOMAIN y = 1..Len(y)
    BY SeqReqs
  <1>2. /\ z \in Seq(Reqs) /\ Len(z) = Len(x) + Len(y)
        /\ \A i \in 1..(Len(x) + Len(y)) : z[i] = IF i <= Len(x) THEN x[i] ELSE y[i - Len(x)]
    BY ConcatProperties
  <1>3. DOMAIN z = 1..(Len(x) + Len(y))
    BY <1>2, SeqReqs
  <1>4. \A i \in DOMAIN x : i \in DOMAIN z /\ z[i] = x[i]
    BY <1>1, <1>2, <1>3
  <1>5. ASSUME NEW i \in DOMAIN y PROVE Len(x) + i \in DOMAIN z /\ z[Len(x) + i] = y[i]
    <2>1. Len(x) + i \in 1..(Len(x) + Len(y)) /\ ~(Len(x) + i <= Len(x)) /\ (Len(x) + i) - Len(x) = i
      BY <1>1
    <2>. QED
      BY <1>2, <1>3, <2>1
  <1>6. \A i \in DOMAIN z : i \in DOMAIN x \/ (i - Len(x) \in DOMAIN y /\ Len(x) + (i - Len(x)) = i)
    BY <1>1, <1>3
  <1>. QED
    BY <1>2, <1>3, <1>4, <1>5, <1>6 DEF Joined

\* Linked sequences joined are linked.
LEMMA JoinLinked ==
    ASSUME NEW x, Linked(x), NEW y, Linked(y), NEW z, z = x \o y
    PROVE  Linked(z)
  <1>1. /\ x \in Seq(Reqs) /\ y \in Seq(Reqs)
        /\ \A i \in DOMAIN x : Followed(x, i)
        /\ \A i \in DOMAIN x : IsTool(x[i]) => \E h \in DOMAIN x : CalledAt(x, i, h)
        /\ \A i \in DOMAIN y : Followed(y, i)
        /\ \A i \in DOMAIN y : IsTool(y[i]) => \E h \in DOMAIN y : CalledAt(y, i, h)
    BY DEF Linked
  <1>2. PICK n : n = Len(x)
    OBVIOUS
  <1>3. /\ n \in Nat /\ Len(y) \in Nat /\ DOMAIN x = 1..n /\ DOMAIN y = 1..Len(y)
        /\ \A i \in DOMAIN x : x[i] \in Reqs
        /\ \A i \in DOMAIN y : y[i] \in Reqs
    BY <1>1, <1>2, SeqReqs
  <1>4. /\ z \in Seq(Reqs) /\ DOMAIN z = 1..(n + Len(y))
        /\ \A i \in DOMAIN x : i \in DOMAIN z /\ z[i] = x[i]
        /\ \A i \in DOMAIN y : n + i \in DOMAIN z /\ z[n + i] = y[i]
        /\ \A i \in DOMAIN z : i \in DOMAIN x \/ (i - n \in DOMAIN y /\ n + (i - n) = i)
    BY <1>1, <1>2, JoinParts DEF Joined
  <1>5. ASSUME NEW i \in DOMAIN x PROVE Followed(z, i)
    <2>1. z[i] = x[i] /\ Followed(x, i)
      BY <1>1, <1>4
    <2>2. ASSUME NEW k \in 1..Len(x[i].uses)
          PROVE  i + k \in DOMAIN z /\ IsTool(z[i + k]) /\ z[i + k].of = x[i].uses[k].id
      <3>1. i + k \in DOMAIN x /\ IsTool(x[i + k]) /\ x[i + k].of = x[i].uses[k].id
        BY <2>1 DEF Followed
      <3>. QED
        BY <1>4, <3>1
    <2>. QED
      BY <2>1, <2>2 DEF Followed
  <1>6. ASSUME NEW i \in DOMAIN y PROVE Followed(z, n + i)
    <2>1. z[n + i] = y[i] /\ Followed(y, i)
      BY <1>1, <1>4
    <2>2. ASSUME NEW k \in 1..Len(y[i].uses)
          PROVE  (n + i) + k \in DOMAIN z /\ IsTool(z[(n + i) + k]) /\ z[(n + i) + k].of = y[i].uses[k].id
      <3>1. i + k \in DOMAIN y /\ IsTool(y[i + k]) /\ y[i + k].of = y[i].uses[k].id
        BY <2>1 DEF Followed
      <3>2. (n + i) + k = n + (i + k)
        <4>1. Len(y[i].uses) \in Nat
          BY <1>3, ReqFacts
        <4>. QED
          BY <1>3, <4>1
      <3>. QED
        BY <1>4, <3>1, <3>2
    <2>. QED
      BY <2>1, <2>2 DEF Followed
  <1>7. ASSUME NEW i \in DOMAIN x, IsTool(z[i]) PROVE \E h \in DOMAIN z : CalledAt(z, i, h)
    <2>1. IsTool(x[i]) /\ z[i] = x[i]
      BY <1>4, <1>7
    <2>2. PICK h \in DOMAIN x : CalledAt(x, i, h)
      BY <1>1, <2>1
    <2>3. h \in DOMAIN z /\ z[h] = x[h] /\ ~IsTool(x[h]) /\ Run(x, h, i) /\ x[i].of \in Ids(x[h])
      BY <1>4, <2>2 DEF CalledAt
    <2>4. Run(z, h, i)
      <3>1. h < i /\ \A k \in (h + 1)..i : IsTool(x[k])
        BY <2>3 DEF Run
      <3>2. \A k \in (h + 1)..i : k \in DOMAIN x
        BY <1>3
      <3>3. \A k \in (h + 1)..i : IsTool(z[k])
        BY <1>4, <3>1, <3>2
      <3>. QED
        BY <3>1, <3>3 DEF Run
    <2>. QED
      BY <2>1, <2>3, <2>4 DEF CalledAt
  <1>8. ASSUME NEW i \in DOMAIN y, IsTool(z[n + i]) PROVE \E h \in DOMAIN z : CalledAt(z, n + i, h)
    <2>1. IsTool(y[i]) /\ z[n + i] = y[i]
      BY <1>4, <1>8
    <2>2. PICK h \in DOMAIN y : CalledAt(y, i, h)
      BY <1>1, <2>1
    <2>3. /\ n + h \in DOMAIN z /\ z[n + h] = y[h] /\ ~IsTool(y[h]) /\ Run(y, h, i)
          /\ y[i].of \in Ids(y[h])
      BY <1>4, <2>2 DEF CalledAt
    <2>4. Run(z, n + h, n + i)
      <3>1. h < i /\ \A k \in (h + 1)..i : IsTool(y[k])
        BY <2>3 DEF Run
      <3>2. ASSUME NEW k \in ((n + h) + 1)..(n + i) PROVE IsTool(z[k])
        <4>1. k - n \in (h + 1)..i /\ k - n \in DOMAIN y /\ n + (k - n) = k
          BY <1>3
        <4>2. IsTool(y[k - n]) /\ z[n + (k - n)] = y[k - n]
          BY <1>4, <3>1, <4>1
        <4>. QED
          BY <4>1, <4>2
      <3>3. n + h < n + i
        BY <1>3, <3>1
      <3>. QED
        BY <3>2, <3>3 DEF Run
    <2>. QED
      BY <2>1, <2>3, <2>4 DEF CalledAt
  <1>9. ASSUME NEW i \in DOMAIN z
        PROVE  Followed(z, i) /\ (IsTool(z[i]) => \E h \in DOMAIN z : CalledAt(z, i, h))
    <2>1. CASE i \in DOMAIN x
      BY <1>5, <1>7, <2>1
    <2>2. CASE i - n \in DOMAIN y /\ n + (i - n) = i
      <3>1. PICK j \in DOMAIN y : n + j = i
        BY <2>2
      <3>2. Followed(z, n + j) /\ (IsTool(z[n + j]) => \E h \in DOMAIN z : CalledAt(z, n + j, h))
        BY <1>6, <1>8
      <3>. QED
        BY <3>1, <3>2
    <2>. QED
      BY <1>4, <2>1, <2>2
  <1>. QED
    BY <1>4, <1>9 DEF Linked

\* What the repair makes of one message is linked.
LEMMA BlockLinked ==
    ASSUME NEW ms \in Seq(Msgs), NEW i \in DOMAIN ms, NEW b, b = Block(ms, i)
    PROVE  Linked(b)
  <1>1. CASE IsTool(ms[i])
    <2>1. b = <<>>
      BY <1>1, BlockFacts
    <2>. QED
      BY <2>1 DEF Linked
  <1>2. CASE ~IsTool(ms[i])
    <2>1. Answers(ms, i, b)
      BY <1>2, BlockFacts
    <2>2. PICK n : n = Len(ms[i].uses)
      OBVIOUS
    <2>3. n \in Nat /\ DOMAIN ms[i].uses = 1..n /\ Ids(ms[i]) = {ms[i].uses[k].id : k \in 1..n}
      <3>1. ms[i] \in Reqs
        BY SeqMsgs DEF Reqs
      <3>. QED
        BY <2>2, <3>1, ReqFacts
    <2>4. /\ b \in Seq(Reqs) /\ Len(b) = 1 + n /\ b[1] = ms[i]
          /\ \A k \in 1..n : IsTool(b[1 + k]) /\ b[1 + k].of = ms[i].uses[k].id
      BY <2>1, <2>2 DEF Answers
    <2>5. DOMAIN b = 1..(1 + n) /\ \A j \in DOMAIN b : b[j] \in Reqs
      BY <2>4, SeqReqs
    <2>6. \A j \in DOMAIN b : j = 1 \/ (j - 1 \in 1..n /\ 1 + (j - 1) = j)
      BY <2>3, <2>5
    <2>7. \A j \in DOMAIN b : j # 1 => IsTool(b[j])
      BY <2>4, <2>6
    <2>8. ASSUME NEW j \in DOMAIN b PROVE Followed(b, j)
      <3>1. CASE j = 1
        <4>1. \A k \in 1..n : 1 + k \in DOMAIN b
          BY <2>3, <2>5
        <4>. QED
          BY <2>2, <2>4, <3>1, <4>1 DEF Followed
      <3>2. CASE j # 1
        <4>1. Len(b[j].uses) = 0
          BY <2>5, <2>7, <3>2, ReqFacts
        <4>. QED
          BY <4>1 DEF Followed
      <3>. QED
        BY <3>1, <3>2
    <2>9. ASSUME NEW j \in DOMAIN b, IsTool(b[j]) PROVE CalledAt(b, j, 1)
      <3>1. j # 1
        BY <1>2, <2>4, <2>9
      <3>2. PICK k \in 1..n : 1 + k = j
        BY <2>6, <3>1
      <3>3. b[j].of \in Ids(b[1])
        BY <2>3, <2>4, <3>2
      <3>4. Run(b, 1, j)
        <4>1. \A l \in (1 + 1)..j : l \in DOMAIN b /\ l # 1
          BY <2>3, <2>5
        <4>2. 1 < j
          BY <2>3, <3>2
        <4>. QED
          BY <2>7, <4>1, <4>2 DEF Run
      <3>. QED
        BY <1>2, <2>4, <2>5, <2>3, <3>3, <3>4 DEF CalledAt
    <2>10. \A j \in DOMAIN b : IsTool(b[j]) => \E h \in DOMAIN b : CalledAt(b, j, h)
      BY <2>9 DEF CalledAt
    <2>. QED
      BY <2>4, <2>8, <2>10 DEF Linked
  <1>. QED
    BY <1>1, <1>2

\* The repaired request.
LEMMA RepairLinked ==
    ASSUME NEW ms \in Seq(Msgs), Len(ms) > 0, NEW r, r = repair_tool_call_chains(ms)
    PROVE  Linked(r) /\ ToSet(r) = UNION {ToSet(Block(ms, i)) : i \in DOMAIN ms}
  <1>1. PICK n : n = Len(ms)
    OBVIOUS
  <1>2. n \in Nat \ {0} /\ DOMAIN ms = 1..n
    BY <1>1, SeqMsgs
  <1>3. PICK s : s = [i \in 1..n |-> Block(ms, i)]
    OBVIOUS
  <1>4. r = FlattenSeq(s)
    BY <1>2, <1>3 DEF repair_tool_call_chains, Block, Given
  <1>5. \A i \in 1..n : s[i] = Block(ms, i) /\ Linked(s[i]) /\ s[i] \in Seq(Reqs)
    <2>. SUFFICES ASSUME NEW i \in 1..n
                  PROVE  s[i] = Block(ms, i) /\ Linked(s[i]) /\ s[i] \in Seq(Reqs)
      OBVIOUS
    <2>1. PICK b : b = Block(ms, i)
      OBVIOUS
    <2>2. Linked(b)
      BY <1>2, <2>1, BlockLinked
    <2>. QED
      BY <1>3, <2>1, <2>2 DEF Linked
  <1>. DEFINE G == [i \in 1..n |-> {x \in Seq(Reqs) : Linked(x)}]
  <1>6. Len(s) = n
    BY <1>2, <1>3
  <1>7. s[1] \in G[1]
    BY <1>2, <1>5
  <1>8. ASSUME NEW i \in 2..n, NEW x \in G[i - 1] PROVE x \o s[i] \in G[i]
    <2>1. i \in 1..n /\ i - 1 \in 1..n
      BY <1>2
    <2>2. Linked(x) /\ Linked(s[i])
      BY <1>5, <2>1
    <2>3. PICK z : z = x \o s[i]
      OBVIOUS
    <2>4. Linked(z)
      BY <2>2, <2>3, JoinLinked
    <2>. QED
      BY <2>1, <2>3, <2>4 DEF Linked
  <1>9. G[n] = {x \in Seq(Reqs) : Linked(x)}
    BY <1>2
  <1>. HIDE DEF G
  <1>10. FlattenSeq(s) \in G[n]
    BY <1>2, <1>6, <1>7, <1>8, FlattenSteps
  <1>11. Linked(r)
    BY <1>4, <1>9, <1>10
  <1>12. ToSet(r) = UNION {ToSet(s[i]) : i \in 1..n}
    <2>1. s \in [1..n -> Seq(Reqs)]
      BY <1>3, <1>5
    <2>. QED
      BY <1>2, <1>4, <2>1, FlattenHolds
  <1>13. UNION {ToSet(s[i]) : i \in 1..n} = UNION {ToSet(Block(ms, i)) : i \in DOMAIN ms}
    BY <1>2, <1>5
  <1>. QED
    BY <1>11, <1>12, <1>13

\* In a repaired history every call is paired with its result.
LEMMA LinkedIsPaired ==
    ASSUME NEW r, Linked(r)
    PROVE  Paired(r)
  <1>1. /\ r \in Seq(Reqs) /\ \A i \in DOMAIN r : Followed(r, i)
        /\ \A i \in DOMAIN r : IsTool(r[i]) => \E h \in DOMAIN r : CalledAt(r, i, h)
    BY DEF Linked
  <1>2. Len(r) \in Nat /\ DOMAIN r = 1..Len(r)
    BY <1>1, SeqReqs
  <1>3. ASSUME NEW i \in DOMAIN r, NEW k \in 1..MaxCalls, k <= Len(r[i].uses)
        PROVE  i + k <= Len(r) /\ IsTool(r[i + k]) /\ r[i + k].of = r[i].uses[k].id
    <2>1. Len(r[i].uses) \in Nat
      <3>1. r[i] \in Reqs
        BY <1>1, SeqReqs
      <3>. QED
        BY <3>1, ReqFacts
    <2>2. k \in 1..Len(r[i].uses)
      BY <1>3, <2>1, EngineAssumption
    <2>3. i + k \in DOMAIN r /\ IsTool(r[i + k]) /\ r[i + k].of = r[i].uses[k].id
      BY <1>1, <2>2 DEF Followed
    <2>. QED
      BY <1>2, <2>3
  <1>4. ASSUME NEW i \in DOMAIN r, IsTool(r[i]) PROVE r[i].of \in Ids(r[RunHead(r, i)])
    <2>1. PICK h \in DOMAIN r : CalledAt(r, i, h)
      BY <1>1, <1>4
    <2>2. ~IsTool(r[h]) /\ Run(r, h, i) /\ r[i].of \in Ids(r[h])
      BY <2>1 DEF CalledAt
    <2>. DEFINE S == {j \in 1..i : j = 1 \/ ~IsTool(r[j])}
    <2>3. S \in SUBSET Int /\ h \in S /\ \A j \in S : j <= h
      <3>1. h < i /\ \A j \in (h + 1)..i : IsTool(r[j])
        BY <2>2 DEF Run
      <3>2. h \in S
        BY <1>2, <2>2, <3>1
      <3>3. ASSUME NEW j \in S PROVE j <= h
        <4>. SUFFICES ASSUME j > h PROVE FALSE
          BY <1>2
        <4>1. j \in (h + 1)..i /\ j # 1
          BY <1>2
        <4>. QED
          BY <3>1, <4>1
      <3>. QED
        BY <1>2, <3>2, <3>3
    <2>4. Max(S) = h
      <3>. HIDE DEF S
      <3>. QED
        BY <2>3, MaxIs
    <2>. QED
      BY <2>2, <2>4 DEF RunHead
  <1>. QED
    BY <1>3, <1>4 DEF Paired

\* A repaired window keeps the results it had and makes up none that there is.
LEMMA RepairFaithful ==
    ASSUME NEW ws, NEW ids \in SUBSET OwnIds, Shown(ws, ids), NEW r, r = repair_tool_call_chains(ws)
    PROVE  /\ Paired(r)
           /\ \A i \in DOMAIN ws : ws[i].of \in ids => ws[i] \in ToSet(r)
           /\ \A i \in DOMAIN r : r[i].of \in ids => r[i].real
  <1>1. /\ ws \in Seq(Msgs) /\ Len(ws) > 0 /\ DOMAIN ws = 1..Len(ws)
        /\ Chained(ws) /\ Behind(ws, ids) /\ \A i \in DOMAIN ws : ws[i] \in Msgs
    BY SeqMsgs DEF Shown
  <1>2. Linked(r) /\ ToSet(r) = UNION {ToSet(Block(ws, i)) : i \in DOMAIN ws}
    BY <1>1, RepairLinked
  <1>3. Paired(r)
    BY <1>2, LinkedIsPaired
  <1>4. ASSUME NEW i \in DOMAIN ws, ws[i].of \in ids PROVE ws[i] \in ToSet(r)
    <2>1. ws[i].of \in OwnIds
      BY <1>4
    <2>2. IsTool(ws[i])
      BY <1>1, <2>1, MsgFacts
    <2>3. ws[i] = ToolResult(ws[i].of)
      BY <1>1, <2>2, MsgFacts
    <2>4. PICK a \in DOMAIN ws : ws[i].of \in Ids(ws[a]) /\ Run(ws, a, i)
      BY <1>1, <2>1, <2>2 DEF Chained
    <2>5. ~IsTool(ws[a]) /\ Ids(ws[a]) = {ws[a].uses[k].id : k \in 1..Len(ws[a].uses)}
      <3>1. ws[a] \in Msgs /\ ws[a] \in Reqs
        BY <1>1 DEF Reqs
      <3>2. ~IsTool(ws[a])
        BY <2>4, <3>1, CallFacts
      <3>. QED
        BY <3>1, <3>2, ReqFacts
    <2>6. PICK b : b = Block(ws, a)
      OBVIOUS
    <2>7. Answers(ws, a, b)
      BY <1>1, <2>5, <2>6, BlockFacts
    <2>8. PICK k \in 1..Len(ws[a].uses) : ws[i].of = ws[a].uses[k].id
      BY <2>4, <2>5
    <2>9. Given(ws, a, ws[a].uses[k].id)
      BY <1>1, <2>4, <2>8, GivenIs
    <2>10. b[1 + k] = ToolResult(ws[i].of)
      BY <2>7, <2>8, <2>9 DEF Answers
    <2>11. 1 + k \in DOMAIN b
      <3>1. Len(ws[a].uses) \in Nat
        BY <1>1, ReqFacts DEF Reqs
      <3>2. DOMAIN b = 1..(1 + Len(ws[a].uses))
        BY <2>7, SeqReqs DEF Answers
      <3>. QED
        BY <3>1, <3>2
    <2>12. ws[i] \in ToSet(b)
      BY <2>3, <2>10, <2>11 DEF ToSet
    <2>. QED
      BY <1>2, <2>6, <2>12
  <1>5. ASSUME NEW i \in DOMAIN r, r[i].of \in ids PROVE r[i].real
    <2>1. r[i] \in ToSet(r)
      BY DEF ToSet
    <2>2. PICK a \in DOMAIN ws : r[i] \in ToSet(Block(ws, a))
      BY <1>2, <2>1
    <2>3. PICK b : b = Block(ws, a)
      OBVIOUS
    <2>4. PICK j \in DOMAIN b : r[i] = b[j]
      BY <2>2, <2>3 DEF ToSet
    <2>5. ~IsTool(ws[a])
      <3>1. IsTool(ws[a]) => b = <<>>
        BY <1>1, <2>3, BlockFacts
      <3>2. b = <<>> => DOMAIN b = {}
        OBVIOUS
      <3>. QED
        BY <2>4, <3>1, <3>2
    <2>6. Answers(ws, a, b)
      BY <1>1, <2>3, <2>5, BlockFacts
    <2>7. /\ Len(ws[a].uses) \in Nat /\ DOMAIN b = 1..(1 + Len(ws[a].uses)) /\ b[1] = ws[a]
          /\ Ids(ws[a]) = {ws[a].uses[k].id : k \in 1..Len(ws[a].uses)}
      <3>1. ws[a] \in Reqs
        BY <1>1 DEF Reqs
      <3>. QED
        BY <2>6, <3>1, ReqFacts, SeqReqs DEF Answers
    <2>8. j # 1
      <3>1. ws[a].of \notin OwnIds
        BY <1>1, <2>5, MsgFacts
      <3>. QED
        BY <1>5, <2>4, <2>7, <3>1
    <2>9. PICK k \in 1..Len(ws[a].uses) : 1 + k = j
      <3>1. j \in 1..(1 + Len(ws[a].uses))
        BY <2>7
      <3>2. j - 1 \in 1..Len(ws[a].uses) /\ 1 + (j - 1) = j
        BY <2>7, <2>8, <3>1
      <3>. QED
        BY <3>2
    <2>10. b[1 + k].of = ws[a].uses[k].id /\ (b[1 + k].real <=> Given(ws, a, ws[a].uses[k].id))
      BY <2>6 DEF Answers
    <2>11. r[i].of = ws[a].uses[k].id /\ r[i].of \in Ids(ws[a]) \cap ids
      BY <1>5, <2>4, <2>7, <2>9, <2>10
    <2>12. Given(ws, a, r[i].of)
      <3>1. \E l \in DOMAIN ws : Run(ws, a, l) /\ ws[l].of = r[i].of
        BY <1>1, <2>11 DEF Behind
      <3>. QED
        BY <1>1, <3>1, GivenIs
    <2>. QED
      BY <2>4, <2>9, <2>10, <2>11, <2>12
  <1>. QED
    BY <1>3, <1>4, <1>5

\* The places where a request has the real result of a call.
Hits(x, id) == {i \in DOMAIN x : IsTool(x[i]) /\ x[i].of = id /\ x[i].real}
Once(x, id) == \E p : Hits(x, id) = {p}
Moved(n, S) == {n + i : i \in S}
HitsJoin(z, x, y, id) == Hits(z, id) = Hits(x, id) \cup Moved(Len(x), Hits(y, id))

\* The places of a result in a joined sequence.
LEMMA JoinHits ==
    ASSUME NEW x \in Seq(Reqs), NEW y \in Seq(Reqs), NEW id, NEW z, z = x \o y
    PROVE  HitsJoin(z, x, y, id)
  <1>1. /\ \A i \in DOMAIN x : i \in DOMAIN z /\ z[i] = x[i]
        /\ \A i \in DOMAIN y : Len(x) + i \in DOMAIN z /\ z[Len(x) + i] = y[i]
        /\ \A i \in DOMAIN z : i \in DOMAIN x \/ (i - Len(x) \in DOMAIN y /\ Len(x) + (i - Len(x)) = i)
    BY JoinParts DEF Joined
  <1>2. ASSUME NEW i \in Hits(z, id) PROVE i \in Hits(x, id) \/ \E j \in Hits(y, id) : i = Len(x) + j
    <2>1. i \in DOMAIN z /\ IsTool(z[i]) /\ z[i].of = id /\ z[i].real
      BY DEF Hits
    <2>2. CASE i \in DOMAIN x
      BY <1>1, <2>1, <2>2 DEF Hits
    <2>3. CASE i - Len(x) \in DOMAIN y /\ Len(x) + (i - Len(x)) = i
      <3>1. PICK j \in DOMAIN y : i = Len(x) + j
        BY <2>3
      <3>2. z[i] = y[j]
        BY <1>1, <3>1
      <3>3. j \in Hits(y, id)
        BY <2>1, <3>2 DEF Hits
      <3>. QED
        BY <3>1, <3>3
    <2>. QED
      BY <1>1, <2>1, <2>2, <2>3
  <1>3. ASSUME NEW i \in Hits(x, id) PROVE i \in Hits(z, id)
    BY <1>1 DEF Hits
  <1>4. ASSUME NEW j \in Hits(y, id) PROVE Len(x) + j \in Hits(z, id)
    <2>1. j \in DOMAIN y /\ IsTool(y[j]) /\ y[j].of = id /\ y[j].real
      BY DEF Hits
    <2>. QED
      BY <1>1, <2>1 DEF Hits
  <1>. QED
    BY <1>2, <1>3, <1>4 DEF Moved, HitsJoin

\* Only the message that makes the call has its result in its block, once.
LEMMA BlockHits ==
    ASSUME NEW ms \in Seq(Msgs), Unique(ms), NEW ids, Behind(ms, ids), NEW a \in DOMAIN ms,
           NEW id \in Ids(ms[a]) \cap ids, NEW i \in DOMAIN ms, NEW b, b = Block(ms, i)
    PROVE  (i = a => Once(b, id)) /\ (i # a => Hits(b, id) = {})
  <1>1. ms[i] \in Reqs /\ ms[a] \in Reqs /\ \A j \in DOMAIN ms : ms[j] \in Msgs
    BY SeqMsgs DEF Reqs
  <1>2. CASE IsTool(ms[i])
    <2>1. b = <<>> /\ i # a
      <3>1. ~IsTool(ms[a])
        BY <1>1, CallFacts
      <3>. QED
        BY <1>2, <3>1, BlockFacts
    <2>2. DOMAIN b = {}
      BY <2>1
    <2>. QED
      BY <2>1, <2>2 DEF Hits
  <1>3. CASE ~IsTool(ms[i])
    <2>1. PICK n : n = Len(ms[i].uses)
      OBVIOUS
    <2>2. /\ n \in Nat /\ DOMAIN ms[i].uses = 1..n
          /\ Ids(ms[i]) = {ms[i].uses[k].id : k \in 1..n}
      BY <1>1, <2>1, ReqFacts
    <2>3. Answers(ms, i, b)
      BY <1>3, BlockFacts
    <2>4. /\ DOMAIN b = 1..(1 + n) /\ b[1] = ms[i]
          /\ \A k \in 1..n : /\ IsTool(b[1 + k]) /\ b[1 + k].of = ms[i].uses[k].id
                             /\ b[1 + k].real <=> Given(ms, i, ms[i].uses[k].id)
      BY <2>1, <2>3, SeqReqs DEF Answers
    <2>5. \A j \in DOMAIN b : j = 1 \/ (j - 1 \in 1..n /\ 1 + (j - 1) = j)
      BY <2>2, <2>4
    <2>6. ASSUME NEW j \in Hits(b, id) PROVE \E k \in 1..n : j = 1 + k /\ ms[i].uses[k].id = id
      <3>1. j \in DOMAIN b /\ IsTool(b[j]) /\ b[j].of = id
        BY DEF Hits
      <3>2. j # 1
        BY <1>3, <2>4, <3>1
      <3>3. PICK k \in 1..n : 1 + k = j
        BY <2>5, <3>1, <3>2
      <3>. QED
        BY <2>4, <3>1, <3>3
    <2>7. CASE i # a
      <3>1. id \notin Ids(ms[i])
        <4>. SUFFICES ASSUME id \in Ids(ms[i]) PROVE FALSE
          OBVIOUS
        <4>1. id \in Ids(ms[a])
          OBVIOUS
        <4>2. i = a
          BY <4>1, OneCall
        <4>. QED
          BY <2>7, <4>2
      <3>2. Hits(b, id) = {}
        BY <2>2, <2>6, <3>1
      <3>. QED
        BY <2>7, <3>2
    <2>8. CASE i = a
      <3>1. PICK k \in 1..n : ms[i].uses[k].id = id
        BY <2>2, <2>8
      <3>2. Given(ms, i, id)
        <4>1. \E l \in DOMAIN ms : Run(ms, i, l) /\ ms[l].of = id
          BY <2>8 DEF Behind
        <4>. QED
          BY <4>1, GivenIs
      <3>3. 1 + k \in Hits(b, id)
        <4>1. 1 + k \in DOMAIN b
          BY <2>2, <2>4
        <4>. QED
          BY <2>4, <3>1, <3>2, <4>1 DEF Hits
      <3>4. ASSUME NEW j \in Hits(b, id) PROVE j = 1 + k
        <4>1. PICK l \in 1..n : j = 1 + l /\ ms[i].uses[l].id = id
          BY <2>6
        <4>2. k \in DOMAIN ms[i].uses /\ l \in DOMAIN ms[i].uses /\ ms[i].uses[k].id = ms[i].uses[l].id
          BY <2>2, <3>1, <4>1
        <4>3. k = l
          BY <4>2, OneUse
        <4>. QED
          BY <4>1, <4>3
      <3>5. Hits(b, id) = {1 + k}
        BY <3>3, <3>4
      <3>. QED
        BY <2>8, <3>5 DEF Once
    <2>. QED
      BY <2>7, <2>8
  <1>. QED
    BY <1>2, <1>3

\* The request has the real result of an answered call at one place.
LEMMA OneHit ==
    ASSUME NEW ms \in Seq(Msgs), Len(ms) > 0, Unique(ms), NEW ids, Behind(ms, ids),
           NEW id \in CallIds(ms) \cap ids, NEW r, r = repair_tool_call_chains(ms)
    PROVE  Once(r, id)
  <1>1. PICK n : n = Len(ms)
    OBVIOUS
  <1>2. n \in Nat \ {0} /\ DOMAIN ms = 1..n
    BY <1>1, SeqMsgs
  <1>3. PICK s : s = [i \in 1..n |-> Block(ms, i)]
    OBVIOUS
  <1>4. r = FlattenSeq(s)
    BY <1>2, <1>3 DEF repair_tool_call_chains, Block, Given
  <1>5. PICK a \in 1..n : id \in Ids(ms[a])
    BY <1>2 DEF CallIds
  <1>6. ASSUME NEW i \in 1..n
        PROVE  /\ s[i] \in Seq(Reqs)
               /\ (i = a => Once(s[i], id)) /\ (i # a => Hits(s[i], id) = {})
    <2>1. PICK b : b = Block(ms, i)
      OBVIOUS
    <2>2. s[i] = b
      BY <1>3, <2>1
    <2>3. b \in Seq(Reqs)
      BY <1>2, <2>1, BlockLinked DEF Linked
    <2>4. (i = a => Once(b, id)) /\ (i # a => Hits(b, id) = {})
      <3>1. id \in Ids(ms[a]) \cap ids
        BY <1>5
      <3>. QED
        BY <1>2, <2>1, <3>1, BlockHits
    <2>. QED
      BY <2>2, <2>3, <2>4
  <1>. DEFINE Fits(i, x) == IF i < a THEN Hits(x, id) = {} ELSE Once(x, id)
              G == [i \in 1..n |-> {x \in Seq(Reqs) : Fits(i, x)}]
  <1>7. Len(s) = n
    BY <1>2, <1>3
  <1>8. s[1] \in G[1]
    <2>1. 1 \in 1..n
      BY <1>2
    <2>2. Fits(1, s[1])
      <3>1. 1 < a => 1 # a
        OBVIOUS
      <3>2. ~(1 < a) => 1 = a
        BY <1>2
      <3>. QED
        BY <1>6, <2>1, <3>1, <3>2
    <2>. QED
      BY <1>6, <2>1, <2>2
  <1>9. ASSUME NEW i \in 2..n, NEW x \in G[i - 1] PROVE x \o s[i] \in G[i]
    <2>1. i \in 1..n /\ i - 1 \in 1..n /\ i - 1 < i
      BY <1>2
    <2>2. x \in Seq(Reqs) /\ Fits(i - 1, x)
      BY <2>1
    <2>3. PICK y : y = s[i]
      OBVIOUS
    <2>4. PICK z : z = x \o y
      OBVIOUS
    <2>5. y \in Seq(Reqs) /\ (i = a => Once(y, id)) /\ (i # a => Hits(y, id) = {})
      BY <1>6, <2>1, <2>3
    <2>6. Hits(z, id) = Hits(x, id) \cup Moved(Len(x), Hits(y, id))
      <3>1. x \in Seq(Reqs) /\ y \in Seq(Reqs)
        BY <2>2, <2>5
      <3>2. HitsJoin(z, x, y, id)
        BY <2>4, <3>1, JoinHits
      <3>. QED
        BY <3>2 DEF HitsJoin
    <2>7. z \in Seq(Reqs)
      BY <2>2, <2>4, <2>5, JoinParts DEF Joined
    <2>8. Fits(i, z)
      <3>1. CASE i < a
        <4>1. i - 1 < a /\ i # a
          BY <2>1, <3>1
        <4>2. Hits(x, id) = {} /\ Hits(y, id) = {}
          BY <2>2, <2>5, <4>1
        <4>. QED
          BY <2>6, <3>1, <4>2 DEF Moved
      <3>2. CASE i = a
        <4>1. i - 1 < a /\ ~(i < a)
          BY <2>1, <3>2
        <4>2. Hits(x, id) = {} /\ Once(y, id)
          BY <2>2, <2>5, <3>2, <4>1
        <4>3. PICK p : Hits(y, id) = {p}
          BY <4>2 DEF Once
        <4>4. Hits(z, id) = {Len(x) + p}
          BY <2>6, <4>2, <4>3 DEF Moved
        <4>. QED
          BY <4>1, <4>4 DEF Once
      <3>3. CASE ~(i < a) /\ i # a
        <4>1. ~(i - 1 < a)
          BY <2>1, <3>3
        <4>2. Hits(y, id) = {} /\ Once(x, id)
          BY <2>2, <2>5, <3>3, <4>1
        <4>3. Hits(z, id) = Hits(x, id)
          BY <2>6, <4>2 DEF Moved
        <4>. QED
          BY <3>3, <4>2, <4>3 DEF Once
      <3>. QED
        BY <3>1, <3>2, <3>3
    <2>. QED
      BY <2>1, <2>3, <2>4, <2>7, <2>8
  <1>10. n \in 1..n /\ ~(n < a)
    BY <1>2
  <1>11. G[n] = {x \in Seq(Reqs) : Fits(n, x)}
    BY <1>10
  <1>. HIDE DEF G
  <1>12. FlattenSeq(s) \in G[n]
    BY <1>2, <1>7, <1>8, <1>9, FlattenSteps
  <1>13. Fits(n, r)
    BY <1>4, <1>11, <1>12
  <1>. QED
    BY <1>10, <1>13
=============================================================================
