----------------------------- MODULE Transcript -----------------------------
(* The messages of a turn, and what the code does with them between the engine's   *)
(* list and the request a provider gets: splicing a child's result in, forgetting a *)
(* failed attempt, collapsing and snipping the history, repairing the tool chains.  *)
(*                                                                              *)
(* A message is its role, the tool calls an assistant message makes (uses) and the *)
(* call a tool message answers (of); a user message has a number.  Texts, bodies   *)
(* and token counts are left out: what a token count decides is a parameter.       *)
EXTENDS Integers, Sequences, SequencesExt, FiniteSetsExt

NoId == <<0, 0>>
Use(id, name)  == [id |-> id, name |-> name]
User(n)        == [role |-> "user", uses |-> <<>>, of |-> <<0, n>>, real |-> TRUE]
Text           == [role |-> "assistant", uses |-> <<>>, of |-> NoId, real |-> TRUE]
ToolUses(us)   == [role |-> "assistant", uses |-> us, of |-> NoId, real |-> TRUE]
ToolResult(id) == [role |-> "tool", uses |-> <<>>, of |-> id, real |-> TRUE]
Missing(id)    == [ToolResult(id) EXCEPT !.real = FALSE]
\* The user message that stands for messages collapsed or summarised away.
Pointer        == User(0)

Ids(m)       == {m.uses[k].id : k \in DOMAIN m.uses}
Calls(m)     == m.uses # <<>>
IsTool(m)    == m.role = "tool"
IsUser(m)    == m.role = "user"
Users(ms)    == Cardinality({i \in DOMAIN ms : IsUser(ms[i]) /\ ms[i] # Pointer})
UsesIn(ms)   == UNION {ToSet(ms[i].uses) : i \in DOMAIN ms}

\* The end of the run of tool messages that follows position i.
RunEnd(ms, i) == Max({j \in i..Len(ms) : \A k \in (i + 1)..j : IsTool(ms[k])})
\* The first position at or before i (but not before 1) that holds no tool message.
RunHead(ms, i) == Max({j \in 1..i : j = 1 \/ ~IsTool(ms[j])})

----------------------------------------------------------------------------
\* splice_child_results: the results of the children go in call order among those there.
SpliceDropping(ms, ids) ==  \* what if: only the children's results are put back
    LET a == Max({0} \cup {i \in DOMAIN ms : Calls(ms[i])})
    IN  IF a = 0 THEN ms
        ELSE SubSeq(ms, 1, a)
             \o FlattenSeq([k \in DOMAIN ms[a].uses |->
                    IF ms[a].uses[k].id \in ids THEN <<ToolResult(ms[a].uses[k].id)>> ELSE <<>>])
             \o SubSeq(ms, RunEnd(ms, a) + 1, Len(ms))

splice_child_results(ms, ids) ==
    LET a == Max({0} \cup {i \in DOMAIN ms : Calls(ms[i])})
        there == {ms[i].of : i \in (a + 1)..RunEnd(ms, a)}
    IN  IF a = 0 THEN ms
        ELSE SubSeq(ms, 1, a)
             \o FlattenSeq([k \in DOMAIN ms[a].uses |->
                    IF ms[a].uses[k].id \in ids \cup there
                    THEN <<ToolResult(ms[a].uses[k].id)>> ELSE <<>>])
             \o SubSeq(ms, RunEnd(ms, a) + 1, Len(ms))

\* drop_pond_tool_attempt: forget a failed call, if its message is still the last one.
drop_pond_tool_attempt(ms, id) ==
    LET us   == Last(ms).uses
        kept == FlattenSeq([k \in DOMAIN us |-> IF us[k].id = id THEN <<>> ELSE <<us[k]>>])
    IN  IF id \notin Ids(Last(ms)) THEN ms
        ELSE IF kept = <<>> THEN Front(ms)
        ELSE Append(Front(ms), ToolUses(kept))

----------------------------------------------------------------------------
\* _protected_tail_start: how many messages come before the last user message and the
\* latest read cycle, whichever is first (0-based, as in the code).
protected_tail_start(ms) ==
    LET user  == Max({1} \cup {i \in DOMAIN ms : IsUser(ms[i])}) - 1
        reads == {i \in DOMAIN ms : IsTool(ms[i]) /\ Use(ms[i].of, "read") \in UsesIn(ms)}
        r     == Max(reads)
        h     == RunHead(ms, r)
    IN  IF reads = {} THEN user
        ELSE Min({user, IF Calls(ms[h]) THEN h - 1 ELSE r - 1})

\* _align_tail_start: never start the tail inside a run of tool results.
AlignNowhere(ms, tail) == Max({1, tail})  \* what if: the tail starts where the budget says

align_tail_start(ms, tail) ==
    LET h == RunHead(ms, Min({tail, Len(ms) - 1}) + 1)
    IN  IF Calls(ms[h]) THEN h - 1 ELSE Max({1, tail})

\* _collapse_tool_history: one pointer for all between the head and the hot tail, which
\* the token budget starts at any message (hot).
CollapseUnprotected(ms, hot) ==  \* what if: the protected tail is not looked at
    LET head == IF IsUser(ms[1]) THEN 1 ELSE 0
        tail == align_tail_start(ms, hot)
    IN  IF Len(ms) <= 4 \/ tail <= head THEN ms
        ELSE SubSeq(ms, 1, head) \o <<Pointer>> \o SubSeq(ms, tail + 1, Len(ms))

collapse_tool_history(ms, hot) ==
    LET head == IF IsUser(ms[1]) THEN 1 ELSE 0
        safe == protected_tail_start(ms)
        tail == IF safe > 0 THEN Min({align_tail_start(ms, hot), safe}) ELSE align_tail_start(ms, hot)
    IN  IF Len(ms) <= 4 \/ tail <= head THEN ms
        ELSE SubSeq(ms, 1, head) \o <<Pointer>> \o SubSeq(ms, tail + 1, Len(ms))

\* _pop_oldest_message_group: drop the oldest turn of talk or call with its results, out
\* of the messages before the protected tail.  Leading results go in any case.
pop_oldest_message_group(ms) ==
    LET safe  == protected_tail_start(ms)
        tools == Max({j \in 0..safe : \A k \in 1..j : IsTool(ms[k])})
        rem   == SubSeq(ms, tools + 1, Len(ms))
        limit == safe - tools
        group == IF Calls(rem[1]) THEN RunEnd(rem, 1)
                 ELSE IF IsUser(rem[1])
                 THEN Max({j \in 1..Len(rem) : \A k \in 2..j : ~IsUser(rem[k])})
                 ELSE 1
        fits  == IF Calls(rem[1]) \/ IsUser(rem[1]) THEN group < Len(rem) /\ group <= limit ELSE TRUE
    IN  IF limit > 1 /\ fits THEN [popped |-> TRUE, ms |-> SubSeq(rem, group + 1, Len(rem))]
        ELSE [popped |-> FALSE, ms |-> rem]

----------------------------------------------------------------------------
\* _repair_tool_call_chains: after each assistant message with calls, one result for each
\* call, the first in the run that follows or a placeholder; all other results go.
repair_tool_call_chains(ms) ==
    FlattenSeq([i \in DOMAIN ms |->
        IF IsTool(ms[i]) THEN <<>>
        ELSE <<ms[i]>> \o
             [k \in DOMAIN ms[i].uses |->
                IF \E j \in (i + 1)..RunEnd(ms, i) : ms[j].of = ms[i].uses[k].id
                THEN ToolResult(ms[i].uses[k].id) ELSE Missing(ms[i].uses[k].id)]])
=============================================================================
