----------------------------- MODULE AgentEngine -----------------------------
(* One turn of the agent: the engine's loop (model call, tool batch, nudges) and the *)
(* controller around it (child joins, approvals, the end), with the transcript they  *)
(* build, a user who cancels, steers and approves, and a model that calls anything.  *)
EXTENDS Transcript

CONSTANTS
    MaxSteps,   \* state.max_steps
    MaxCalls,   \* bound: tool calls of the turn
    MaxSteers,  \* bound: messages the user sends while the turn runs
    Nudges      \* the kinds of one-shot message the engine may add

ASSUME EngineAssumption == 
    /\ {MaxSteps, MaxCalls, MaxSteers} \subseteq Nat
    /\ Nudges \subseteq {"hook", "diff", "receipt", "hold"}

VARIABLES
    pc,          \* where the turn is
    messages,    \* state.messages
    step_count,  \* state.step_count
    budget,      \* state.budget_exceeded: usage only grows, so it stays
    asked_cancel,\* the run row's cancel_requested_at
    cancelled,   \* state.cancelled
    inbox, said, \* steers waiting for a step, and all that were sent
    nudged,      \* product_hook_ran, diff_stat_sent, ..._receipt_sent, ..._hold_sent
    window,      \* the history for the model call under way
    group, rest, \* the calls in flight, and the calls of the reply after them
    got,         \* what _run_tool returned for each call in flight
    children,    \* engine.pending_children
    pending,     \* engine.pending_approval: the call, and the delegate of a child's call
    outcome,     \* what engine.run returned
    settling,    \* inside settle_waiting_children
    asked,       \* the approvals requested of the user and not answered
    ran,         \* the calls whose tool has run
    answered     \* the calls of the transcript whose result was appended to it

turn  == <<pc, outcome, settling>>
step  == <<step_count, budget, nudged>>
user  == <<asked_cancel, inbox, said>>
batch == <<group, rest, got>>
held  == <<children, pending, asked>>
seen  == <<ran, answered>>
vars  == <<turn, messages, step, user, cancelled, window, batch, held, seen>>

\* A read-only tool, a delegate of a read-only type, and everything else: tools with
\* effects, other delegates, tools that end the turn.
Names == {"read", "delegate", "act"}
Parallel(u) == u.name \in {"read", "delegate"}
Busy == pc \notin {"wait", "done"}

\* The call a child of the delegate call id makes: it is in the child's transcript, never
\* in this one.
ChildCall(id) == <<id[1], -id[2]>>
Ask(id, parent) == [id |-> id, parent |-> parent]
NoAsk == Ask(NoId, NoId)
OwnCalls == {u.id : u \in UsesIn(messages)}

Init ==
    /\ pc = "run" /\ outcome = "none" /\ settling = FALSE
    /\ messages = <<User(1)>> /\ window = <<>>
    /\ step_count = 0 /\ budget = FALSE /\ nudged = {}
    /\ asked_cancel = FALSE /\ cancelled = FALSE /\ inbox = 0 /\ said = 0
    /\ group = <<>> /\ rest = <<>> /\ got = <<>>
    /\ children = <<>> /\ pending = NoAsk /\ asked = {}
    /\ ran = {} /\ answered = {}

----------------------------------------------------------------------------
(* The user. *)

\* request_cancel: a flag for the engine; a turn that waits ends at once.
Cancel ==
    /\ pc # "done" /\ ~asked_cancel
    /\ asked_cancel' = TRUE
    /\ IF Busy THEN UNCHANGED turn
       ELSE pc' = "done" /\ outcome' = "cancelled" /\ UNCHANGED settling
    /\ UNCHANGED <<messages, step, inbox, said, cancelled, window, batch, held, seen>>

push_steer ==
    /\ pc # "done" /\ said < MaxSteers
    /\ said' = said + 1 /\ inbox' = inbox + 1
    /\ UNCHANGED <<turn, messages, step, asked_cancel, cancelled, window, batch, held, seen>>

----------------------------------------------------------------------------
(* AgentEngine.run. *)

Return(o) == pc' = "return" /\ outcome' = o /\ UNCHANGED settling
Goto(p)   == pc' = p /\ UNCHANGED <<outcome, settling>>
\* A StepTimeoutError, a ModelError or any other exception: the controller fails the turn.
Raise     == pc' = "done" /\ outcome' = "failed" /\ UNCHANGED settling

\* What run returns after the loop, with the flags c and b.
Ending(c, b) ==
    IF c THEN "cancelled" ELSE IF b THEN "budget"
    ELSE IF step_count >= MaxSteps THEN "max_steps" ELSE "final"

LeaveLate ==  \* what if: the loop is left one step too late
    /\ pc = "run"
    /\ step_count > MaxSteps \/ budget \/ asked_cancel
    /\ cancelled' = (cancelled \/ (asked_cancel /\ ~budget /\ step_count < MaxSteps))
    /\ Return(Ending(cancelled', budget))
    /\ UNCHANGED <<messages, step, user, window, batch, held, seen>>

\* The loop's condition, the budget and the cancel flag, in this order.
LeaveLoop ==
    /\ pc = "run"
    /\ step_count >= MaxSteps \/ budget \/ asked_cancel
    /\ cancelled' = (cancelled \/ (asked_cancel /\ ~budget /\ step_count < MaxSteps))
    /\ Return(Ending(cancelled', budget))
    /\ UNCHANGED <<messages, step, user, window, batch, held, seen>>

\* A step begins: what the user said meanwhile joins the transcript.
BeginUnchecked ==  \* what if: the cancel flag is not read at the step boundary
    /\ pc = "run" /\ step_count < MaxSteps /\ ~budget
    /\ step_count' = step_count + 1
    /\ messages' = messages \o [n \in 1..inbox |-> User(Users(messages) + n)]
    /\ inbox' = 0
    /\ Goto("assemble")
    /\ UNCHANGED <<budget, nudged, asked_cancel, said, cancelled, window, batch, held, seen>>

BeginStep ==
    /\ pc = "run" /\ step_count < MaxSteps /\ ~budget /\ ~asked_cancel
    /\ step_count' = step_count + 1
    /\ messages' = messages \o [n \in 1..inbox |-> User(Users(messages) + n)]
    /\ inbox' = 0
    /\ Goto("assemble")
    /\ UNCHANGED <<budget, nudged, asked_cancel, said, cancelled, window, batch, held, seen>>

\* assemble_async takes a copy of the history.  Where token counts decide, any count may:
\* collapse the middle or not, snip some groups, put a summary in place of it all.
Assemble ==
    /\ pc = "assemble" /\ ~asked_cancel
    /\ \/ window' = messages
       \/ \E hot \in 0..(Len(messages) - 1) : window' = collapse_tool_history(messages, hot)
    /\ Goto("snip")
    /\ UNCHANGED <<messages, step, user, cancelled, batch, held, seen>>

SnipGroup ==
    /\ pc = "snip" /\ Len(window) > 1
    /\ LET p == pop_oldest_message_group(window)
       IN  window' = p.ms /\ Goto(IF p.popped THEN "snip" ELSE "model")
    /\ UNCHANGED <<messages, step, user, cancelled, batch, held, seen>>

CallModel ==
    /\ pc = "snip"
    /\ window' \in {window, <<Pointer>>}
    /\ Goto("model")
    /\ UNCHANGED <<messages, step, user, cancelled, batch, held, seen>>

\* The second check of the step, the 50 ms watcher of the stream, or the check made when
\* the aborted stream raises: cancelled wins over a model error.  A state that an earlier
\* step left cancelled breaks the stream at its first chunk.
NoteCancel ==
    /\ \/ pc \in {"assemble", "model"} /\ asked_cancel
       \/ pc = "model" /\ cancelled
    /\ cancelled' = TRUE
    /\ Return("cancelled")
    /\ window' = <<>>
    /\ UNCHANGED <<messages, step, user, batch, held, seen>>

\* An exception at any point of a step; the step's time may run out between two groups or
\* inside a call, and what else the group returned is then lost with it.
Fail ==
    /\ pc \in {"assemble", "model", "tools"}
    /\ Raise
    /\ window' = <<>> /\ group' = <<>> /\ got' = <<>>
    /\ UNCHANGED <<messages, step, user, cancelled, rest, held, seen>>

\* The reply calls tools; the tokens it used may exceed the budget, which ends the loop
\* only after the batch.
ReplyTools(names) ==
    /\ pc = "model" /\ ~cancelled /\ Cardinality(UsesIn(messages)) + Len(names) <= MaxCalls
    /\ budget' \in {budget, TRUE}
    /\ rest' = [k \in DOMAIN names |-> Use(<<step_count, k>>, names[k])]
    /\ messages' = Append(messages, ToolUses(rest'))
    /\ Goto("tools")
    /\ window' = <<>>
    /\ UNCHANGED <<step_count, nudged, user, cancelled, group, got, held, seen>>

\* The reply is text, or nothing: the end, unless a nudge not yet given asks for another
\* step.  The receipts are for a turn with a step and tokens left.
Said(text) == IF text THEN Append(messages, Text) ELSE messages
ReplyFinal(text) ==
    /\ pc = "model" /\ ~cancelled
    /\ budget' \in {budget, TRUE}
    /\ messages' = Said(text)
    /\ Return(Ending(FALSE, budget'))
    /\ window' = <<>>
    /\ UNCHANGED <<step_count, nudged, user, cancelled, batch, held, seen>>

Nudge(text, n) ==
    /\ pc = "model" /\ ~cancelled /\ n \notin nudged
    /\ budget' \in {budget, TRUE}
    /\ n \in {"receipt", "hold"} => ~budget' /\ step_count < MaxSteps
    /\ nudged' = nudged \cup {n}
    /\ messages' = Said(text) \o
           [k \in 1..(IF n = "diff" THEN 2 ELSE 1) |-> User(Users(messages) + k)]
    /\ Goto("run")
    /\ window' = <<>>
    /\ UNCHANGED <<step_count, user, cancelled, batch, held, seen>>

----------------------------------------------------------------------------
(* _run_tool_batch and _run_tool. *)

\* Consecutive parallel calls are gathered, any other call runs alone.
NextGroup ==
    /\ pc = "tools" /\ group = <<>> /\ rest # <<>>
    /\ LET n == Max({1} \cup {j \in DOMAIN rest : \A k \in 1..j : Parallel(rest[k])})
       IN  /\ group' = SubSeq(rest, 1, n)
           /\ rest' = SubSeq(rest, n + 1, Len(rest))
           /\ got' = [k \in 1..n |-> "none"]
    /\ UNCHANGED <<turn, messages, step, user, cancelled, window, held, seen>>

\* One call of the group ends.  A spawned child is parked before the cancel flag is read;
\* a refused or timed-out call has a result like one that ran.  A call asks for approval,
\* or a delegate's child does; one pending_approval holds the last to ask.  run_command
\* also reports cancelled when the model kills its background job, or reads one that was
\* killed: the engine takes that for the cancellation of the turn.
Asks == {"ask", "child asks"}
MayReturn(name) ==
    {"result"} \cup (IF asked_cancel \/ name = "act" THEN {"cancelled"} ELSE {})
    \cup (IF name # "read" THEN {"child"} ELSE {})
    \cup (IF name # "read" /\ ~asked_cancel THEN {"child asks"} ELSE {})
    \cup (IF name = "act" /\ ~asked_cancel THEN {"ask", "stop", "retry"} ELSE {})
AskOf(id, r) == IF r = "ask" THEN Ask(id, NoId) ELSE Ask(ChildCall(id), id)

RunTool(k, r) ==
    /\ pc = "tools" /\ k \in DOMAIN group /\ got[k] = "none"
    /\ r \in MayReturn(group[k].name)
    /\ got' = [got EXCEPT ![k] = r]
    /\ ran' = IF r \in Asks \cup {"child"} THEN ran ELSE ran \cup {group[k].id}
    /\ children' = IF r = "child" THEN Append(children, group[k].id) ELSE children
    /\ IF r \in Asks
       THEN pending' = AskOf(group[k].id, r) /\ asked' = asked \cup {pending'.id}
       ELSE UNCHANGED <<pending, asked>>
    /\ UNCHANGED <<turn, messages, step, user, cancelled, window, group, rest, answered>>

\* The group's results join the transcript in call order; the first call that stops the
\* batch decides what the step returns.
Returned == {k \in DOMAIN group : got[k] \in {"result", "stop"}}
Results  == FlattenSeq([k \in DOMAIN group |->
                IF k \in Returned THEN <<ToolResult(group[k].id)>> ELSE <<>>])
Control == {k \in DOMAIN got : got[k] \in Asks \cup {"cancelled", "stop"}}
Decided ==
    CASE got[Min(Control)] = "cancelled" -> "cancelled"
      [] got[Min(Control)] \in Asks      -> "waiting_approval"
      [] got[Min(Control)] = "stop"      -> "stop"

\* The calls after one that stops the batch are never made.
StillQueued == rest  \* what if: they stay queued

Remaining == IF Control = {} THEN rest ELSE <<>>

MergeGroup ==
    /\ pc = "tools" /\ group # <<>>
    /\ \A k \in DOMAIN group : got[k] # "none"
    /\ messages' = IF got[1] = "retry" THEN drop_pond_tool_attempt(messages, group[1].id)
                   ELSE messages \o Results
    /\ answered' = answered \cup {group[k].id : k \in Returned}
    /\ cancelled' = (cancelled \/ \E k \in DOMAIN got : got[k] = "cancelled")
    /\ group' = <<>> /\ got' = <<>>
    /\ rest' = Remaining
    /\ IF Control # {} THEN Return(Decided)
       ELSE IF rest # <<>> THEN UNCHANGED turn
       ELSE IF children # <<>> THEN Return("waiting_child") ELSE Goto("run")
    /\ UNCHANGED <<step, user, window, held, ran>>

----------------------------------------------------------------------------
(* The controller: children, approvals, the end. *)

MustJoin ==
    outcome = "waiting_child" \/ (~settling /\ children # <<>>)

\* settle_waiting_children: run the children, splice their results in, run the engine
\* again.  A child that needs an approval of its own (asks) has asked the user, and its
\* result says so.
JoinChildren(asks) ==
    /\ pc = "return" /\ MustJoin
    /\ asked_cancel => asks = {}
    /\ messages' = splice_child_results(messages, ToSet(children))
    /\ answered' = answered \cup ToSet(children)
    /\ ran' = IF asked_cancel THEN ran ELSE ran \cup ToSet(children)
    /\ asked' = asked \cup asks
    /\ children' = <<>>
    /\ pc' = "run" /\ outcome' = "none" /\ settling' = TRUE
    /\ UNCHANGED <<step, user, cancelled, window, batch, pending>>

\* A child that raises fails the parent's turn.
JoinFails ==
    /\ pc = "return" /\ MustJoin
    /\ Raise
    /\ UNCHANGED <<messages, step, user, cancelled, window, batch, held, seen>>

Park ==
    /\ pc = "return" /\ ~MustJoin
    /\ outcome = "waiting_approval" /\ pending # NoAsk /\ ~cancelled
    /\ Goto("wait")
    /\ UNCHANGED <<messages, step, user, cancelled, window, batch, held, seen>>

Finish ==
    /\ pc = "return" /\ ~MustJoin
    /\ outcome # "waiting_approval" \/ cancelled
    /\ pc' = "done" /\ outcome' = IF cancelled THEN "cancelled" ELSE outcome
    /\ UNCHANGED <<settling, messages, step, user, cancelled, window, batch, held, seen>>

\* _resume_after_approval builds a new engine for the stored state.  The granted call
\* runs, or spawns its child; the granted child goes on, and its result is the delegate's.
\* A call denied or out of time has a result that says so: a child's call too, although
\* it is not in this transcript.
Answer(id) ==
    /\ messages' = Append(messages, ToolResult(id))
    /\ answered' = answered \cup ({id} \cap OwnCalls)
    /\ pending' = NoAsk /\ asked' = asked \ {pending.id}
    /\ children' = <<>>
    /\ pc' = "run" /\ outcome' = "none"

Approve ==
    /\ pc = "wait"
    /\ LET id == IF pending.parent # NoId THEN pending.parent ELSE pending.id
       IN  \/ Answer(id) /\ ran' = ran \cup {id}
           \/ /\ id = pending.id /\ id \in OwnCalls  \* a child has no delegate tool
              /\ children' = <<id>> /\ pending' = NoAsk /\ asked' = asked \ {id}
              /\ pc' = "return" /\ outcome' = "waiting_child"
              /\ UNCHANGED <<messages, seen>>
    /\ settling' = FALSE
    /\ UNCHANGED <<step, user, cancelled, window, batch>>

\* The approved call needs approval after all (another policy version, other arguments, a
\* child that asks again): the turn waits again, and no longer knows whose call it is.
AskAgain ==
    /\ pc = "wait"
    /\ pending' = Ask(pending.id, NoId)
    /\ children' = <<>> /\ settling' = FALSE
    /\ UNCHANGED <<pc, outcome, messages, step, user, cancelled, window, batch, asked, seen>>

Deny ==
    /\ pc = "wait"
    /\ Answer(pending.id)
    /\ settling' = FALSE
    /\ UNCHANGED <<step, user, cancelled, window, batch, ran>>

----------------------------------------------------------------------------
Replies == UNION {[1..n -> Names] : n \in 1..MaxCalls}

Engine ==
    \/ LeaveLoop \/ BeginStep \/ Assemble \/ CallModel \/ SnipGroup \/ NoteCancel \/ Fail
    \/ \E names \in Replies : ReplyTools(names)
    \/ \E text \in BOOLEAN : ReplyFinal(text)
    \/ \E text \in BOOLEAN, n \in Nudges : Nudge(text, n)
    \/ NextGroup \/ MergeGroup
    \/ \E k \in DOMAIN group : \E r \in MayReturn(group[k].name) : RunTool(k, r)

Controller ==
    \/ JoinFails \/ Park \/ Finish
    \/ \E asks \in SUBSET ToSet(children) : JoinChildren(asks)

Next == Engine \/ Controller \/ Approve \/ AskAgain \/ Deny \/ Cancel \/ push_steer

Spec == Init /\ [][Next]_vars
\* Every await of the engine and the controller returns; the user owes nothing.
FairSpec == Spec /\ WF_vars(Engine) /\ WF_vars(Controller)

----------------------------------------------------------------------------
IdSet == {NoId} \cup ((1..MaxSteps) \X (-MaxCalls..MaxCalls))

\* The shape of the state, and where the control fields may hold something: a call in
\* flight or to come only in a tool batch, an approval the user can answer in every wait.
TypeOK ==
    /\ pc \in {"run", "assemble", "snip", "model", "tools", "return", "wait", "done"}
    /\ step_count \in 0..MaxSteps /\ inbox \in 0..MaxSteers /\ said \in 0..MaxSteers
    /\ asked \cup ran \cup answered \cup ToSet(children) \cup {pending.id} \subseteq IdSet
    /\ pc # "tools" => group = <<>> /\ (rest = <<>> \/ outcome = "failed")
    /\ pc = "wait" => pending.id \in asked

\* A result the engine, the controller or a child join put into the transcript is there
\* once, in the run that follows its call, so that the repair for the provider keeps it.
ResultsReach ==
    \A id \in answered :
        LET r == repair_tool_call_chains(messages)
        IN  Cardinality({i \in DOMAIN r : IsTool(r[i]) /\ r[i].of = id /\ r[i].real}) = 1

Paired(r) ==
    /\ \A i \in DOMAIN r, k \in 1..MaxCalls :
          k <= Len(r[i].uses) => i + k <= Len(r) /\ IsTool(r[i + k]) /\ r[i + k].of = r[i].uses[k].id
    /\ \A i \in DOMAIN r : IsTool(r[i]) => r[i].of \in Ids(r[RunHead(r, i)])

\* However the history was collapsed and snipped, no result is cut off from its call, and
\* the request has one result behind every call it shows: the real one if there is one.
RequestFaithful ==
    pc = "model" =>
        LET r == repair_tool_call_chains(window)
        IN  /\ Paired(r)
            /\ \A i \in DOMAIN window : window[i].of \in answered => window[i] \in ToSet(r)
            /\ \A i \in DOMAIN r : r[i].of \in answered => r[i].real

\* The current instruction, the user's last message, is in every window that is not a
\* summary of the whole history.
InstructionKept ==
    pc = "model" /\ window # <<Pointer>> =>
        \E i \in DOMAIN window : window[i] = User(Users(messages))

\* Once the engine has left its step with a cancellation the user asked for, it calls
\* neither the model nor a tool, and the turn does not end as anything else.
CancelSettled == cancelled /\ asked_cancel /\ pc \in {"run", "return", "done"}
CancelFinal ==
    [][CancelSettled => /\ CancelSettled' /\ ran' = ran
                        /\ pc' = "done" => outcome' \in {"cancelled", "failed"}]_vars

\* A turn that runs comes to its end or to a wait for the user.
Ends == (pc = "run") ~> (pc \in {"wait", "done"})

=============================================================================
