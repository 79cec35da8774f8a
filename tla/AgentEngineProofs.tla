-------------------------- MODULE AgentEngineProofs --------------------------
(* The engine's turn, for any number of steps, calls and steers.                     *)
(*                                                                                   *)
(* A cancellation of the user's is final: no step leads out of the places where it   *)
(* has been noted.  The types: what the lists of calls, answers and pending children *)
(* have in common.  The transcript: the calls a batch has not ended are those of the *)
(* last message that called anything, so that what ends them is put behind them.     *)
(* The window: what it shows of the transcript, and the user's last message.         *)
EXTENDS TranscriptProofs

\* What a step may do once the cancellation is noted and the engine has left its step.
CancelStep ==
    CancelSettled => /\ CancelSettled' /\ ran' = ran
                     /\ pc' = "done" => outcome' \in {"cancelled", "failed"}

\* The user's steps: the flag is only ever set, and a turn with a noted cancellation does
\* not wait for an approval.
LEMMA UserKeeps ==
    ASSUME Cancel \/ push_steer \/ Approve \/ AskAgain \/ Deny
    PROVE  CancelStep
<1> SUFFICES ASSUME CancelSettled, push_steer PROVE CancelStep
  BY DEF CancelStep, CancelSettled, Cancel, Approve, AskAgain, Deny
<1> QED BY DEF CancelStep, CancelSettled, push_steer, turn, batch, seen

\* The engine's: of the places where the cancellation is noted only the head of the loop
\* is the engine's, and the flag turns it away there.
LEMMA EngineKeeps ==
    ASSUME Engine
    PROVE  CancelStep
<1> SUFFICES ASSUME CancelSettled PROVE CancelStep
  BY DEF CancelStep
<1>1. LeaveLoop
  <2>1. pc \in {"run", "return", "done"} /\ asked_cancel
    BY DEF CancelSettled
  <2> QED BY <2>1 DEF Engine, BeginStep, Assemble, CallModel, SnipGroup, NoteCancel, Fail,
                     ReplyTools, ReplyFinal, Nudge, NextGroup, MergeGroup, RunTool, CancelSettled
<1> QED BY <1>1 DEF CancelStep, CancelSettled, LeaveLoop, Return, user, seen

\* The controller's: a join after the cancellation runs no child, and the turn that ends is
\* cancelled, or failed by the join.
LEMMA ControllerKeeps ==
    ASSUME Controller
    PROVE  CancelStep
<1> USE DEF CancelStep, CancelSettled
<1>1. CASE \E asks \in SUBSET ToSet(children) : JoinChildren(asks)
  BY <1>1 DEF JoinChildren, user, batch
<1>2. CASE JoinFails
  BY <1>2 DEF JoinFails, Raise, user, batch, seen
<1>3. CASE Park
  BY <1>3 DEF Park, Goto, user, batch, seen
<1>4. CASE Finish
  BY <1>4 DEF Finish, user, batch, seen
<1> QED BY <1>1, <1>2, <1>3, <1>4 DEF Controller

\* Once the engine has left its step with a cancellation the user asked for (note_cancel),
\* no step calls the model or runs a tool, not even the join of children the cancelled
\* batch had spawned, and the turn ends as cancelled or failed.
THEOREM CancellationIsFinal == Spec => CancelFinal
<1>1. ASSUME [Next]_vars
      PROVE  [CancelStep]_vars
  BY <1>1, UserKeeps, EngineKeeps, ControllerKeeps DEF Next
<1>2. CancelFinal <=> [][CancelStep]_vars
  BY PTL DEF CancelFinal, CancelStep
<1> QED BY <1>1, <1>2, PTL DEF Spec

----------------------------------------------------------------------------
(* Types.  A reply's calls are numbered by its step, so every call, and every child *)
(* call behind one, has an id of its own step; the approval a wait is for is one    *)
(* that was asked for and is still open.                                            *)

\* The calls to come and in flight, the spawned children and the pending approval.
CallTypes ==
    /\ group \in Seq(Uses) /\ rest \in Seq(Uses)
    /\ children \in Seq(IdSet)
    /\ pending \in [id : IdSet, parent : IdSet]
    /\ asked \in SUBSET IdSet /\ ran \in SUBSET IdSet /\ answered \in SUBSET IdSet
Counted ==
    /\ step_count \in 0..MaxSteps /\ said \in 0..MaxSteers /\ inbox \in 0..said
    /\ pc \in {"assemble", "snip", "model"} => step_count # 0
\* Only a turn that failed between two groups still holds calls outside a tool batch.
Batches ==
    /\ pc # "tools" => group = <<>>
    /\ pc \notin {"tools", "done"} => rest = <<>>
    /\ pc = "done" /\ rest # <<>> => outcome = "failed"
Pending ==
    /\ pending # NoAsk => pending.id \in asked
    /\ pc = "wait" => pending.id \in asked
Places == pc \in {"run", "assemble", "snip", "model", "tools", "return", "wait", "done"}

EngineTypes == Places /\ CallTypes /\ Counted /\ Batches /\ Pending

\* They are the types the runs check.
LEMMA TypesGiveTypeOK == EngineTypes => TypeOK
  <1>. SUFFICES ASSUME EngineTypes PROVE TypeOK
    OBVIOUS
  <1>1. ToSet(children) \subseteq IdSet
    BY DEF EngineTypes, CallTypes, ToSet
  <1>2. inbox \in 0..MaxSteers
    BY EngineAssumption DEF EngineTypes, Counted
  <1>. QED
    BY <1>1, <1>2 DEF EngineTypes, Places, CallTypes, Counted, Batches, Pending, TypeOK

\* A turn starts with no call.
LEMMA EngineInitTypes == Init => EngineTypes
  <1>. SUFFICES ASSUME Init PROVE EngineTypes
    OBVIOUS
  <1>1. group = <<>> /\ rest = <<>> /\ children = <<>> /\ pending = NoAsk
    BY DEF Init
  <1>2. CallTypes
    BY <1>1, IdTypes DEF Init, CallTypes
  <1>3. Counted
    BY EngineAssumption DEF Init, Counted
  <1>. QED
    BY <1>1, <1>2, <1>3 DEF Init, EngineTypes, Places, Batches, Pending

\* The user's steps keep the types.
LEMMA UserTypes ==
    ASSUME EngineTypes, Cancel \/ push_steer
    PROVE  EngineTypes'
  <1>1. CASE Cancel
    <2>1. UNCHANGED <<group, rest, children, pending, asked, ran, answered, step_count, inbox, said>>
      BY <1>1 DEF Cancel, step, batch, held, seen
    <2>2. UNCHANGED <<pc, outcome>> \/ (pc = "wait" /\ pc' = "done" /\ outcome' = "cancelled")
      BY <1>1 DEF Cancel, Busy, turn
    <2>. QED
      BY <2>1, <2>2 DEF EngineTypes, Places, CallTypes, Counted, Batches, Pending
  <1>2. CASE push_steer
    <2>1. UNCHANGED <<pc, outcome, group, rest, children, pending, asked, ran, answered, step_count>>
      BY <1>2 DEF push_steer, turn, step, batch, held, seen
    <2>2. said' = said + 1 /\ inbox' = inbox + 1 /\ said < MaxSteers
      BY <1>2 DEF push_steer
    <2>3. Counted'
      BY <2>1, <2>2, EngineAssumption DEF EngineTypes, Counted
    <2>. QED
      BY <2>1, <2>3 DEF EngineTypes, Places, CallTypes, Batches, Pending
  <1>. QED
    BY <1>1, <1>2

\* A step of the loop that neither makes nor takes up calls.
LEMMA LoopTypes ==
    ASSUME EngineTypes,
           \/ LeaveLoop \/ BeginStep \/ Assemble \/ CallModel \/ SnipGroup \/ NoteCancel
           \/ \E text \in BOOLEAN : ReplyFinal(text)
           \/ \E text \in BOOLEAN, n \in Nudges : Nudge(text, n)
    PROVE  EngineTypes'
  <1>1. UNCHANGED <<group, rest, children, pending, asked, ran, answered, said>>
    BY DEF LeaveLoop, BeginStep, Assemble, CallModel, SnipGroup, NoteCancel, ReplyFinal,
           Nudge, user, batch, held, seen
  <1>2. Counted'
    <2>1. CASE BeginStep
      BY <2>1, EngineAssumption DEF BeginStep, Goto, EngineTypes, Counted
    <2>2. CASE ~BeginStep
      <3>1. UNCHANGED <<step_count, inbox>>
        BY <2>2 DEF LeaveLoop, Assemble, CallModel, SnipGroup, NoteCancel, ReplyFinal,
                    Nudge, user, step
      <3>2. pc' \in {"assemble", "snip", "model"} => pc \in {"assemble", "snip", "model"}
        BY <2>2 DEF LeaveLoop, Assemble, CallModel, SnipGroup, NoteCancel, ReplyFinal,
                    Nudge, Goto, Return
      <3>. QED
        BY <1>1, <3>1, <3>2 DEF EngineTypes, Counted
    <2>. QED
      BY <2>1, <2>2
  <1>3. /\ pc' \in {"run", "assemble", "snip", "model", "return", "done"}
        /\ pc \notin {"tools", "done"}
    BY DEF LeaveLoop, BeginStep, Assemble, CallModel, SnipGroup, NoteCancel, ReplyFinal,
           Nudge, Goto, Return
  <1>. QED
    BY <1>1, <1>2, <1>3 DEF EngineTypes, Places, CallTypes, Batches, Pending

\* A step that fails drops what the group in flight had returned.
LEMMA FailTypes ==
    ASSUME EngineTypes, Fail
    PROVE  EngineTypes'
  <1>1. UNCHANGED <<rest, children, pending, asked, ran, answered, said, inbox, step_count>>
    BY DEF Fail, step, user, held, seen
  <1>2. group' = <<>> /\ pc' = "done" /\ outcome' = "failed"
    BY DEF Fail, Raise
  <1>3. <<>> \in Seq(Uses)
    OBVIOUS
  <1>. QED
    BY <1>1, <1>2, <1>3 DEF EngineTypes, Places, CallTypes, Counted, Batches, Pending

\* So do the model's replies.
LEMMA ReplyTypes ==
    ASSUME EngineTypes, NEW names \in Replies, ReplyTools(names)
    PROVE  EngineTypes'
  <1>1. PICK n \in 1..MaxCalls : names \in [1..n -> Names]
    BY DEF Replies
  <1>2. rest' = [k \in 1..n |-> Use(<<step_count, k>>, names[k])]
    BY <1>1 DEF ReplyTools
  <1>3. step_count \in 1..MaxSteps
    BY EngineAssumption DEF ReplyTools, EngineTypes, Counted
  <1>4. \A k \in 1..n : rest'[k] \in Uses
    BY <1>1, <1>2, <1>3, EngineAssumption DEF Use, Uses, OwnIds
  <1>5. rest' \in Seq(Uses)
    <2>1. rest' = [k \in 1..n |-> rest'[k]]
      BY <1>2
    <2>. QED
      BY <1>4, <2>1, EngineAssumption, SeqDef
  <1>6. /\ UNCHANGED <<group, children, pending, asked, ran, answered, step_count, inbox, said>>
        /\ pc' = "tools"
    BY DEF ReplyTools, Goto, user, held, seen
  <1>. QED
    BY <1>5, <1>6 DEF EngineTypes, Places, CallTypes, Counted, Batches, Pending

\* So does a batch that is taken apart.
LEMMA GroupTypes ==
    ASSUME EngineTypes, NextGroup
    PROVE  EngineTypes'
  <1>. DEFINE S == {1} \cup {j \in DOMAIN rest : \A k \in 1..j : Parallel(rest[k])}
              n == Max(S)
  <1>1. rest \in Seq(Uses) /\ Len(rest) \in Nat /\ DOMAIN rest = 1..Len(rest) /\ rest # <<>>
    BY DEF EngineTypes, CallTypes, NextGroup
  <1>2. n \in 1..Len(rest)
    <2>1. S \subseteq 1..Len(rest) /\ S # {}
      BY <1>1
    <2>. HIDE DEF S
    <2>. QED
      BY <1>1, <2>1, MaxIsIn
  <1>3. group' = SubSeq(rest, 1, n) /\ rest' = SubSeq(rest, n + 1, Len(rest))
    BY DEF NextGroup
  <1>4. group' \in Seq(Uses) /\ rest' \in Seq(Uses)
    <2>. HIDE DEF n
    <2>. QED
      BY <1>1, <1>2, <1>3, SubSeqProperties
  <1>5. /\ UNCHANGED <<pc, outcome, children, pending, asked, ran, answered, step_count, inbox, said>>
        /\ pc = "tools"
    BY DEF NextGroup, turn, step, user, held, seen
  <1>. QED
    BY <1>4, <1>5 DEF EngineTypes, Places, CallTypes, Counted, Batches, Pending

\* So does a call that ends.
LEMMA RunToolTypes ==
    ASSUME EngineTypes, NEW k, NEW r, RunTool(k, r)
    PROVE  EngineTypes'
  <1>1. group[k] \in Uses
    BY DEF RunTool, EngineTypes, CallTypes
  <1>2. group[k].id \in IdSet /\ ChildCall(group[k].id) \in IdSet /\ NoId \in IdSet
    BY <1>1, IdTypes DEF Uses
  <1>3. AskOf(group[k].id, r) \in [id : IdSet, parent : IdSet]
    BY <1>2 DEF AskOf, Ask
  <1>4. /\ UNCHANGED <<pc, outcome, group, rest, answered, step_count, inbox, said>>
        /\ pc = "tools"
    BY DEF RunTool, turn, step, user
  <1>5. children' \in Seq(IdSet) /\ ran' \in SUBSET IdSet
    BY <1>2 DEF RunTool, EngineTypes, CallTypes
  <1>6. /\ pending' \in [id : IdSet, parent : IdSet] /\ asked' \in SUBSET IdSet
        /\ pending' # NoAsk => pending'.id \in asked'
    <2>1. CASE r \in Asks
      BY <1>3, <2>1 DEF RunTool, EngineTypes, CallTypes
    <2>2. CASE r \notin Asks
      BY <2>2 DEF RunTool, EngineTypes, CallTypes, Pending
    <2>. QED
      BY <2>1, <2>2
  <1>. QED
    BY <1>4, <1>5, <1>6 DEF EngineTypes, Places, CallTypes, Counted, Batches, Pending

\* So does a group whose results are merged.
LEMMA MergeTypes ==
    ASSUME EngineTypes, MergeGroup
    PROVE  EngineTypes'
  <1>1. /\ UNCHANGED <<children, pending, asked, ran, step_count, inbox, said>>
        /\ group' = <<>> /\ rest' = Remaining /\ pc = "tools"
    BY DEF MergeGroup, step, user, held
  <1>2. answered' \in SUBSET IdSet
    <2>1. \A k \in Returned : group[k].id \in IdSet
      <3>1. \A k \in Returned : group[k] \in Uses
        BY DEF Returned, EngineTypes, CallTypes
      <3>. QED
        BY <3>1, IdTypes DEF Uses
    <2>. QED
      BY <2>1 DEF MergeGroup, EngineTypes, CallTypes
  <1>3. rest' \in Seq(Uses)
    BY <1>1 DEF Remaining, EngineTypes, CallTypes
  <1>4. CASE Control # {}
    <2>1. rest' = <<>> /\ pc' = "return"
      BY <1>1, <1>4 DEF Remaining, MergeGroup, Return
    <2>. QED
      BY <1>1, <1>2, <1>3, <2>1
      DEF EngineTypes, Places, CallTypes, Counted, Batches, Pending
  <1>5. CASE Control = {}
    <2>1. pc' = "tools" \/ (rest' = <<>> /\ pc' \in {"return", "run"})
      BY <1>1, <1>5 DEF Remaining, MergeGroup, Return, Goto, turn
    <2>. QED
      BY <1>1, <1>2, <1>3, <2>1
      DEF EngineTypes, Places, CallTypes, Counted, Batches, Pending
  <1>. QED
    BY <1>4, <1>5

\* So do child joins and the end of the turn.
LEMMA ControllerTypes ==
    ASSUME EngineTypes, Controller
    PROVE  EngineTypes'
  <1>1. ASSUME NEW asks \in SUBSET ToSet(children), JoinChildren(asks) PROVE EngineTypes'
    <2>1. ToSet(children) \subseteq IdSet
      BY DEF EngineTypes, CallTypes, ToSet
    <2>2. answered' \in SUBSET IdSet /\ ran' \in SUBSET IdSet /\ asked' \in SUBSET IdSet
      BY <1>1, <2>1 DEF JoinChildren, EngineTypes, CallTypes
    <2>3. asked \subseteq asked' /\ children' = <<>> /\ pc = "return" /\ pc' = "run"
      BY <1>1 DEF JoinChildren
    <2>4. UNCHANGED <<group, rest, pending, step_count, inbox, said>>
      BY <1>1 DEF JoinChildren, step, user, batch
    <2>. QED
      BY <2>2, <2>3, <2>4 DEF EngineTypes, Places, CallTypes, Counted, Batches, Pending
  <1>2. CASE JoinFails \/ Park \/ Finish
    <2>1. UNCHANGED <<group, rest, children, pending, asked, ran, answered, step_count, inbox, said>>
      BY <1>2 DEF JoinFails, Park, Finish, step, user, batch, held, seen
    <2>2. /\ pc = "return" /\ pc' \in {"wait", "done"}
          /\ pc' = "wait" => pending # NoAsk
      BY <1>2 DEF JoinFails, Park, Finish, Raise, Goto
    <2>. QED
      BY <2>1, <2>2 DEF EngineTypes, Places, CallTypes, Counted, Batches, Pending
  <1>. QED
    BY <1>1, <1>2 DEF Controller

\* The answer of the user: the pending approval is gone, or asked for again under the same id.
LEMMA AnswerTypes ==
    ASSUME EngineTypes, Approve \/ AskAgain \/ Deny
    PROVE  EngineTypes'
  <1>1. /\ pc = "wait" /\ pending.id \in asked
        /\ pending.id \in IdSet /\ pending.parent \in IdSet /\ NoId \in IdSet
    BY IdTypes DEF Approve, AskAgain, Deny, EngineTypes, CallTypes, Pending
  <1>2. UNCHANGED <<group, rest, step_count, inbox, said>>
    BY DEF Approve, AskAgain, Deny, step, user, batch
  <1>3. ASSUME NEW id \in IdSet, Answer(id), ran' = ran \cup {id} \/ UNCHANGED ran
        PROVE EngineTypes'
    <2>1. /\ pending' = NoAsk /\ children' = <<>> /\ pc' = "run"
          /\ asked' \in SUBSET IdSet /\ answered' \in SUBSET IdSet /\ ran' \in SUBSET IdSet
      BY <1>3 DEF Answer, EngineTypes, CallTypes
    <2>2. pending' \in [id : IdSet, parent : IdSet]
      BY <2>1, IdTypes
    <2>. QED
      BY <1>1, <1>2, <2>1, <2>2 DEF EngineTypes, Places, CallTypes, Counted, Batches, Pending
  <1>4. ASSUME children' = <<pending.id>>, pending' = NoAsk, asked' = asked \ {pending.id},
               pc' = "return", UNCHANGED <<ran, answered>>
        PROVE EngineTypes'
    <2>1. pending' \in [id : IdSet, parent : IdSet] /\ children' \in Seq(IdSet)
      BY <1>1, <1>4, IdTypes
    <2>. QED
      BY <1>1, <1>2, <1>4, <2>1 DEF EngineTypes, Places, CallTypes, Counted, Batches, Pending
  <1>5. ASSUME AskAgain PROVE EngineTypes'
    <2>1. /\ pending' = Ask(pending.id, NoId) /\ children' = <<>>
          /\ UNCHANGED <<pc, asked, ran, answered, outcome>>
      BY <1>5 DEF AskAgain, seen
    <2>2. pending' \in [id : IdSet, parent : IdSet] /\ pending'.id = pending.id
      BY <1>1, <2>1 DEF Ask
    <2>. QED
      BY <1>1, <1>2, <2>1, <2>2 DEF EngineTypes, Places, CallTypes, Counted, Batches, Pending
  <1>6. CASE Deny
    BY <1>1, <1>3, <1>6 DEF Deny
  <1>7. CASE Approve
    BY <1>1, <1>3, <1>4, <1>7 DEF Approve, seen
  <1>. QED
    BY <1>5, <1>6, <1>7

\* Every step keeps the types.
LEMMA EngineTypesStep == EngineTypes /\ [Next]_vars => EngineTypes'
  <1>. SUFFICES ASSUME EngineTypes, [Next]_vars PROVE EngineTypes'
    OBVIOUS
  <1>1. CASE UNCHANGED vars
    BY <1>1 DEF vars, turn, step, user, batch, held, seen,
                EngineTypes, Places, CallTypes, Counted, Batches, Pending
  <1>2. CASE Engine
    BY <1>2, LoopTypes, FailTypes, ReplyTypes, GroupTypes, RunToolTypes, MergeTypes DEF Engine
  <1>3. CASE Controller
    BY <1>3, ControllerTypes
  <1>4. CASE Approve \/ AskAgain \/ Deny \/ Cancel \/ push_steer
    BY <1>4, UserTypes, AnswerTypes
  <1>. QED
    BY <1>1, <1>2, <1>3, <1>4 DEF Next

\* The control fields keep their types and their places for any number of steps, calls and
\* steers: calls are in flight only in a tool batch, or left behind by a turn that failed
\* between two groups, and every wait is for an approval that was asked for and is still open.
THEOREM EngineTypesHold == Spec => []TypeOK
BY EngineInitTypes, EngineTypesStep, TypesGiveTypeOK, PTL DEF Spec

----------------------------------------------------------------------------
(* The transcript and the calls that are not answered yet.                        *)

\* The transcript: every result behind its call, no call twice, a new step's calls still to come.
Transcribed ==
    /\ Sound(messages, answered)
    /\ \A id \in CallIds(messages) :
          /\ id[1] <= step_count
          /\ pc \in {"assemble", "snip", "model"} => id[1] # step_count

\* The calls a batch has not brought to an end.
Live == IdsOf(group) \cup IdsOf(rest) \cup ToSet(children)
\* The call of this transcript that the pending approval is for.
PendOwn == IF pending.parent # NoId THEN pending.parent ELSE pending.id

\* Children are calls of the last message, as all that a batch has not ended.
Spawned ==
    /\ ToSet(children) \subseteq OwnIds
    /\ pc \in {"run", "assemble", "snip", "model"} => children = <<>>
    /\ pc = "tools" => Open(messages, Live)
    /\ pc = "return" /\ children # <<>> => Open(messages, ToSet(children))
    /\ pc = "return" /\ outcome = "waiting_child" => children # <<>>
\* No call is in two places; a group of more than one has no call that could be retried.
InFlight ==
    /\ Distinct(group) /\ Distinct(rest)
    /\ IdsOf(group) \cap IdsOf(rest) = {} /\ ToSet(children) \cap IdsOf(rest) = {}
    /\ DOMAIN got = DOMAIN group
    /\ \A k \in DOMAIN group : /\ group[k].id \in ToSet(children) => got[k] = "child"
                               /\ got[k] = "retry" => group[k].name = "act"
                               /\ got[k] \in Asks => PendOwn \in IdsOf(group)
    /\ Len(group) > 1 => \A k \in DOMAIN group : group[k].name # "act"
\* Nothing but results follows the call that waits for the user.
Awaited ==
    /\ pending.parent # NoId => pending.id \notin OwnIds
    /\ pc = "wait" \/ (pc = "return" /\ outcome = "waiting_approval") =>
         (PendOwn \in OwnIds => Open(messages, {PendOwn}))

EngineInv == EngineTypes /\ Transcribed /\ Spawned /\ InFlight /\ Awaited

\* Nothing is called in an empty list.
LEMMA NoneSpawned == ToSet(<<>>) = {} /\ IdsOf(<<>>) = {} /\ Distinct(<<>>)
BY DEF ToSet, IdsOf, Distinct

\* A turn starts with the user's first message and no call.
LEMMA TranscriptInit == Init => Transcribed /\ Spawned /\ InFlight /\ Awaited
  <1>. SUFFICES ASSUME Init PROVE Transcribed /\ Spawned /\ InFlight /\ Awaited
    OBVIOUS
  <1>1. /\ messages = <<User(1)>> /\ answered = {} /\ group = <<>> /\ rest = <<>> /\ got = <<>>
        /\ children = <<>> /\ pending = NoAsk /\ pc = "run"
    BY DEF Init
  <1>2. User(1) \in Msgs /\ IsUser(User(1))
    BY MsgTypes
  <1>3. /\ messages \in Seq(Msgs) /\ Len(messages) = 1 /\ DOMAIN messages = {1}
        /\ messages[1] = User(1)
    BY <1>1, <1>2
  <1>4. ~IsTool(messages[1]) /\ messages[1].uses = <<>> /\ Ids(messages[1]) = {}
    BY <1>2, <1>3, MsgFacts
  <1>5. Users(messages) = 1
    <2>1. User(1) # Pointer
      BY DEF User, Pointer
    <2>2. Spoken(messages) = {1}
      BY <1>2, <1>3, <2>1 DEF Spoken
    <2>3. Cardinality({1}) = 1
      BY FS_Singleton
    <2>. QED
      BY <1>3, <2>2, <2>3, UsersType
  <1>6. Sound(messages, answered)
    <2>1. Instructed(messages, User(Users(messages)))
      BY <1>3, <1>5 DEF Instructed
    <2>2. Unique(messages)
      BY <1>3, <1>4 DEF Unique
    <2>3. Chained(messages) /\ Behind(messages, answered)
      BY <1>3, <1>4 DEF Chained, Behind
    <2>. QED
      BY <1>1, <1>3, <2>1, <2>2, <2>3 DEF Sound
  <1>7. CallIds(messages) = {}
    BY <1>3, <1>4 DEF CallIds
  <1>8. Transcribed
    BY <1>6, <1>7 DEF Transcribed
  <1>. QED
    BY <1>1, <1>8, NoneSpawned DEF Init, Spawned, InFlight, Awaited, NoAsk, Ask

\* The steps that leave the transcript and the calls as they are.
LEMMA QuietKeeps ==
    ASSUME EngineInv,
           UNCHANGED <<messages, answered, step_count, batch, children, pending>>,
           pc' \in {"assemble", "snip", "model"} => pc \in {"assemble", "snip", "model"},
           pc' \in {"run", "assemble", "snip", "model"} => pc \in {"run", "assemble", "snip", "model"} ,
           pc' = "tools" => pc = "tools",
           pc' = "return" =>
             \/ pc = "return" /\ outcome' = outcome
             \/ children = <<>> /\ outcome' \notin {"waiting_child", "waiting_approval"},
           pc' = "wait" => pc = "wait" \/ (pc = "return" /\ outcome = "waiting_approval")
    PROVE  Transcribed' /\ Spawned' /\ InFlight' /\ Awaited'
  <1>1. UNCHANGED <<messages, answered, step_count, group, rest, got, children, pending>>
    BY DEF batch
  <1>2. Transcribed'
    BY <1>1 DEF EngineInv, Transcribed
  <1>3. UNCHANGED <<Live, PendOwn>>
    BY <1>1 DEF Live, PendOwn
  <1>4. Spawned'
    BY <1>1, <1>3 DEF EngineInv, Spawned
  <1>5. InFlight'
    BY <1>1, <1>3 DEF EngineInv, InFlight
  <1>6. Awaited'
    BY <1>1, <1>3 DEF EngineInv, Awaited
  <1>. QED
    BY <1>2, <1>4, <1>5, <1>6

\* The steps of the loop, the user and the controller that touch no call.
LEMMA LoopKeepsCalls ==
    ASSUME EngineInv,
           \/ LeaveLoop \/ Assemble \/ CallModel \/ SnipGroup \/ NoteCancel
           \/ Cancel \/ push_steer \/ JoinFails \/ Park \/ Finish
    PROVE  Transcribed' /\ Spawned' /\ InFlight' /\ Awaited'
  <1>1. UNCHANGED <<messages, answered, step_count, batch, children, pending>>
    BY DEF LeaveLoop, Assemble, CallModel, SnipGroup, NoteCancel, Cancel, push_steer,
           JoinFails, Park, Finish, step, held, seen
  <1>2. /\ pc' \in {"assemble", "snip", "model"} => pc \in {"assemble", "snip", "model"}
        /\ pc' \in {"run", "assemble", "snip", "model"} => pc \in {"run", "assemble", "snip", "model"}
        /\ pc' = "tools" => pc = "tools"
        /\ pc' = "wait" => pc = "wait" \/ (pc = "return" /\ outcome = "waiting_approval")
        /\ pc' = "return" =>
             \/ pc = "return" /\ outcome' = outcome
             \/ /\ pc \in {"run", "assemble", "model"}
                /\ outcome' \in {"cancelled", "budget", "max_steps", "final"}
    <2>1. CASE LeaveLoop \/ NoteCancel
      BY <2>1 DEF LeaveLoop, NoteCancel, Return, Ending
    <2>2. CASE Assemble \/ CallModel \/ SnipGroup
      BY <2>2 DEF Assemble, CallModel, SnipGroup, Goto
    <2>3. CASE JoinFails \/ Park \/ Finish
      BY <2>3 DEF JoinFails, Park, Finish, Raise, Goto
    <2>4. CASE Cancel \/ push_steer
      <3>1. UNCHANGED <<pc, outcome>> \/ pc' = "done"
        BY <2>4 DEF Cancel, push_steer, turn
      <3>. QED
        BY <3>1
    <2>. QED
      BY <2>1, <2>2, <2>3, <2>4
  <1>3. pc \in {"run", "assemble", "model"} => children = <<>>
    BY DEF EngineInv, Spawned
  <1>. QED
    BY <1>1, <1>2, <1>3, QuietKeeps

\* A step that fails leaves no call in flight, and nothing that a later step asks about.
LEMMA FailKeepsCalls ==
    ASSUME EngineInv, Fail
    PROVE  Transcribed' /\ Spawned' /\ InFlight' /\ Awaited'
  <1>1. UNCHANGED <<messages, answered, step_count, rest, children, pending, PendOwn>>
    BY DEF Fail, step, held, seen, PendOwn
  <1>2. group' = <<>> /\ got' = <<>> /\ pc' = "done"
    BY DEF Fail, Raise
  <1>3. InFlight'
    BY <1>1, <1>2, NoneSpawned DEF EngineInv, InFlight
  <1>. QED
    BY <1>1, <1>2, <1>3 DEF EngineInv, Transcribed, Spawned, Awaited

\* A reply of text.
LEMMA TextKeeps ==
    ASSUME NEW ms, NEW ids, Sound(ms, ids), NEW more, more = Append(ms, Text)
    PROVE  Sound(more, ids) /\ CallIds(more) = CallIds(ms) /\ Users(more) = Users(ms)
  <1>1. /\ ms \in Seq(Msgs) /\ Len(ms) \in Nat /\ Instructed(ms, User(Users(ms)))
    BY SeqMsgs DEF Sound
  <1>2. Text \in Msgs /\ ~IsTool(Text) /\ ~IsUser(Text) /\ Text.uses = <<>>
    <2>1. <<>> \in Seq(Uses)
      OBVIOUS
    <2>. QED
      BY <2>1, MsgTypes
  <1>3. /\ more \in Seq(Msgs) /\ Len(more) = Len(ms) + 1 /\ more[Len(ms) + 1] = Text
        /\ \A i \in 1..Len(ms) : more[i] = ms[i]
    BY <1>1, <1>2, AppendProperties
  <1>4. Extends(more, ms) /\ Added(more, ms) = {Len(ms) + 1}
    BY <1>1, <1>3 DEF Extends, Added
  <1>5. \A i \in Added(more, ms) : ~IsTool(more[i]) /\ more[i].uses = <<>> /\ ~IsUser(more[i])
    BY <1>2, <1>3, <1>4
  <1>6. Users(more) = Users(ms) /\ Instructed(more, User(Users(ms)))
    BY <1>1, <1>4, <1>5, UsersStay
  <1>. QED
    BY <1>4, <1>5, <1>6, TalkKeeps

\* What the user says before a step, or the engine in the user's name.
LEMMA SpeechKeeps ==
    ASSUME NEW ms, NEW ids, Sound(ms, ids), NEW n \in Nat,
           NEW more, more = ms \o [k \in 1..n |-> User(Users(ms) + k)]
    PROVE  Sound(more, ids) /\ CallIds(more) = CallIds(ms)
  <1>1. ms \in Seq(Msgs)
    BY DEF Sound
  <1>2. CASE n = 0
    <2>1. [k \in 1..n |-> User(Users(ms) + k)] = <<>>
      BY <1>2
    <2>2. more = ms
      BY <1>1, <2>1, ConcatEmptySeq
    <2>. QED
      BY <2>2
  <1>3. CASE n # 0
    <2>1. n \in Nat \ {0}
      BY <1>3
    <2>2. /\ Extends(more, ms) /\ Instructed(more, User(Users(more)))
          /\ \A i \in Added(more, ms) : more[i] \in Msgs /\ IsUser(more[i])
      BY <1>1, <2>1, UsersSpeak
    <2>3. \A i \in Added(more, ms) : ~IsTool(more[i]) /\ more[i].uses = <<>>
      BY <2>2, MsgFacts
    <2>. QED
      BY <2>2, <2>3, TalkKeeps
  <1>. QED
    BY <1>2, <1>3

\* A step's new messages of the user, a reply of text, a nudge: no call, no result.
LEMMA TalkKeepsCalls ==
    ASSUME EngineInv,
           \/ BeginStep
           \/ \E text \in BOOLEAN : ReplyFinal(text)
           \/ \E text \in BOOLEAN, n \in Nudges : Nudge(text, n)
    PROVE  Transcribed' /\ Spawned' /\ InFlight' /\ Awaited'
  <1>1. /\ Sound(messages', answered) /\ CallIds(messages') = CallIds(messages)
    <2>0. Sound(messages, answered) /\ messages \in Seq(Msgs)
      BY DEF EngineInv, Transcribed, Sound
    <2>1. CASE BeginStep
      <3>1. messages' = messages \o [k \in 1..inbox |-> User(Users(messages) + k)]
        BY <2>1 DEF BeginStep
      <3>2. inbox \in Nat
        BY DEF EngineInv, EngineTypes, Counted
      <3>. QED
        BY <2>0, <3>1, <3>2, SpeechKeeps
    <2>2. ASSUME NEW text \in BOOLEAN, ReplyFinal(text)
          PROVE  Sound(messages', answered) /\ CallIds(messages') = CallIds(messages)
      <3>1. messages' = IF text THEN Append(messages, Text) ELSE messages
        BY <2>2 DEF ReplyFinal, Said
      <3>. QED
        BY <2>0, <3>1, TextKeeps
    <2>3. ASSUME NEW text \in BOOLEAN, NEW n \in Nudges, Nudge(text, n)
          PROVE  Sound(messages', answered) /\ CallIds(messages') = CallIds(messages)
      <3>1. PICK m \in Nat : m = IF n = "diff" THEN 2 ELSE 1
        OBVIOUS
      <3>2. PICK ms : ms = Said(text)
        OBVIOUS
      <3>3. Sound(ms, answered) /\ CallIds(ms) = CallIds(messages) /\ Users(ms) = Users(messages)
        BY <2>0, <3>2, TextKeeps DEF Said
      <3>4. messages' = ms \o [k \in 1..m |-> User(Users(ms) + k)]
        BY <2>3, <3>1, <3>2, <3>3 DEF Nudge
      <3>5. Sound(messages', answered) /\ CallIds(messages') = CallIds(ms)
        <4>1. PICK more : more = messages'
          OBVIOUS
        <4>2. more = ms \o [k \in 1..m |-> User(Users(ms) + k)] /\ Sound(ms, answered)
          BY <3>3, <3>4, <4>1
        <4>3. Sound(more, answered) /\ CallIds(more) = CallIds(ms)
          BY <4>2, SpeechKeeps
        <4>. QED
          BY <4>1, <4>3
      <3>. QED
        BY <3>3, <3>5
    <2>. QED
      BY <2>1, <2>2, <2>3
  <1>2. /\ UNCHANGED <<answered, group, rest, got, children, pending>>
        /\ pc \in {"run", "model"} /\ pc' \in {"run", "assemble", "return"}
        /\ pc' = "return" => outcome' \in {"cancelled", "budget", "max_steps", "final"}
    BY DEF BeginStep, ReplyFinal, Nudge, Goto, Return, Ending, batch, held, seen
  <1>3. \/ UNCHANGED step_count /\ pc' # "assemble"
        \/ step_count' = step_count + 1
    BY DEF BeginStep, ReplyFinal, Nudge, Goto, Return
  <1>4. children = <<>>
    BY <1>2 DEF EngineInv, Spawned
  <1>5. Transcribed'
    <2>1. \A id \in CallIds(messages) : id \in OwnIds /\ id[1] \in Nat /\ id[1] <= step_count
      <3>1. messages \in Seq(Msgs)
        BY DEF EngineInv, Transcribed, Sound
      <3>2. \A id \in CallIds(messages) : id \in OwnIds
        BY <3>1, SeqMsgs, MsgFacts DEF CallIds
      <3>. QED
        BY <3>2, IdFacts DEF EngineInv, Transcribed
    <2>2. step_count \in Nat
      BY DEF EngineInv, EngineTypes, Counted
    <2>3. \A id \in CallIds(messages) : /\ id[1] <= step_count'
                                        /\ pc' \in {"assemble", "snip", "model"} => id[1] # step_count'
      BY <1>2, <1>3, <2>1, <2>2
    <2>. QED
      BY <1>1, <1>2, <2>3 DEF Transcribed
  <1>6. Spawned'
    BY <1>2, <1>4 DEF EngineInv, Spawned
  <1>7. InFlight'
    BY <1>2 DEF EngineInv, InFlight, PendOwn
  <1>8. Awaited'
    BY <1>2 DEF EngineInv, Awaited, PendOwn
  <1>. QED
    BY <1>5, <1>6, <1>7, <1>8

\* A reply's calls are numbered by its step: none was made before.
LEMMA ReplyKeepsCalls ==
    ASSUME EngineInv, NEW names \in Replies, ReplyTools(names)
    PROVE  Transcribed' /\ Spawned' /\ InFlight' /\ Awaited'
  <1>1. PICK n \in 1..MaxCalls : names \in [1..n -> Names]
    BY DEF Replies
  <1>2. rest' = [k \in 1..n |-> Use(<<step_count, k>>, names[k])] /\ n \in Nat \ {0}
    BY <1>1, EngineAssumption DEF ReplyTools
  <1>3. step_count \in 1..MaxSteps /\ step_count \in Nat /\ pc = "model"
    BY EngineAssumption DEF ReplyTools, EngineInv, EngineTypes, Counted
  <1>4. rest' \in Seq(Uses)
    <2>1. \A k \in 1..n : Use(<<step_count, k>>, names[k]) \in Uses
      BY <1>1, <1>3, EngineAssumption DEF Use, Uses, OwnIds
    <2>. QED
      BY <1>2, <2>1
  <1>5. DOMAIN rest' = 1..n /\ \A k \in 1..n : rest'[k].id = <<step_count, k>>
    BY <1>2 DEF Use
  <1>6. Distinct(rest') /\ IdsOf(rest') = {<<step_count, k>> : k \in 1..n}
    <2>1. \A k, l \in 1..n : <<step_count, k>> = <<step_count, l>> => k = l
      OBVIOUS
    <2>2. PICK us : us = rest'
      OBVIOUS
    <2>3. DOMAIN us = 1..n /\ \A k \in 1..n : us[k].id = <<step_count, k>>
      BY <1>5, <2>2
    <2>4. Distinct(us)
      BY <2>1, <2>3 DEF Distinct
    <2>5. IdsOf(us) = {<<step_count, k>> : k \in 1..n}
      BY <2>3 DEF IdsOf
    <2>. QED
      BY <2>2, <2>4, <2>5
  <1>7. \A id \in CallIds(messages) : id[1] <= step_count /\ id[1] # step_count
    BY <1>3 DEF EngineInv, Transcribed
  <1>8. IdsOf(rest') \cap CallIds(messages) = {}
    <2>1. \A k \in 1..n : <<step_count, k>>[1] = step_count
      OBVIOUS
    <2>. QED
      BY <1>6, <1>7, <2>1
  <1>9. messages' = Append(messages, ToolUses(rest')) /\ Sound(messages, answered)
    BY DEF ReplyTools, EngineInv, Transcribed
  <1>10. PICK us \in Seq(Uses) : us = rest'
    BY <1>4
  <1>11. PICK more : more = messages'
    OBVIOUS
  <1>12. more = Append(messages, ToolUses(us)) /\ Distinct(us) /\ IdsOf(us) \cap CallIds(messages) = {}
    BY <1>6, <1>8, <1>9, <1>10, <1>11
  <1>13. /\ Sound(more, answered) /\ Open(more, IdsOf(us))
         /\ \A id \in CallIds(more) : id \in CallIds(messages) \/ id \in IdsOf(us)
    BY <1>9, <1>12, CallsKeep
  <1>14. /\ UNCHANGED <<answered, step_count, group, got, children, pending>>
         /\ pc' = "tools" /\ group = <<>> /\ children = <<>>
    BY <1>3 DEF ReplyTools, Goto, held, seen, EngineInv, EngineTypes, Batches, Spawned
  <1>15. Transcribed'
    <2>1. \A id \in CallIds(more) : id[1] <= step_count
      BY <1>3, <1>6, <1>7, <1>10, <1>13
    <2>. QED
      BY <1>11, <1>13, <1>14, <2>1 DEF Transcribed
  <1>16. Spawned'
    <2>1. Live' = IdsOf(us)
      BY <1>10, <1>14, NoneSpawned DEF Live
    <2>. QED
      BY <1>11, <1>13, <1>14, <2>1, NoneSpawned DEF Spawned
  <1>17. InFlight'
    BY <1>6, <1>14, NoneSpawned DEF EngineInv, InFlight, PendOwn
  <1>18. Awaited'
    BY <1>14 DEF EngineInv, Awaited
  <1>. QED
    BY <1>15, <1>16, <1>17, <1>18

\* A part of a list of calls.
LEMMA PartOf ==
    ASSUME NEW us \in Seq(Uses), Distinct(us), NEW n \in 1..Len(us)
    PROVE  LET a == SubSeq(us, 1, n)
               b == SubSeq(us, n + 1, Len(us))
           IN  /\ a \in Seq(Uses) /\ b \in Seq(Uses) /\ Len(a) = n
               /\ DOMAIN a = 1..n /\ \A k \in 1..n : a[k] = us[k]
               /\ Distinct(a) /\ Distinct(b) /\ IdsOf(a) \cap IdsOf(b) = {}
               /\ IdsOf(a) \cup IdsOf(b) = IdsOf(us)
  <1>. DEFINE a == SubSeq(us, 1, n)
              b == SubSeq(us, n + 1, Len(us))
              m == Len(us)
  <1>1. m \in Nat /\ DOMAIN us = 1..m /\ n \in 1..m /\ n \in Nat
    BY LenProperties
  <1>2. a \in Seq(Uses) /\ Len(a) = n /\ DOMAIN a = 1..n /\ \A k \in 1..n : a[k] = us[k]
    BY <1>1, SubSeqProperties, LenProperties
  <1>3. b \in Seq(Uses) /\ Len(b) = m - n /\ \A k \in 1..(m - n) : b[k] = us[n + k]
    <2>1. \A i \in (n + 1)..m : us[i] \in Uses
      BY <1>1, ElementOfSeq
    <2>2. n + 1 \in Int /\ m \in Int
      BY <1>1
    <2>3. /\ b \in Seq(Uses) /\ Len(b) = (IF n + 1 <= m THEN m - (n + 1) + 1 ELSE 0)
          /\ \A i \in 1..(m - (n + 1) + 1) : b[i] = us[(n + 1) + i - 1]
      BY <2>1, <2>2, SubSeqProperties
    <2>4. m - (n + 1) + 1 = m - n /\ \A i \in Int : (n + 1) + i - 1 = n + i
      BY <1>1
    <2>. HIDE DEF b, m
    <2>5. Len(b) = m - n
      <3>1. CASE n + 1 <= m
        BY <1>1, <2>3, <3>1
      <3>2. CASE ~(n + 1 <= m)
        <4>1. m = n
          BY <1>1, <3>2
        <4>. QED
          BY <1>1, <2>3, <3>2, <4>1
      <3>. QED
        BY <3>1, <3>2
    <2>6. ASSUME NEW i \in 1..(m - n) PROVE b[i] = us[n + i]
      <3>1. i \in 1..(m - (n + 1) + 1) /\ i \in Int
        BY <2>4
      <3>2. b[i] = us[(n + 1) + i - 1]
        BY <2>3, <3>1
      <3>3. (n + 1) + i - 1 = n + i
        BY <2>4, <3>1
      <3>. QED
        BY <3>2, <3>3
    <2>. QED
      BY <2>3, <2>5, <2>6
  <1>4. DOMAIN b = 1..(m - n)
    BY <1>3, LenProperties
  <1>. HIDE DEF a, b, m
  <1>5. \A k \in 1..(m - n) : n + k \in 1..m /\ n + k \notin 1..n
    BY <1>1
  <1>6. Distinct(a)
    BY <1>1, <1>2 DEF Distinct
  <1>7. Distinct(b)
    <2>. SUFFICES ASSUME NEW k \in DOMAIN b, NEW l \in DOMAIN b, b[k].id = b[l].id PROVE k = l
      BY DEF Distinct
    <2>1. n + k = n + l
      BY <1>1, <1>3, <1>4, <1>5 DEF Distinct
    <2>. QED
      BY <1>1, <1>4, <2>1
  <1>8. IdsOf(a) \cap IdsOf(b) = {}
    <2>. SUFFICES ASSUME NEW k \in DOMAIN a, NEW l \in DOMAIN b, a[k].id = b[l].id PROVE FALSE
      BY DEF IdsOf
    <2>0. k \in DOMAIN us /\ n + l \in DOMAIN us /\ us[k].id = us[n + l].id
      BY <1>1, <1>2, <1>3, <1>4, <1>5
    <2>1. k = n + l
      BY <2>0 DEF Distinct
    <2>. QED
      BY <1>2, <1>4, <1>5, <2>1
  <1>9. IdsOf(a) \cup IdsOf(b) = IdsOf(us)
    <2>1. \A k \in 1..m : k \in 1..n \/ (k - n \in 1..(m - n) /\ n + (k - n) = k)
      BY <1>1
    <2>2. \A k \in DOMAIN us : us[k].id \in IdsOf(a) \cup IdsOf(b)
      <3>. SUFFICES ASSUME NEW k \in 1..m PROVE us[k].id \in IdsOf(a) \cup IdsOf(b)
        BY <1>1
      <3>1. CASE k \in 1..n
        BY <1>2, <3>1 DEF IdsOf
      <3>2. CASE k \notin 1..n
        <4>1. k - n \in DOMAIN b /\ b[k - n] = us[k]
          BY <1>3, <1>4, <2>1, <3>2
        <4>. QED
          BY <4>1 DEF IdsOf
      <3>. QED
        BY <3>1, <3>2
    <2>3. IdsOf(a) \subseteq IdsOf(us)
      BY <1>1, <1>2 DEF IdsOf
    <2>4. IdsOf(b) \subseteq IdsOf(us)
      BY <1>1, <1>3, <1>4, <1>5 DEF IdsOf
    <2>5. IdsOf(us) \subseteq IdsOf(a) \cup IdsOf(b)
      BY <2>2 DEF IdsOf
    <2>. QED
      BY <2>3, <2>4, <2>5
  <1>. QED
    BY <1>2, <1>3, <1>6, <1>7, <1>8, <1>9 DEF a, b, m

\* A batch is taken apart, and every call of it stays live.
LEMMA GroupKeepsCalls ==
    ASSUME EngineInv, NextGroup
    PROVE  Transcribed' /\ Spawned' /\ InFlight' /\ Awaited'
  <1>. DEFINE S == {1} \cup {j \in DOMAIN rest : \A k \in 1..j : Parallel(rest[k])}
              n == Max(S)
  <1>1. rest \in Seq(Uses) /\ Len(rest) \in Nat /\ DOMAIN rest = 1..Len(rest) /\ rest # <<>>
    BY DEF EngineInv, EngineTypes, CallTypes, NextGroup
  <1>2. n \in 1..Len(rest) /\ n \in S
    <2>1. S \subseteq 1..Len(rest) /\ S # {}
      BY <1>1
    <2>. HIDE DEF S
    <2>. QED
      BY <1>1, <2>1, MaxIsIn
  <1>3. n > 1 => \A k \in 1..n : Parallel(rest[k])
    BY <1>1, <1>2
  <1>4. group' = SubSeq(rest, 1, n) /\ rest' = SubSeq(rest, n + 1, Len(rest))
        /\ got' = [k \in 1..n |-> "none"]
    BY DEF NextGroup
  <1>5. /\ UNCHANGED <<pc, outcome, messages, children, pending, answered, step_count>>
        /\ pc = "tools" /\ group = <<>>
    BY DEF NextGroup, turn, step, held, seen
  <1>. HIDE DEF n, S
  <1>6. /\ Len(group') = n /\ DOMAIN group' = 1..n /\ \A k \in 1..n : group'[k] = rest[k]
        /\ Distinct(group') /\ Distinct(rest') /\ IdsOf(group') \cap IdsOf(rest') = {}
        /\ IdsOf(group') \cup IdsOf(rest') = IdsOf(rest)
    <2>1. Distinct(rest)
      BY DEF EngineInv, InFlight
    <2>. QED
      BY <1>1, <1>2, <1>4, <2>1, PartOf
  <1>7. Live' = Live
    BY <1>5, <1>6, NoneSpawned DEF Live
  <1>8. Transcribed'
    BY <1>5 DEF EngineInv, Transcribed
  <1>9. Spawned'
    BY <1>5, <1>7 DEF EngineInv, Spawned
  <1>10. InFlight'
    <2>1. \A k \in DOMAIN got' : got'[k] = "none"
      BY <1>4
    <2>2. ToSet(children) \cap IdsOf(rest) = {}
      BY DEF EngineInv, InFlight
    <2>3. \A k \in DOMAIN group' : group'[k].id \notin ToSet(children)
      BY <1>6, <2>2 DEF IdsOf
    <2>4. ToSet(children) \cap IdsOf(rest') = {}
      BY <1>6, <2>2
    <2>5. Len(group') > 1 => \A k \in DOMAIN group' : group'[k].name # "act"
      BY <1>3, <1>6 DEF Parallel
    <2>6. DOMAIN got' = DOMAIN group'
      BY <1>4, <1>6
    <2>. QED
      BY <1>5, <1>6, <2>1, <2>3, <2>4, <2>5, <2>6 DEF InFlight, Asks
  <1>11. Awaited'
    BY <1>5 DEF EngineInv, Awaited, PendOwn
  <1>. QED
    BY <1>8, <1>9, <1>10, <1>11

\* A call that ends is a result to come, a child, or the call that waits for approval.
LEMMA RunToolKeepsCalls ==
    ASSUME EngineInv, NEW k \in DOMAIN group, NEW r \in MayReturn(group[k].name), RunTool(k, r)
    PROVE  Transcribed' /\ Spawned' /\ InFlight' /\ Awaited'
  <1>. DEFINE id == group[k].id
  <1>1. /\ group \in Seq(Uses) /\ children \in Seq(IdSet) /\ group[k] \in Uses
    BY DEF EngineInv, EngineTypes, CallTypes
  <1>2. id \in OwnIds /\ id \in IdSet /\ id # NoId /\ ChildCall(id) \notin OwnIds
    BY <1>1, IdFacts DEF Uses
  <1>3. /\ UNCHANGED <<pc, outcome, messages, group, rest, answered, step_count>>
        /\ pc = "tools" /\ got[k] = "none" /\ got' = [got EXCEPT ![k] = r]
        /\ children' = IF r = "child" THEN Append(children, id) ELSE children
        /\ r \in Asks => pending' = AskOf(id, r)
        /\ r \notin Asks => pending' = pending
    BY DEF RunTool, turn, step
  <1>4. ToSet(children') = IF r = "child" THEN ToSet(children) \cup {id} ELSE ToSet(children)
    <2>1. ToSet(Append(children, id)) = ToSet(children) \cup {id}
      <3>1. /\ Len(children) \in Nat /\ DOMAIN children = 1..Len(children)
            /\ Append(children, id) \in Seq(IdSet)
            /\ Len(Append(children, id)) = Len(children) + 1
            /\ \A i \in 1..Len(children) : Append(children, id)[i] = children[i]
            /\ Append(children, id)[Len(children) + 1] = id
        BY <1>1, <1>2, AppendProperties, LenProperties
      <3>2. DOMAIN Append(children, id) = DOMAIN children \cup {Len(children) + 1}
        BY <3>1, LenProperties
      <3>. QED
        BY <3>1, <3>2 DEF ToSet
    <2>. QED
      BY <1>3, <2>1
  <1>5. id \in IdsOf(group)
    BY DEF IdsOf
  <1>6. Live' = Live
    BY <1>3, <1>4, <1>5 DEF Live
  <1>7. r \in Asks => PendOwn' = id /\ (pending'.parent # NoId => pending'.id \notin OwnIds)
    <2>1. AskOf(id, r) = IF r = "ask" THEN Ask(id, NoId) ELSE Ask(ChildCall(id), id)
      BY DEF AskOf
    <2>2. /\ Ask(id, NoId).id = id /\ Ask(id, NoId).parent = NoId
          /\ Ask(ChildCall(id), id).id = ChildCall(id) /\ Ask(ChildCall(id), id).parent = id
      BY DEF Ask
    <2>3. PendOwn' = IF pending'.parent # NoId THEN pending'.parent ELSE pending'.id
      BY DEF PendOwn
    <2>. QED
      BY <1>2, <1>3, <2>1, <2>2, <2>3
  <1>8. r = "retry" => group[k].name = "act"
    BY DEF MayReturn, Asks
  <1>9. Transcribed'
    BY <1>3 DEF EngineInv, Transcribed
  <1>10. Spawned'
    <2>1. ToSet(children') \subseteq OwnIds
      BY <1>2, <1>4 DEF EngineInv, Spawned
    <2>. QED
      BY <1>3, <1>6, <2>1 DEF EngineInv, Spawned
  <1>11. InFlight'
    <2>0. InFlight /\ DOMAIN got' = DOMAIN group /\ got'[k] = r
          /\ \A j \in DOMAIN group : j # k => got'[j] = got[j]
      BY <1>3 DEF EngineInv, InFlight
    <2>1. ToSet(children') \cap IdsOf(rest) = {}
      BY <1>4, <1>5, <2>0 DEF InFlight
    <2>2. ASSUME NEW j \in DOMAIN group
          PROVE  /\ group[j].id \in ToSet(children') => got'[j] = "child"
                 /\ got'[j] = "retry" => group[j].name = "act"
                 /\ got'[j] \in Asks => PendOwn' \in IdsOf(group)
      <3>1. CASE j = k
        <4>1. group[k].id \notin ToSet(children)
          BY <1>3, <2>0 DEF InFlight
        <4>. QED
          BY <1>4, <1>5, <1>7, <1>8, <2>0, <3>1, <4>1
      <3>2. CASE j # k
        <4>1. group[j].id # id
          BY <2>0, <3>2 DEF InFlight, Distinct
        <4>2. r \notin Asks => PendOwn' = PendOwn
          BY <1>3 DEF PendOwn
        <4>. QED
          BY <1>4, <1>5, <1>7, <2>0, <3>2, <4>1, <4>2 DEF InFlight
      <3>. QED
        BY <3>1, <3>2
    <2>. QED
      BY <1>3, <2>0, <2>1, <2>2 DEF InFlight
  <1>12. Awaited'
    BY <1>3, <1>7 DEF EngineInv, Awaited
  <1>. QED
    BY <1>9, <1>10, <1>11, <1>12

\* Fewer calls are open behind the same message.
LEMMA OpenPart ==
    ASSUME NEW ms, NEW S, NEW T, T \subseteq S, Open(ms, S)
    PROVE  Open(ms, T)
BY DEF Open

\* The least of the calls that stop a batch is one of them.
LEMMA FirstControl ==
    ASSUME EngineInv, Control # {}
    PROVE  Min(Control) \in Control
  <1>1. group \in Seq(Uses) /\ DOMAIN got = DOMAIN group
    BY DEF EngineInv, EngineTypes, CallTypes, InFlight
  <1>2. Control \subseteq Nat
    <2>1. DOMAIN group \subseteq Nat
      BY <1>1, LenProperties
    <2>. QED
      BY <1>1, <2>1 DEF Control
  <1>. DEFINE S == Control
  <1>. HIDE DEF S
  <1>3. S \subseteq Nat /\ S # {}
    BY <1>2 DEF S
  <1>4. PICK m \in S : \A k \in S : ~(<<k, m>> \in OpToRel(<, Nat))
    BY <1>3, NatLessThanWellFounded, WFMin
  <1>5. \A k \in S : m <= k
    <2>. SUFFICES ASSUME NEW k \in S PROVE ~(k < m)
      BY <1>3
    <2>. QED
      BY <1>3, <1>4 DEF OpToRel
  <1>6. Min(S) \in S
    BY <1>5 DEF Min
  <1>. QED
    BY <1>6 DEF S

\* A retried call is alone in its group: it is forgotten, and what is left is still open.
LEMMA RetryKeeps ==
    ASSUME EngineInv, MergeGroup, got[1] = "retry"
    PROVE  /\ Sound(messages', answered') /\ CallIds(messages') \subseteq CallIds(messages)
           /\ answered' = answered /\ Control = {}
           /\ (rest # <<>> \/ children # <<>>) => Open(messages', IdsOf(rest) \cup ToSet(children))
  <1>1. /\ group \in Seq(Uses) /\ group # <<>> /\ DOMAIN got = DOMAIN group
        /\ Open(messages, Live) /\ rest \in Seq(Uses) /\ children \in Seq(IdSet)
        /\ Sound(messages, answered)
    BY DEF MergeGroup, EngineInv, EngineTypes, CallTypes, InFlight, Spawned, Transcribed
  <1>2. Len(group) \in Nat \ {0} /\ DOMAIN group = 1..Len(group)
    BY <1>1, LenProperties, EmptySeq
  <1>3. 1 \in DOMAIN group /\ group[1].name = "act" /\ ~(Len(group) > 1)
    BY <1>1, <1>2 DEF EngineInv, InFlight
  <1>4. DOMAIN group = {1}
    BY <1>2, <1>3
  <1>5. Returned = {} /\ Control = {}
    BY <1>1, <1>4 DEF Returned, Control, Asks
  <1>6. answered' = answered
    BY <1>5 DEF MergeGroup
  <1>7. messages' = drop_pond_tool_attempt(messages, group[1].id)
    BY DEF MergeGroup
  <1>. DEFINE id == group[1].id
              S == IdsOf(rest) \cup ToSet(children)
  <1>8. id \notin S /\ Live = S \cup {id}
    <2>1. IdsOf(group) = {id}
      BY <1>4 DEF IdsOf
    <2>2. id \notin IdsOf(rest)
      BY <2>1 DEF EngineInv, InFlight
    <2>3. id \notin ToSet(children)
      BY <1>3 DEF EngineInv, InFlight
    <2>. QED
      BY <2>1, <2>2, <2>3 DEF Live
  <1>9. S # {} <=> (rest # <<>> \/ children # <<>>)
    <2>1. rest # <<>> => IdsOf(rest) # {}
      <3>1. rest # <<>> => 1 \in DOMAIN rest
        BY <1>1, LenProperties, EmptySeq
      <3>. QED
        BY <3>1 DEF IdsOf
    <2>2. children # <<>> => ToSet(children) # {}
      <3>1. children # <<>> => 1 \in DOMAIN children
        BY <1>1, LenProperties, EmptySeq
      <3>. QED
        BY <3>1 DEF ToSet
    <2>. QED
      BY <2>1, <2>2, NoneSpawned
  <1>. HIDE DEF id, S
  <1>10. PICK more : more = messages'
    OBVIOUS
  <1>11. /\ Sound(more, answered) /\ CallIds(more) \subseteq CallIds(messages)
         /\ \A T : Open(messages, T \cup {id}) /\ id \notin T /\ T # {} => Open(more, T)
    BY <1>1, <1>7, <1>10, DropKeeps DEF id
  <1>12. S # {} => Open(more, S)
    BY <1>1, <1>8, <1>11
  <1>. QED
    BY <1>5, <1>6, <1>9, <1>10, <1>11, <1>12 DEF S

\* The results of a group are behind the message that made its calls.
LEMMA MergeKeeps ==
    ASSUME EngineInv, MergeGroup, got[1] # "retry"
    PROVE  /\ Sound(messages', answered') /\ CallIds(messages') = CallIds(messages)
           /\ Open(messages', Live)
  <1>1. /\ group \in Seq(Uses) /\ group # <<>>
        /\ Open(messages, Live) /\ Sound(messages, answered)
    BY DEF MergeGroup, EngineInv, EngineTypes, CallTypes, Spawned, Transcribed
  <1>2. PICK rs : rs = Results
    OBVIOUS
  <1>3. rs \in Seq(Msgs) /\ ToSet(rs) = {ToolResult(group[k].id) : k \in Returned}
    <2>1. Returned \subseteq DOMAIN group
      BY DEF Returned
    <2>2. rs = FlattenSeq([k \in DOMAIN group |->
                  IF k \in Returned THEN <<ToolResult(group[k].id)>> ELSE <<>>])
      BY <1>2 DEF Results
    <2>. QED
      BY <1>1, <2>1, <2>2, ResultsOf
  <1>4. PICK more : more = messages'
    OBVIOUS
  <1>5. more = messages \o rs
    BY <1>2, <1>4 DEF MergeGroup
  <1>. DEFINE new == {group[k].id : k \in Returned}
  <1>6. \A k \in Returned : /\ group[k].id \in OwnIds
                            /\ IsTool(ToolResult(group[k].id)) /\ ToolResult(group[k].id).of = group[k].id
                            /\ Open(messages, {group[k].id})
    <2>. SUFFICES ASSUME NEW k \in Returned
                  PROVE  /\ group[k].id \in OwnIds
                         /\ IsTool(ToolResult(group[k].id)) /\ ToolResult(group[k].id).of = group[k].id
                         /\ Open(messages, {group[k].id})
      OBVIOUS
    <2>1. k \in DOMAIN group /\ group[k] \in Uses
      BY <1>1, LenProperties, ElementOfSeq DEF Returned
    <2>2. group[k].id \in OwnIds /\ group[k].id \in Live
      BY <2>1 DEF Uses, Live, IdsOf
    <2>. QED
      BY <1>1, <2>2, IdTypes, MsgTypes, OpenPart
  <1>7. \A i \in DOMAIN rs : IsTool(rs[i]) /\ Open(messages, {rs[i].of})
    <2>. SUFFICES ASSUME NEW i \in DOMAIN rs PROVE IsTool(rs[i]) /\ Open(messages, {rs[i].of})
      OBVIOUS
    <2>1. rs[i] \in ToSet(rs)
      BY DEF ToSet
    <2>2. PICK k \in Returned : rs[i] = ToolResult(group[k].id)
      BY <1>3, <2>1
    <2>. QED
      BY <1>6, <2>2
  <1>8. \A id \in new : Open(messages, {id}) /\ \E i \in DOMAIN rs : rs[i].of = id
    <2>. SUFFICES ASSUME NEW k \in Returned
                  PROVE  \E i \in DOMAIN rs : rs[i].of = group[k].id
      BY <1>6
    <2>1. ToolResult(group[k].id) \in ToSet(rs)
      BY <1>3
    <2>2. PICK i \in DOMAIN rs : rs[i] = ToolResult(group[k].id)
      BY <2>1 DEF ToSet
    <2>. QED
      BY <1>6, <2>2
  <1>9. answered' = answered \cup new
    BY DEF MergeGroup
  <1>. HIDE DEF new
  <1>10. /\ Sound(more, answered \cup new) /\ CallIds(more) = CallIds(messages)
         /\ \A S : Open(messages, S) => Open(more, S)
    <2>1. Returns(messages, rs, new)
      BY <1>3, <1>7, <1>8 DEF Returns
    <2>. QED
      BY <1>1, <1>5, <2>1, ResultsKeep
  <1>. QED
    BY <1>1, <1>4, <1>9, <1>10

\* The group's results join the transcript: what stays live is still open, and a call
\* dropped for a retry was the only one of its group.
LEMMA MergeKeepsCalls ==
    ASSUME EngineInv, MergeGroup
    PROVE  Transcribed' /\ Spawned' /\ InFlight' /\ Awaited'
  <1>1. /\ UNCHANGED <<children, pending, step_count>> /\ pc = "tools"
        /\ group' = <<>> /\ got' = <<>> /\ rest' = Remaining
    BY DEF MergeGroup, step, held
  <1>2. /\ Control # {} => pc' = "return" /\ outcome' = Decided /\ rest' = <<>>
        /\ Control = {} => rest' = rest
        /\ Control = {} /\ rest # <<>> => pc' = "tools"
        /\ Control = {} /\ rest = <<>> /\ children # <<>> => pc' = "return" /\ outcome' = "waiting_child"
        /\ Control = {} /\ rest = <<>> /\ children = <<>> => pc' = "run"
    BY <1>1 DEF MergeGroup, Return, Goto, Remaining, turn
  <1>3. Control # {} => \/ Decided \in {"cancelled", "stop"}
                        \/ Decided = "waiting_approval" /\ \E k \in DOMAIN group : got[k] \in Asks
    <2>. SUFFICES ASSUME Control # {}
                  PROVE  \/ Decided \in {"cancelled", "stop"}
                         \/ Decided = "waiting_approval" /\ \E k \in DOMAIN group : got[k] \in Asks
      OBVIOUS
    <2>1. PICK m : m = Min(Control)
      OBVIOUS
    <2>2. m \in DOMAIN group /\ got[m] \in Asks \cup {"cancelled", "stop"}
      <3>1. m \in Control
        BY <2>1, FirstControl
      <3>. QED
        BY <3>1 DEF Control, EngineInv, InFlight
    <2>3. Decided = CASE got[m] = "cancelled" -> "cancelled"
                      [] got[m] \in Asks      -> "waiting_approval"
                      [] got[m] = "stop"      -> "stop"
      BY <2>1 DEF Decided
    <2>4. CASE got[m] = "cancelled"
      BY <2>3, <2>4 DEF Asks
    <2>5. CASE got[m] = "stop"
      BY <2>3, <2>5 DEF Asks
    <2>6. CASE got[m] \in Asks
      BY <2>2, <2>3, <2>6 DEF Asks
    <2>. QED
      BY <2>2, <2>4, <2>5, <2>6
  <1>4. /\ Sound(messages', answered') /\ CallIds(messages') \subseteq CallIds(messages)
        /\ (Control = {} /\ (rest # <<>> \/ children # <<>>)) => Open(messages', IdsOf(rest) \cup ToSet(children))
        /\ Control # {} => Open(messages', Live)
    <2>1. CASE got[1] = "retry"
      BY <2>1, RetryKeeps
    <2>2. CASE got[1] # "retry"
      <3>1. /\ Sound(messages', answered') /\ CallIds(messages') = CallIds(messages)
            /\ Open(messages', Live)
        BY <2>2, MergeKeeps
      <3>2. IdsOf(rest) \cup ToSet(children) \subseteq Live
        BY DEF Live
      <3>. QED
        BY <3>1, <3>2, OpenPart
    <2>. QED
      BY <2>1, <2>2
  <1>5. Live' = IdsOf(rest') \cup ToSet(children)
    BY <1>1, NoneSpawned DEF Live
  <1>6. Transcribed'
    BY <1>1, <1>2, <1>4 DEF EngineInv, Transcribed
  <1>7. Spawned'
    <2>1. CASE Control = {}
      <3>1. rest = <<>> => IdsOf(rest) \cup ToSet(children) = ToSet(children)
        BY NoneSpawned
      <3>. QED
        BY <1>1, <1>2, <1>4, <1>5, <2>1, <3>1 DEF EngineInv, Spawned
    <2>2. CASE Control # {}
      <3>1. ToSet(children) \subseteq Live
        BY DEF Live
      <3>2. Open(messages', ToSet(children))
        BY <1>4, <2>2, <3>1, OpenPart
      <3>. QED
        BY <1>1, <1>2, <1>3, <2>2, <3>2 DEF EngineInv, Spawned
    <2>. QED
      BY <2>1, <2>2
  <1>8. InFlight'
    <2>1. Distinct(rest') /\ ToSet(children) \cap IdsOf(rest') = {}
      BY <1>2, NoneSpawned DEF EngineInv, InFlight
    <2>. QED
      BY <1>1, <2>1, NoneSpawned DEF InFlight
  <1>9. Awaited'
    <2>1. pc' # "wait" /\ pending' = pending /\ PendOwn' = PendOwn
      BY <1>1, <1>2 DEF PendOwn
    <2>2. ASSUME pc' = "return", outcome' = "waiting_approval" PROVE Open(messages', {PendOwn})
      <3>1. Control # {} /\ \E k \in DOMAIN group : got[k] \in Asks
        BY <1>2, <1>3, <2>2
      <3>2. PendOwn \in Live
        BY <3>1 DEF EngineInv, InFlight, Live
      <3>. QED
        BY <1>4, <3>1, <3>2, OpenPart
    <2>. QED
      BY <2>1, <2>2 DEF EngineInv, Awaited
  <1>. QED
    BY <1>6, <1>7, <1>8, <1>9

\* The children's calls are those of the last message that calls anything.
LEMMA JoinKeepsCalls ==
    ASSUME EngineInv, NEW asks \in SUBSET ToSet(children), JoinChildren(asks)
    PROVE  Transcribed' /\ Spawned' /\ InFlight' /\ Awaited'
  <1>1. /\ messages' = splice_child_results(messages, ToSet(children))
        /\ answered' = answered \cup ToSet(children)
        /\ children' = <<>> /\ pc = "return" /\ pc' = "run" /\ MustJoin
        /\ UNCHANGED <<step_count, group, rest, got, pending>>
    BY DEF JoinChildren, step, batch
  <1>2. children # <<>> /\ Open(messages, ToSet(children)) /\ Sound(messages, answered)
    BY <1>1 DEF MustJoin, EngineInv, Spawned, Transcribed
  <1>3. ToSet(children) # {}
    <2>1. 1 \in DOMAIN children
      BY <1>2, LenProperties, EmptySeq DEF EngineInv, EngineTypes, CallTypes
    <2>. QED
      BY <2>1 DEF ToSet
  <1>4. PICK more : more = messages'
    OBVIOUS
  <1>5. PICK new : new = ToSet(children)
    OBVIOUS
  <1>6. Sound(more, answered \cup new) /\ CallIds(more) = CallIds(messages)
    <2>1. new # {} /\ Open(messages, new) /\ more = splice_child_results(messages, new)
      BY <1>1, <1>2, <1>3, <1>4, <1>5
    <2>. QED
      BY <1>2, <2>1, SpliceKeeps
  <1>7. Transcribed'
    BY <1>1, <1>4, <1>5, <1>6 DEF EngineInv, Transcribed
  <1>8. group = <<>> /\ rest = <<>>
    BY <1>1 DEF EngineInv, EngineTypes, Batches
  <1>9. Spawned'
    BY <1>1, NoneSpawned DEF Spawned
  <1>10. InFlight'
    BY <1>1, <1>8, NoneSpawned DEF EngineInv, InFlight
  <1>11. Awaited'
    BY <1>1 DEF EngineInv, Awaited
  <1>. QED
    BY <1>7, <1>9, <1>10, <1>11

\* A result for the call the user was asked about; nothing else changes if the call is a
\* child's, for it is in the child's transcript.
LEMMA AnswerKeepsCalls ==
    ASSUME EngineInv, pc = "wait", NEW id \in IdSet, id \in OwnIds => Open(messages, {id}), Answer(id),
           UNCHANGED <<step_count, group, rest, got>>
    PROVE  Transcribed' /\ Spawned' /\ InFlight' /\ Awaited'
  <1>1. /\ messages' = Append(messages, ToolResult(id))
        /\ answered' = answered \cup ({id} \cap OwnCalls)
        /\ pending' = NoAsk /\ children' = <<>> /\ pc' = "run"
    BY DEF Answer
  <1>2. messages \in Seq(Msgs) /\ Sound(messages, answered)
    BY DEF EngineInv, Transcribed, Sound
  <1>3. ToolResult(id) \in Msgs /\ IsTool(ToolResult(id)) /\ ToolResult(id).of = id
    BY MsgTypes
  <1>4. PICK rs : rs = <<ToolResult(id)>>
    OBVIOUS
  <1>5. PICK more : more = messages'
    OBVIOUS
  <1>6. rs \in Seq(Msgs) /\ more = messages \o rs
    <2>1. Append(messages, ToolResult(id)) = messages \o <<ToolResult(id)>>
      BY <1>2, <1>3, AppendIsConcat
    <2>. QED
      BY <1>1, <1>3, <1>4, <1>5, <2>1
  <1>7. PICK new : new = {id} \cap OwnCalls
    OBVIOUS
  <1>8. Returns(messages, rs, new)
    <2>1. DOMAIN rs = {1} /\ rs[1] = ToolResult(id)
      BY <1>4
    <2>2. \A i \in DOMAIN rs : IsTool(rs[i]) /\ (rs[i].of \in OwnIds => Open(messages, {rs[i].of}))
      BY <1>3, <2>1
    <2>3. \A x \in new : x = id /\ x \in OwnIds
      <3>1. \A x \in CallIds(messages) : x \in OwnIds
        BY <1>2, SeqMsgs, MsgFacts DEF CallIds
      <3>. QED
        BY <1>2, <1>7, <3>1, OwnCallIds
    <2>4. \A x \in new : Open(messages, {x}) /\ \E i \in DOMAIN rs : rs[i].of = x
      BY <1>3, <2>1, <2>3
    <2>. QED
      BY <1>6, <2>2, <2>4 DEF Returns
  <1>9. Sound(more, answered \cup new) /\ CallIds(more) = CallIds(messages)
    BY <1>2, <1>6, <1>8, ResultsKeep
  <1>10. Transcribed'
    BY <1>1, <1>5, <1>7, <1>9 DEF EngineInv, Transcribed
  <1>11. group = <<>> /\ rest = <<>>
    BY DEF EngineInv, EngineTypes, Batches
  <1>12. Spawned'
    BY <1>1, NoneSpawned DEF Spawned
  <1>13. InFlight'
    BY <1>1, <1>11, NoneSpawned DEF EngineInv, InFlight
  <1>14. Awaited'
    BY <1>1 DEF Awaited, NoAsk, Ask
  <1>. QED
    BY <1>10, <1>12, <1>13, <1>14

\* What the user answers joins the transcript behind the call that waited.
LEMMA ApprovalKeepsCalls ==
    ASSUME EngineInv, Approve \/ AskAgain \/ Deny
    PROVE  Transcribed' /\ Spawned' /\ InFlight' /\ Awaited'
  <1>1. /\ pc = "wait" /\ UNCHANGED <<step_count, group, rest, got>>
        /\ pending.id \in IdSet /\ pending.parent \in IdSet
        /\ PendOwn \in OwnIds => Open(messages, {PendOwn})
        /\ pending.parent # NoId => pending.id \notin OwnIds
    BY DEF Approve, AskAgain, Deny, step, batch, EngineInv, EngineTypes, CallTypes, Awaited
  <1>2. pending.id \in OwnIds => PendOwn = pending.id
    BY <1>1 DEF PendOwn
  <1>3. PendOwn \in IdSet
    BY <1>1 DEF PendOwn
  <1>4. ASSUME AskAgain PROVE Transcribed' /\ Spawned' /\ InFlight' /\ Awaited'
    <2>1. /\ pending' = Ask(pending.id, NoId) /\ children' = <<>>
          /\ UNCHANGED <<pc, messages, answered>>
      BY <1>4 DEF AskAgain, seen
    <2>2. pending'.id = pending.id /\ pending'.parent = NoId /\ PendOwn' = pending.id
      BY <2>1 DEF Ask, PendOwn
    <2>3. Transcribed'
      BY <1>1, <2>1 DEF EngineInv, Transcribed
    <2>4. Spawned'
      BY <1>1, <2>1, NoneSpawned DEF Spawned
    <2>5. group = <<>> /\ rest = <<>>
      BY <1>1 DEF EngineInv, EngineTypes, Batches
    <2>6. InFlight'
      BY <1>1, <2>1, <2>5, NoneSpawned DEF EngineInv, InFlight
    <2>7. Awaited'
      BY <1>1, <1>2, <2>1, <2>2 DEF Awaited
    <2>. QED
      BY <2>3, <2>4, <2>6, <2>7
  <1>5. ASSUME Deny PROVE Transcribed' /\ Spawned' /\ InFlight' /\ Awaited'
    BY <1>1, <1>2, <1>5, AnswerKeepsCalls DEF Deny
  <1>6. ASSUME Approve PROVE Transcribed' /\ Spawned' /\ InFlight' /\ Awaited'
    <2>1. \/ Answer(PendOwn)
          \/ /\ PendOwn = pending.id /\ PendOwn \in OwnCalls
             /\ children' = <<PendOwn>> /\ pending' = NoAsk
             /\ pc' = "return" /\ outcome' = "waiting_child" /\ UNCHANGED <<messages, answered>>
      BY <1>6 DEF Approve, PendOwn, seen
    <2>2. CASE Answer(PendOwn)
      BY <1>1, <1>3, <2>2, AnswerKeepsCalls
    <2>3. CASE /\ PendOwn = pending.id /\ PendOwn \in OwnCalls
               /\ children' = <<PendOwn>> /\ pending' = NoAsk
               /\ pc' = "return" /\ outcome' = "waiting_child" /\ UNCHANGED <<messages, answered>>
      <3>1. PendOwn \in OwnIds
        <4>1. messages \in Seq(Msgs)
          BY DEF EngineInv, Transcribed, Sound
        <4>2. \A x \in CallIds(messages) : x \in OwnIds
          BY <4>1, SeqMsgs, MsgFacts DEF CallIds
        <4>. QED
          BY <2>3, <4>1, <4>2, OwnCallIds
      <3>2. ToSet(children') = {PendOwn}
        BY <2>3 DEF ToSet
      <3>3. Transcribed'
        BY <1>1, <2>3 DEF EngineInv, Transcribed
      <3>4. Spawned'
        BY <1>1, <2>3, <3>1, <3>2 DEF Spawned
      <3>5. group = <<>> /\ rest = <<>>
        BY <1>1 DEF EngineInv, EngineTypes, Batches
      <3>6. InFlight'
        BY <1>1, <2>3, <3>5, NoneSpawned DEF EngineInv, InFlight
      <3>7. Awaited'
        BY <2>3 DEF Awaited, NoAsk, Ask
      <3>. QED
        BY <3>3, <3>4, <3>6, <3>7
    <2>. QED
      BY <2>1, <2>2, <2>3
  <1>. QED
    BY <1>4, <1>5, <1>6

\* Every step keeps the transcript and the calls in flight in order.
LEMMA EngineInvStep == EngineInv /\ [Next]_vars => EngineInv'
  <1>. SUFFICES ASSUME EngineInv, [Next]_vars
                PROVE  EngineTypes' /\ Transcribed' /\ Spawned' /\ InFlight' /\ Awaited'
    BY DEF EngineInv
  <1>1. EngineTypes'
    BY EngineTypesStep DEF EngineInv
  <1>2. CASE UNCHANGED vars
    <2>1. UNCHANGED <<pc, outcome, messages, answered, step_count, group, rest, got, children, pending>>
      BY <1>2 DEF vars, turn, step, batch, held, seen
    <2>2. UNCHANGED <<Live, PendOwn>>
      BY <2>1 DEF Live, PendOwn
    <2>. QED
      BY <1>1, <2>1, <2>2 DEF EngineInv, Transcribed, Spawned, InFlight, Awaited
  <1>3. CASE Engine
    BY <1>1, <1>3, LoopKeepsCalls, FailKeepsCalls, TalkKeepsCalls, ReplyKeepsCalls, GroupKeepsCalls,
       RunToolKeepsCalls, MergeKeepsCalls DEF Engine
  <1>4. CASE Controller
    BY <1>1, <1>4, LoopKeepsCalls, JoinKeepsCalls DEF Controller
  <1>5. CASE Approve \/ AskAgain \/ Deny
    BY <1>1, <1>5, ApprovalKeepsCalls
  <1>6. CASE Cancel \/ push_steer
    BY <1>1, <1>6, LoopKeepsCalls
  <1>. QED
    BY <1>2, <1>3, <1>4, <1>5, <1>6 DEF Next

\* So they are in every state.
LEMMA EngineInvHolds == Spec => []EngineInv
  <1>1. Init => EngineInv
    BY EngineInitTypes, TranscriptInit DEF EngineInv
  <1>. QED
    BY <1>1, EngineInvStep, PTL DEF Spec

\* A result the engine, the controller or a child join put into the transcript gets through
\* the repair at one place: it is not lost, not doubled, and no placeholder stands for it.
THEOREM ResultsDoReach == Spec => []ResultsReach
  <1>1. EngineInv => ResultsReach
    <2>. SUFFICES ASSUME EngineInv, NEW id \in answered
                  PROVE  LET r == repair_tool_call_chains(messages)
                         IN  Cardinality({i \in DOMAIN r : IsTool(r[i]) /\ r[i].of = id /\ r[i].real}) = 1
      BY DEF ResultsReach
    <2>1. /\ messages \in Seq(Msgs) /\ Len(messages) > 0 /\ Unique(messages)
          /\ Behind(messages, answered) /\ id \in CallIds(messages) \cap answered
      BY DEF EngineInv, Transcribed, Sound
    <2>2. PICK r : r = repair_tool_call_chains(messages)
      OBVIOUS
    <2>3. PICK p : Hits(r, id) = {p}
      BY <2>1, <2>2, OneHit DEF Once
    <2>4. Cardinality(Hits(r, id)) = 1
      BY <2>3, FS_Singleton
    <2>. QED
      BY <2>2, <2>4 DEF Hits
  <1>. QED
    BY <1>1, EngineInvHolds, PTL

----------------------------------------------------------------------------
(* The window.                                                                    *)

\* The window of the model call under way.
Windowed ==
    /\ pc \in {"snip", "model"} => Shown(window, answered)
    /\ pc = "snip" => Steered(window, User(Users(messages)))
    /\ pc = "model" /\ window # <<Pointer>> => Steered(window, User(Users(messages)))

\* No window before the first step.
LEMMA WindowInit == Init => Windowed
BY DEF Init, Windowed

\* The steps that leave the window alone, or end its use.
LEMMA WindowQuiet ==
    ASSUME Windowed, UNCHANGED <<pc, window, messages, answered>> \/ pc' \notin {"snip", "model"}
    PROVE  Windowed'
  <1>1. CASE pc' \notin {"snip", "model"}
    BY <1>1 DEF Windowed
  <1>2. CASE UNCHANGED <<pc, window, messages, answered>>
    BY <1>2 DEF Windowed
  <1>. QED
    BY <1>1, <1>2

\* The window starts as the transcript, or as that collapsed.
LEMMA WindowStarts ==
    ASSUME EngineInv, Assemble
    PROVE  Windowed'
  <1>1. Sound(messages, answered) /\ UNCHANGED <<messages, answered>> /\ pc' = "snip"
    BY DEF EngineInv, Transcribed, Assemble, Goto, seen
  <1>2. PICK m : m = User(Users(messages))
    OBVIOUS
  <1>3. PICK ids : ids = answered
    OBVIOUS
  <1>4. PICK ms : ms = messages
    OBVIOUS
  <1>5. /\ ms \in Seq(Msgs) /\ Len(ms) > 0 /\ IsUser(ms[1]) /\ Chained(ms) /\ Behind(ms, ids)
        /\ Instructed(ms, m) /\ IsUser(m)
    <2>1. ms \in Seq(Msgs) /\ Len(ms) > 0 /\ ms[1] = User(1) /\ Chained(ms) /\ Behind(ms, ids)
          /\ Instructed(ms, m)
      BY <1>1, <1>2, <1>3, <1>4 DEF Sound
    <2>2. Users(ms) \in Nat
      BY <2>1, UsersType
    <2>. QED
      BY <1>2, <1>4, <2>1, <2>2, MsgTypes
  <1>6. PICK ws : ws = window'
    OBVIOUS
  <1>7. Shown(ws, ids) /\ Steered(ws, m)
    <2>1. CASE ws = ms
      <3>1. PICK p \in DOMAIN ms : ms[p] = m /\ \A i \in DOMAIN ms : i > p => ~IsUser(ms[i])
        BY <1>5 DEF Instructed
      <3>2. SteeredAt(ms, m, p)
        BY <3>1 DEF SteeredAt
      <3>. QED
        BY <1>5, <2>1, <3>1, <3>2 DEF Shown, Steered
    <2>2. ASSUME NEW hot \in 0..(Len(ms) - 1), ws = collapse_tool_history(ms, hot)
          PROVE  Shown(ws, ids) /\ Steered(ws, m)
      BY <1>5, <2>2, CollapseShows
    <2>. QED
      BY <1>4, <1>6, <2>1, <2>2 DEF Assemble
  <1>. QED
    BY <1>1, <1>2, <1>3, <1>6, <1>7 DEF Windowed

\* Groups are snipped off it, or a summary takes its place.
LEMMA WindowSnipped ==
    ASSUME EngineInv, Windowed, SnipGroup \/ CallModel
    PROVE  Windowed'
  <1>1. /\ Sound(messages, answered) /\ UNCHANGED <<messages, answered>>
        /\ pc = "snip" /\ pc' \in {"snip", "model"}
    BY DEF EngineInv, Transcribed, SnipGroup, CallModel, Goto, seen
  <1>2. PICK m : m = User(Users(messages))
    OBVIOUS
  <1>3. IsUser(m)
    <2>1. messages \in Seq(Msgs)
      BY <1>1 DEF Sound
    <2>. QED
      BY <1>2, <2>1, UsersType, MsgTypes
  <1>4. PICK ids : ids = answered
    OBVIOUS
  <1>5. PICK ws : ws = window
    OBVIOUS
  <1>6. PICK left : left = window'
    OBVIOUS
  <1>7. Shown(ws, ids) /\ Steered(ws, m)
    BY <1>1, <1>2, <1>4, <1>5 DEF Windowed
  <1>8. CASE SnipGroup
    <2>1. left = pop_oldest_message_group(ws).ms
      BY <1>5, <1>6, <1>8 DEF SnipGroup
    <2>2. Shown(left, ids) /\ Steered(left, m)
      BY <1>3, <1>7, <2>1, PopShows
    <2>. QED
      BY <1>1, <1>2, <1>4, <1>6, <2>2 DEF Windowed
  <1>9. CASE CallModel
    <2>1. pc' = "model" /\ (left = ws \/ left = <<Pointer>>)
      BY <1>5, <1>6, <1>9 DEF CallModel, Goto
    <2>2. Shown(left, ids)
      <3>1. CASE left = <<Pointer>>
        <4>1. left \in Seq(Msgs) /\ Len(left) = 1 /\ DOMAIN left = {1} /\ left[1] = Pointer
          BY <3>1, MsgTypes
        <4>2. ~IsTool(Pointer) /\ Ids(Pointer) = {}
          BY MsgTypes, MsgFacts DEF Pointer
        <4>3. Chained(left) /\ Behind(left, ids)
          BY <4>1, <4>2 DEF Chained, Behind
        <4>. QED
          BY <4>1, <4>3 DEF Shown
      <3>. QED
        BY <1>7, <2>1, <3>1
    <2>. QED
      BY <1>1, <1>2, <1>4, <1>6, <1>7, <2>1, <2>2 DEF Windowed
  <1>. QED
    BY <1>8, <1>9

\* Every step keeps the window in order.
LEMMA WindowStep == EngineInv /\ Windowed /\ [Next]_vars => Windowed'
  <1>. SUFFICES ASSUME EngineInv, Windowed, [Next]_vars PROVE Windowed'
    OBVIOUS
  <1>1. CASE UNCHANGED vars
    BY <1>1, WindowQuiet DEF vars, turn, seen
  <1>2. CASE \/ LeaveLoop \/ BeginStep \/ NoteCancel \/ Fail \/ MergeGroup
             \/ \E names \in Replies : ReplyTools(names)
             \/ \E text \in BOOLEAN : ReplyFinal(text)
             \/ \E text \in BOOLEAN, n \in Nudges : Nudge(text, n)
             \/ Controller \/ Approve \/ Deny
    <2>1. pc' \notin {"snip", "model"}
      <3>1. CASE \/ LeaveLoop \/ BeginStep \/ NoteCancel \/ Fail
        BY <3>1 DEF LeaveLoop, BeginStep, NoteCancel, Fail, Return, Goto, Raise
      <3>2. CASE MergeGroup
        BY <3>2 DEF MergeGroup, Return, Goto, turn
      <3>3. CASE \/ \E names \in Replies : ReplyTools(names)
                 \/ \E text \in BOOLEAN : ReplyFinal(text)
                 \/ \E text \in BOOLEAN, n \in Nudges : Nudge(text, n)
        BY <3>3 DEF ReplyTools, ReplyFinal, Nudge, Return, Goto
      <3>4. CASE Controller
        BY <3>4 DEF Controller, JoinFails, Park, Finish, JoinChildren, Raise, Goto
      <3>5. CASE Approve \/ Deny
        BY <3>5 DEF Approve, Deny, Answer
      <3>. QED
        BY <1>2, <3>1, <3>2, <3>3, <3>4, <3>5
    <2>. QED
      BY <2>1, WindowQuiet
  <1>3. CASE \/ NextGroup \/ \E k \in DOMAIN group : \E r \in MayReturn(group[k].name) : RunTool(k, r)
             \/ AskAgain \/ Cancel \/ push_steer
    <2>1. UNCHANGED <<pc, window, messages, answered>> \/ pc' \notin {"snip", "model"}
      BY <1>3 DEF NextGroup, RunTool, AskAgain, Cancel, push_steer, turn, seen
    <2>. QED
      BY <2>1, WindowQuiet
  <1>4. CASE Assemble \/ CallModel \/ SnipGroup
    BY <1>4, WindowStarts, WindowSnipped
  <1>. QED
    BY <1>1, <1>2, <1>3, <1>4 DEF Next, Engine

\* So it is in every state.
LEMMA WindowedHolds == Spec => []Windowed
  <1>. QED
    BY WindowInit, WindowStep, EngineInvHolds, PTL DEF Spec

\* However the history is collapsed and snipped, the user's last message is in every window
\* that is not a summary of it all: whatever the token counts say, for any transcript a turn of
\* any length can have.
THEOREM InstructionIsKept == Spec => []InstructionKept
  <1>1. Windowed => InstructionKept
    BY DEF Windowed, Steered, SteeredAt, InstructionKept
  <1>. QED
    BY <1>1, WindowedHolds, PTL

\* The request a model gets has one result behind every call it shows, the real one if there
\* is one, and none that is cut off from its call: repair_tool_call_chains over any window the
\* assembler can leave.
THEOREM RequestsAreFaithful == Spec => []RequestFaithful
  <1>1. EngineInv /\ Windowed => RequestFaithful
    <2>. SUFFICES ASSUME EngineInv, Windowed, pc = "model"
                  PROVE  LET r == repair_tool_call_chains(window)
                         IN  /\ Paired(r)
                             /\ \A i \in DOMAIN window : window[i].of \in answered => window[i] \in ToSet(r)
                             /\ \A i \in DOMAIN r : r[i].of \in answered => r[i].real
      BY DEF RequestFaithful
    <2>1. Shown(window, answered)
      BY DEF Windowed
    <2>2. answered \in SUBSET OwnIds
      BY AnsweredOwn DEF EngineInv, Transcribed
    <2>3. PICK r : r = repair_tool_call_chains(window)
      OBVIOUS
    <2>4. /\ Paired(r)
          /\ \A i \in DOMAIN window : window[i].of \in answered => window[i] \in ToSet(r)
          /\ \A i \in DOMAIN r : r[i].of \in answered => r[i].real
      BY <2>1, <2>2, <2>3, RepairFaithful
    <2>. QED
      BY <2>3, <2>4
  <1>. QED
    BY <1>1, EngineInvHolds, WindowedHolds, PTL

=============================================================================
