---------------------------- MODULE RunnerProofs ----------------------------
(***************************************************************************)
(* Theorems about the tool loop, for any number of rounds, calls, steers   *)
(* and turns, and whatever the model streams: what runs, what is stored    *)
(* and what the next prompt is.                                            *)
(***************************************************************************)
EXTENDS LlmifyRunner, TLAPS

\* The variables the theorems read, and what they hold.
LoopTypeOK ==
    /\ turn \in Nat
    /\ round \in Nat
    /\ phase \in Phase
    /\ toolCalls \in Seq(ToolCall)
    /\ ran \in Seq(Nat \X Nat \X Call)

\* No two calls of a response have the same id.
CallsAreDistinct ==
    \A j, k \in DOMAIN toolCalls : toolCalls[j].id = toolCalls[k].id => j = k

\* A tool that was invoked is of an earlier round, or of this one once the stream
\* has ended; of the calls still to answer only the first may have been invoked.
RanIsBehind ==
    phase # "idle" => \A j \in DOMAIN ran :
        /\ ran[j][2] <= round
        /\ phase = "streaming" => ran[j][2] < round
        /\ \A k \in DOMAIN toolCalls : ran[j] = Key(toolCalls[k]) =>
              k = 1 /\ phase \in {"awaiting", "answering", "storing"}

\* While a call is handled it is still the first to answer.
CallIsThere == phase \in {"awaiting", "answering", "storing"} => toolCalls # <<>>

RunInv ==
    LoopTypeOK /\ CallsAreDistinct /\ RanIsBehind /\ CallIsThere /\ EachCallRunsOnce

\* Keys tell rounds and ids apart.
LEMMA KeyType ==
    ASSUME LoopTypeOK, NEW c \in ToolCall
    PROVE  /\ Key(c) \in Nat \X Nat \X Call
           /\ Key(c)[2] = round
           /\ \A d \in ToolCall : Key(c) = Key(d) => c.id = d.id
BY DEF LoopTypeOK, Key, ToolCall

\* A call that is already there is not collected again.
LEMMA CollectDistinct ==
    ASSUME NEW calls \in Seq(ToolCall), NEW c \in ToolCall,
           \A j, k \in DOMAIN calls : calls[j].id = calls[k].id => j = k
    PROVE  /\ Collect(calls, c) \in Seq(ToolCall)
           /\ \A j, k \in DOMAIN Collect(calls, c) :
                 Collect(calls, c)[j].id = Collect(calls, c)[k].id => j = k
<1>1. CASE \E k \in DOMAIN calls : calls[k].id = c.id
  BY <1>1 DEF Collect
<1>2. CASE ~ \E k \in DOMAIN calls : calls[k].id = c.id
  <2> DEFINE more == Append(calls, c)
  <2>1. Collect(calls, c) = more
    BY <1>2 DEF Collect
  <2>2. more \in Seq(ToolCall) /\ \A j \in DOMAIN more :
            (j \in DOMAIN calls /\ more[j] = calls[j]) \/ (j = Len(calls) + 1 /\ more[j] = c)
    OBVIOUS
  <2> HIDE DEF more
  <2>3. \A j, k \in DOMAIN more : more[j].id = more[k].id => j = k
    BY <1>2, <2>2
  <2> QED
    BY <2>1, <2>2, <2>3
<1> QED
  BY <1>1, <1>2

\* When a turn is over, nothing is left to answer.
LEMMA EndKeepsRun ==
    ASSUME RunInv, NEW result, EndTurn(result), UNCHANGED <<turn, ran>>
    PROVE  RunInv'
<1>1. toolCalls' = <<>> /\ phase' = "idle" /\ round' = 0
  BY DEF EndTurn
<1>2. LoopTypeOK'
  BY <1>1 DEF RunInv, LoopTypeOK, Phase
<1>3. CallsAreDistinct'
  BY <1>1 DEF CallsAreDistinct
<1>4. RanIsBehind' /\ CallIsThere' /\ EachCallRunsOnce'
  BY <1>1 DEF RunInv, RanIsBehind, CallIsThere, EachCallRunsOnce
<1> QED
  BY <1>2, <1>3, <1>4 DEF RunInv

\* A step that leaves the calls alone, or drops the one it has answered.
LEMMA CallAnswered ==
    ASSUME RunInv, phase \in {"answering", "storing"}, phase' = "calling",
           UNCHANGED <<turn, round, ran>>, toolCalls' = Tail(toolCalls)
    PROVE  RunInv'
<1>1. /\ toolCalls' \in Seq(ToolCall)
      /\ \A k \in DOMAIN toolCalls' : /\ k + 1 \in DOMAIN toolCalls
                                      /\ toolCalls'[k] = toolCalls[k + 1]
                                      /\ k \in Nat \ {0}
  BY DEF RunInv, LoopTypeOK, CallIsThere
<1>2. LoopTypeOK'
  BY <1>1 DEF RunInv, LoopTypeOK, Phase
<1>3. CallsAreDistinct'
  BY <1>1 DEF RunInv, CallsAreDistinct
<1>4. RanIsBehind'
  BY <1>1 DEF RunInv, RanIsBehind, Key
<1>5. EachCallRunsOnce' /\ CallIsThere'
  BY DEF RunInv, EachCallRunsOnce, CallIsThere
<1> QED
  BY <1>2, <1>3, <1>4, <1>5 DEF RunInv

\* A step within the handling of one call.
LEMMA CallGoesOn ==
    ASSUME RunInv, UNCHANGED <<turn, round, ran, toolCalls>>, phase' \in Phase,
           \/ phase' = phase
           \/ /\ phase \in {"awaiting", "answering"}
              /\ phase' \in {"awaiting", "answering", "storing"}
    PROVE  RunInv'
BY DEF RunInv, LoopTypeOK, CallsAreDistinct, RanIsBehind, CallIsThere, EachCallRunsOnce,
   Key, Phase

\* The stream: its calls are collected once each, and none of them has run.
LEMMA StreamKeepsRun ==
    ASSUME RunInv, phase = "streaming", UNCHANGED <<turn, round, ran>>,
           toolCalls' \in Seq(ToolCall), CallsAreDistinct',
           phase' \in {"streaming", "calling"}
    PROVE  RunInv'
<1>1. LoopTypeOK'
  BY DEF RunInv, LoopTypeOK, Phase
<1>2. RanIsBehind'
  <2> SUFFICES ASSUME NEW j \in DOMAIN ran
               PROVE  /\ ran[j][2] < round
                      /\ \A k \in DOMAIN toolCalls' : ran[j] # Key(toolCalls[k])'
    BY DEF RanIsBehind, RunInv, LoopTypeOK
  <2>1. ran[j][2] < round
    BY DEF RunInv, RanIsBehind
  <2>2. \A k \in DOMAIN toolCalls' : Key(toolCalls[k])'[2] = round
    BY DEF Key
  <2> QED
    BY <2>1, <2>2 DEF RunInv, LoopTypeOK
<1> QED
  BY <1>1, <1>2 DEF RunInv, CallIsThere, EachCallRunsOnce

\* Invoking a tool: its call is the first one and has not run.
LEMMA InvokeKeepsRun ==
    ASSUME RunInv, InvokeTool PROVE RunInv'
<1> DEFINE key == Key(toolCalls[1])
<1>1. /\ phase = "calling" /\ toolCalls # <<>> /\ phase' \in {"awaiting", "answering"}
      /\ ran' = Append(ran, key) /\ UNCHANGED <<turn, round, toolCalls>>
  BY DEF InvokeTool, round_, store, RunInv, LoopTypeOK
<1>2. 1 \in DOMAIN toolCalls /\ toolCalls[1] \in ToolCall
  BY <1>1 DEF RunInv, LoopTypeOK
<1>3. /\ key \in Nat \X Nat \X Call /\ key[2] = round
      /\ \A k \in DOMAIN toolCalls : key = Key(toolCalls[k]) => k = 1
  BY <1>2, KeyType DEF RunInv, LoopTypeOK, CallsAreDistinct
<1>4. \A j \in DOMAIN ran : ran[j] # key
  BY <1>1, <1>2 DEF RunInv, RanIsBehind
<1> HIDE DEF key
<1>5. \A j \in DOMAIN ran' : \/ j \in DOMAIN ran /\ ran'[j] = ran[j]
                             \/ j = Len(ran) + 1 /\ ran'[j] = key
  BY <1>1 DEF RunInv, LoopTypeOK
<1>6. LoopTypeOK'
  BY <1>1, <1>3 DEF RunInv, LoopTypeOK, Phase
<1>7. EachCallRunsOnce'
  BY <1>4, <1>5 DEF RunInv, EachCallRunsOnce
<1>8. RanIsBehind'
  <2> SUFFICES ASSUME NEW j \in DOMAIN ran'
               PROVE  /\ ran'[j][2] <= round
                      /\ \A k \in DOMAIN toolCalls : ran'[j] = Key(toolCalls[k]) => k = 1
    BY <1>1 DEF RanIsBehind, Key
  <2>1. CASE j \in DOMAIN ran /\ ran'[j] = ran[j]
    BY <1>1, <2>1 DEF RunInv, RanIsBehind
  <2>2. CASE ran'[j] = key
    BY <1>3, <2>2 DEF RunInv, LoopTypeOK
  <2> QED
    BY <1>5, <2>1, <2>2
<1> QED
  BY <1>1, <1>6, <1>7, <1>8 DEF RunInv, CallsAreDistinct, CallIsThere

\* Every step of the runner keeps the calls apart.
LEMMA RunStep == RunInv /\ [Next]_vars => RunInv'
<1> SUFFICES ASSUME RunInv, [Next]_vars PROVE RunInv'
  OBVIOUS
<1> USE DEF store, round_, loop
<1>1. CASE UNCHANGED vars
  BY <1>1, CallGoesOn DEF vars, RunInv, LoopTypeOK
<1>2. ASSUME NEW progress \in BOOLEAN, StartTurn(progress) PROVE RunInv'
  BY <1>2 DEF StartTurn, RunInv, LoopTypeOK, CallsAreDistinct, RanIsBehind, CallIsThere,
     EachCallRunsOnce, Phase
<1>3. CASE Steer
  BY <1>3, CallGoesOn DEF Steer, RunInv, LoopTypeOK
<1>4. CASE Interrupt \/ Crash \/ CallFails \/ StreamFails
  BY <1>4, EndKeepsRun DEF Interrupt, Crash, CallFails, StreamFails
<1>5. ASSUME NEW delta, StreamText(delta) PROVE RunInv'
  BY <1>5, CallGoesOn DEF StreamText, RunInv, LoopTypeOK
<1>6. ASSUME NEW c \in ToolCall, StreamToolCall(c) PROVE RunInv'
  <2>1. /\ toolCalls' = Collect(toolCalls, c) /\ phase = "streaming"
        /\ UNCHANGED <<turn, round, ran, phase>>
    BY <1>6 DEF StreamToolCall
  <2>2. toolCalls' \in Seq(ToolCall) /\ CallsAreDistinct'
    BY <2>1, CollectDistinct DEF RunInv, LoopTypeOK, CallsAreDistinct
  <2> QED
    BY <2>1, <2>2, StreamKeepsRun
<1>7. ASSUME NEW listed \in {<<>>} \cup {<<c>> : c \in ToolCall}, NEW completion \in BOOLEAN,
             StreamEnd(listed, completion)
      PROVE  RunInv'
  <2> DEFINE calls == IF listed = <<>> THEN toolCalls ELSE Collect(toolCalls, listed[1])
  <2>1. calls \in Seq(ToolCall) /\ \A j, k \in DOMAIN calls : calls[j].id = calls[k].id => j = k
    <3>1. CASE listed = <<>>
      BY <3>1 DEF RunInv, LoopTypeOK, CallsAreDistinct
    <3>2. CASE listed # <<>>
      <4>1. listed[1] \in ToolCall
        BY <3>2
      <4> QED
        BY <3>2, <4>1, CollectDistinct DEF RunInv, LoopTypeOK, CallsAreDistinct
    <3> QED
      BY <3>1, <3>2
  <2>2. phase = "streaming" /\ UNCHANGED <<turn, ran>>
    BY <1>7 DEF StreamEnd
  <2>3. CASE EndTurn("completed")
    BY <2>2, <2>3, EndKeepsRun
  <2>4. CASE toolCalls' = calls /\ phase' = "calling" /\ UNCHANGED round
    BY <2>1, <2>2, <2>4, StreamKeepsRun DEF CallsAreDistinct
  <2> QED
    BY <1>7, <2>3, <2>4 DEF StreamEnd
<1>8. CASE InvokeTool
  BY <1>8, InvokeKeepsRun
<1>9. CASE ToolReturns \/ StoreCall
  BY <1>9, CallGoesOn DEF ToolReturns, StoreCall, Phase
<1>10. CASE ReportProgress \/ StoreResult
  BY <1>10, CallAnswered, EndKeepsRun DEF ReportProgress, StoreResult
<1>11. CASE NextRound
  <2>1. CASE EndTurn("failed")
    BY <1>11, <2>1, EndKeepsRun DEF NextRound
  <2>2. CASE round' = round + 1 /\ phase' = "streaming" /\ UNCHANGED toolCalls
    <3>1. toolCalls = <<>> /\ phase = "calling" /\ UNCHANGED <<turn, ran>>
      BY <1>11 DEF NextRound
    <3> QED
      BY <2>2, <3>1 DEF RunInv, LoopTypeOK, CallsAreDistinct, RanIsBehind, CallIsThere,
         EachCallRunsOnce, Phase
  <2> QED
    BY <1>11, <2>1, <2>2 DEF NextRound
<1> QED
  BY <1>1, <1>2, <1>3, <1>4, <1>5, <1>6, <1>7, <1>8, <1>9, <1>10, <1>11
  DEF Next, StreamStep, LoopStep

\* However often a response repeats a call, its tool is invoked once.
THEOREM RunsOnceCorrect == Spec => []EachCallRunsOnce
<1>1. Init => RunInv
  BY DEF Init, RunInv, LoopTypeOK, CallsAreDistinct, RanIsBehind, CallIsThere,
     EachCallRunsOnce, Phase
<1>2. RunInv => EachCallRunsOnce
  BY DEF RunInv
<1> QED
  BY <1>1, <1>2, RunStep, PTL DEF Spec

-----------------------------------------------------------------------------
(* What a turn leaves announced, and what it leaves in the store.          *)

\* While the loop runs the turn is running, and the only message that may still
\* be open is the one of the round that streams text.
OpenInv ==
    /\ content \in {"none", "empty", "text"} /\ (content = "empty" => EmptyDeltas)
    /\ phase # "idle" => outcome = "running"
    /\ outcome = "running" =>
          unfinished \subseteq (IF phase = "streaming" /\ content = "text" THEN {round} ELSE {})
    /\ outcome = "completed" => unfinished = {}

\* Without empty deltas no step completes a turn over an open message.
LEMMA OpenStep ==
    ASSUME ~EmptyDeltas, OpenInv, [Next]_vars PROVE OpenInv'
<1> USE DEF OpenInv, store, round_, loop
<1>1. CASE UNCHANGED vars
  BY <1>1 DEF vars
<1>2. ASSUME NEW progress \in BOOLEAN, StartTurn(progress) PROVE OpenInv'
  BY <1>2 DEF StartTurn
<1>3. CASE Steer
  BY <1>3 DEF Steer
<1>4. CASE Interrupt \/ Crash \/ CallFails \/ StreamFails
  BY <1>4 DEF Interrupt, Crash, CallFails, StreamFails, EndTurn
<1>5. CASE StreamText("text")
  BY <1>5 DEF StreamText
<1>6. ASSUME NEW c \in ToolCall, StreamToolCall(c) PROVE OpenInv'
  BY <1>6 DEF StreamToolCall
<1>7. ASSUME NEW listed, NEW completion \in BOOLEAN, StreamEnd(listed, completion)
      PROVE  OpenInv'
  <2> DEFINE final == IF content = "none" /\ completion THEN "text" ELSE content
  <2>1. phase = "streaming" /\ final \in {"none", "text"} /\ (final = "none" => content = "none")
    BY <1>7 DEF StreamEnd
  <2>2. unfinished' = {}
    <3>1. \/ final = "text" /\ unfinished' = unfinished \ {round}
          \/ final # "text" /\ unfinished' = unfinished
      BY <1>7 DEF StreamEnd, CreateMessage
    <3> QED
      BY <2>1, <3>1
  <2>3. \/ EndTurn("completed")
        \/ content' = final /\ phase' = "calling" /\ UNCHANGED outcome
    BY <1>7 DEF StreamEnd
  <2> QED
    BY <2>1, <2>2, <2>3 DEF EndTurn
<1>8. CASE InvokeTool \/ ToolReturns \/ StoreCall
  BY <1>8 DEF InvokeTool, ToolReturns, StoreCall
<1>9. CASE ReportProgress \/ StoreResult \/ NextRound
  BY <1>9 DEF ReportProgress, StoreResult, NextRound, EndTurn
<1> QED
  BY <1>1, <1>2, <1>3, <1>4, <1>5, <1>6, <1>7, <1>8, <1>9 DEF Next, StreamStep, LoopStep

\* A turn that completes has created every message it announced, if the model
\* streams no empty delta.
THEOREM NothingOpenCorrect ==
    ASSUME ~EmptyDeltas PROVE Spec => []CompletedTurnsLeaveNothingOpen
<1>1. Init => OpenInv
  BY DEF Init, OpenInv
<1>2. OpenInv /\ [Next]_vars => OpenInv'
  BY OpenStep
<1>3. OpenInv => CompletedTurnsLeaveNothingOpen
  BY DEF OpenInv, CompletedTurnsLeaveNothingOpen
<1> QED
  BY <1>1, <1>2, <1>3, PTL DEF Spec

ItemType == {"user_message", "agent_message", "tool_call", "tool_result"}
StoredItem == [type : ItemType, call : (Nat \X Nat \X Call) \cup {NoCall}]

\* The call at j is the one whose result is about to be stored.
ResultIsDue(j) ==
    /\ outcome = "running" /\ phase = "storing"
    /\ j = Len(history)
    /\ history[j].call = Key(Head(toolCalls))

\* Calls are of past turns or of this one; unless the turn has failed or crashed,
\* those of this one have their result, or it is the next thing to be stored.
ResultInv ==
    /\ history \in Seq(StoredItem)
    /\ phase # "idle" => outcome = "running"
    /\ phase = "storing" => ResultIsDue(Len(history))
    /\ \A j \in DOMAIN history : history[j].type = "tool_call" => history[j].call[1] <= turn
    /\ outcome \in {"running", "completed", "interrupted"} =>
          \A j \in DOMAIN history :
              history[j].type = "tool_call" /\ history[j].call[1] = turn
                  => HasResult(j) \/ ResultIsDue(j)

\* The next item keeps the results that are stored, and may be the one due.
LEMMA ItemAppended ==
    ASSUME history \in Seq(StoredItem), NEW x \in StoredItem, history' = Append(history, x)
    PROVE  /\ history' \in Seq(StoredItem)
           /\ \A j \in DOMAIN history' : \/ j \in DOMAIN history /\ history'[j] = history[j]
                                         \/ j = Len(history) + 1 /\ history'[j] = x
           /\ \A j \in DOMAIN history :
                 /\ HasResult(j) => HasResult(j)'
                 /\ j = Len(history) /\ x = Item("tool_result", history[j].call)
                       => HasResult(j)'
           /\ Len(history') = Len(history) + 1
           /\ history'[Len(history')] = x
BY DEF HasResult

\* A message that is stored where no result is due.
LEMMA MessageStored ==
    ASSUME ResultInv, NEW type \in {"user_message", "agent_message"},
           history' = Append(history, Item(type, NoCall)), phase # "storing",
           phase' # "storing", turn' = turn, phase' # "idle" => outcome' = "running",
           outcome' \in {"running", "completed", "interrupted"} =>
               outcome \in {"running", "completed", "interrupted"}
    PROVE  ResultInv'
<1>1. Item(type, NoCall) \in StoredItem /\ Item(type, NoCall).type # "tool_call"
  BY DEF Item, StoredItem, ItemType
<1> DEFINE x == Item(type, NoCall)
<1> HIDE DEF x
<1>2. /\ history' \in Seq(StoredItem)
      /\ \A j \in DOMAIN history' : \/ j \in DOMAIN history /\ history'[j] = history[j]
                                    \/ j = Len(history) + 1 /\ history'[j] = x
      /\ \A j \in DOMAIN history : HasResult(j) => HasResult(j)'
      /\ x.type # "tool_call"
  BY <1>1, ItemAppended DEF ResultInv, x
<1> QED
  BY <1>2 DEF ResultInv, ResultIsDue

\* A step that leaves the store alone and does not leave a result due behind.
LEMMA StoreKept ==
    ASSUME ResultInv, UNCHANGED <<history, turn>>, phase' # "storing",
           phase' # "idle" => outcome' = "running",
           outcome' \in {"running", "completed", "interrupted"} =>
               phase # "storing" /\ outcome \in {"running", "completed", "interrupted"}
    PROVE  ResultInv'
<1>1. \A j \in DOMAIN history : HasResult(j)' <=> HasResult(j)
  BY DEF HasResult
<1> QED
  BY <1>1 DEF ResultInv, ResultIsDue

\* Whatever ends a turn, other than a failure or a crash, finds no result due.
LEMMA EndKeepsResults ==
    ASSUME ResultInv, NEW result, EndTurn(result), UNCHANGED <<history, turn>>,
           result \in {"failed", "crashed"} \/ (phase # "storing" /\ phase # "idle")
    PROVE  ResultInv'
BY StoreKept DEF EndTurn, ResultInv

\* The items of one call: the call itself, then its result.
LEMMA CallStored ==
    ASSUME RunInv, ResultInv, StoreCall PROVE ResultInv'
<1> DEFINE key == Key(Head(toolCalls))
           x   == Item("tool_call", key)
<1>1. /\ phase = "answering" /\ phase' = "storing" /\ outcome = "running" /\ outcome' = "running"
      /\ history' = Append(history, x) /\ UNCHANGED <<turn, round, toolCalls>>
  BY DEF StoreCall, ResultInv, round_
<1>2. Head(toolCalls) \in ToolCall
  BY <1>1 DEF RunInv, LoopTypeOK, CallIsThere
<1>3. key \in Nat \X Nat \X Call /\ key[1] = turn /\ key' = key
  BY <1>1, <1>2, KeyType DEF Key, RunInv, LoopTypeOK
<1>4. x \in StoredItem /\ x.call = key
  BY <1>3 DEF Item, StoredItem, ItemType
<1> HIDE DEF x, key
<1>5. /\ history' \in Seq(StoredItem)
      /\ \A j \in DOMAIN history' : \/ j \in DOMAIN history /\ history'[j] = history[j]
                                    \/ j = Len(history) + 1 /\ history'[j] = x
      /\ \A j \in DOMAIN history : HasResult(j) => HasResult(j)'
      /\ Len(history') = Len(history) + 1 /\ history'[Len(history')] = x
  BY <1>1, <1>4, ItemAppended DEF ResultInv
<1>6. ResultIsDue(Len(history))'
  BY <1>1, <1>3, <1>4, <1>5 DEF ResultIsDue, key
<1>7. \A j \in DOMAIN history : ~ResultIsDue(j)
  BY <1>1 DEF ResultIsDue
<1> QED
  BY <1>1, <1>3, <1>4, <1>5, <1>6, <1>7 DEF ResultInv, RunInv, LoopTypeOK

LEMMA ResultStored ==
    ASSUME RunInv, ResultInv, StoreResult PROVE ResultInv'
<1> DEFINE key == Key(Head(toolCalls))
           x   == Item("tool_result", key)
<1>1. phase = "storing" /\ outcome = "running" /\ turn' = turn
  BY DEF StoreResult, ResultInv
<1>2. CASE EndTurn("failed") /\ UNCHANGED history
  BY <1>1, <1>2, EndKeepsResults
<1>3. CASE history' = Append(history, x) /\ phase' = "calling" /\ outcome' = outcome
  <2>1. Head(toolCalls) \in ToolCall
    BY <1>1 DEF RunInv, LoopTypeOK, CallIsThere
  <2>2. x \in StoredItem /\ x.type # "tool_call"
    BY <2>1, KeyType DEF Item, StoredItem, ItemType, RunInv
  <2>3. \A j \in DOMAIN history : ResultIsDue(j) =>
            j = Len(history) /\ x = Item("tool_result", history[j].call)
    BY DEF ResultIsDue
  <2> HIDE DEF x
  <2>4. /\ history' \in Seq(StoredItem)
        /\ \A j \in DOMAIN history' : \/ j \in DOMAIN history /\ history'[j] = history[j]
                                      \/ j = Len(history) + 1 /\ history'[j] = x
        /\ \A j \in DOMAIN history : HasResult(j) \/ ResultIsDue(j) => HasResult(j)'
    BY <1>3, <2>2, <2>3, ItemAppended DEF ResultInv
  <2> QED
    BY <1>1, <1>3, <2>2, <2>4 DEF ResultInv
<1> QED
  BY <1>2, <1>3 DEF StoreResult

\* A turn starts without calls of its own.
LEMMA StartKeepsResults ==
    ASSUME RunInv, ResultInv, NEW progress, StartTurn(progress) PROVE ResultInv'
<1> DEFINE x == Item("user_message", NoCall)
<1>1. /\ history' = Append(history, x) /\ turn' = turn + 1 /\ phase' = "streaming"
      /\ outcome' = "running"
  BY DEF StartTurn
<1>2. x \in StoredItem /\ x.type # "tool_call"
  BY DEF Item, StoredItem, ItemType
<1> HIDE DEF x
<1>3. /\ history' \in Seq(StoredItem)
      /\ \A j \in DOMAIN history' : \/ j \in DOMAIN history /\ history'[j] = history[j]
                                    \/ j = Len(history) + 1 /\ history'[j] = x
  BY <1>1, <1>2, ItemAppended DEF ResultInv
<1>4. \A j \in DOMAIN history : history[j].type = "tool_call" =>
          history[j].call[1] <= turn /\ history[j].call[1] \in Nat
  <2> TAKE j \in DOMAIN history
  <2>1. history[j] \in StoredItem
    BY DEF ResultInv
  <2>2. history[j].call[1] \in Nat
    BY <2>1 DEF StoredItem, NoCall
  <2> QED
    BY <2>2 DEF ResultInv
<1>5. ASSUME NEW j \in DOMAIN history', history'[j].type = "tool_call"
      PROVE  history'[j].call[1] <= turn /\ history'[j].call[1] \in Nat
  BY <1>2, <1>3, <1>4, <1>5
<1>6. turn \in Nat
  BY DEF RunInv, LoopTypeOK
<1>7. \A j \in DOMAIN history' : history'[j].type = "tool_call" =>
          history'[j].call[1] <= turn' /\ history'[j].call[1] # turn'
  BY <1>1, <1>5, <1>6
<1> QED
  BY <1>1, <1>3, <1>7 DEF ResultInv

\* Every step of the runner keeps calls and results together.
LEMMA ResultStep ==
    ASSUME RunInv, ResultInv, [Next]_vars PROVE ResultInv'
<1> USE DEF store, round_, loop
<1>1. CASE UNCHANGED vars
  BY <1>1 DEF vars, ResultInv, ResultIsDue, HasResult, Key
<1>2. ASSUME NEW progress \in BOOLEAN, StartTurn(progress) PROVE ResultInv'
  BY <1>2, StartKeepsResults
<1>3. CASE Steer
  BY <1>3, MessageStored DEF Steer, Suspended, ResultInv
<1>4. CASE Interrupt
  BY <1>4, EndKeepsResults DEF Interrupt, Suspended
<1>5. CASE Crash \/ CallFails \/ StreamFails
  BY <1>5, EndKeepsResults DEF Crash, CallFails, StreamFails
<1>6. ASSUME NEW delta, StreamText(delta) PROVE ResultInv'
  BY <1>6, StoreKept DEF StreamText, ResultInv
<1>7. ASSUME NEW c \in ToolCall, StreamToolCall(c) PROVE ResultInv'
  BY <1>7, StoreKept DEF StreamToolCall, ResultInv
<1>8. ASSUME NEW listed, NEW completion \in BOOLEAN, StreamEnd(listed, completion)
      PROVE  ResultInv'
  <2>1. /\ phase = "streaming" /\ outcome = "running" /\ turn' = turn
        /\ \/ phase' = "idle" /\ outcome' = "completed"
           \/ phase' = "calling" /\ outcome' = outcome
    BY <1>8 DEF StreamEnd, EndTurn, ResultInv
  <2>2. CASE UNCHANGED history
    BY <2>1, <2>2, StoreKept
  <2>3. CASE history' = Append(history, Item("agent_message", NoCall))
    BY <2>1, <2>3, MessageStored
  <2> QED
    BY <1>8, <2>2, <2>3 DEF StreamEnd, CreateMessage
<1>9. CASE InvokeTool \/ ToolReturns
  BY <1>9, StoreKept DEF InvokeTool, ToolReturns, ResultInv
<1>10. CASE StoreCall \/ StoreResult
  BY <1>10, CallStored, ResultStored
<1>11. CASE ReportProgress
  <2>1. phase = "answering" /\ outcome = "running" /\ UNCHANGED <<history, turn>>
    BY <1>11 DEF ReportProgress, ResultInv
  <2>2. CASE EndTurn("failed")
    BY <2>1, <2>2, EndKeepsResults
  <2>3. CASE phase' = "calling" /\ UNCHANGED outcome
    BY <2>1, <2>3, StoreKept
  <2> QED
    BY <1>11, <2>2, <2>3 DEF ReportProgress
<1>12. CASE NextRound
  <2>1. phase = "calling" /\ outcome = "running" /\ UNCHANGED <<history, turn>>
    BY <1>12 DEF NextRound, ResultInv
  <2>2. CASE EndTurn("failed")
    BY <2>1, <2>2, EndKeepsResults
  <2>3. CASE phase' = "streaming" /\ UNCHANGED outcome
    BY <2>1, <2>3, StoreKept
  <2> QED
    BY <1>12, <2>2, <2>3 DEF NextRound
<1> QED
  BY <1>1, <1>2, <1>3, <1>4, <1>5, <1>6, <1>7, <1>8, <1>9, <1>10, <1>11, <1>12
  DEF Next, StreamStep, LoopStep

\* A turn that completes or is interrupted, wherever the interrupt meets it, has
\* stored each tool call with its result right behind it.
THEOREM ResultsCorrect == Spec => []CallsHaveResults
<1>1. Init => RunInv /\ ResultInv
  BY DEF Init, RunInv, LoopTypeOK, CallsAreDistinct, RanIsBehind, CallIsThere,
     EachCallRunsOnce, Phase, ResultInv
<1>2. RunInv /\ ResultInv /\ [Next]_vars => RunInv' /\ ResultInv'
  BY RunStep, ResultStep
<1>3. ResultInv => CallsHaveResults
  <2> SUFFICES ASSUME ResultInv, outcome \in {"completed", "interrupted"},
                      NEW j \in DOMAIN history, history[j].type = "tool_call",
                      history[j].call[1] = turn
               PROVE  HasResult(j)
    BY DEF CallsHaveResults
  <2> QED
    BY DEF ResultInv, ResultIsDue
<1> QED
  BY <1>1, <1>2, <1>3, PTL DEF Spec
-----------------------------------------------------------------------------
(* The prompt: what the loop appends, and what is rebuilt from the store.  *)

AnyKey  == (Nat \X Nat \X Call) \cup {NoCall}
Message == {User} \cup {Assistant(keys) : keys \in SUBSET AnyKey}
                  \cup {ToolAnswer(key) : key \in AnyKey}

\* A stored result is right behind its call, and the next one will be.
ResultsFollowCalls ==
    /\ \A k \in DOMAIN history : history[k].type = "tool_result" =>
          k > 1 /\ history[k - 1] = Item("tool_call", history[k].call)
    /\ phase = "storing" =>
          history # <<>> /\ history[Len(history)] = Item("tool_call", Key(Head(toolCalls)))

\* A stored call that something else than its result has followed.
Abandoned(key) ==
    \E i \in 1 .. Len(history) - 1 :
        history[i].type = "tool_call" /\ history[i].call = key /\ ~HasResult(i)

\* Nothing but answers has followed the message at j, and key is still to answer.
StillToAnswer(j, key) ==
    /\ phase # "streaming"
    /\ \A m \in j + 1 .. Len(messages) : messages[m].role = "tool"
    /\ \E k \in DOMAIN toolCalls : key = Key(toolCalls[k])

\* Each call the model is shown is answered, abandoned, or still to answer.
CallsAreAnswered ==
    phase # "idle" =>
        \A j \in DOMAIN messages : messages[j].role = "assistant" =>
            \A key \in messages[j].calls :
                Answers(messages, j, key) \/ Abandoned(key) \/ StillToAnswer(j, key)

IsCalled(prompt, k, key) ==
    \E j \in 1 .. k - 1 : prompt[j].role = "assistant" /\ key \in prompt[j].calls

\* Each answer the model is shown, and each one it will be, is to a call before it.
AnswersAreCalled ==
    /\ \A k \in DOMAIN messages : messages[k].role = "tool" =>
          IsCalled(messages, k, messages[k].call)
    /\ phase \notin {"idle", "streaming"} =>
          \A k \in DOMAIN toolCalls : IsCalled(messages, Len(messages) + 1, Key(toolCalls[k]))

PromptInv ==
    /\ messages \in Seq(Message)
    /\ ResultsFollowCalls
    /\ CallsAreAnswered
    /\ AnswersAreCalled

\* The store only grows, so a call that is abandoned stays so.
StoreGrows == history' = history \/ \E x \in StoredItem : history' = Append(history, x)

LEMMA AbandonedForGood ==
    ASSUME history \in Seq(StoredItem), StoreGrows, NEW key, Abandoned(key)
    PROVE  Abandoned(key)'
<1>1. PICK i \in 1 .. Len(history) - 1 :
          history[i].type = "tool_call" /\ history[i].call = key /\ ~HasResult(i)
  BY DEF Abandoned
<1>2. CASE history' = history
  BY <1>1, <1>2 DEF Abandoned, HasResult
<1>3. ASSUME NEW x \in StoredItem, history' = Append(history, x) PROVE Abandoned(key)'
  <2>1. /\ i \in 1 .. Len(history') - 1
        /\ history'[i] = history[i] /\ history'[i + 1] = history[i + 1]
    BY <1>3
  <2> QED
    BY <1>1, <2>1 DEF Abandoned, HasResult
<1> QED
  BY <1>2, <1>3 DEF StoreGrows

\* A message that is stored comes between no call and its result.
LEMMA OtherItemStored ==
    ASSUME history \in Seq(StoredItem), ResultsFollowCalls, phase' # "storing",
           NEW type \in {"user_message", "agent_message"},
           history' = Append(history, Item(type, NoCall))
    PROVE  ResultsFollowCalls'
<1> DEFINE x == Item(type, NoCall)
<1>1. x.type # "tool_result" /\ x \in StoredItem
  BY DEF Item, StoredItem, ItemType
<1> HIDE DEF x
<1>2. \A k \in DOMAIN history' :
          \/ k \in DOMAIN history /\ history'[k] = history[k]
             /\ (k > 1 => history'[k - 1] = history[k - 1])
          \/ history'[k] = x
  BY <1>1 DEF x
<1> QED
  BY <1>1, <1>2 DEF ResultsFollowCalls

\* Every step of the runner stores results behind their calls.
LEMMA FollowStep ==
    ASSUME RunInv, ResultInv, ResultsFollowCalls, [Next]_vars
    PROVE  ResultsFollowCalls' /\ StoreGrows
<1> USE DEF store, round_, loop
<1>1. history \in Seq(StoredItem)
  BY DEF ResultInv
<1>2. CASE UNCHANGED vars
  BY <1>2 DEF vars, ResultsFollowCalls, Key, StoreGrows
<1>3. ASSUME NEW type \in {"user_message", "agent_message"}, phase' # "storing",
             history' = Append(history, Item(type, NoCall))
      PROVE  ResultsFollowCalls' /\ StoreGrows
  <2>1. Item(type, NoCall) \in StoredItem
    BY DEF Item, StoredItem, ItemType
  <2> QED
    BY <1>1, <1>3, <2>1, OtherItemStored DEF StoreGrows
<1>4. CASE UNCHANGED history /\ phase' # "storing"
  BY <1>4 DEF ResultsFollowCalls, StoreGrows
<1>5. ASSUME NEW progress \in BOOLEAN, StartTurn(progress)
      PROVE  ResultsFollowCalls' /\ StoreGrows
  BY <1>3, <1>5 DEF StartTurn
<1>6. CASE Steer
  BY <1>3, <1>6 DEF Steer, Suspended
<1>7. CASE Interrupt \/ Crash \/ CallFails \/ StreamFails
  BY <1>4, <1>7 DEF Interrupt, Crash, CallFails, StreamFails, EndTurn
<1>8. ASSUME NEW delta, StreamText(delta) PROVE ResultsFollowCalls' /\ StoreGrows
  BY <1>4, <1>8 DEF StreamText
<1>9. ASSUME NEW c \in ToolCall, StreamToolCall(c) PROVE ResultsFollowCalls' /\ StoreGrows
  BY <1>4, <1>9 DEF StreamToolCall
<1>10. ASSUME NEW listed, NEW completion \in BOOLEAN, StreamEnd(listed, completion)
       PROVE  ResultsFollowCalls' /\ StoreGrows
  <2>1. phase' # "storing"
    BY <1>10 DEF StreamEnd, EndTurn
  <2>2. UNCHANGED history \/ history' = Append(history, Item("agent_message", NoCall))
    BY <1>10 DEF StreamEnd, CreateMessage
  <2> QED
    BY <1>3, <1>4, <2>1, <2>2
<1>11. CASE InvokeTool \/ ToolReturns \/ ReportProgress \/ NextRound
  BY <1>4, <1>11 DEF InvokeTool, ToolReturns, ReportProgress, NextRound, EndTurn
<1>12. CASE StoreCall
  <2> DEFINE key == Key(Head(toolCalls))
             x   == Item("tool_call", key)
  <2>1. phase = "answering" /\ history' = Append(history, x) /\ UNCHANGED <<turn, round, toolCalls>>
    BY <1>12 DEF StoreCall
  <2>2. key \in Nat \X Nat \X Call /\ key' = key
    BY <2>1, KeyType DEF RunInv, LoopTypeOK, CallIsThere, Key
  <2>3. x \in StoredItem /\ x.type # "tool_result" /\ x' = x
    BY <2>2 DEF Item, StoredItem, ItemType
  <2> HIDE DEF key
  <2>4. /\ \A k \in DOMAIN history' :
             \/ k \in DOMAIN history /\ history'[k] = history[k]
                /\ (k > 1 => history'[k - 1] = history[k - 1])
             \/ history'[k] = x
        /\ history' # <<>> /\ history'[Len(history')] = x
    BY <1>1, <2>1, <2>3
  <2>5. history'[Len(history')] = Item("tool_call", Key(Head(toolCalls)))'
    BY <2>2, <2>4 DEF key
  <2> HIDE DEF x
  <2>6. ResultsFollowCalls'
    BY <2>3, <2>4, <2>5 DEF ResultsFollowCalls
  <2> QED
    BY <2>1, <2>3, <2>6 DEF StoreGrows
<1>13. CASE StoreResult
  <2> DEFINE key == Key(Head(toolCalls))
             x   == Item("tool_result", key)
  <2>1. CASE UNCHANGED history /\ EndTurn("failed")
    BY <1>4, <2>1 DEF EndTurn
  <2>2. CASE history' = Append(history, x) /\ phase' = "calling"
    <3>1. phase = "storing" /\ Head(toolCalls) \in ToolCall
      BY <1>13 DEF StoreResult, RunInv, LoopTypeOK, CallIsThere
    <3>2. x \in StoredItem /\ x.call = key
      BY <3>1, KeyType DEF Item, StoredItem, ItemType, RunInv
    <3>3. history # <<>> /\ history[Len(history)] = Item("tool_call", key)
      BY <3>1 DEF ResultsFollowCalls
    <3> HIDE DEF x, key
    <3>4. \A k \in DOMAIN history' :
             \/ k \in DOMAIN history /\ history'[k] = history[k]
                /\ (k > 1 => history'[k - 1] = history[k - 1])
             \/ k > 1 /\ history'[k] = x /\ history'[k - 1] = history[Len(history)]
      BY <1>1, <2>2, <3>2, <3>3
    <3>5. ResultsFollowCalls'
      BY <2>2, <3>2, <3>3, <3>4 DEF ResultsFollowCalls
    <3> QED
      BY <2>2, <3>2, <3>5 DEF StoreGrows
  <2> QED
    BY <1>13, <2>1, <2>2 DEF StoreResult
<1> QED
  BY <1>2, <1>5, <1>6, <1>7, <1>8, <1>9, <1>10, <1>11, <1>12, <1>13
  DEF Next, StreamStep, LoopStep

\* Appending to the prompt takes no answer away.
LEMMA PromptGrows ==
    ASSUME messages \in Seq(Message), NEW x \in Message, messages' = Append(messages, x)
    PROVE  /\ messages' \in Seq(Message)
           /\ \A j \in DOMAIN messages' : \/ j \in DOMAIN messages /\ messages'[j] = messages[j]
                                          \/ j = Len(messages) + 1 /\ messages'[j] = x
           /\ Len(messages') = Len(messages) + 1 /\ messages'[Len(messages')] = x
           /\ \A j \in DOMAIN messages : messages'[j] = messages[j]
           /\ \A j \in DOMAIN messages : \A key :
                 Answers(messages, j, key) => Answers(messages', j, key)
           /\ \A k \in 1 .. Len(messages) + 1 : \A key :
                 IsCalled(messages, k, key) => IsCalled(messages', k, key)
<1>1. /\ messages' \in Seq(Message)
      /\ \A j \in DOMAIN messages' : \/ j \in DOMAIN messages /\ messages'[j] = messages[j]
                                     \/ j = Len(messages) + 1 /\ messages'[j] = x
      /\ Len(messages') = Len(messages) + 1 /\ messages'[Len(messages')] = x
      /\ \A j \in 1 .. Len(messages) : messages'[j] = messages[j]
      /\ Len(messages) \in Nat
  OBVIOUS
<1>2. ASSUME NEW j \in DOMAIN messages, NEW key, Answers(messages, j, key)
      PROVE  Answers(messages', j, key)
  <2>1. PICK k \in j + 1 .. Len(messages) :
            /\ \A m \in j + 1 .. k : messages[m].role = "tool"
            /\ messages[k] = ToolAnswer(key)
    BY <1>2 DEF Answers
  <2>2. k \in j + 1 .. Len(messages') /\ \A m \in j + 1 .. k : messages'[m] = messages[m]
    BY <1>1
  <2> QED
    BY <2>1, <2>2 DEF Answers
<1>3. ASSUME NEW k \in 1 .. Len(messages) + 1, NEW key, IsCalled(messages, k, key)
      PROVE  IsCalled(messages', k, key)
  <2>1. \A j \in 1 .. k - 1 : messages'[j] = messages[j]
    BY <1>1
  <2> QED
    BY <1>3, <2>1 DEF IsCalled
<1> QED
  BY <1>1, <1>2, <1>3

\* A step that shows the model nothing new, and drops no call it is to answer.
LEMMA PromptKept ==
    ASSUME RunInv, ResultInv, PromptInv, StoreGrows, ResultsFollowCalls',
           UNCHANGED <<turn, messages>>, phase # "idle",
           \/ phase' = "streaming" /\ (phase = "streaming" \/ toolCalls = <<>>)
           \/ phase # "streaming" /\ phase' # "streaming" /\ UNCHANGED <<round, toolCalls>>
    PROVE  PromptInv'
<1>1. CallsAreAnswered'
  <2> SUFFICES ASSUME NEW j \in DOMAIN messages, messages[j].role = "assistant",
                      NEW key \in messages[j].calls
               PROVE  \/ Answers(messages', j, key)
                      \/ Abandoned(key)'
                      \/ StillToAnswer(j, key)' \/ phase' = "idle"
    BY DEF CallsAreAnswered
  <2>1. CASE Answers(messages, j, key)
    BY <2>1 DEF Answers
  <2>2. CASE Abandoned(key)
    BY <2>2, AbandonedForGood DEF ResultInv
  <2>3. CASE StillToAnswer(j, key)
    <3>1. PICK k \in DOMAIN toolCalls : key = Key(toolCalls[k])
      BY <2>3 DEF StillToAnswer
    <3>2. phase # "streaming" /\ toolCalls # <<>>
      BY <2>3, <3>1 DEF StillToAnswer
    <3>3. CASE phase' # "streaming"
      <4>1. k \in DOMAIN toolCalls' /\ key = Key(toolCalls[k])'
        BY <3>1, <3>3 DEF Key
      <4> QED
        BY <2>3, <3>3, <4>1 DEF StillToAnswer
    <3> QED
      BY <3>2, <3>3
  <2> QED
    BY <2>1, <2>2, <2>3 DEF PromptInv, CallsAreAnswered
<1>2. AnswersAreCalled'
  BY DEF PromptInv, AnswersAreCalled, IsCalled, Key
<1> QED
  BY <1>1, <1>2 DEF PromptInv

\* When the turn is over there is no prompt.
LEMMA PromptGone ==
    ASSUME NEW result, EndTurn(result), ResultsFollowCalls' PROVE PromptInv'
BY DEF EndTurn, PromptInv, CallsAreAnswered, AnswersAreCalled

\* The answer to the first of the calls that are left.
LEMMA PromptAnswered ==
    ASSUME RunInv, ResultInv, PromptInv, StoreGrows, ResultsFollowCalls',
           phase \in {"answering", "storing"}, phase' = "calling",
           AnswerCall(Head(toolCalls)), toolCalls' = Tail(toolCalls), UNCHANGED <<turn, round>>
    PROVE  PromptInv'
<1>0. \A key : Abandoned(key) => Abandoned(key)'
  BY AbandonedForGood DEF ResultInv
<1> DEFINE first == Key(toolCalls[1])
<1>1. /\ toolCalls[1] \in ToolCall /\ toolCalls[1] = Head(toolCalls) /\ 1 \in DOMAIN toolCalls
      /\ \A k \in DOMAIN toolCalls : k = 1 \/ (k - 1 \in DOMAIN toolCalls'
                                                 /\ toolCalls'[k - 1] = toolCalls[k])
      /\ \A k \in DOMAIN toolCalls' : k + 1 \in DOMAIN toolCalls
                                        /\ toolCalls'[k] = toolCalls[k + 1]
  BY DEF RunInv, LoopTypeOK, CallIsThere
<1>2. \A c : Key(c)' = Key(c)
  BY DEF Key
<1>3. first \in AnyKey
  BY <1>1, KeyType DEF AnyKey, RunInv
<1>4. messages' = Append(messages, ToolAnswer(first))
  BY <1>1 DEF AnswerCall
<1> DEFINE x == ToolAnswer(first)
<1>5. x \in Message /\ x.role = "tool" /\ x.call = first
  BY <1>3 DEF Message, ToolAnswer
<1> HIDE DEF first, x
<1>6. /\ messages' \in Seq(Message)
      /\ \A j \in DOMAIN messages' : \/ j \in DOMAIN messages /\ messages'[j] = messages[j]
                                     \/ j = Len(messages) + 1 /\ messages'[j] = x
      /\ Len(messages') = Len(messages) + 1 /\ messages'[Len(messages')] = x
      /\ \A j \in DOMAIN messages : messages'[j] = messages[j]
      /\ \A j \in DOMAIN messages : \A key :
            Answers(messages, j, key) => Answers(messages', j, key)
      /\ \A k \in 1 .. Len(messages) + 1 : \A key :
            IsCalled(messages, k, key) => IsCalled(messages', k, key)
  BY <1>4, <1>5, PromptGrows DEF PromptInv, x
<1>7. CallsAreAnswered'
  <2> SUFFICES ASSUME NEW j \in DOMAIN messages, messages[j].role = "assistant",
                      NEW key \in messages[j].calls
               PROVE  Answers(messages', j, key) \/ Abandoned(key)' \/ StillToAnswer(j, key)'
    BY <1>5, <1>6 DEF CallsAreAnswered
  <2>1. CASE Answers(messages, j, key)
    BY <1>6, <2>1
  <2>2. CASE Abandoned(key)
    BY <1>0, <2>2
  <2>3. CASE StillToAnswer(j, key)
    <3>1. \A m \in j + 1 .. Len(messages') : messages'[m].role = "tool"
      <4> TAKE m \in j + 1 .. Len(messages')
      <4>1. \/ m \in j + 1 .. Len(messages) /\ m \in DOMAIN messages
            \/ m = Len(messages')
        BY <1>6 DEF PromptInv
      <4>2. CASE m \in j + 1 .. Len(messages) /\ m \in DOMAIN messages
        BY <1>6, <2>3, <4>2 DEF StillToAnswer
      <4>3. CASE m = Len(messages')
        BY <1>5, <1>6, <4>3
      <4> QED
        BY <4>1, <4>2, <4>3
    <3>2. PICK k \in DOMAIN toolCalls : key = Key(toolCalls[k])
      BY <2>3 DEF StillToAnswer
    <3>3. CASE k = 1
      <4>1. messages'[Len(messages')] = ToolAnswer(key)
        BY <1>6, <3>2, <3>3 DEF x, first
      <4>2. Len(messages') \in j + 1 .. Len(messages')
        BY <1>6 DEF PromptInv
      <4> QED
        BY <3>1, <4>1, <4>2 DEF Answers
    <3>4. CASE k # 1
      <4>1. k - 1 \in DOMAIN toolCalls' /\ toolCalls'[k - 1] = toolCalls[k]
        BY <1>1, <3>4
      <4>2. key = Key(toolCalls[k - 1])'
        BY <3>2, <4>1 DEF Key
      <4> QED
        BY <3>1, <4>1, <4>2 DEF StillToAnswer
    <3> QED
      BY <3>3, <3>4
  <2> QED
    BY <2>1, <2>2, <2>3 DEF PromptInv, CallsAreAnswered
<1>8. AnswersAreCalled'
  <2>1. \A k \in DOMAIN toolCalls : IsCalled(messages', Len(messages) + 1, Key(toolCalls[k]))
    BY <1>6 DEF PromptInv, AnswersAreCalled
  <2>2. ASSUME NEW k \in DOMAIN messages', messages'[k].role = "tool"
        PROVE  IsCalled(messages', k, messages'[k].call)
    <3>1. CASE k \in DOMAIN messages /\ messages'[k] = messages[k]
      <4>1. IsCalled(messages, k, messages[k].call) /\ k \in 1 .. Len(messages) + 1
        BY <2>2, <3>1 DEF PromptInv, AnswersAreCalled
      <4> QED
        BY <1>6, <3>1, <4>1
    <3>2. CASE k = Len(messages) + 1 /\ messages'[k] = x
      <4>1. IsCalled(messages', Len(messages) + 1, first)
        BY <1>1, <2>1 DEF first
      <4> QED
        BY <1>5, <3>2, <4>1
    <3> QED
      BY <1>6, <3>1, <3>2
  <2>3. ASSUME NEW k \in DOMAIN toolCalls'
        PROVE  IsCalled(messages', Len(messages') + 1, Key(toolCalls[k])')
    <3>1. IsCalled(messages', Len(messages) + 1, Key(toolCalls[k + 1]))
      BY <1>1, <2>1
    <3>2. Key(toolCalls[k])' = Key(toolCalls[k + 1])
      BY <1>1 DEF Key
    <3>3. \A j \in 1 .. (Len(messages) + 1) - 1 : j \in 1 .. (Len(messages') + 1) - 1
      BY <1>6 DEF PromptInv
    <3> QED
      BY <3>1, <3>2, <3>3 DEF IsCalled
  <2> QED
    BY <2>2, <2>3 DEF AnswersAreCalled
<1> QED
  BY <1>6, <1>7, <1>8 DEF PromptInv

\* The model's response: its calls are to be answered, those before it are.
LEMMA PromptCalls ==
    ASSUME RunInv, ResultInv, PromptInv, StoreGrows, ResultsFollowCalls',
           phase = "streaming", phase' = "calling", UNCHANGED <<turn, round>>,
           toolCalls' \in Seq(ToolCall),
           messages' = Append(messages,
                              Assistant({Key(toolCalls'[k]) : k \in DOMAIN toolCalls'}))
    PROVE  PromptInv'
<1> DEFINE keys == {Key(toolCalls'[k]) : k \in DOMAIN toolCalls'}
           x    == Assistant(keys)
<1>1. \A k \in DOMAIN toolCalls' : toolCalls'[k] \in ToolCall
  OBVIOUS
<1>2. keys \in SUBSET AnyKey
  BY <1>1, KeyType DEF AnyKey, RunInv
<1>3. \A k \in DOMAIN toolCalls' : Key(toolCalls[k])' \in keys
  BY DEF Key
<1>4. \A key \in keys : \E k \in DOMAIN toolCalls' : key = Key(toolCalls[k])'
  BY DEF Key
<1> HIDE DEF keys
<1>5. x \in Message /\ x.role = "assistant" /\ x.calls = keys
  BY <1>2 DEF Message, Assistant
<1>6. messages' = Append(messages, x)
  BY DEF keys
<1> HIDE DEF x
<1>7. /\ messages' \in Seq(Message)
      /\ \A j \in DOMAIN messages' : \/ j \in DOMAIN messages /\ messages'[j] = messages[j]
                                     \/ j = Len(messages) + 1 /\ messages'[j] = x
      /\ Len(messages') = Len(messages) + 1 /\ messages'[Len(messages')] = x
      /\ \A j \in DOMAIN messages : \A key :
            Answers(messages, j, key) => Answers(messages', j, key)
      /\ \A k \in 1 .. Len(messages) + 1 : \A key :
            IsCalled(messages, k, key) => IsCalled(messages', k, key)
  BY <1>5, <1>6, PromptGrows DEF PromptInv
<1>8. CallsAreAnswered'
  <2> SUFFICES ASSUME NEW j \in DOMAIN messages', messages'[j].role = "assistant",
                      NEW key \in messages'[j].calls
               PROVE  Answers(messages', j, key) \/ Abandoned(key)' \/ StillToAnswer(j, key)'
    BY DEF CallsAreAnswered
  <2>1. CASE j \in DOMAIN messages /\ messages'[j] = messages[j]
    <3>1. Answers(messages, j, key) \/ Abandoned(key)
      BY <2>1 DEF PromptInv, CallsAreAnswered, StillToAnswer
    <3> QED
      BY <1>7, <2>1, <3>1, AbandonedForGood DEF ResultInv
  <2>2. CASE j = Len(messages) + 1 /\ messages'[j] = x
    <3>1. \E k \in DOMAIN toolCalls' : key = Key(toolCalls[k])'
      BY <1>4, <1>5, <2>2
    <3>2. \A m \in j + 1 .. Len(messages') : messages'[m].role = "tool"
      BY <1>7, <2>2 DEF PromptInv
    <3> QED
      BY <3>1, <3>2 DEF StillToAnswer
  <2> QED
    BY <1>7, <2>1, <2>2
<1>9. AnswersAreCalled'
  <2>1. ASSUME NEW k \in DOMAIN messages', messages'[k].role = "tool"
        PROVE  IsCalled(messages', k, messages'[k].call)
    <3>1. k \in DOMAIN messages /\ messages'[k] = messages[k]
      BY <1>5, <1>7, <2>1
    <3>2. IsCalled(messages, k, messages[k].call) /\ k \in 1 .. Len(messages) + 1
      BY <2>1, <3>1 DEF PromptInv, AnswersAreCalled
    <3> QED
      BY <1>7, <3>1, <3>2
  <2>2. ASSUME NEW k \in DOMAIN toolCalls'
        PROVE  IsCalled(messages', Len(messages') + 1, Key(toolCalls[k])')
    <3>1. Len(messages') \in 1 .. (Len(messages') + 1) - 1
      BY <1>7 DEF PromptInv
    <3> QED
      BY <1>3, <1>5, <1>7, <3>1 DEF IsCalled
  <2> QED
    BY <2>1, <2>2 DEF AnswersAreCalled
<1> QED
  BY <1>7, <1>8, <1>9 DEF PromptInv

\* The prompt of a new turn, from nothing but the stored items.
LEMMA PromptBuilt ==
    ASSUME RunInv, ResultInv, PromptInv, ResultsFollowCalls',
           NEW progress, StartTurn(progress)
    PROVE  PromptInv'
<1> DEFINE built == BuildMessages(history)
<1>1. /\ history \in Seq(StoredItem) /\ history' = Append(history, Item("user_message", NoCall))
      /\ messages' = Append(built, User) /\ phase' = "streaming"
  BY DEF StartTurn, ResultInv
<1>2. \A k \in DOMAIN history : MessageOf(history[k]) \in Message
  <2> TAKE k \in DOMAIN history
  <2>1. history[k] \in StoredItem
    BY <1>1
  <2> QED
    BY <2>1 DEF StoredItem, ItemType, MessageOf, Message, AnyKey
<1>3. built \in Seq(Message) /\ Len(built) = Len(history)
  BY <1>1, <1>2 DEF BuildMessages
<1>4. User \in Message /\ User.role = "user"
  BY DEF Message, User
<1>5. \A k \in DOMAIN history : built[k] = MessageOf(history[k])
  BY DEF BuildMessages
<1> HIDE DEF built
<1>6. /\ messages' \in Seq(Message) /\ Len(messages') = Len(history) + 1
      /\ \A k \in DOMAIN messages' :
            \/ k \in DOMAIN history /\ messages'[k] = MessageOf(history[k])
            \/ k = Len(history) + 1 /\ messages'[k] = User
      /\ \A k \in DOMAIN history : messages'[k] = MessageOf(history[k])
  BY <1>1, <1>3, <1>4, <1>5
<1>7. \A k \in DOMAIN history :
          /\ history[k].type \in ItemType
          /\ MessageOf(history[k]).role = "assistant" /\ history[k].type # "tool_call"
                => MessageOf(history[k]).calls = {}
          /\ MessageOf(history[k]).role = "tool" => history[k].type = "tool_result"
  <2> TAKE k \in DOMAIN history
  <2>1. history[k] \in StoredItem
    BY <1>1
  <2>2. history[k].type \in ItemType
    BY <2>1 DEF StoredItem
  <2> QED
    BY <2>2 DEF ItemType, MessageOf, User, Assistant, ToolAnswer
<1>8. CallsAreAnswered'
  <2> SUFFICES ASSUME NEW j \in DOMAIN messages', messages'[j].role = "assistant",
                      NEW key \in messages'[j].calls
               PROVE  Answers(messages', j, key) \/ Abandoned(key)'
    BY DEF CallsAreAnswered
  <2>1. /\ j \in DOMAIN history /\ messages'[j] = MessageOf(history[j])
        /\ history[j].type = "tool_call"
    BY <1>4, <1>6, <1>7
  <2>2. key = history[j].call
    BY <2>1 DEF MessageOf, Assistant
  <2>3. CASE HasResult(j)
    <3>1. j + 1 \in DOMAIN history /\ history[j + 1] = Item("tool_result", key)
      BY <1>1, <2>1, <2>2, <2>3 DEF HasResult
    <3>2. MessageOf(history[j + 1]) = ToolAnswer(key)
      BY <3>1 DEF MessageOf, Item
    <3>3. messages'[j + 1] = ToolAnswer(key)
      BY <1>6, <3>1, <3>2
    <3>4. j + 1 \in j + 1 .. Len(messages') /\ \A m \in j + 1 .. j + 1 : m = j + 1
      <4>1. Len(history) \in Nat /\ j \in Nat /\ j + 1 <= Len(history)
        BY <1>1, <2>1, <3>1
      <4> QED
        BY <1>6, <4>1
    <3>5. messages'[j + 1].role = "tool"
      BY <3>3 DEF ToolAnswer
    <3> QED
      BY <3>3, <3>4, <3>5 DEF Answers
  <2>4. CASE ~HasResult(j)
    <3>1. j \in 1 .. Len(history') - 1 /\ history'[j] = history[j]
      BY <1>1, <2>1
    <3>2. ~HasResult(j)'
      <4>1. CASE j < Len(history)
        BY <1>1, <2>1, <2>4, <4>1 DEF HasResult
      <4>2. CASE j = Len(history)
        <5>1. history'[j + 1] = Item("user_message", NoCall)
          BY <1>1, <4>2
        <5> QED
          BY <5>1 DEF HasResult, Item
      <4> QED
        BY <1>1, <2>1, <4>1, <4>2
    <3> QED
      BY <2>1, <2>2, <3>1, <3>2 DEF Abandoned
  <2> QED
    BY <2>3, <2>4
<1>9. AnswersAreCalled'
  <2> SUFFICES ASSUME NEW k \in DOMAIN messages', messages'[k].role = "tool"
               PROVE  IsCalled(messages', k, messages'[k].call)
    BY <1>1 DEF AnswersAreCalled
  <2>1. /\ k \in DOMAIN history /\ messages'[k] = MessageOf(history[k])
        /\ history[k].type = "tool_result"
    BY <1>4, <1>6, <1>7
  <2>2. k > 1 /\ history[k - 1] = Item("tool_call", history[k].call)
    BY <2>1 DEF PromptInv, ResultsFollowCalls
  <2>3. k - 1 \in DOMAIN history /\ k - 1 \in 1 .. k - 1
    BY <1>1, <2>1, <2>2
  <2>4. messages'[k - 1] = Assistant({history[k].call})
    BY <1>6, <2>2, <2>3 DEF MessageOf, Item
  <2>5. messages'[k].call = history[k].call
    BY <2>1 DEF MessageOf, ToolAnswer
  <2> QED
    BY <2>3, <2>4, <2>5 DEF IsCalled, Assistant
<1> QED
  BY <1>6, <1>8, <1>9 DEF PromptInv

\* Every step of the runner keeps the prompt in order.
LEMMA PromptStep ==
    ASSUME RunInv, ResultInv, PromptInv, [Next]_vars PROVE PromptInv'
<1> USE DEF store, round_, loop
<1>1. ResultsFollowCalls' /\ StoreGrows
  BY FollowStep DEF PromptInv
<1>2. CASE UNCHANGED vars
  <2>1. UNCHANGED <<turn, round, messages, phase, toolCalls>>
    BY <1>2 DEF vars
  <2>2. CASE phase # "idle"
    BY <1>1, <2>1, <2>2, PromptKept
  <2>3. CASE phase = "idle"
    BY <1>1, <2>1, <2>3 DEF PromptInv, CallsAreAnswered, AnswersAreCalled, IsCalled
  <2> QED
    BY <2>2, <2>3
<1>3. ASSUME NEW progress \in BOOLEAN, StartTurn(progress) PROVE PromptInv'
  BY <1>1, <1>3, PromptBuilt
<1>4. CASE Steer
  BY <1>1, <1>4, PromptKept DEF Steer, Suspended
<1>5. CASE Interrupt \/ Crash \/ CallFails \/ StreamFails
  BY <1>1, <1>5, PromptGone DEF Interrupt, Crash, CallFails, StreamFails
<1>6. ASSUME NEW delta, StreamText(delta) PROVE PromptInv'
  BY <1>1, <1>6, PromptKept DEF StreamText
<1>7. ASSUME NEW c \in ToolCall, StreamToolCall(c) PROVE PromptInv'
  BY <1>1, <1>7, PromptKept DEF StreamToolCall
<1>8. ASSUME NEW listed \in {<<>>} \cup {<<c>> : c \in ToolCall}, NEW completion \in BOOLEAN,
             StreamEnd(listed, completion)
      PROVE  PromptInv'
  <2>1. CASE EndTurn("completed")
    BY <1>1, <2>1, PromptGone
  <2>2. CASE ~EndTurn("completed")
    <3>1. /\ messages' = Append(messages,
                Assistant({Key(toolCalls'[k]) : k \in DOMAIN toolCalls'}))
          /\ phase = "streaming" /\ phase' = "calling" /\ UNCHANGED <<turn, round>>
      BY <1>8, <2>2 DEF StreamEnd
    <3>2. toolCalls' \in Seq(ToolCall)
      BY <1>8, RunStep DEF Next, StreamStep, RunInv, LoopTypeOK
    <3> QED
      BY <1>1, <3>1, <3>2, PromptCalls
  <2> QED
    BY <2>1, <2>2
<1>9. CASE InvokeTool \/ ToolReturns \/ StoreCall
  BY <1>1, <1>9, PromptKept DEF InvokeTool, ToolReturns, StoreCall
<1>10. CASE ReportProgress \/ StoreResult
  BY <1>1, <1>10, PromptAnswered, PromptGone DEF ReportProgress, StoreResult
<1>11. CASE NextRound
  BY <1>1, <1>11, PromptKept, PromptGone DEF NextRound
<1> QED
  BY <1>2, <1>3, <1>4, <1>5, <1>6, <1>7, <1>8, <1>9, <1>10, <1>11
  DEF Next, StreamStep, LoopStep

\* Whatever earlier turns came to, each prompt is one the chat API accepts, but
\* for the calls that a crash or a full table left without a result.
THEOREM PromptCorrect == Spec => []PromptIsWellFormed
<1>1. Init => RunInv /\ ResultInv /\ PromptInv
  BY DEF Init, RunInv, LoopTypeOK, CallsAreDistinct, RanIsBehind, CallIsThere,
     EachCallRunsOnce, Phase, ResultInv, PromptInv, ResultsFollowCalls, CallsAreAnswered,
     AnswersAreCalled
<1>2. RunInv /\ ResultInv /\ PromptInv /\ [Next]_vars => RunInv' /\ ResultInv' /\ PromptInv'
  BY RunStep, ResultStep, PromptStep
<1>3. RunInv /\ ResultInv /\ PromptInv => PromptIsWellFormed
  <2> SUFFICES ASSUME ResultInv, PromptInv, phase = "streaming" PROVE PromptIsWellFormed
    BY DEF PromptIsWellFormed
  <2>1. ASSUME NEW j \in DOMAIN messages, messages[j].role = "assistant",
               NEW key \in messages[j].calls \ Dangling
        PROVE  Answers(messages, j, key)
    <3>1. ~Abandoned(key)
      BY DEF Abandoned, Dangling, ResultInv
    <3> QED
      BY <2>1, <3>1 DEF PromptInv, CallsAreAnswered, StillToAnswer
  <2>2. \A k \in DOMAIN messages : messages[k].role = "tool" =>
            \E j \in 1 .. k - 1 :
                messages[j].role = "assistant" /\ messages[k].call \in messages[j].calls
    BY DEF PromptInv, AnswersAreCalled, IsCalled
  <2> QED
    BY <2>1, <2>2 DEF PromptIsWellFormed
<1> QED
  BY <1>1, <1>2, <1>3, PTL DEF Spec

=============================================================================
