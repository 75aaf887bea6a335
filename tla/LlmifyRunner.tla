---------------------------- MODULE LlmifyRunner ----------------------------
(***************************************************************************)
(* LlmifyAgentRunner: the tool loop of a turn, the items it hands to       *)
(* AgentThreadService for storage, and the prompt of the next turn, which  *)
(* _build_messages makes from the stored items alone.                      *)
(*                                                                         *)
(* One thread and one turn at a time.  The loop suspends in the model's    *)
(* stream and in an asynchronous tool; only there can a cancellation or a  *)
(* steer be handled.  Everything in between runs without a pause, but it   *)
(* commits item by item, so a crash can fall between any two steps.        *)
(***************************************************************************)
EXTENDS Naturals, Sequences

CONSTANTS
    MaxToolRounds,  \* _MAX_TOOL_ROUNDS
    Crashes,        \* TRUE: the process may be killed during a turn
    OpaqueOutputs,  \* TRUE: a tool may return what the items table cannot hold
    EmptyDeltas,    \* TRUE: the stream may contain an empty text delta
    MaxTurns,       \* bound on the turns of the thread
    MaxParallel,    \* bound on the calls of a turn that share a response
    MaxSteers       \* bound on the steers of a behaviour

ASSUME RunnerAssumption ==
    /\ MaxToolRounds \in Nat \ {0}
    /\ {Crashes, OpaqueOutputs, EmptyDeltas} \subseteq BOOLEAN
    /\ MaxTurns \in Nat
    /\ MaxParallel \in Nat \ {0}
    /\ MaxSteers \in Nat

VARIABLES
    turn,           \* number of the latest turn
    outcome,        \* how it ended, "running" until then
    history,        \* the stored items of the thread, oldest first
    steers,         \* how many of them are steers
    phase,          \* where the loop stands
    progressEnabled,\* context.progress_enabled
    round,          \* of the for loop
    messages,       \* what the model is sent, the system prompt left out
    content,        \* content_parts: nothing, only empty strings, or text
    toolCalls,      \* tool_calls, in order of insertion; then those still to answer
    ran,            \* history: the calls whose tool was invoked
    unfinished      \* rounds whose message was announced and not yet created

store  == <<turn, history, steers>>
round_ == <<content, toolCalls>>
loop   == <<phase, progressEnabled, round, messages, round_>>
vars   == <<store, outcome, loop, ran, unfinished>>

Phase     == {"idle", "streaming", "calling", "awaiting", "answering", "storing"}
Suspended == {"streaming", "awaiting"}
\* The ids of a response's calls, numbered as they arrive.
Call      == 1 .. MaxParallel
ToolCall  == [id : Call, name : {"tool", "report_progress", "unknown"}]

\* A call id is unique in a response of the model; its key is unique for good.
Key(c) == <<turn, round, c.id>>

User             == [role |-> "user"]
Assistant(keys)  == [role |-> "assistant", calls |-> keys]
ToolAnswer(key)  == [role |-> "tool", call |-> key]
Item(type, key)  == [type |-> type, call |-> key]
NoCall           == <<0, 0, 0>>

Init ==
    /\ turn = 0 /\ outcome = "completed"
    /\ history = <<>> /\ steers = 0
    /\ phase = "idle" /\ progressEnabled = FALSE
    /\ round = 0 /\ messages = <<>>
    /\ content = "none" /\ toolCalls = <<>>
    /\ ran = <<>> /\ unfinished = {}

-----------------------------------------------------------------------------
(* The turn.                                                               *)

MessageOf(item) ==
    CASE item.type = "user_message"  -> User
      [] item.type = "agent_message" -> Assistant({})
      [] item.type = "tool_call"     -> Assistant({item.call})
      [] item.type = "tool_result"   -> ToolAnswer(item.call)

\* Faulty variant: tool results are forgotten.
BuildMessagesWithoutResults(items) ==
    LET kept == SelectSeq(items, LAMBDA item : item.type # "tool_result")
    IN  [k \in DOMAIN kept |-> MessageOf(kept[k])]

\* _build_messages: one message per stored item.
BuildMessages(items) == [k \in DOMAIN items |-> MessageOf(items[k])]

\* start_turn, then the head of run(): the context is built before the user's
\* message is stored, and the message is appended to the prompt by run itself.
StartTurn(progress) ==
    /\ phase = "idle"
    /\ turn < MaxTurns
    /\ turn' = turn + 1
    /\ outcome' = "running"
    /\ history' = Append(history, Item("user_message", NoCall))
    /\ messages' = Append(BuildMessages(history), User)
    /\ progressEnabled' = progress
    /\ phase' = "streaming" /\ round' = 1
    /\ content' = "none" /\ toolCalls' = <<>>
    /\ ran' = <<>> /\ unfinished' = {}
    /\ UNCHANGED steers

\* The loop is left and its locals are gone; the service finishes the turn.
EndTurn(result) ==
    /\ outcome' = result
    /\ phase' = "idle"
    /\ messages' = <<>> /\ round' = 0
    /\ content' = "none" /\ toolCalls' = <<>>
    /\ UNCHANGED progressEnabled

\* steer_turn stores the message; run() has dropped its TurnControl.
Steer ==
    /\ phase \in Suspended
    /\ steers < MaxSteers
    /\ steers' = steers + 1
    /\ history' = Append(history, Item("user_message", NoCall))
    /\ UNCHANGED <<turn, outcome, loop, ran, unfinished>>

Interrupt ==
    /\ phase \in Suspended
    /\ EndTurn("interrupted")
    /\ UNCHANGED <<store, ran, unfinished>>

\* The process dies; the recovery of the next start will interrupt the turn.
Crash ==
    /\ Crashes
    /\ phase # "idle"
    /\ EndTurn("crashed")
    /\ UNCHANGED <<store, ran, unfinished>>

-----------------------------------------------------------------------------
(* The model's stream.                                                     *)

StreamText(delta) ==
    /\ phase = "streaming"
    /\ unfinished' = unfinished \cup {round}
    /\ content' = IF content = "text" THEN "text" ELSE delta
    /\ UNCHANGED <<store, outcome, phase, progressEnabled, round, messages, toolCalls, ran>>

\* Faulty variant: a list instead of a dict keyed by the call's id.
CollectAll(calls, c) == Append(calls, c)

Collect(calls, c) ==
    IF \E k \in DOMAIN calls : calls[k].id = c.id THEN calls ELSE Append(calls, c)

\* A call the response repeats, or its next one.  The first call of a response is
\* never refused: the model may call tools in every round.
MayStream(c) ==
    \/ \E k \in DOMAIN toolCalls : toolCalls[k] = c
    \/ /\ c.id = Len(toolCalls) + 1
       /\ toolCalls # <<>> => Len(ran) + Len(toolCalls) < MaxParallel

StreamToolCall(c) ==
    /\ phase = "streaming"
    /\ MayStream(c)
    /\ toolCalls' = Collect(toolCalls, c)
    /\ UNCHANGED <<store, outcome, phase, progressEnabled, round, messages, content, ran, unfinished>>

\* Faulty variant: the text that precedes tool calls is not created as an item.
CreateMessageAtTheEnd(final, calls) ==
    IF final = "text" /\ calls = <<>>
      THEN /\ history' = Append(history, Item("agent_message", NoCall))
           /\ unfinished' = unfinished \ {round}
      ELSE /\ UNCHANGED history
           /\ unfinished' = IF final = "none" THEN unfinished ELSE unfinished \cup {round}

\* AgentMessageCreated for a message that has text.
CreateMessage(final, calls) ==
    IF final = "text"
      THEN /\ history' = Append(history, Item("agent_message", NoCall))
           /\ unfinished' = unfinished \ {round}
      ELSE UNCHANGED <<history, unfinished>>

\* The last event, with the calls it lists and a text that was not streamed,
\* and what follows the stream.
StreamEnd(listed, completion) ==
    LET final == IF content = "none" /\ completion THEN "text" ELSE content
        calls == IF listed = <<>> THEN toolCalls ELSE Collect(toolCalls, listed[1])
    IN
    /\ phase = "streaming"
    /\ \A k \in DOMAIN listed : MayStream(listed[k])
    /\ CreateMessage(final, calls)
    /\ UNCHANGED <<turn, steers, ran>>
    /\ \/ calls = <<>> /\ EndTurn("completed")
       \/ /\ calls # <<>>
          /\ messages' = Append(messages,
                Assistant({Key(calls[k]) : k \in DOMAIN calls}))
          /\ toolCalls' = calls
          /\ content' = final
          /\ phase' = "calling"
          /\ UNCHANGED <<outcome, progressEnabled, round>>

\* Faulty variant: a stream that fails before its text is opened again, as often as
\* it fails.
StreamFailsRetried ==
    /\ phase = "streaming"
    /\ UNCHANGED <<store, ran, unfinished>>
    /\ \/ content # "none" /\ EndTurn("failed")
       \/ /\ content = "none" /\ toolCalls' = <<>>
          /\ UNCHANGED <<outcome, phase, progressEnabled, round, messages, content>>

StreamFails ==
    /\ phase = "streaming"
    /\ EndTurn("failed")
    /\ UNCHANGED <<store, ran, unfinished>>

-----------------------------------------------------------------------------
(* The calls of a response, one after the other.                           *)

\* report_progress is a tool only where a subscriber asked for progress.
Known(c) == c.name = "tool" \/ (c.name = "report_progress" /\ progressEnabled)

InvokeTool ==
    /\ phase = "calling"
    /\ toolCalls # <<>>
    /\ Known(Head(toolCalls))
    /\ ran' = Append(ran, Key(Head(toolCalls)))
    /\ phase' \in {"awaiting", "answering"}
    /\ UNCHANGED <<store, outcome, progressEnabled, round, messages, round_, unfinished>>

\* An unknown tool, arguments it does not accept, or an error of the tool.
CallFails ==
    /\ phase \in {"calling", "awaiting"}
    /\ toolCalls # <<>>
    /\ EndTurn("failed")
    /\ UNCHANGED <<store, ran, unfinished>>

\* Faulty variant: the call is stored before its tool is awaited.
ToolStoredEarly ==
    /\ phase = "awaiting"
    /\ Head(toolCalls).name = "tool"
    /\ history' = Append(history, Item("tool_call", Key(Head(toolCalls))))
    /\ phase' \in {"awaiting", "storing"}
    /\ UNCHANGED <<turn, steers, outcome, progressEnabled, round, messages, round_, ran, unfinished>>

ToolReturns ==
    /\ phase = "awaiting"
    /\ phase' = "answering"
    /\ UNCHANGED <<store, outcome, progressEnabled, round, messages, round_, ran, unfinished>>

AnswerCall(c) == messages' = Append(messages, ToolAnswer(Key(c)))

\* AgentProgressUpdated refuses the empty message that a blank report becomes.
ReportProgress ==
    /\ phase = "answering"
    /\ Head(toolCalls).name = "report_progress"
    /\ \/ /\ AnswerCall(Head(toolCalls))
          /\ toolCalls' = Tail(toolCalls)
          /\ phase' = "calling"
          /\ UNCHANGED <<outcome, progressEnabled, round, content>>
       \/ EndTurn("failed")
    /\ UNCHANGED <<store, ran, unfinished>>

StoreCall ==
    /\ phase = "answering"
    /\ Head(toolCalls).name = "tool"
    /\ history' = Append(history, Item("tool_call", Key(Head(toolCalls))))
    /\ phase' = "storing"
    /\ UNCHANGED <<turn, steers, outcome, progressEnabled, round, messages, round_, ran, unfinished>>

StoreResult ==
    /\ phase = "storing"
    /\ UNCHANGED <<turn, steers, ran, unfinished>>
    /\ \/ /\ history' = Append(history, Item("tool_result", Key(Head(toolCalls))))
          /\ AnswerCall(Head(toolCalls))
          /\ toolCalls' = Tail(toolCalls)
          /\ phase' = "calling"
          /\ UNCHANGED <<outcome, progressEnabled, round, content>>
       \/ /\ OpaqueOutputs
          /\ EndTurn("failed")
          /\ UNCHANGED history

NextRound ==
    /\ phase = "calling"
    /\ toolCalls = <<>>
    /\ UNCHANGED <<store, ran, unfinished>>
    /\ \/ /\ round < MaxToolRounds
          /\ round' = round + 1
          /\ phase' = "streaming"
          /\ content' = "none"
          /\ UNCHANGED <<outcome, progressEnabled, messages, toolCalls>>
       \/ round = MaxToolRounds /\ EndTurn("failed")

-----------------------------------------------------------------------------
LoopStep ==
    \/ InvokeTool \/ CallFails \/ ToolReturns \/ ReportProgress
    \/ StoreCall \/ StoreResult \/ NextRound

StreamStep ==
    \/ \E listed \in {<<>>} \cup {<<c>> : c \in ToolCall}, completion \in BOOLEAN :
          StreamEnd(listed, completion)
    \/ StreamFails

Next ==
    \/ \E progress \in BOOLEAN : StartTurn(progress)
    \/ Steer \/ Interrupt \/ Crash
    \/ \E delta \in {"text"} \cup (IF EmptyDeltas THEN {"empty"} ELSE {}) : StreamText(delta)
    \/ \E c \in ToolCall : StreamToolCall(c)
    \/ StreamStep \/ LoopStep

Spec == Init /\ [][Next]_vars

\* Each response of the model and each tool comes to an end.
FairSpec == Spec /\ WF_vars(StreamStep) /\ WF_vars(LoopStep)

-----------------------------------------------------------------------------
\* Types of the loop's locals and of the store.
RunnerTypeOK ==
    /\ turn \in 0 .. MaxTurns
    /\ outcome \in {"running", "completed", "interrupted", "failed", "crashed"}
    /\ \A k \in DOMAIN history :
          history[k].type \in {"user_message", "agent_message", "tool_call", "tool_result"}
    /\ phase \in Phase
    /\ round \in 0 .. MaxToolRounds
    /\ content \in {"none", "empty", "text"}
    /\ \A k \in DOMAIN toolCalls : toolCalls[k] \in ToolCall
    /\ unfinished \subseteq 1 .. MaxToolRounds

\* The stored call at j is followed by its result.
HasResult(j) ==
    j < Len(history) /\ history[j + 1] = Item("tool_result", history[j].call)

\* Calls a crash or a full table left without a result.
Dangling == {history[j].call : j \in {k \in DOMAIN history :
                                          history[k].type = "tool_call" /\ ~HasResult(k)}}

Answers(prompt, j, key) ==
    \E k \in j + 1 .. Len(prompt) :
        /\ \A m \in j + 1 .. k : prompt[m].role = "tool"
        /\ prompt[k] = ToolAnswer(key)

\* Every prompt is one the chat API accepts, but for the calls that are dangling
\* in the store: the calls of an assistant message are answered right after it,
\* and a tool message answers such a call.  It is built in two ways, by the loop
\* and from the history of earlier turns.
PromptIsWellFormed ==
    phase = "streaming" =>
        /\ \A j \in DOMAIN messages : messages[j].role = "assistant" =>
              \A key \in messages[j].calls \ Dangling : Answers(messages, j, key)
        /\ \A k \in DOMAIN messages : messages[k].role = "tool" =>
              \E j \in 1 .. k - 1 :
                  /\ messages[j].role = "assistant"
                  /\ messages[k].call \in messages[j].calls

\* README.md:93-94: a turn that completes or is interrupted, at whatever point of
\* its loop, has stored every tool_call with its tool_result right behind it.
CallsHaveResults ==
    outcome \in {"completed", "interrupted"} =>
        \A j \in DOMAIN history :
            history[j].type = "tool_call" /\ history[j].call[1] = turn => HasResult(j)

\* A response may deliver a call twice, as it streams and in its last event; its
\* tool is invoked once.
EachCallRunsOnce == \A j, k \in DOMAIN ran : ran[j] = ran[k] => j = k

\* README.md:87-91: a turn that completes has created every message it announced.
CompletedTurnsLeaveNothingOpen == outcome = "completed" => unfinished = {}

\* A turn does not go on for ever, though a model may call a tool in every response
\* it gives: the rounds are bounded, and what fails in one ends the turn.
TurnsEnd == phase # "idle" ~> phase = "idle"
=============================================================================
