------------------------- MODULE AgentThreadService -------------------------
(***************************************************************************)
(* AgentThreadService over SQLModelRepository: the one owner of durable    *)
(* conversation state and of the asyncio tasks that execute turns.         *)
(*                                                                         *)
(* Granularity.  The event loop switches tasks only where a coroutine      *)
(* really suspends.  The locks are never held across a suspension, the     *)
(* repository is synchronous underneath and the queues are unbounded, so   *)
(* a request (start_turn, steer_turn, interrupt_turn) is one step, and so  *)
(* is the handling of one runner event in _execute; a task suspends only   *)
(* inside the runner.  The process may be killed between any two steps,    *)
(* and inside one: the Killed actions keep what was committed by then, a   *)
(* prefix of the events that step publishes, and nothing of the memory.    *)
(***************************************************************************)
EXTENDS SQLModelRepository, Sequences, Naturals

CONSTANTS
    NoItem,         \* the item of an event about a turn
    Interrupt,      \* the control message that is not a steer
    EagerCallers,   \* TRUE: a caller may cancel a task before its first step
    RunnerFaults,   \* TRUE: a runner may name any item and ignore cancellation
    StorageFaults,  \* TRUE: a write may raise (disk full, database locked)
    MaxControl,     \* bound on a control queue filled by interrupts
    MaxPublished    \* bound on a thread's events, for the runner's optional ones

ASSUME ServiceAssumption ==
    /\ NoItem \notin Item
    /\ Interrupt \notin Item
    /\ EagerCallers \in BOOLEAN
    /\ RunnerFaults \in BOOLEAN
    /\ StorageFaults \in BOOLEAN
    /\ MaxControl \in Nat
    /\ MaxPublished \in Nat

VARIABLES
    process,        \* the gateway process: "down", "up" or "stopping"
    running,        \* AgentThreadService._running: the thread of each entry
    task,           \* the asyncio task of _execute, by turn
    control,        \* the TurnControl queue: the item of a Steer, or Interrupt
    started,        \* started_items, the local of _execute
    latestProgress, \* _latest_progress: the turn whose progress is kept, by thread
    minted,         \* item ids drawn from uuid4 so far
    published       \* history: what EventBroker.publish was given, by thread

memory      == <<running, task, control, started, latestProgress>>
serviceVars == <<process, memory, minted, published>>
vars        == <<repoVars, serviceVars>>

\* none: no task in this process; scheduled: created, no step run yet;
\* active: suspended in the runner; cancelling: cancel() was called since;
\* discarded: cancelled before the first step; done: _execute returned.
TaskState == {"none", "scheduled", "active", "cancelling", "discarded", "done"}
Live      == {"scheduled", "active", "cancelling"}

TurnEvents == {"turn.started", "turn.progress",
               "turn.completed", "turn.interrupted", "turn.failed"}
ItemEvents == {"item.started", "item.delta", "item.completed"}
ThreadEvent == [type : TurnEvents \cup ItemEvents, turn : Turn, item : Item \cup {NoItem}]

TurnEvent(type, t)    == [type |-> type, turn |-> t, item |-> NoItem]
ItemEvent(type, t, i) == [type |-> type, turn |-> t, item |-> i]
Ended(status, t) ==
    TurnEvent(CASE status = "completed"   -> "turn.completed"
                [] status = "interrupted" -> "turn.interrupted"
                [] OTHER                  -> "turn.failed", t)

TypeOK ==
    /\ RepoTypeOK
    /\ process \in {"down", "up", "stopping"}
    /\ running \in [Turn -> Thread \cup {NoThread}]
    /\ task \in [Turn -> TaskState]
    /\ control \in [Turn -> Seq(Item \cup {Interrupt})]
    /\ started \in [Turn -> SUBSET Item]
    /\ latestProgress \in [Thread -> Turn \cup {NoTurn}]
    /\ minted \subseteq Item
    /\ published \in [Thread -> Seq(ThreadEvent)]

Init ==
    /\ RepoInit
    /\ process = "down"
    /\ running = [t \in Turn |-> NoThread]
    /\ task = [t \in Turn |-> "none"]
    /\ control = [t \in Turn |-> <<>>]
    /\ started = [t \in Turn |-> {}]
    /\ latestProgress = [th \in Thread |-> NoTurn]
    /\ minted = {}
    /\ published = [th \in Thread |-> <<>>]

Publish(th, events) == published' = [published EXCEPT ![th] = @ \o events]

-----------------------------------------------------------------------------
(* The process.                                                            *)

\* lifespan: initialize() runs before the first request.
Initialize ==
    /\ process = "down"
    /\ process' = "up"
    /\ RecoverRunningTurns
    /\ UNCHANGED <<memory, minted, published>>

\* Whatever the process held in memory is gone.
Forget ==
    /\ process' = "down"
    /\ running' = [t \in Turn |-> NoThread]
    /\ task' = [t \in Turn |-> "none"]
    /\ control' = [t \in Turn |-> <<>>]
    /\ started' = [t \in Turn |-> {}]
    /\ latestProgress' = [th \in Thread |-> NoTurn]

Crash ==
    /\ process # "down"
    /\ Forget
    /\ UNCHANGED <<repoVars, minted, published>>

\* Faulty variant: a task cancelled early is left in a state of its own.
CancelledStateUnknown(s) == IF s \in Live THEN "cancelled" ELSE s

\* task.cancel(): a task that never ran is dropped without entering _execute.
CancelledState(s) ==
    CASE s = "scheduled" -> "discarded"
      [] s = "active"    -> "cancelling"
      [] OTHER           -> s

\* asyncio.run cancels what is left when the server's main coroutine returns.
Shutdown ==
    /\ process = "up"
    /\ process' = "stopping"
    /\ task' = [t \in Turn |-> CancelledState(task[t])]
    /\ UNCHANGED <<repoVars, running, control, started, latestProgress, minted, published>>

Stop ==
    /\ process = "stopping"
    /\ \A t \in Turn : task[t] \notin Live
    /\ Forget
    /\ UNCHANGED <<repoVars, minted, published>>

-----------------------------------------------------------------------------
(* Requests.                                                               *)

CreateThreadRequest(th) ==
    /\ process = "up"
    /\ CreateThread(th)
    /\ UNCHANGED serviceVars

StartEvents(t, i) ==
    <<TurnEvent("turn.started", t), ItemEvent("item.started", t, i),
      ItemEvent("item.completed", t, i)>>

StartTurn(th, t, i) ==
    /\ process = "up"
    /\ i \notin minted
    /\ CreateTurn(t, th, i)
    /\ running' = [running EXCEPT ![t] = th]
    /\ control' = [control EXCEPT ![t] = <<>>]
    /\ task' = [task EXCEPT ![t] = "scheduled"]
    /\ started' = [started EXCEPT ![t] = {}]
    /\ minted' = minted \cup {i}
    /\ Publish(th, StartEvents(t, i))
    /\ UNCHANGED <<process, latestProgress>>

\* Turn and message are committed, their events are published in part or not.
StartTurnKilled(th, t, i) ==
    /\ process = "up"
    /\ i \notin minted
    /\ CreateTurn(t, th, i)
    /\ minted' = minted \cup {i}
    /\ \E n \in 0..2 : Publish(th, SubSeq(StartEvents(t, i), 1, n))
    /\ Forget

\* Faulty variants: the entry alone is looked up; the row alone is looked up.
GetRunningOfAnyThread(th, t) == process = "up" /\ running[t] # NoThread /\ th \in threads
GetRunningFromRow(th, t)     == process = "up" /\ turnThread[t] = th

\* _get_running: the entry exists and belongs to the thread of the request.
GetRunning(th, t) == process = "up" /\ running[t] = th

\* Faulty variant: announces and sends the message before it is stored.
SteerTurnBeforeStoring(th, t, i) ==
    /\ GetRunning(th, t)
    /\ i \notin minted
    /\ minted' = minted \cup {i}
    /\ Publish(th, <<ItemEvent("item.started", t, i), ItemEvent("item.completed", t, i)>>)
    /\ control' = [control EXCEPT ![t] = Append(@, i)]
    /\ AddItem(i, th, t) \/ (StorageFaults /\ UNCHANGED repoVars)
    /\ UNCHANGED <<process, running, task, started, latestProgress>>

SteerTurn(th, t, i) ==
    /\ GetRunning(th, t)
    /\ i \notin minted
    /\ minted' = minted \cup {i}
    /\ UNCHANGED <<process, running, task, started, latestProgress>>
    /\ \/ /\ AddItem(i, th, t)
          /\ Publish(th, <<ItemEvent("item.started", t, i), ItemEvent("item.completed", t, i)>>)
          /\ control' = [control EXCEPT ![t] = Append(@, i)]
       \/ /\ StorageFaults
          /\ Publish(th, <<ItemEvent("item.started", t, i)>>)
          /\ UNCHANGED <<repoVars, control>>

\* The message is announced; it is committed or not, and never completed.
SteerTurnKilled(th, t, i) ==
    /\ GetRunning(th, t)
    /\ i \notin minted
    /\ minted' = minted \cup {i}
    /\ AddItem(i, th, t) \/ UNCHANGED repoVars
    /\ Publish(th, <<ItemEvent("item.started", t, i)>>)
    /\ Forget

Cancel(t) ==
    /\ task[t] = "scheduled" => EagerCallers
    /\ task' = [task EXCEPT ![t] = CancelledState(@)]

InterruptTurn(th, t) ==
    /\ GetRunning(th, t)
    /\ Len(control[t]) < MaxControl
    /\ control' = [control EXCEPT ![t] = Append(@, Interrupt)]
    /\ Cancel(t)
    /\ UNCHANGED <<repoVars, process, running, started, latestProgress, minted, published>>

\* wait_for_turn awaits the task itself: cancelling the waiter cancels the turn.
WaiterCancelled(t) ==
    /\ process = "up"
    /\ running[t] # NoThread
    /\ task[t] \in {"scheduled", "active"}
    /\ Cancel(t)
    /\ UNCHANGED <<repoVars, process, running, control, started, latestProgress, minted, published>>

-----------------------------------------------------------------------------
(* _execute, one step per runner event.                                    *)

\* An item id the runner may put in an event: a new uuid, or one it announced
\* in this turn and did not create yet.  The contract itself asks for neither.
MayName(t, i) ==
    \/ RunnerFaults
    \/ i \notin minted
    \/ i \in started[t] /\ itemTurn[i] = NoTurn

\* Faulty variant: started_items is not consulted.
AnnounceAlways(t, i) == <<ItemEvent("item.started", t, i)>>

Announce(t, i) ==
    IF i \in started[t] THEN <<>> ELSE <<ItemEvent("item.started", t, i)>>

HasRoom(t) == Len(published[turnThread[t]]) < MaxPublished

FirstStep(t) ==
    /\ task[t] = "scheduled"
    /\ task' = [task EXCEPT ![t] = "active"]
    /\ UNCHANGED <<repoVars, process, running, control, started, latestProgress, minted, published>>

RunnerReceives(t) ==
    /\ task[t] = "active"
    /\ control[t] # <<>>
    /\ control' = [control EXCEPT ![t] = Tail(@)]
    /\ UNCHANGED <<repoVars, process, running, task, started, latestProgress, minted, published>>

RunnerIgnoresCancel(t) ==
    /\ RunnerFaults
    /\ task[t] = "cancelling"
    /\ task' = [task EXCEPT ![t] = "active"]
    /\ UNCHANGED <<repoVars, process, running, control, started, latestProgress, minted, published>>

\* Also for an item the turn has announced before, created or not.
AgentItemStarted(t, i) ==
    /\ task[t] = "active"
    /\ MayName(t, i) \/ i \in started[t]
    /\ HasRoom(t)
    /\ Publish(turnThread[t], Announce(t, i))
    /\ started' = [started EXCEPT ![t] = @ \cup {i}]
    /\ minted' = minted \cup {i}
    /\ UNCHANGED <<repoVars, process, running, task, control, latestProgress>>

AgentMessageDelta(t, i) ==
    /\ task[t] = "active"
    /\ MayName(t, i)
    /\ HasRoom(t)
    /\ Publish(turnThread[t], Announce(t, i) \o <<ItemEvent("item.delta", t, i)>>)
    /\ started' = [started EXCEPT ![t] = @ \cup {i}]
    /\ minted' = minted \cup {i}
    /\ UNCHANGED <<repoVars, process, running, task, control, latestProgress>>

AgentProgressUpdated(t) ==
    /\ task[t] = "active"
    /\ HasRoom(t)
    /\ latestProgress' = [latestProgress EXCEPT ![turnThread[t]] = t]
    /\ Publish(turnThread[t], <<TurnEvent("turn.progress", t)>>)
    /\ UNCHANGED <<repoVars, process, running, task, control, started, minted>>

\* Faulty variants of the finally clause: the progress, or the entry, stays.
LeaveKeepingProgress(t) ==
    /\ running' = [running EXCEPT ![t] = NoThread]
    /\ task' = [task EXCEPT ![t] = "done"]
    /\ UNCHANGED latestProgress

LeaveKeepingEntry(t) ==
    /\ latestProgress' = [latestProgress EXCEPT ![turnThread[t]] = NoTurn]
    /\ task' = [task EXCEPT ![t] = "done"]
    /\ UNCHANGED running

\* The finally clause.
Leave(t) ==
    /\ running' = [running EXCEPT ![t] = NoThread]
    /\ latestProgress' = [latestProgress EXCEPT ![turnThread[t]] = NoTurn]
    /\ task' = [task EXCEPT ![t] = "done"]

\* The except and else branches.  When finish_turn raises, the row keeps its
\* status and no terminal event is published; finally still runs.
EndTurn(t, status, events) ==
    /\ Leave(t)
    /\ UNCHANGED <<process, control>>
    /\ \/ /\ FinishTurn(t, status)
          /\ Publish(turnThread[t], events \o <<Ended(status, t)>>)
       \/ /\ StorageFaults \/ turnStatus[t] # "running"
          /\ Publish(turnThread[t], events)
          /\ UNCHANGED repoVars

\* An agent message, a tool call or a tool result.
AgentItemCreated(t, i) ==
    /\ task[t] = "active"
    /\ MayName(t, i)
    /\ started' = [started EXCEPT ![t] = @ \cup {i}]
    /\ minted' = minted \cup {i}
    /\ \/ /\ AddItem(i, turnThread[t], t)
          /\ Publish(turnThread[t], Announce(t, i) \o <<ItemEvent("item.completed", t, i)>>)
          /\ UNCHANGED <<process, running, task, control, latestProgress>>
       \/ /\ itemTurn[i] # NoTurn \/ StorageFaults
          /\ EndTurn(t, "failed", Announce(t, i))

\* The item is committed and not announced as completed.
AgentItemKilled(t, i) ==
    /\ task[t] = "active"
    /\ MayName(t, i)
    /\ minted' = minted \cup {i}
    /\ AddItem(i, turnThread[t], t)
    /\ Publish(turnThread[t], Announce(t, i))
    /\ Forget

RunnerReturns(t) ==
    /\ task[t] = "active"
    /\ EndTurn(t, "completed", <<>>)
    /\ UNCHANGED <<started, minted>>

RunnerRaises(t) ==
    /\ task[t] = "active"
    /\ EndTurn(t, "failed", <<>>)
    /\ UNCHANGED <<started, minted>>

\* Faulty variant: except CancelledError only leaves.
TaskCancelledSilently(t) ==
    /\ task[t] = "cancelling"
    /\ Leave(t)
    /\ UNCHANGED <<repoVars, process, control, started, minted, published>>

TaskCancelled(t) ==
    /\ task[t] = "cancelling"
    /\ EndTurn(t, "interrupted", <<>>)
    /\ UNCHANGED <<started, minted>>

\* The status with which _execute may end now.
MayEndWith(t, status) ==
    \/ task[t] = "active" /\ status \in {"completed", "failed"}
    \/ task[t] = "cancelling" /\ status = "interrupted"

\* The status is committed and no terminal event published.
EndTurnKilled(t, status) ==
    /\ MayEndWith(t, status)
    /\ FinishTurn(t, status)
    /\ Forget
    /\ UNCHANGED <<minted, published>>

-----------------------------------------------------------------------------
Next ==
    \/ Initialize \/ Crash \/ Shutdown \/ Stop
    \/ \E th \in Thread : CreateThreadRequest(th)
    \/ \E th \in Thread, t \in Turn, i \in Item : \/ StartTurn(th, t, i)
                                                 \/ StartTurnKilled(th, t, i)
                                                 \/ SteerTurn(th, t, i)
                                                 \/ SteerTurnKilled(th, t, i)
    \/ \E th \in Thread, t \in Turn : InterruptTurn(th, t)
    \/ \E t \in Turn : \/ WaiterCancelled(t)
                       \/ FirstStep(t)
                       \/ RunnerReceives(t)
                       \/ RunnerIgnoresCancel(t)
                       \/ AgentProgressUpdated(t)
                       \/ RunnerReturns(t)
                       \/ RunnerRaises(t)
                       \/ TaskCancelled(t)
    \/ \E t \in Turn, i \in Item : \/ AgentItemStarted(t, i)
                                   \/ AgentMessageDelta(t, i)
                                   \/ AgentItemCreated(t, i)
                                   \/ AgentItemKilled(t, i)
    \/ \E t \in Turn, status \in Terminal : EndTurnKilled(t, status)

Spec == Init /\ [][Next]_vars

\* The event loop runs every ready callback; a supervisor restarts the server.
\* Nothing obliges a runner to finish.
Fairness ==
    /\ WF_vars(Initialize)
    /\ \A t \in Turn : WF_vars(FirstStep(t)) /\ WF_vars(TaskCancelled(t))

FairSpec == Spec /\ Fairness
=============================================================================
