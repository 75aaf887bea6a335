--------------------------- MODULE ServiceProofs ---------------------------
(***************************************************************************)
(* Theorems about the conversation service, for any number of threads,     *)
(* turns and items: types and states, the turns of a thread, the service   *)
(* against the specifications of its tables and of its ledger, and what it *)
(* announces against what it stores.                                       *)
(***************************************************************************)
EXTENDS ConversationProperties, RepositoryProofs, SequenceTheorems

-----------------------------------------------------------------------------
(* Types.                                                                  *)

\* Appending events to the feed of a thread keeps the feeds well typed.
LEMMA PublishType ==
    ASSUME published \in [Thread -> Seq(ThreadEvent)],
           NEW th, NEW events \in Seq(ThreadEvent), Publish(th, events)
    PROVE  published' \in [Thread -> Seq(ThreadEvent)]
<1>1. \A s \in Seq(ThreadEvent) : s \o events \in Seq(ThreadEvent)
  OBVIOUS
<1>2. QED
  BY <1>1 DEF Publish

\* The events built by the handlers are events of the protocol.
LEMMA EventType ==
    ASSUME NEW t \in Turn, NEW i \in Item
    PROVE  /\ TurnEvent("turn.started", t) \in ThreadEvent
           /\ TurnEvent("turn.progress", t) \in ThreadEvent
           /\ \A s : Ended(s, t) \in ThreadEvent
           /\ \A type \in ItemEvents : ItemEvent(type, t, i) \in ThreadEvent
           /\ Announce(t, i) \in Seq(ThreadEvent)
<1>1. \A type \in TurnEvents : TurnEvent(type, t) \in ThreadEvent
  BY DEF TurnEvent, ThreadEvent
<1>2. \A type \in ItemEvents : ItemEvent(type, t, i) \in ThreadEvent
  BY DEF ItemEvent, ThreadEvent
<1>3. \A s : Ended(s, t) \in ThreadEvent
  <2> TAKE s
  <2>1. CASE s = "completed"
    BY <2>1, <1>1 DEF Ended, TurnEvents
  <2>2. CASE s = "interrupted"
    BY <2>2, <1>1 DEF Ended, TurnEvents
  <2>3. CASE s \notin {"completed", "interrupted"}
    BY <2>3, <1>1 DEF Ended, TurnEvents
  <2> QED
    BY <2>1, <2>2, <2>3
<1>4. Announce(t, i) \in Seq(ThreadEvent)
  BY <1>2 DEF Announce, ItemEvents
<1> QED
  BY <1>1, <1>2, <1>3, <1>4 DEF TurnEvents

\* Every write of the repository keeps its tables well typed.
LEMMA RepoType ==
    ASSUME RepoTypeOK, NEW t \in Turn, NEW th \in Thread, NEW i \in Item
    PROVE  /\ RecoverRunningTurns => RepoTypeOK'
           /\ CreateThread(th) => RepoTypeOK'
           /\ CreateTurn(t, th, i) => RepoTypeOK'
           /\ AddItem(i, th, t) => RepoTypeOK'
           /\ \A s \in Terminal : FinishTurn(t, s) => RepoTypeOK'
           /\ UNCHANGED repoVars => RepoTypeOK'
<1> USE DEF RepoTypeOK, TurnStatus, Terminal
<1>1. RecoverRunningTurns => RepoTypeOK'
  BY DEF RecoverRunningTurns
<1>2. CreateThread(th) => RepoTypeOK'
  BY DEF CreateThread
<1>3. CreateTurn(t, th, i) => RepoTypeOK'
  BY DEF CreateTurn
<1>4. AddItem(i, th, t) => RepoTypeOK'
  BY DEF AddItem
<1>5. \A s \in Terminal : FinishTurn(t, s) => RepoTypeOK'
  BY DEF FinishTurn
<1>6. UNCHANGED repoVars => RepoTypeOK'
  BY DEF repoVars
<1> QED
  BY <1>1, <1>2, <1>3, <1>4, <1>5, <1>6

\* A control message keeps the control queues well typed.
LEMMA ControlType ==
    ASSUME control \in [Turn -> Seq(Item \cup {Interrupt})], NEW t,
           NEW m \in Item \cup {Interrupt},
           control' = [control EXCEPT ![t] = Append(@, m)]
    PROVE  control' \in [Turn -> Seq(Item \cup {Interrupt})]
<1>1. \A q \in Seq(Item \cup {Interrupt}) : Append(q, m) \in Seq(Item \cup {Interrupt})
  OBVIOUS
<1> QED
  BY <1>1

\* The part of TypeOK that no write of the repository touches.
MemoryTypeOK ==
    /\ process \in {"down", "up", "stopping"}
    /\ running \in [Turn -> Thread \cup {NoThread}]
    /\ task \in [Turn -> TaskState]
    /\ control \in [Turn -> Seq(Item \cup {Interrupt})]
    /\ started \in [Turn -> SUBSET Item]
    /\ latestProgress \in [Thread -> Turn \cup {NoTurn}]
    /\ minted \subseteq Item

\* TypeOK by parts, in a state and in its successor.
LEMMA TypeParts ==
    /\ TypeOK <=> RepoTypeOK /\ MemoryTypeOK /\ published \in [Thread -> Seq(ThreadEvent)]
    /\ TypeOK' <=> RepoTypeOK' /\ MemoryTypeOK' /\ published' \in [Thread -> Seq(ThreadEvent)]
BY DEF TypeOK, MemoryTypeOK

\* The end of a turn, with or without a stored status, keeps the types.
LEMMA EndTurnType ==
    ASSUME TypeOK, NEW t \in Turn, NEW status \in Terminal,
           NEW events \in Seq(ThreadEvent), EndTurn(t, status, events),
           started' \in [Turn -> SUBSET Item], minted' \subseteq Item
    PROVE  TypeOK'
<1> USE TypeParts
<1>1. RepoTypeOK'
  <2>1. CASE FinishTurn(t, status)
    BY <2>1 DEF FinishTurn, RepoTypeOK, TurnStatus, Terminal
  <2>2. CASE UNCHANGED repoVars
    BY <2>2 DEF repoVars, RepoTypeOK
  <2> QED
    BY <2>1, <2>2 DEF EndTurn
<1>2. MemoryTypeOK'
  BY DEF EndTurn, Leave, MemoryTypeOK, TaskState
<1>3. published' \in [Thread -> Seq(ThreadEvent)]
  <2>1. events \o <<Ended(status, t)>> \in Seq(ThreadEvent)
    <3>1. Ended(status, t) \in ThreadEvent
      <4>1. CASE Item = {}
        BY <4>1 DEF Ended, TurnEvent, ThreadEvent, TurnEvents, Terminal
      <4>2. CASE Item # {}
        BY <4>2, EventType
      <4> QED
        BY <4>1, <4>2
    <3> QED
      BY <3>1
  <2>2. published \in [Thread -> Seq(ThreadEvent)]
    OBVIOUS
  <2>3. \/ Publish(turnThread[t], events \o <<Ended(status, t)>>)
        \/ Publish(turnThread[t], events)
    BY DEF EndTurn
  <2> QED
    BY ONLY <2>1, <2>2, <2>3, PublishType, events \in Seq(ThreadEvent)
<1> QED
  BY <1>1, <1>2, <1>3

\* The steps of a process that is killed.
KilledStep ==
    \/ \E th \in Thread, t \in Turn, i \in Item :
          StartTurnKilled(th, t, i) \/ SteerTurnKilled(th, t, i)
    \/ \E t \in Turn, i \in Item : AgentItemKilled(t, i)
    \/ \E t \in Turn, status \in Terminal : EndTurnKilled(t, status)

\* What a killed start_turn had published is a prefix of its three events.
LEMMA StartPrefix ==
    ASSUME NEW t \in Turn, NEW i \in Item, NEW n \in 0 .. 3
    PROVE  LET e == SubSeq(StartEvents(t, i), 1, n) IN
           /\ e \in Seq(ThreadEvent) /\ DOMAIN e = 1 .. n
           /\ \A m \in 1 .. n : e[m] = StartEvents(t, i)[m]
<1>1. StartEvents(t, i) \in Seq(ThreadEvent) /\ Len(StartEvents(t, i)) = 3
  BY EventType DEF StartEvents, ItemEvents
<1> QED
  BY <1>1

\* A killed process keeps the types.
LEMMA KilledType ==
    ASSUME TypeOK, KilledStep
    PROVE  TypeOK'
<1> USE TypeParts
<1>1. MemoryTypeOK' /\ RepoTypeOK' /\ published' \in [Thread -> Seq(ThreadEvent)]
  <2>1. ASSUME Forget, minted' \subseteq Item PROVE MemoryTypeOK'
    BY <2>1 DEF Forget, MemoryTypeOK, TaskState
  <2>2. minted \subseteq Item /\ published \in [Thread -> Seq(ThreadEvent)]
    BY DEF MemoryTypeOK
  <2>3. ASSUME NEW th \in Thread, NEW t \in Turn, NEW i \in Item, StartTurnKilled(th, t, i)
        PROVE  MemoryTypeOK' /\ RepoTypeOK' /\ published' \in [Thread -> Seq(ThreadEvent)]
    <3>1. MemoryTypeOK' /\ RepoTypeOK'
      BY <2>1, <2>2, <2>3, RepoType DEF StartTurnKilled
    <3>2. PICK n \in 0 .. 2 : Publish(th, SubSeq(StartEvents(t, i), 1, n))
      BY <2>3 DEF StartTurnKilled
    <3>3. SubSeq(StartEvents(t, i), 1, n) \in Seq(ThreadEvent)
      BY StartPrefix
    <3> QED
      BY <2>2, <3>1, <3>2, <3>3, PublishType
  <2>4. ASSUME NEW th \in Thread, NEW t \in Turn, NEW i \in Item, SteerTurnKilled(th, t, i)
        PROVE  MemoryTypeOK' /\ RepoTypeOK' /\ published' \in [Thread -> Seq(ThreadEvent)]
    <3>1. MemoryTypeOK' /\ RepoTypeOK'
      BY <2>1, <2>2, <2>4, RepoType DEF SteerTurnKilled
    <3>2. <<ItemEvent("item.started", t, i)>> \in Seq(ThreadEvent)
      BY EventType DEF ItemEvents
    <3> QED
      BY <2>2, <2>4, <3>1, <3>2, PublishType DEF SteerTurnKilled
  <2>5. ASSUME NEW t \in Turn, NEW i \in Item, AgentItemKilled(t, i)
        PROVE  MemoryTypeOK' /\ RepoTypeOK' /\ published' \in [Thread -> Seq(ThreadEvent)]
    <3>1. turnThread[t] \in Thread
      BY <2>5 DEF AgentItemKilled, AddItem, RepoTypeOK
    <3>2. MemoryTypeOK' /\ RepoTypeOK'
      BY <2>1, <2>2, <2>5, <3>1, RepoType DEF AgentItemKilled
    <3> QED
      BY <2>2, <2>5, <3>1, <3>2, EventType, PublishType DEF AgentItemKilled
  <2>6. ASSUME NEW t \in Turn, NEW status \in Terminal, EndTurnKilled(t, status)
        PROVE  MemoryTypeOK' /\ RepoTypeOK' /\ published' \in [Thread -> Seq(ThreadEvent)]
    <3>1. RepoTypeOK'
      BY <2>6 DEF EndTurnKilled, FinishTurn, RepoTypeOK, TurnStatus, Terminal
    <3> QED
      BY <2>1, <2>2, <2>6, <3>1 DEF EndTurnKilled
  <2> QED
    BY <2>3, <2>4, <2>5, <2>6 DEF KilledStep
<1> QED
  BY <1>1

\* The initial state is well typed.
LEMMA InitType == Init => TypeOK
BY RepoAssumption DEF Init, TypeOK, RepoInit, RepoTypeOK, TaskState, TurnStatus

\* The steps of the process itself keep the types.
LEMMA ProcessType ==
    ASSUME TypeOK, Initialize \/ Crash \/ Shutdown \/ Stop
    PROVE  TypeOK'
<1> USE TypeParts
<1>1. CASE Initialize
  <2>1. RepoTypeOK'
    BY <1>1 DEF Initialize, RecoverRunningTurns, RepoTypeOK, TurnStatus, Terminal
  <2> QED
    BY <1>1, <2>1 DEF Initialize, MemoryTypeOK, memory
<1>2. CASE Forget /\ UNCHANGED <<repoVars, minted, published>>
  <2>1. RepoTypeOK'
    BY <1>2 DEF RepoTypeOK, repoVars
  <2>2. MemoryTypeOK'
    BY <1>2 DEF Forget, MemoryTypeOK, TaskState
  <2> QED
    BY <1>2, <2>1, <2>2
<1>3. CASE Shutdown
  <2>1. RepoTypeOK'
    BY <1>3 DEF Shutdown, RepoTypeOK, repoVars
  <2>2. \A s \in TaskState : CancelledState(s) \in TaskState
    BY DEF CancelledState, TaskState
  <2>3. MemoryTypeOK'
    BY <1>3, <2>2 DEF Shutdown, MemoryTypeOK
  <2> QED
    BY <1>3, <2>1, <2>3 DEF Shutdown
<1> QED
  BY <1>1, <1>2, <1>3 DEF Crash, Stop

\* The requests keep the types.
LEMMA RequestType ==
    ASSUME TypeOK, NEW th \in Thread, NEW t \in Turn, NEW i \in Item,
           StartTurn(th, t, i) \/ SteerTurn(th, t, i)
    PROVE  TypeOK'
<1> USE TypeParts
<1>2. CASE StartTurn(th, t, i)
  <2>1. RepoTypeOK'
    BY <1>2, RepoType DEF StartTurn
  <2>2. MemoryTypeOK'
    BY <1>2 DEF StartTurn, MemoryTypeOK, TaskState
  <2>3. StartEvents(t, i) \in Seq(ThreadEvent)
    BY EventType DEF StartEvents, ItemEvents
  <2>4. published' \in [Thread -> Seq(ThreadEvent)]
    BY <1>2, <2>3, PublishType DEF StartTurn
  <2> QED
    BY <2>1, <2>2, <2>4
<1>3. CASE SteerTurn(th, t, i)
  <2>1. RepoTypeOK'
    BY <1>3, RepoType DEF SteerTurn
  <2>2. MemoryTypeOK'
    <3>1. control' \in [Turn -> Seq(Item \cup {Interrupt})]
      BY <1>3, ControlType DEF SteerTurn, MemoryTypeOK
    <3> QED
      BY <1>3, <3>1 DEF SteerTurn, MemoryTypeOK
  <2>3. /\ <<ItemEvent("item.started", t, i), ItemEvent("item.completed", t, i)>>
              \in Seq(ThreadEvent)
        /\ <<ItemEvent("item.started", t, i)>> \in Seq(ThreadEvent)
    BY EventType DEF ItemEvents
  <2>4. published' \in [Thread -> Seq(ThreadEvent)]
    <3>1. \/ Publish(th, <<ItemEvent("item.started", t, i), ItemEvent("item.completed", t, i)>>)
          \/ Publish(th, <<ItemEvent("item.started", t, i)>>)
      BY <1>3 DEF SteerTurn
    <3>2. published \in [Thread -> Seq(ThreadEvent)]
      OBVIOUS
    <3> QED
      BY ONLY <2>3, <3>1, <3>2, PublishType
  <2> QED
    BY <2>1, <2>2, <2>4
<1> QED
  BY <1>2, <1>3

\* A cancellation keeps the types.
LEMMA InterruptType ==
    ASSUME TypeOK, NEW t \in Turn,
           (\E th \in Thread : InterruptTurn(th, t)) \/ WaiterCancelled(t)
    PROVE  TypeOK'
<1> USE TypeParts
<1>0. \A s \in TaskState : CancelledState(s) \in TaskState
  BY DEF CancelledState, TaskState
<1>1. RepoTypeOK'
  BY DEF InterruptTurn, WaiterCancelled, RepoTypeOK, repoVars
<1>2. MemoryTypeOK'
  <2>1. control' \in [Turn -> Seq(Item \cup {Interrupt})]
    <3>1. control \in [Turn -> Seq(Item \cup {Interrupt})]
      BY DEF MemoryTypeOK
    <3>2. \/ control' = [control EXCEPT ![t] = Append(@, Interrupt)]
          \/ control' = control
      BY DEF InterruptTurn, WaiterCancelled
    <3>3. \A q \in Seq(Item \cup {Interrupt}) : Append(q, Interrupt) \in Seq(Item \cup {Interrupt})
      OBVIOUS
    <3> QED
      BY ONLY <3>1, <3>2, <3>3
  <2>2. task' \in [Turn -> TaskState]
    <3>1. task \in [Turn -> TaskState]
      BY DEF MemoryTypeOK
    <3>2. task' = [task EXCEPT ![t] = CancelledState(task[t])]
      BY DEF InterruptTurn, WaiterCancelled, Cancel
    <3> QED
      BY ONLY <1>0, <3>1, <3>2
  <2> QED
    BY <2>1, <2>2 DEF InterruptTurn, WaiterCancelled, MemoryTypeOK
<1> QED
  BY <1>1, <1>2 DEF InterruptTurn, WaiterCancelled

\* The steps of a turn's task keep the types.
LEMMA TaskType ==
    ASSUME TypeOK, NEW t \in Turn,
           \/ FirstStep(t) \/ RunnerReceives(t) \/ RunnerIgnoresCancel(t)
           \/ AgentProgressUpdated(t) \/ RunnerReturns(t) \/ RunnerRaises(t)
           \/ TaskCancelled(t)
    PROVE  TypeOK'
<1> USE TypeParts
<1>1. CASE FirstStep(t) \/ RunnerIgnoresCancel(t)
  <2>1. RepoTypeOK'
    BY <1>1 DEF FirstStep, RunnerIgnoresCancel, RepoTypeOK, repoVars
  <2>2. MemoryTypeOK'
    BY <1>1 DEF FirstStep, RunnerIgnoresCancel, MemoryTypeOK, TaskState
  <2> QED
    BY <1>1, <2>1, <2>2 DEF FirstStep, RunnerIgnoresCancel
<1>2. CASE RunnerReceives(t)
  <2>1. RepoTypeOK'
    BY <1>2 DEF RunnerReceives, RepoTypeOK, repoVars
  <2>2. MemoryTypeOK'
    BY <1>2 DEF RunnerReceives, MemoryTypeOK
  <2> QED
    BY <1>2, <2>1, <2>2 DEF RunnerReceives
<1>3. CASE AgentProgressUpdated(t)
  <2>1. RepoTypeOK'
    BY <1>3 DEF AgentProgressUpdated, RepoTypeOK, repoVars
  <2>2. MemoryTypeOK'
    BY <1>3 DEF AgentProgressUpdated, MemoryTypeOK
  <2>3. <<TurnEvent("turn.progress", t)>> \in Seq(ThreadEvent)
    BY DEF TurnEvent, ThreadEvent, TurnEvents
  <2>4. published' \in [Thread -> Seq(ThreadEvent)]
    BY <1>3, <2>3, PublishType DEF AgentProgressUpdated
  <2> QED
    BY <2>1, <2>2, <2>4
<1>4. ASSUME NEW status \in Terminal, EndTurn(t, status, <<>>), UNCHANGED <<started, minted>>
      PROVE  TypeOK'
  <2>1. started' \in [Turn -> SUBSET Item] /\ minted' \subseteq Item
    BY <1>4 DEF MemoryTypeOK
  <2>2. <<>> \in Seq(ThreadEvent)
    OBVIOUS
  <2> QED
    BY <1>4, <2>1, <2>2, EndTurnType
<1> QED
  BY <1>1, <1>2, <1>3, <1>4 DEF RunnerReturns, RunnerRaises, TaskCancelled, Terminal

\* The handling of a runner event about an item keeps the types.
LEMMA RunnerItemType ==
    ASSUME TypeOK, NEW t \in Turn, NEW i \in Item,
           AgentItemStarted(t, i) \/ AgentMessageDelta(t, i) \/ AgentItemCreated(t, i)
    PROVE  TypeOK'
<1> USE TypeParts
<1>0. /\ started' \in [Turn -> SUBSET Item] /\ minted' \subseteq Item
      /\ Announce(t, i) \in Seq(ThreadEvent)
      /\ Announce(t, i) \o <<ItemEvent("item.delta", t, i)>> \in Seq(ThreadEvent)
      /\ Announce(t, i) \o <<ItemEvent("item.completed", t, i)>> \in Seq(ThreadEvent)
  <2>1. started' \in [Turn -> SUBSET Item] /\ minted' \subseteq Item
    <3>1. started' = [started EXCEPT ![t] = @ \cup {i}] /\ minted' = minted \cup {i}
      BY DEF AgentItemStarted, AgentMessageDelta, AgentItemCreated
    <3> QED
      BY <3>1 DEF MemoryTypeOK
  <2>2. \A type \in ItemEvents :
           /\ Announce(t, i) \in Seq(ThreadEvent)
           /\ Announce(t, i) \o <<ItemEvent(type, t, i)>> \in Seq(ThreadEvent)
    BY EventType
  <2>3. "item.delta" \in ItemEvents /\ "item.completed" \in ItemEvents
    BY DEF ItemEvents
  <2> QED
    BY <2>1, <2>2, <2>3
<1>1. CASE AgentItemStarted(t, i) \/ AgentMessageDelta(t, i)
  <2>1. RepoTypeOK'
    BY <1>1 DEF AgentItemStarted, AgentMessageDelta, RepoTypeOK, repoVars
  <2>2. MemoryTypeOK'
    BY <1>0, <1>1 DEF AgentItemStarted, AgentMessageDelta, MemoryTypeOK
  <2>3. \/ Publish(turnThread[t], Announce(t, i))
        \/ Publish(turnThread[t], Announce(t, i) \o <<ItemEvent("item.delta", t, i)>>)
    BY <1>1 DEF AgentItemStarted, AgentMessageDelta
  <2>4. published' \in [Thread -> Seq(ThreadEvent)]
    BY <1>0, <2>3, PublishType
  <2> QED
    BY <2>1, <2>2, <2>4
<1>2. CASE /\ AddItem(i, turnThread[t], t)
           /\ Publish(turnThread[t], Announce(t, i) \o <<ItemEvent("item.completed", t, i)>>)
           /\ UNCHANGED <<process, running, task, control, latestProgress>>
  <2>1. turnThread[t] \in Thread
    BY <1>2 DEF AddItem, RepoTypeOK
  <2>2. RepoTypeOK'
    BY <1>2, <2>1, RepoType
  <2>3. MemoryTypeOK'
    BY <1>0, <1>2 DEF MemoryTypeOK
  <2>4. published' \in [Thread -> Seq(ThreadEvent)]
    BY <1>0, <1>2, PublishType
  <2> QED
    BY <2>2, <2>3, <2>4
<1>3. CASE EndTurn(t, "failed", Announce(t, i))
  BY <1>0, <1>3, EndTurnType DEF Terminal
<1> QED
  BY <1>1, <1>2, <1>3 DEF AgentItemCreated

\* TypeOK is inductive: no step of the service leaves the declared types.
LEMMA TypeStep == TypeOK /\ [Next]_vars => TypeOK'
<1> SUFFICES ASSUME TypeOK, [Next]_vars PROVE TypeOK'
  OBVIOUS
<1>1. CASE UNCHANGED vars
  BY <1>1 DEF vars, repoVars, serviceVars, memory, TypeOK, RepoTypeOK
<1>2. CASE Initialize \/ Crash \/ Shutdown \/ Stop
  BY <1>2, ProcessType
<1>3. ASSUME NEW th \in Thread, CreateThreadRequest(th) PROVE TypeOK'
  BY <1>3, TypeParts DEF CreateThreadRequest, CreateThread, RepoTypeOK, serviceVars, memory,
     MemoryTypeOK
<1>4. ASSUME NEW th \in Thread, NEW t \in Turn, NEW i \in Item,
             StartTurn(th, t, i) \/ SteerTurn(th, t, i)
      PROVE  TypeOK'
  BY <1>4, RequestType
<1>5. ASSUME NEW th \in Thread, NEW t \in Turn, InterruptTurn(th, t) PROVE TypeOK'
  BY <1>5, InterruptType
<1>6. ASSUME NEW t \in Turn, WaiterCancelled(t) PROVE TypeOK'
  BY <1>6, InterruptType
<1>7. ASSUME NEW t \in Turn,
             \/ FirstStep(t) \/ RunnerReceives(t) \/ RunnerIgnoresCancel(t)
             \/ AgentProgressUpdated(t) \/ RunnerReturns(t) \/ RunnerRaises(t)
             \/ TaskCancelled(t)
      PROVE  TypeOK'
  BY <1>7, TaskType
<1>8. ASSUME NEW t \in Turn, NEW i \in Item,
             AgentItemStarted(t, i) \/ AgentMessageDelta(t, i) \/ AgentItemCreated(t, i)
      PROVE  TypeOK'
  BY <1>8, RunnerItemType
<1>9. CASE KilledStep
  BY <1>9, KilledType
<1> QED
  BY <1>1, <1>2, <1>3, <1>4, <1>5, <1>6, <1>7, <1>8, <1>9 DEF Next, KilledStep

\* Every reachable state of the service has the declared types.
THEOREM TypeCorrect == Spec => []TypeOK
<1>1. QED
  BY InitType, TypeStep, PTL DEF Spec

-----------------------------------------------------------------------------
(* The rows, the _running map and the tasks.                               *)

\* The conjuncts of StateInv that are not about types.
LinkInv ==
    DownIsEmpty /\ RunningIsStored /\ TasksAreTracked /\ RowsHaveThreads /\ ProgressIsOfRunningTurn

\* A step that touches neither rows nor entries, and whose tasks stay tracked,
\* keeps the links.
LEMMA QuietLinks ==
    ASSUME LinkInv, UNCHANGED <<threads, turnThread, turnStatus, running>>,
           process' = process \/ process' # "down",
           \A t \in Turn : task'[t] \in Live \cup {"discarded"} <=>
                           task[t] \in Live \cup {"discarded"},
           UNCHANGED latestProgress
    PROVE  LinkInv'
BY DEF LinkInv, DownIsEmpty, RunningIsStored, TasksAreTracked, RowsHaveThreads,
       ProgressIsOfRunningTurn

\* Recovery finds an empty _running map, so no entry loses its row.
LEMMA ProcessLinks ==
    ASSUME TypeOK, LinkInv, Initialize \/ Crash \/ Shutdown \/ Stop
    PROVE  LinkInv'
<1>1. CASE Initialize
  <2>1. \A t \in Turn : running'[t] = NoThread /\ task'[t] = task[t]
    BY <1>1 DEF Initialize, memory, LinkInv, DownIsEmpty
  <2>2. DownIsEmpty' /\ RunningIsStored'
    BY <2>1 DEF DownIsEmpty, RunningIsStored
  <2>3. TasksAreTracked'
    BY <1>1, <2>1 DEF Initialize, memory, LinkInv, TasksAreTracked
  <2>4. RowsHaveThreads'
    BY <1>1 DEF Initialize, RecoverRunningTurns, LinkInv, RowsHaveThreads, TypeOK, RepoTypeOK
  <2>5. ProgressIsOfRunningTurn'
    BY <1>1 DEF Initialize, memory, LinkInv, ProgressIsOfRunningTurn
  <2> QED
    BY <2>2, <2>3, <2>4, <2>5 DEF LinkInv
<1>2. CASE Forget /\ UNCHANGED <<repoVars, minted, published>>
  BY <1>2 DEF Forget, LinkInv, DownIsEmpty, RunningIsStored, TasksAreTracked, RowsHaveThreads,
     ProgressIsOfRunningTurn, Live, repoVars
<1>3. CASE Shutdown
  <2>1. \A s \in TaskState : CancelledState(s) \in Live \cup {"discarded"} <=>
                             s \in Live \cup {"discarded"}
    BY DEF CancelledState, TaskState, Live
  <2>2. \A t \in Turn : task[t] \in TaskState /\ task'[t] = CancelledState(task[t])
    BY <1>3 DEF Shutdown, TypeOK
  <2> QED
    BY <1>3, <2>1, <2>2, QuietLinks DEF Shutdown, repoVars
<1> QED
  BY <1>1, <1>2, <1>3 DEF Crash, Stop

\* A killed process leaves rows whose threads exist, and nothing else.
LEMMA KilledLinks ==
    ASSUME TypeOK, LinkInv, KilledStep
    PROVE  LinkInv'
<1>1. Forget
  BY DEF KilledStep, StartTurnKilled, SteerTurnKilled, AgentItemKilled, EndTurnKilled
<1>2. DownIsEmpty' /\ RunningIsStored' /\ TasksAreTracked' /\ ProgressIsOfRunningTurn'
  BY <1>1 DEF Forget, DownIsEmpty, RunningIsStored, TasksAreTracked, ProgressIsOfRunningTurn, Live
<1>3. ASSUME NEW t \in Turn, NEW th \in Thread, NEW i \in Item, CreateTurn(t, th, i)
      PROVE  RowsHaveThreads'
  <2>1. turnThread'[t] = th /\ th \in threads /\ threads' = threads
    BY <1>3 DEF CreateTurn, TypeOK, RepoTypeOK
  <2>2. \A u \in Turn \ {t} : turnStatus'[u] = turnStatus[u] /\ turnThread'[u] = turnThread[u]
    BY <1>3 DEF CreateTurn, TypeOK, RepoTypeOK
  <2> QED
    BY <2>1, <2>2 DEF LinkInv, RowsHaveThreads
<1>4. ASSUME UNCHANGED <<threads, turnThread, turnStatus>> PROVE RowsHaveThreads'
  BY <1>4 DEF LinkInv, RowsHaveThreads
<1>5. ASSUME NEW t \in Turn, NEW status \in Terminal, FinishTurn(t, status)
      PROVE  RowsHaveThreads'
  BY <1>5 DEF FinishTurn, LinkInv, RowsHaveThreads, TypeOK, RepoTypeOK
<1>6. RowsHaveThreads'
  <2>1. ASSUME NEW th \in Thread, NEW t \in Turn, NEW i \in Item,
               StartTurnKilled(th, t, i) \/ SteerTurnKilled(th, t, i)
        PROVE  RowsHaveThreads'
    BY <1>3, <1>4, <2>1 DEF StartTurnKilled, SteerTurnKilled, AddItem, repoVars
  <2>2. ASSUME NEW t \in Turn, NEW i \in Item, AgentItemKilled(t, i)
        PROVE  RowsHaveThreads'
    BY <1>4, <2>2 DEF AgentItemKilled, AddItem
  <2>3. ASSUME NEW t \in Turn, NEW status \in Terminal, EndTurnKilled(t, status)
        PROVE  RowsHaveThreads'
    BY <1>5, <2>3 DEF EndTurnKilled
  <2> QED
    BY <2>1, <2>2, <2>3 DEF KilledStep
<1> QED
  BY <1>2, <1>6 DEF LinkInv

\* start_turn adds the row, the entry and the task of one turn together.
LEMMA StartLinks ==
    ASSUME TypeOK, LinkInv, NEW th \in Thread, NEW t \in Turn, NEW i \in Item,
           StartTurn(th, t, i)
    PROVE  LinkInv'
<1>1. /\ running' = [running EXCEPT ![t] = th]
      /\ task' = [task EXCEPT ![t] = "scheduled"]
      /\ turnThread' = [turnThread EXCEPT ![t] = th]
      /\ turnStatus' = [turnStatus EXCEPT ![t] = "running"]
      /\ threads' = threads /\ th \in threads /\ turnStatus[t] = "absent"
      /\ latestProgress' = latestProgress /\ process' = process /\ process = "up"
  BY DEF StartTurn, CreateTurn
<1>2. th # NoThread
  BY RepoAssumption
<1>3. running[t] = NoThread
  BY <1>1 DEF LinkInv, RunningIsStored
<1>4. DownIsEmpty' /\ RunningIsStored' /\ TasksAreTracked' /\ RowsHaveThreads'
  BY <1>1, <1>2 DEF LinkInv, DownIsEmpty, RunningIsStored, TasksAreTracked, RowsHaveThreads,
     TypeOK, RepoTypeOK, Live
<1>5. ProgressIsOfRunningTurn'
  <2> SUFFICES ASSUME NEW th2 \in Thread, latestProgress'[th2] # NoTurn
               PROVE  running'[latestProgress'[th2]] = th2
    BY DEF ProgressIsOfRunningTurn
  <2>1. latestProgress[th2] \in Turn /\ running[latestProgress[th2]] = th2
    BY <1>1 DEF LinkInv, ProgressIsOfRunningTurn, TypeOK
  <2>2. latestProgress[th2] # t
    BY <1>3, <2>1, RepoAssumption
  <2> QED
    BY <1>1, <2>1, <2>2 DEF TypeOK
<1> QED
  BY <1>4, <1>5 DEF LinkInv

\* The finally clause drops the entry, the task and the progress of one turn.
LEMMA EndLinks ==
    ASSUME TypeOK, LinkInv, NEW t \in Turn, task[t] \in Live,
           NEW status \in Terminal, NEW events, EndTurn(t, status, events)
    PROVE  LinkInv'
<1>1. /\ running' = [running EXCEPT ![t] = NoThread]
      /\ task' = [task EXCEPT ![t] = "done"]
      /\ latestProgress' = [latestProgress EXCEPT ![turnThread[t]] = NoTurn]
      /\ process' = process /\ threads' = threads /\ turnThread' = turnThread
  BY DEF EndTurn, Leave, FinishTurn, repoVars
<1>2. \/ turnStatus' = [turnStatus EXCEPT ![t] = status] /\ turnStatus[t] = "running"
      \/ turnStatus' = turnStatus
  BY DEF EndTurn, FinishTurn, repoVars
<1>3. running[t] = turnThread[t] /\ turnThread[t] # NoThread
  BY DEF LinkInv, TasksAreTracked, RunningIsStored
<1>4. DownIsEmpty' /\ TasksAreTracked'
  BY <1>1 DEF LinkInv, DownIsEmpty, TasksAreTracked, TypeOK, Live
<1>5. RunningIsStored'
  <2> SUFFICES ASSUME NEW u \in Turn, running'[u] # NoThread
               PROVE  /\ turnStatus'[u] = "running"
                      /\ turnThread'[u] = running'[u]
                      /\ task'[u] \in Live \cup {"discarded"}
    BY DEF RunningIsStored
  <2>1. u # t /\ running'[u] = running[u] /\ task'[u] = task[u]
    BY <1>1 DEF TypeOK
  <2>2. turnStatus'[u] = turnStatus[u]
    BY <1>2, <2>1 DEF TypeOK, RepoTypeOK
  <2> QED
    BY <1>1, <2>1, <2>2 DEF LinkInv, RunningIsStored
<1>6. RowsHaveThreads'
  BY <1>1, <1>2 DEF LinkInv, RowsHaveThreads, TypeOK, RepoTypeOK
<1>7. ProgressIsOfRunningTurn'
  <2> SUFFICES ASSUME NEW th \in Thread, latestProgress'[th] # NoTurn
               PROVE  running'[latestProgress'[th]] = th
    BY DEF ProgressIsOfRunningTurn
  <2>1. th # turnThread[t] /\ latestProgress'[th] = latestProgress[th]
    BY <1>1 DEF TypeOK
  <2>2. latestProgress[th] \in Turn /\ running[latestProgress[th]] = th
    BY <2>1 DEF LinkInv, ProgressIsOfRunningTurn, TypeOK
  <2>3. latestProgress[th] # t
    BY <1>3, <2>1, <2>2
  <2> QED
    BY <1>1, <2>1, <2>2, <2>3 DEF TypeOK
<1> QED
  BY <1>4, <1>5, <1>6, <1>7 DEF LinkInv

\* Progress is only recorded for a turn that has an entry.
LEMMA ProgressLinks ==
    ASSUME TypeOK, LinkInv, NEW t \in Turn, AgentProgressUpdated(t)
    PROVE  LinkInv'
<1>1. /\ latestProgress' = [latestProgress EXCEPT ![turnThread[t]] = t]
      /\ UNCHANGED <<repoVars, process, running, task>> /\ task[t] = "active"
  BY DEF AgentProgressUpdated
<1>2. running[t] = turnThread[t]
  BY <1>1 DEF LinkInv, TasksAreTracked, RunningIsStored, Live
<1>3. ProgressIsOfRunningTurn'
  BY <1>1, <1>2 DEF LinkInv, ProgressIsOfRunningTurn, TypeOK
<1> QED
  BY <1>1, <1>3 DEF LinkInv, DownIsEmpty, RunningIsStored, TasksAreTracked, RowsHaveThreads, repoVars

\* The other steps move no row, no entry and no task between its two sides.
LEMMA OtherLinks ==
    ASSUME TypeOK, LinkInv, NEW t \in Turn,
           \/ FirstStep(t) \/ RunnerReceives(t) \/ RunnerIgnoresCancel(t) \/ WaiterCancelled(t)
           \/ \E th \in Thread : InterruptTurn(th, t)
           \/ \E i \in Item : AgentItemStarted(t, i) \/ AgentMessageDelta(t, i)
           \/ \E th \in Thread, i \in Item : SteerTurn(th, t, i)
    PROVE  LinkInv'
<1>0. \A s \in TaskState : CancelledState(s) \in Live \cup {"discarded"} <=>
                           s \in Live \cup {"discarded"}
  BY DEF CancelledState, TaskState, Live
<1>1. UNCHANGED <<threads, turnThread, turnStatus, running, process, latestProgress>>
  BY DEF FirstStep, RunnerReceives, RunnerIgnoresCancel, WaiterCancelled, InterruptTurn,
     AgentItemStarted, AgentMessageDelta, SteerTurn, AddItem, repoVars
<1>2. \/ task' = task
      \/ task[t] \in {"scheduled", "cancelling"} /\ task' = [task EXCEPT ![t] = "active"]
      \/ task' = [task EXCEPT ![t] = CancelledState(task[t])]
  BY DEF FirstStep, RunnerReceives, RunnerIgnoresCancel, WaiterCancelled, InterruptTurn, Cancel,
     AgentItemStarted, AgentMessageDelta, SteerTurn
<1>3. \A u \in Turn : task'[u] \in Live \cup {"discarded"} <=> task[u] \in Live \cup {"discarded"}
  <2>1. task \in [Turn -> TaskState]
    BY DEF TypeOK
  <2>2. "active" \in Live /\ {"scheduled", "cancelling"} \subseteq Live
    BY DEF Live
  <2> QED
    BY ONLY <1>0, <1>2, <2>1, <2>2
<1> QED
  BY <1>1, <1>3, QuietLinks

\* Every step of the service keeps rows, entries and tasks linked.
LEMMA LinkStep == TypeOK /\ LinkInv /\ [Next]_vars => LinkInv'
<1> SUFFICES ASSUME TypeOK, LinkInv, [Next]_vars PROVE LinkInv'
  OBVIOUS
<1>1. CASE UNCHANGED vars
  BY <1>1, QuietLinks DEF vars, repoVars, serviceVars, memory
<1>2. CASE Initialize \/ Crash \/ Shutdown \/ Stop
  BY <1>2, ProcessLinks
<1>3. ASSUME NEW th \in Thread, CreateThreadRequest(th) PROVE LinkInv'
  BY <1>3 DEF CreateThreadRequest, CreateThread, serviceVars, memory, LinkInv, DownIsEmpty,
     RunningIsStored, TasksAreTracked, RowsHaveThreads, ProgressIsOfRunningTurn
<1>4. ASSUME NEW th \in Thread, NEW t \in Turn, NEW i \in Item,
             StartTurn(th, t, i) \/ SteerTurn(th, t, i)
      PROVE  LinkInv'
  BY <1>4, StartLinks, OtherLinks
<1>5. ASSUME NEW th \in Thread, NEW t \in Turn, InterruptTurn(th, t) PROVE LinkInv'
  BY <1>5, OtherLinks
<1>6. ASSUME NEW t \in Turn,
             WaiterCancelled(t) \/ FirstStep(t) \/ RunnerReceives(t) \/ RunnerIgnoresCancel(t)
      PROVE  LinkInv'
  BY <1>6, OtherLinks
<1>7. ASSUME NEW t \in Turn, AgentProgressUpdated(t) PROVE LinkInv'
  BY <1>7, ProgressLinks
<1>8. ASSUME NEW t \in Turn, RunnerReturns(t) \/ RunnerRaises(t) \/ TaskCancelled(t)
      PROVE  LinkInv'
  BY <1>8, EndLinks DEF RunnerReturns, RunnerRaises, TaskCancelled, Live, Terminal
<1>9. ASSUME NEW t \in Turn, NEW i \in Item, AgentItemStarted(t, i) \/ AgentMessageDelta(t, i)
      PROVE  LinkInv'
  BY <1>9, OtherLinks
<1>10. ASSUME NEW t \in Turn, NEW i \in Item, AgentItemCreated(t, i) PROVE LinkInv'
  <2>1. CASE EndTurn(t, "failed", Announce(t, i))
    BY <1>10, <2>1, EndLinks DEF AgentItemCreated, Live, Terminal
  <2>2. CASE AddItem(i, turnThread[t], t) /\ UNCHANGED <<process, running, task, control, latestProgress>>
    BY <2>2, QuietLinks DEF AddItem
  <2> QED
    BY <1>10, <2>1, <2>2 DEF AgentItemCreated
<1>11. CASE KilledStep
  BY <1>11, KilledLinks
<1> QED
  BY <1>1, <1>2, <1>3, <1>4, <1>5, <1>6, <1>7, <1>8, <1>9, <1>10, <1>11 DEF Next, KilledStep

\* The process starts with an empty store and an empty memory.
LEMMA InitLinks == Init => LinkInv
BY DEF Init, RepoInit, LinkInv, DownIsEmpty, RunningIsStored, TasksAreTracked, RowsHaveThreads,
       ProgressIsOfRunningTurn, Live

\* StateInv holds in every reachable state, crashes, storage faults, early
\* cancellations and misbehaving runners included.
THEOREM StateCorrect == Spec => []StateInv
<1>1. Init => TypeOK /\ LinkInv
  BY InitType, InitLinks
<1>2. TypeOK /\ LinkInv /\ [Next]_vars => TypeOK' /\ LinkInv'
  BY TypeStep, LinkStep
<1>3. TypeOK /\ LinkInv <=> StateInv
  BY DEF LinkInv, StateInv
<1> QED
  BY <1>1, <1>2, <1>3, PTL DEF Spec

\* An entry of _running is always a turn of that thread whose row is running.
THEOREM RunningStoredCorrect == Spec => []RunningIsStored
<1>1. StateInv => RunningIsStored
  BY DEF StateInv
<1> QED
  BY <1>1, StateCorrect, PTL

\* The progress a thread reports is always that of its running turn.
THEOREM ProgressCorrect == Spec => []ProgressIsOfRunningTurn
<1>1. StateInv => ProgressIsOfRunningTurn
  BY DEF StateInv
<1> QED
  BY <1>1, StateCorrect, PTL

-----------------------------------------------------------------------------
(* What a step does to the rows and to the feeds.                          *)

\* Only start_turn makes a row running, one row, and where the index admits it.
RowsOnlyEnd ==
    \A u \in Turn :
        \/ turnStatus[u] = "absent" /\ turnStatus'[u] = "absent"
        \/ /\ turnStatus[u] # "absent"
           /\ turnThread'[u] = turnThread[u]
           /\ \/ turnStatus'[u] = turnStatus[u]
              \/ turnStatus[u] = "running" /\ turnStatus'[u] \in Terminal

RowStarts(t) ==
    /\ turnStatus[t] = "absent" /\ turnStatus'[t] = "running"
    /\ turnThread'[t] \in Thread /\ IndexAdmits(turnThread'[t])
    /\ \A u \in Turn \ {t} : turnStatus'[u] = turnStatus[u] /\ turnThread'[u] = turnThread[u]

RowsMove == RowsOnlyEnd \/ \E t \in Turn : RowStarts(t)

\* Events of one turn are appended to the feed of its thread: a turn that is
\* running, or the one being started.  Only the last may be terminal, and then
\* it tells the status the step stores.
Appends(th, t, events) ==
    /\ published' = [published EXCEPT ![th] = @ \o events]
    /\ \A m \in DOMAIN events :
          /\ events[m].turn = t
          /\ events[m] \in TerminalEvents =>
                /\ m = Len(events)
                /\ turnStatus'[t] \in Terminal
                /\ events[m] = Ended(turnStatus'[t], t)
    /\ turnStatus[t] = "running" \/ turnStatus[t] = "absent"
    /\ turnStatus[t] = "running" => turnThread[t] = th
    /\ turnThread'[t] = th
    /\ turnStatus'[t] # "absent"
    /\ \A u \in Turn \ {t} : turnStatus[u] = "running" /\ turnThread[u] = th => LegacySchema

FeedsGrow ==
    \/ published' = published
    \/ \E th \in Thread, t \in Turn, events \in Seq(ThreadEvent) : Appends(th, t, events)

\* Which events end a turn.
LEMMA TerminalType ==
    ASSUME NEW t \in Turn
    PROVE  /\ \A s : Ended(s, t).turn = t
           /\ \A e \in TerminalEvents :
                 e.type \in {"turn.completed", "turn.interrupted", "turn.failed"}
           /\ \A type, i : ItemEvent(type, t, i).turn = t /\ ItemEvent(type, t, i).type = type
           /\ \A type : TurnEvent(type, t).turn = t /\ TurnEvent(type, t).type = type
<1>1. \A s, u : /\ Ended(s, u).turn = u
                /\ Ended(s, u).type \in {"turn.completed", "turn.interrupted", "turn.failed"}
  <2> TAKE s, u
  <2>1. CASE s = "completed"
    BY <2>1 DEF Ended, TurnEvent
  <2>2. CASE s = "interrupted"
    BY <2>2 DEF Ended, TurnEvent
  <2>3. CASE s \notin {"completed", "interrupted"}
    BY <2>3 DEF Ended, TurnEvent
  <2> QED
    BY <2>1, <2>2, <2>3
<1> QED
  BY <1>1 DEF TerminalEvents, ItemEvent, TurnEvent

\* A turn whose task lives has a running row, in a thread that exists.
LEMMA LiveTurn ==
    ASSUME TypeOK, LinkInv, NEW t \in Turn, running[t] # NoThread
    PROVE  turnStatus[t] = "running" /\ turnThread[t] = running[t] /\ turnThread[t] \in Thread
BY DEF LinkInv, RunningIsStored, TypeOK

\* The writes of the repository move the rows as described.
LEMMA RowStep ==
    ASSUME TypeOK, [Next]_vars PROVE RowsMove
<1>1. CASE UNCHANGED <<turnThread, turnStatus>>
  BY <1>1 DEF RowsMove, RowsOnlyEnd
<1>2. CASE RecoverRunningTurns
  BY <1>2 DEF RowsMove, RowsOnlyEnd, RecoverRunningTurns, TypeOK, RepoTypeOK, Terminal
<1>3. ASSUME NEW t \in Turn, NEW th \in Thread, NEW i \in Item, CreateTurn(t, th, i)
      PROVE  RowsMove
  <2>1. turnThread'[t] = th /\ turnStatus'[t] = "running"
    BY <1>3 DEF CreateTurn, TypeOK, RepoTypeOK
  <2>2. \A u \in Turn \ {t} : turnStatus'[u] = turnStatus[u] /\ turnThread'[u] = turnThread[u]
    BY <1>3 DEF CreateTurn, TypeOK, RepoTypeOK
  <2> QED
    BY <1>3, <2>1, <2>2 DEF RowsMove, RowStarts, CreateTurn
<1>4. ASSUME NEW t \in Turn, NEW s \in Terminal, FinishTurn(t, s)
      PROVE  RowsMove
  BY <1>4 DEF RowsMove, RowsOnlyEnd, FinishTurn, TypeOK, RepoTypeOK, Terminal
<1>5. ASSUME NEW t \in Turn, NEW s \in Terminal, NEW events, EndTurn(t, s, events)
      PROVE  RowsMove
  BY <1>1, <1>4, <1>5 DEF EndTurn, repoVars
<1>6. ASSUME NEW t \in Turn, NEW i \in Item, AgentItemCreated(t, i) PROVE RowsMove
  BY <1>1, <1>5, <1>6 DEF AgentItemCreated, AddItem, Terminal
<1>7. ASSUME NEW t \in Turn, RunnerReturns(t) \/ RunnerRaises(t) \/ TaskCancelled(t)
      PROVE  RowsMove
  BY <1>5, <1>7 DEF RunnerReturns, RunnerRaises, TaskCancelled, Terminal
<1>8. CASE Initialize \/ Crash \/ Shutdown \/ Stop
  BY <1>1, <1>2, <1>8 DEF Initialize, Crash, Shutdown, Stop, repoVars
<1>9. ASSUME NEW th \in Thread, CreateThreadRequest(th) PROVE RowsMove
  BY <1>1, <1>9 DEF CreateThreadRequest, CreateThread
<1>10. ASSUME NEW th \in Thread, NEW t \in Turn, NEW i \in Item,
              StartTurn(th, t, i) \/ SteerTurn(th, t, i)
       PROVE  RowsMove
  BY <1>1, <1>3, <1>10 DEF StartTurn, SteerTurn, AddItem, repoVars
<1>11. ASSUME NEW t \in Turn,
              \/ WaiterCancelled(t) \/ FirstStep(t) \/ RunnerReceives(t)
              \/ RunnerIgnoresCancel(t) \/ AgentProgressUpdated(t)
              \/ \E th \in Thread : InterruptTurn(th, t)
              \/ \E i \in Item : AgentItemStarted(t, i) \/ AgentMessageDelta(t, i)
       PROVE  RowsMove
  BY <1>1, <1>11 DEF WaiterCancelled, FirstStep, RunnerReceives, RunnerIgnoresCancel,
     AgentProgressUpdated, InterruptTurn, AgentItemStarted, AgentMessageDelta, repoVars
<1>12. CASE UNCHANGED vars
  BY <1>1, <1>12 DEF vars, repoVars
<1>13. CASE KilledStep
  BY <1>1, <1>3, <1>4, <1>13 DEF KilledStep, StartTurnKilled, SteerTurnKilled, AgentItemKilled,
     EndTurnKilled, AddItem, repoVars
<1> QED
  BY <1>6, <1>7, <1>8, <1>9, <1>10, <1>11, <1>12, <1>13 DEF Next, KilledStep

\* Non-terminal events of a turn with an entry are an append, whatever else the
\* step stores, as long as the row stays.
LEMMA AppendOpen ==
    ASSUME TypeOK, LinkInv, NEW t \in Turn, NEW events \in Seq(ThreadEvent),
           running[t] # NoThread, OneRunningTurnPerThread \/ LegacySchema,
           Publish(turnThread[t], events), UNCHANGED <<turnThread, turnStatus>>,
           \A m \in DOMAIN events : events[m].turn = t /\ events[m] \notin TerminalEvents
    PROVE  FeedsGrow
<1>1. turnStatus[t] = "running" /\ turnThread[t] \in Thread
  BY LiveTurn
<1>2. \A u \in Turn \ {t} :
          turnStatus[u] = "running" /\ turnThread[u] = turnThread[t] => LegacySchema
  BY <1>1 DEF OneRunningTurnPerThread
<1>3. Appends(turnThread[t], t, events)
  BY <1>1, <1>2 DEF Appends, Publish
<1> QED
  BY <1>1, <1>3 DEF FeedsGrow

\* What a runner's item announces is not terminal.
LEMMA AnnounceOpen ==
    ASSUME NEW t \in Turn, NEW i \in Item
    PROVE  /\ Announce(t, i) \in Seq(ThreadEvent)
           /\ \A m \in DOMAIN Announce(t, i) :
                 Announce(t, i)[m].turn = t /\ Announce(t, i)[m] \notin TerminalEvents
<1>1. ItemEvent("item.started", t, i) \notin TerminalEvents
  BY TerminalType
<1>2. ItemEvent("item.started", t, i).turn = t
  BY TerminalType
<1>3. CASE i \in started[t]
  BY <1>3, EventType DEF Announce
<1>4. CASE i \notin started[t]
  BY <1>1, <1>2, <1>4, EventType DEF Announce
<1> QED
  BY <1>3, <1>4

\* The same for the announcement followed by one more event of the item.
LEMMA AnnounceThenOpen ==
    ASSUME NEW t \in Turn, NEW i \in Item, NEW type \in {"item.delta", "item.completed"}
    PROVE  LET events == Announce(t, i) \o <<ItemEvent(type, t, i)>> IN
           /\ events \in Seq(ThreadEvent)
           /\ \A m \in DOMAIN events : events[m].turn = t /\ events[m] \notin TerminalEvents
<1> DEFINE events == Announce(t, i) \o <<ItemEvent(type, t, i)>>
<1>1. ItemEvent(type, t, i) \in ThreadEvent
  BY EventType DEF ItemEvents
<1>2. ItemEvent(type, t, i).turn = t /\ ItemEvent(type, t, i) \notin TerminalEvents
  BY TerminalType
<1>3. events \in Seq(ThreadEvent)
  BY <1>1, AnnounceOpen
<1>4. \A m \in DOMAIN events : events[m] = ItemEvent(type, t, i) \/
                               \E n \in DOMAIN Announce(t, i) : events[m] = Announce(t, i)[n]
  BY <1>1, AnnounceOpen
<1> QED
  BY <1>2, <1>3, <1>4, AnnounceOpen

\* The end of a turn appends what the handler had announced and, when the
\* status is stored, the one terminal event.
LEMMA AppendEnd ==
    ASSUME TypeOK, LinkInv, NEW t \in Turn, NEW status \in Terminal,
           NEW events \in Seq(ThreadEvent), EndTurn(t, status, events),
           running[t] # NoThread, OneRunningTurnPerThread \/ LegacySchema,
           \A m \in DOMAIN events : events[m].turn = t /\ events[m] \notin TerminalEvents
    PROVE  FeedsGrow
<1>1. turnStatus[t] = "running" /\ turnThread[t] \in Thread
  BY LiveTurn
<1>2. CASE UNCHANGED repoVars /\ Publish(turnThread[t], events)
  BY <1>2, AppendOpen DEF repoVars
<1>3. CASE FinishTurn(t, status) /\ Publish(turnThread[t], events \o <<Ended(status, t)>>)
  <2> DEFINE last == events \o <<Ended(status, t)>>
  <2>1. /\ turnThread'[t] = turnThread[t] /\ turnStatus'[t] = status
    BY <1>3 DEF FinishTurn, TypeOK, RepoTypeOK
  <2>2. Ended(status, t) \in ThreadEvent /\ Ended(status, t).turn = t
    BY TerminalType DEF Ended, TurnEvent, ThreadEvent, TurnEvents, Terminal
  <2>3. last \in Seq(ThreadEvent) /\ Len(last) = Len(events) + 1
    BY <2>2
  <2>4. \A m \in DOMAIN last : \/ m = Len(last) /\ last[m] = Ended(status, t)
                               \/ m \in DOMAIN events /\ last[m] = events[m]
    BY <2>2, <2>3
  <2>5. \A u \in Turn \ {t} :
            turnStatus[u] = "running" /\ turnThread[u] = turnThread[t] => LegacySchema
    BY <1>1 DEF OneRunningTurnPerThread
  <2>6. \A m \in DOMAIN last : /\ last[m].turn = t
                               /\ last[m] \in TerminalEvents => m = Len(last) /\ last[m] = Ended(status, t)
    BY <2>2, <2>4
  <2>7. published' = [published EXCEPT ![turnThread[t]] = @ \o last]
    BY <1>3 DEF Publish
  <2>8. status # "absent"
    BY DEF Terminal
  <2>9. Appends(turnThread[t], t, last)
    BY <1>1, <2>1, <2>5, <2>6, <2>7, <2>8 DEF Appends
  <2> QED
    BY <1>1, <2>3, <2>9 DEF FeedsGrow
<1> QED
  BY <1>1, <1>2, <1>3 DEF EndTurn

\* What start_turn publishes, all of it or a prefix, is of the turn it creates
\* and not terminal.
LEMMA AppendStart ==
    ASSUME TypeOK, NEW th \in Thread, NEW t \in Turn, NEW i \in Item,
           CreateTurn(t, th, i), NEW n \in 0 .. 3,
           Publish(th, SubSeq(StartEvents(t, i), 1, n))
    PROVE  FeedsGrow
<1> DEFINE first == SubSeq(StartEvents(t, i), 1, n)
<1>1. /\ first \in Seq(ThreadEvent) /\ DOMAIN first = 1 .. n
      /\ \A m \in 1 .. n : first[m] = StartEvents(t, i)[m]
  BY StartPrefix
<1>2. \A m \in 1 .. 3 : /\ StartEvents(t, i)[m].turn = t
                        /\ StartEvents(t, i)[m] \notin TerminalEvents
  <2>1. /\ TurnEvent("turn.started", t).turn = t
        /\ TurnEvent("turn.started", t) \notin TerminalEvents
        /\ \A type \in ItemEvents : /\ ItemEvent(type, t, i).turn = t
                                    /\ ItemEvent(type, t, i) \notin TerminalEvents
    BY TerminalType DEF ItemEvents
  <2>2. /\ StartEvents(t, i)[1] = TurnEvent("turn.started", t)
        /\ StartEvents(t, i)[2] = ItemEvent("item.started", t, i)
        /\ StartEvents(t, i)[3] = ItemEvent("item.completed", t, i)
    BY DEF StartEvents
  <2> QED
    BY <2>1, <2>2 DEF ItemEvents
<1>3. \A m \in DOMAIN first : first[m].turn = t /\ first[m] \notin TerminalEvents
  BY <1>1, <1>2
<1>4. /\ turnStatus[t] = "absent" /\ turnStatus'[t] = "running" /\ turnThread'[t] = th
      /\ IndexAdmits(th)
  BY DEF CreateTurn, TypeOK, RepoTypeOK
<1>5. \A u \in Turn \ {t} : turnStatus[u] = "running" /\ turnThread[u] = th => LegacySchema
  BY <1>4 DEF IndexAdmits
<1>6. published' = [published EXCEPT ![th] = @ \o first]
  BY DEF Publish
<1> HIDE DEF first
<1>7. Appends(th, t, first)
  BY <1>3, <1>4, <1>5, <1>6 DEF Appends
<1> QED
  BY <1>1, <1>7 DEF FeedsGrow

\* The whole is a prefix of itself.
LEMMA WholeStart ==
    ASSUME NEW t \in Turn, NEW i \in Item
    PROVE  SubSeq(StartEvents(t, i), 1, 3) = StartEvents(t, i)
<1>1. StartEvents(t, i) \in Seq(ThreadEvent) /\ Len(StartEvents(t, i)) = 3
  BY EventType DEF StartEvents, ItemEvents
<1>2. /\ SubSeq(StartEvents(t, i), 1, 3) \in Seq(ThreadEvent)
      /\ Len(SubSeq(StartEvents(t, i), 1, 3)) = 3
      /\ \A m \in 1 .. 3 : SubSeq(StartEvents(t, i), 1, 3)[m] = StartEvents(t, i)[m]
  BY <1>1, StartPrefix
<1> QED
  BY <1>1, <1>2, SeqEqual

\* steer_turn announces its message and, once it is stored, completes it.
LEMMA AppendSteer ==
    ASSUME TypeOK, LinkInv, OneRunningTurnPerThread \/ LegacySchema,
           NEW th \in Thread, NEW t \in Turn, NEW i \in Item,
           SteerTurn(th, t, i) \/ SteerTurnKilled(th, t, i)
    PROVE  FeedsGrow
<1> DEFINE one == <<ItemEvent("item.started", t, i)>>
           two == <<ItemEvent("item.started", t, i), ItemEvent("item.completed", t, i)>>
<1>1. \A type \in ItemEvents : /\ ItemEvent(type, t, i).turn = t
                               /\ ItemEvent(type, t, i) \notin TerminalEvents
  BY TerminalType DEF ItemEvents
<1>2. /\ one \in Seq(ThreadEvent)
      /\ \A m \in DOMAIN one : one[m].turn = t /\ one[m] \notin TerminalEvents
  BY <1>1, EventType DEF ItemEvents
<1>3. /\ two \in Seq(ThreadEvent)
      /\ \A m \in DOMAIN two : two[m].turn = t /\ two[m] \notin TerminalEvents
  BY <1>1, EventType DEF ItemEvents
<1>4. running[t] = th /\ th # NoThread
  BY RepoAssumption DEF SteerTurn, SteerTurnKilled, GetRunning
<1>5. turnThread[t] = th
  BY <1>4, LiveTurn
<1>6. UNCHANGED <<turnThread, turnStatus>>
  BY DEF SteerTurn, SteerTurnKilled, AddItem, repoVars
<1>7. Publish(turnThread[t], one) \/ Publish(turnThread[t], two)
  BY <1>5 DEF SteerTurn, SteerTurnKilled
<1> HIDE DEF one, two
<1> QED
  BY <1>2, <1>3, <1>4, <1>6, <1>7, AppendOpen

\* A runner event about an item.
LEMMA AppendItem ==
    ASSUME TypeOK, LinkInv, OneRunningTurnPerThread \/ LegacySchema,
           NEW t \in Turn, NEW i \in Item,
           \/ AgentItemStarted(t, i) \/ AgentMessageDelta(t, i)
           \/ AgentItemCreated(t, i) \/ AgentItemKilled(t, i)
    PROVE  FeedsGrow
<1> DEFINE delta     == Announce(t, i) \o <<ItemEvent("item.delta", t, i)>>
           completed == Announce(t, i) \o <<ItemEvent("item.completed", t, i)>>
<1>1. running[t] # NoThread
  BY DEF AgentItemStarted, AgentMessageDelta, AgentItemCreated, AgentItemKilled, LinkInv,
     TasksAreTracked, Live
<1>2. /\ delta \in Seq(ThreadEvent)
      /\ \A m \in DOMAIN delta : delta[m].turn = t /\ delta[m] \notin TerminalEvents
  BY AnnounceThenOpen
<1>3. /\ completed \in Seq(ThreadEvent)
      /\ \A m \in DOMAIN completed : completed[m].turn = t /\ completed[m] \notin TerminalEvents
  BY AnnounceThenOpen
<1>4. CASE EndTurn(t, "failed", Announce(t, i))
  BY <1>1, <1>4, AppendEnd, AnnounceOpen DEF Terminal
<1>5. CASE ~EndTurn(t, "failed", Announce(t, i))
  <2>1. UNCHANGED <<turnThread, turnStatus>>
    BY <1>5 DEF AgentItemStarted, AgentMessageDelta, AgentItemCreated, AgentItemKilled, AddItem,
       repoVars
  <2>2. \/ Publish(turnThread[t], Announce(t, i))
        \/ Publish(turnThread[t], delta)
        \/ Publish(turnThread[t], completed)
    BY <1>5 DEF AgentItemStarted, AgentMessageDelta, AgentItemCreated, AgentItemKilled
  <2> HIDE DEF delta, completed
  <2> QED
    BY <1>1, <1>2, <1>3, <2>1, <2>2, AppendOpen, AnnounceOpen
<1> QED
  BY <1>4, <1>5

\* Every step leaves the feeds alone or appends events of one turn.
LEMMA FeedStep ==
    ASSUME TypeOK, LinkInv, OneRunningTurnPerThread \/ LegacySchema, [Next]_vars
    PROVE  FeedsGrow
<1>1. CASE UNCHANGED published
  BY <1>1 DEF FeedsGrow
<1>2. ASSUME NEW th \in Thread, NEW t \in Turn, NEW i \in Item,
             StartTurn(th, t, i) \/ SteerTurn(th, t, i)
      PROVE  FeedsGrow
  <2>1. ASSUME StartTurn(th, t, i) PROVE FeedsGrow
    <3>1. CreateTurn(t, th, i) /\ Publish(th, SubSeq(StartEvents(t, i), 1, 3))
      BY <2>1, WholeStart DEF StartTurn
    <3>2. 3 \in 0 .. 3
      OBVIOUS
    <3> QED
      BY <3>1, <3>2, AppendStart
  <2> QED
    BY <1>2, <2>1, AppendSteer
<1>3. ASSUME NEW t \in Turn, AgentProgressUpdated(t) PROVE FeedsGrow
  <2> DEFINE one == <<TurnEvent("turn.progress", t)>>
  <2>1. one \in Seq(ThreadEvent)
    BY DEF TurnEvent, ThreadEvent, TurnEvents
  <2>2. \A m \in DOMAIN one : one[m].turn = t /\ one[m] \notin TerminalEvents
    BY TerminalType
  <2>3. running[t] # NoThread /\ Publish(turnThread[t], one) /\ UNCHANGED <<turnThread, turnStatus>>
    BY <1>3 DEF AgentProgressUpdated, LinkInv, TasksAreTracked, Live, repoVars
  <2> HIDE DEF one
  <2> QED
    BY <2>1, <2>2, <2>3, AppendOpen
<1>4. ASSUME NEW t \in Turn, RunnerReturns(t) \/ RunnerRaises(t) \/ TaskCancelled(t)
      PROVE  FeedsGrow
  <2>1. running[t] # NoThread
    BY <1>4 DEF RunnerReturns, RunnerRaises, TaskCancelled, LinkInv, TasksAreTracked, Live
  <2>2. \E status \in Terminal : EndTurn(t, status, <<>>)
    BY <1>4 DEF RunnerReturns, RunnerRaises, TaskCancelled, Terminal
  <2>3. <<>> \in Seq(ThreadEvent) /\ DOMAIN <<>> = {}
    OBVIOUS
  <2> QED
    BY <2>1, <2>2, <2>3, AppendEnd
<1>5. ASSUME NEW t \in Turn, NEW i \in Item,
             AgentItemStarted(t, i) \/ AgentMessageDelta(t, i) \/ AgentItemCreated(t, i)
      PROVE  FeedsGrow
  BY <1>5, AppendItem
<1>6. CASE Initialize \/ Crash \/ Shutdown \/ Stop
  BY <1>1, <1>6 DEF Initialize, Crash, Shutdown, Stop
<1>7. ASSUME NEW th \in Thread, CreateThreadRequest(th) PROVE FeedsGrow
  BY <1>1, <1>7 DEF CreateThreadRequest, serviceVars
<1>8. ASSUME NEW t \in Turn,
             \/ WaiterCancelled(t) \/ FirstStep(t) \/ RunnerReceives(t) \/ RunnerIgnoresCancel(t)
             \/ \E th \in Thread : InterruptTurn(th, t)
      PROVE  FeedsGrow
  BY <1>1, <1>8 DEF WaiterCancelled, FirstStep, RunnerReceives, RunnerIgnoresCancel, InterruptTurn
<1>9. CASE UNCHANGED vars
  BY <1>1, <1>9 DEF vars, serviceVars
<1>10. CASE KilledStep
  <2>1. ASSUME NEW th \in Thread, NEW t \in Turn, NEW i \in Item, StartTurnKilled(th, t, i)
        PROVE  FeedsGrow
    <3>1. PICK n \in 0 .. 2 : Publish(th, SubSeq(StartEvents(t, i), 1, n))
      BY <2>1 DEF StartTurnKilled
    <3>2. n \in 0 .. 3 /\ CreateTurn(t, th, i)
      BY <2>1 DEF StartTurnKilled
    <3> QED
      BY <3>1, <3>2, AppendStart
  <2>2. ASSUME NEW t \in Turn, NEW status \in Terminal, EndTurnKilled(t, status)
        PROVE  FeedsGrow
    BY <1>1, <2>2 DEF EndTurnKilled
  <2> QED
    BY <1>10, <2>1, <2>2, AppendSteer, AppendItem DEF KilledStep
<1> QED
  BY <1>2, <1>3, <1>4, <1>5, <1>6, <1>7, <1>8, <1>9, <1>10 DEF Next, KilledStep

-----------------------------------------------------------------------------
(* One running turn per thread, and the shape of the feeds.                *)

\* An index of s \o e is one of s or, shifted by Len(s), one of e.
LEMMA ConcatIndex ==
    ASSUME NEW S, NEW s \in Seq(S), NEW e \in Seq(S), NEW j \in DOMAIN (s \o e)
    PROVE  \/ j \in DOMAIN s /\ (s \o e)[j] = s[j]
           \/ /\ j \in Nat /\ j > Len(s) /\ j - Len(s) \in DOMAIN e
              /\ (s \o e)[j] = e[j - Len(s)]
OBVIOUS

\* What rows keep in any step.
LEMMA RowsKept ==
    ASSUME TypeOK, RowsMove, NEW u \in Turn, turnStatus[u] # "absent"
    PROVE  /\ turnThread'[u] = turnThread[u] /\ turnStatus'[u] # "absent"
           /\ turnStatus[u] \in Terminal => turnStatus'[u] = turnStatus[u]
           /\ turnStatus'[u] = "running" => turnStatus[u] = "running"
<1>1. \A x \in Terminal : x # "absent" /\ x # "running"
  BY DEF Terminal
<1>2. CASE RowsOnlyEnd
  BY <1>1, <1>2 DEF RowsOnlyEnd
<1>3. ASSUME NEW t \in Turn, RowStarts(t)
      PROVE  turnThread'[u] = turnThread[u] /\ turnStatus'[u] = turnStatus[u]
  BY <1>3 DEF RowStarts
<1> QED
  BY <1>1, <1>2, <1>3 DEF RowsMove

\* Without the legacy schema the index keeps the turns of a thread apart.
IndexInv == OneRunningTurnPerThread \/ LegacySchema

\* Every step keeps the turns of a thread apart.
LEMMA IndexStep ==
    ASSUME TypeOK, LinkInv, IndexInv, [Next]_vars PROVE IndexInv'
<1> SUFFICES ASSUME ~LegacySchema PROVE OneRunningTurnPerThread'
  BY DEF IndexInv
<1>1. OneRunningTurnPerThread
  BY DEF IndexInv
<1>2. CASE RowsOnlyEnd
  BY <1>1, <1>2 DEF OneRunningTurnPerThread, RowsOnlyEnd, Terminal
<1>3. ASSUME NEW t \in Turn, RowStarts(t) PROVE OneRunningTurnPerThread'
  <2>1. \A u \in Turn \ {t} : ~(turnThread'[u] = turnThread'[t] /\ turnStatus'[u] = "running")
    BY <1>3 DEF RowStarts, IndexAdmits
  <2> QED
    BY <1>1, <1>3, <2>1 DEF RowStarts, OneRunningTurnPerThread
<1> QED
  BY <1>2, <1>3, RowStep DEF RowsMove

\* No turn is stored at first.
LEMMA InitIndex == Init => IndexInv
BY DEF Init, RepoInit, IndexInv, OneRunningTurnPerThread

\* In the feed a step appends to, an index is an old one or one of the events.
LEMMA AppendedIndex ==
    ASSUME TypeOK, NEW th \in Thread, NEW t \in Turn, NEW events \in Seq(ThreadEvent),
           Appends(th, t, events)
    PROVE  /\ \A j \in DOMAIN published'[th] :
                 \/ j \in DOMAIN published[th] /\ published'[th][j] = published[th][j]
                 \/ /\ j \in Nat /\ j > Len(published[th])
                    /\ j - Len(published[th]) \in DOMAIN events
                    /\ published'[th][j] = events[j - Len(published[th])]
                    /\ published'[th][j].turn = t
           /\ \A j \in DOMAIN published[th] : j \in Nat /\ j <= Len(published[th])
           /\ Len(published[th]) \in Nat
           /\ \A th2 \in Thread \ {th} : published'[th2] = published[th2]
           /\ \A th2 \in Thread : \A j \in DOMAIN published[th2] : published[th2][j].turn \in Turn
<1>1. published'[th] = published[th] \o events /\ published[th] \in Seq(ThreadEvent)
  BY DEF Appends, TypeOK
<1>2. \A j \in DOMAIN published'[th] :
         \/ j \in DOMAIN published[th] /\ published'[th][j] = published[th][j]
         \/ /\ j \in Nat /\ j > Len(published[th])
            /\ j - Len(published[th]) \in DOMAIN events
            /\ published'[th][j] = events[j - Len(published[th])]
  BY <1>1, ConcatIndex
<1>3. \A m \in DOMAIN events : events[m].turn = t
  BY DEF Appends
<1>4. \A th2 \in Thread : \A j \in DOMAIN published[th2] : published[th2][j].turn \in Turn
  <2> TAKE th2 \in Thread
  <2> TAKE j \in DOMAIN published[th2]
  <2>1. published[th2][j] \in ThreadEvent
    BY DEF TypeOK
  <2> QED
    BY <2>1 DEF ThreadEvent
<1>5. \A th2 \in Thread \ {th} : published'[th2] = published[th2]
  BY DEF Appends, TypeOK
<1> QED
  BY <1>1, <1>2, <1>3, <1>4, <1>5

\* Every event of a feed is of a stored turn of that thread.
LEMMA FeedThreadStep ==
    ASSUME TypeOK, LinkInv, IndexInv, FeedIsOfItsThread, [Next]_vars
    PROVE  FeedIsOfItsThread'
<1>1. RowsMove /\ FeedsGrow
  BY RowStep, FeedStep DEF IndexInv
<1>2. \A th \in Thread : \A j \in DOMAIN published[th] :
          /\ turnStatus'[published[th][j].turn] # "absent"
          /\ turnThread'[published[th][j].turn] = th
  <2> TAKE th \in Thread
  <2> TAKE j \in DOMAIN published[th]
  <2>1. published[th][j] \in ThreadEvent
    BY DEF TypeOK
  <2>2. published[th][j].turn \in Turn
    BY <2>1 DEF ThreadEvent
  <2> QED
    BY <1>1, <2>2, RowsKept DEF FeedIsOfItsThread
<1>3. CASE published' = published
  BY <1>2, <1>3 DEF FeedIsOfItsThread
<1>4. ASSUME NEW th \in Thread, NEW t \in Turn, NEW events \in Seq(ThreadEvent),
             Appends(th, t, events)
      PROVE  FeedIsOfItsThread'
  <2> SUFFICES ASSUME NEW th2 \in Thread, NEW j \in DOMAIN published'[th2]
               PROVE  /\ turnStatus'[published'[th2][j].turn] # "absent"
                      /\ turnThread'[published'[th2][j].turn] = th2
    BY DEF FeedIsOfItsThread
  <2>1. CASE th2 # th
    BY <1>2, <1>4, <2>1 DEF Appends, TypeOK
  <2>2. CASE th2 = th
    <3>1. \/ j \in DOMAIN published[th] /\ published'[th][j] = published[th][j]
          \/ \E m \in DOMAIN events : published'[th][j] = events[m]
      BY <1>4, <2>2, AppendedIndex
    <3>2. CASE j \in DOMAIN published[th] /\ published'[th][j] = published[th][j]
      BY <1>2, <2>2, <3>2
    <3>3. ASSUME NEW m \in DOMAIN events, published'[th][j] = events[m]
          PROVE  /\ turnStatus'[published'[th][j].turn] # "absent"
                 /\ turnThread'[published'[th][j].turn] = th
      BY <1>4, <3>3 DEF Appends
    <3> QED
      BY <2>2, <3>1, <3>2, <3>3
  <2> QED
    BY <2>1, <2>2
<1> QED
  BY <1>1, <1>3, <1>4 DEF FeedsGrow

\* A terminal event is written once, at the end of its turn's events.
LEMMA TerminalStep ==
    ASSUME TypeOK, LinkInv, IndexInv, FeedIsOfItsThread, TerminalEventIsLast, [Next]_vars
    PROVE  TerminalEventIsLast'
<1>1. RowsMove /\ FeedsGrow
  BY RowStep, FeedStep DEF IndexInv
<1>2. \A th \in Thread : \A j \in DOMAIN published[th] :
          published[th][j] \in TerminalEvents =>
             /\ turnStatus[published[th][j].turn] \in Terminal
             /\ turnStatus'[published[th][j].turn] = turnStatus[published[th][j].turn]
  <2> TAKE th \in Thread
  <2> TAKE j \in DOMAIN published[th]
  <2> HAVE published[th][j] \in TerminalEvents
  <2>1. published[th][j] \in ThreadEvent
    BY DEF TypeOK
  <2>2. published[th][j].turn \in Turn
    BY <2>1 DEF ThreadEvent
  <2>3. turnStatus[published[th][j].turn] \in Terminal
    BY DEF TerminalEventIsLast
  <2> QED
    BY <1>1, <2>2, <2>3, RowsKept DEF Terminal
<1>3. CASE published' = published
  BY <1>2, <1>3 DEF TerminalEventIsLast, TerminalEvents
<1>4. ASSUME NEW th \in Thread, NEW t \in Turn, NEW events \in Seq(ThreadEvent),
             Appends(th, t, events)
      PROVE  TerminalEventIsLast'
  <2> SUFFICES ASSUME NEW th2 \in Thread, NEW j \in DOMAIN published'[th2],
                      published'[th2][j] \in TerminalEvents
               PROVE  /\ \A k \in DOMAIN published'[th2] :
                            k > j => published'[th2][k].turn # published'[th2][j].turn
                      /\ turnStatus'[published'[th2][j].turn] \in Terminal
                      /\ published'[th2][j] = Ended(turnStatus'[published'[th2][j].turn],
                                                    published'[th2][j].turn)
    BY DEF TerminalEventIsLast, TerminalEvents
  <2>1. CASE th2 # th
    <3>1. published'[th2] = published[th2]
      BY <1>4, <2>1, AppendedIndex
    <3> QED
      BY <1>2, <3>1 DEF TerminalEventIsLast
  <2>2. CASE th2 = th /\ j \in DOMAIN published[th] /\ published'[th][j] = published[th][j]
    <3>1. \A k \in DOMAIN published'[th] : k > j => published'[th][k].turn # published'[th][j].turn
      <4> TAKE k \in DOMAIN published'[th]
      <4> HAVE k > j
      <4>1. CASE k \in DOMAIN published[th] /\ published'[th][k] = published[th][k]
        <5>1. published[th][j] \in TerminalEvents
          BY <2>2 DEF TerminalEvents
        <5>2. published[th][k].turn # published[th][j].turn
          BY <2>2, <4>1, <5>1 DEF TerminalEventIsLast
        <5> QED
          BY <2>2, <4>1, <5>2
      <4>2. CASE published'[th][k].turn = t
        <5>1. turnStatus[t] = "running" \/ turnStatus[t] = "absent"
          BY <1>4 DEF Appends
        <5>2. turnStatus[published[th][j].turn] \in Terminal
          BY <1>2, <2>2
        <5> QED
          BY <2>2, <4>2, <5>1, <5>2 DEF Terminal
      <4>3. \/ k \in DOMAIN published[th] /\ published'[th][k] = published[th][k]
            \/ /\ k - Len(published[th]) \in DOMAIN events
               /\ published'[th][k] = events[k - Len(published[th])]
        BY <1>4, AppendedIndex
      <4>4. \A m \in DOMAIN events : events[m].turn = t
        BY <1>4 DEF Appends
      <4> QED
        BY <4>1, <4>2, <4>3, <4>4
    <3> QED
      BY <1>2, <2>2, <3>1 DEF TerminalEventIsLast
  <2>3. CASE /\ th2 = th /\ j \in Nat /\ j > Len(published[th])
             /\ j - Len(published[th]) \in DOMAIN events
             /\ published'[th][j] = events[j - Len(published[th])]
    <3> DEFINE m == j - Len(published[th])
    <3>1. m = Len(events) /\ turnStatus'[t] \in Terminal /\ events[m] = Ended(turnStatus'[t], t)
      BY <1>4, <2>3 DEF Appends
    <3>2. published'[th][j].turn = t
      BY <1>4, <2>3 DEF Appends
    <3>3. ~ \E k \in DOMAIN published'[th] : k > j
      <4> SUFFICES ASSUME NEW k \in DOMAIN published'[th], k > j PROVE FALSE
        OBVIOUS
      <4>1. Len(published[th]) \in Nat /\ Len(events) \in Nat /\ DOMAIN events = 1 .. Len(events)
        BY <1>4, AppendedIndex
      <4>2. k \in Nat /\ k - Len(published[th]) \in DOMAIN events
        BY <1>4, <2>3, AppendedIndex
      <4> QED
        BY <2>3, <3>1, <4>1, <4>2
    <3> QED
      BY <2>3, <3>1, <3>2, <3>3
  <2> QED
    BY <1>4, <2>1, <2>2, <2>3, AppendedIndex
<1> QED
  BY <1>1, <1>3, <1>4 DEF FeedsGrow

\* When a turn publishes, every other turn of the thread is over: at most one
\* runs, and a turn that is over never runs again.
LEMMA SupersededStep ==
    ASSUME ~LegacySchema, TypeOK, LinkInv, IndexInv, FeedIsOfItsThread, SupersededHasEnded,
           [Next]_vars
    PROVE  SupersededHasEnded'
<1>1. RowsMove /\ FeedsGrow
  BY RowStep, FeedStep DEF IndexInv
<1>2. \A th \in Thread : \A j \in DOMAIN published[th] :
          /\ published[th][j].turn \in Turn
          /\ turnStatus'[published[th][j].turn] = "running"
                => turnStatus[published[th][j].turn] = "running"
  <2> TAKE th \in Thread
  <2> TAKE j \in DOMAIN published[th]
  <2>1. published[th][j] \in ThreadEvent
    BY DEF TypeOK
  <2>2. published[th][j].turn \in Turn
    BY <2>1 DEF ThreadEvent
  <2> QED
    BY <1>1, <2>2, RowsKept DEF FeedIsOfItsThread
<1>3. CASE published' = published
  BY <1>2, <1>3 DEF SupersededHasEnded
<1>4. ASSUME NEW th \in Thread, NEW t \in Turn, NEW events \in Seq(ThreadEvent),
             Appends(th, t, events)
      PROVE  SupersededHasEnded'
  <2> SUFFICES ASSUME NEW th2 \in Thread, NEW j \in DOMAIN published'[th2],
                      NEW k \in DOMAIN published'[th2], j < k,
                      published'[th2][j].turn # published'[th2][k].turn
               PROVE  turnStatus'[published'[th2][j].turn] # "running"
    BY DEF SupersededHasEnded
  <2>1. CASE th2 # th
    <3>1. published'[th2] = published[th2]
      BY <1>4, <2>1, AppendedIndex
    <3> QED
      BY <1>2, <3>1 DEF SupersededHasEnded
  <2>2. CASE /\ th2 = th /\ j \in DOMAIN published[th] /\ k \in DOMAIN published[th]
             /\ published'[th][j] = published[th][j] /\ published'[th][k] = published[th][k]
    BY <1>2, <2>2 DEF SupersededHasEnded
  <2>3. CASE /\ th2 = th /\ j \in DOMAIN published[th] /\ published'[th][j] = published[th][j]
             /\ published'[th][k].turn = t
    <3>1. published[th][j].turn \in Turn \ {t} /\ turnThread[published[th][j].turn] = th
      BY <1>2, <2>3 DEF FeedIsOfItsThread
    <3>2. turnStatus[published[th][j].turn] # "running"
      BY <1>4, <3>1 DEF Appends
    <3> QED
      BY <1>2, <2>3, <3>2
  <2>4. CASE /\ th2 = th /\ j > Len(published[th]) /\ j \in Nat /\ published'[th][j].turn = t
    <3>1. k \in DOMAIN published[th] => k \in Nat /\ k <= Len(published[th])
      BY <1>4, AppendedIndex
    <3>2. k \in Nat /\ published'[th][k].turn = t
      BY <1>4, <2>4, <3>1, AppendedIndex
    <3> QED
      BY <2>4, <3>2
  <2> QED
    BY <1>4, <2>1, <2>2, <2>3, <2>4, AppendedIndex
<1> QED
  BY <1>1, <1>3, <1>4 DEF FeedsGrow

\* The events of two turns of a thread never interleave: a turn that publishes
\* is running or new, so nothing has superseded it.
LEMMA InterleaveStep ==
    ASSUME ~LegacySchema, TypeOK, LinkInv, IndexInv, FeedIsOfItsThread, SupersededHasEnded,
           TurnsDoNotInterleave, [Next]_vars
    PROVE  TurnsDoNotInterleave'
<1>1. FeedsGrow
  BY FeedStep DEF IndexInv
<1>2. CASE published' = published
  BY <1>2 DEF TurnsDoNotInterleave
<1>3. ASSUME NEW th \in Thread, NEW t \in Turn, NEW events \in Seq(ThreadEvent),
             Appends(th, t, events)
      PROVE  TurnsDoNotInterleave'
  <2> SUFFICES ASSUME NEW th2 \in Thread, NEW i \in DOMAIN published'[th2],
                      NEW j \in DOMAIN published'[th2], NEW k \in DOMAIN published'[th2],
                      i < j, j < k, published'[th2][i].turn = published'[th2][k].turn
               PROVE  published'[th2][j].turn = published'[th2][i].turn
    BY DEF TurnsDoNotInterleave
  <2>1. CASE th2 # th
    <3>1. published'[th2] = published[th2]
      BY <1>3, <2>1, AppendedIndex
    <3> QED
      BY <3>1 DEF TurnsDoNotInterleave
  <2> DEFINE Old(x) == x \in DOMAIN published[th] /\ published'[th][x] = published[th][x]
             New(x) == x \in Nat /\ x > Len(published[th]) /\ published'[th][x].turn = t
  <2>2. \A x \in DOMAIN published'[th] : Old(x) \/ New(x)
    BY <1>3, AppendedIndex
  <2>3. \A x : Old(x) => x \in Nat /\ x <= Len(published[th])
    BY <1>3, AppendedIndex
  <2>4. Len(published[th]) \in Nat
    BY <1>3, AppendedIndex
  <2>5. CASE th2 = th /\ Old(k)
    <3>1. Old(i) /\ Old(j)
      BY <2>2, <2>3, <2>4, <2>5
    <3> QED
      BY <2>5, <3>1 DEF TurnsDoNotInterleave
  <2>6. CASE th2 = th /\ New(k) /\ Old(i) /\ Old(j)
    <3>1. published[th][i].turn = t
      BY <2>6
    <3>2. turnStatus[t] = "running"
      BY <1>3, <2>6, <3>1 DEF Appends, FeedIsOfItsThread
    <3> QED
      BY <2>6, <3>1, <3>2 DEF SupersededHasEnded
  <2>7. CASE th2 = th /\ New(k) /\ New(j)
    BY <2>7
  <2>8. CASE th2 = th /\ New(i)
    <3>1. New(j)
      BY <2>2, <2>3, <2>4, <2>8
    <3> QED
      BY <2>8, <3>1
  <2> QED
    BY <2>1, <2>2, <2>5, <2>6, <2>7, <2>8
<1> QED
  BY <1>1, <1>2, <1>3 DEF FeedsGrow

\* Nothing has been published when the process starts for the first time.
LEMMA InitFeed ==
    Init => FeedIsOfItsThread /\ TerminalEventIsLast /\ SupersededHasEnded /\ TurnsDoNotInterleave
BY DEF Init, FeedIsOfItsThread, TerminalEventIsLast, SupersededHasEnded, TurnsDoNotInterleave

\* README.md:5: at most one turn of a thread is running, if the file has the index.
THEOREM OneRunningCorrect ==
    ASSUME ~LegacySchema PROVE Spec => []OneRunningTurnPerThread
<1>1. Init => TypeOK /\ LinkInv /\ IndexInv
  BY InitType, InitLinks, InitIndex
<1>2. TypeOK /\ LinkInv /\ IndexInv /\ [Next]_vars => TypeOK' /\ LinkInv' /\ IndexInv'
  BY TypeStep, LinkStep, IndexStep
<1>3. IndexInv => OneRunningTurnPerThread
  BY DEF IndexInv
<1> QED
  BY <1>1, <1>2, <1>3, PTL DEF Spec

\* After a turn's terminal event comes nothing of it, and the event names the
\* status that is stored.  This needs no assumption on the schema.
THEOREM TerminalCorrect == Spec => []TerminalEventIsLast
<1> DEFINE I == TypeOK /\ LinkInv /\ IndexInv /\ FeedIsOfItsThread /\ TerminalEventIsLast
<1>1. Init => I
  BY InitType, InitLinks, InitIndex, InitFeed
<1>2. I /\ [Next]_vars => I'
  BY TypeStep, LinkStep, IndexStep, FeedThreadStep, TerminalStep
<1> QED
  BY <1>1, <1>2, PTL DEF Spec

\* The events of two turns of a thread never interleave, across any sequence of
\* requests, runner events, crashes and restarts.
THEOREM NoInterleavingCorrect ==
    ASSUME ~LegacySchema PROVE Spec => []TurnsDoNotInterleave
<1> DEFINE I == /\ TypeOK /\ LinkInv /\ IndexInv /\ FeedIsOfItsThread
                /\ SupersededHasEnded /\ TurnsDoNotInterleave
<1>1. Init => I
  BY InitType, InitLinks, InitIndex, InitFeed
<1>2. I /\ [Next]_vars => I'
  BY TypeStep, LinkStep, IndexStep, FeedThreadStep, SupersededStep, InterleaveStep
<1> QED
  BY <1>1, <1>2, PTL DEF Spec

\* The inductive invariant as a whole.
THEOREM ServiceCorrect ==
    ASSUME ~LegacySchema PROVE Spec => []ServiceInv
<1>1. StateInv /\ OneRunningTurnPerThread /\ TerminalEventIsLast /\ TurnsDoNotInterleave
        /\ FeedIsOfItsThread /\ SupersededHasEnded => ServiceInv
  BY DEF ServiceInv, FeedInv
<1> DEFINE I == /\ TypeOK /\ LinkInv /\ IndexInv /\ FeedIsOfItsThread /\ SupersededHasEnded
<1>2. Init => I
  BY InitType, InitLinks, InitIndex, InitFeed
<1>3. I /\ [Next]_vars => I'
  BY TypeStep, LinkStep, IndexStep, FeedThreadStep, SupersededStep
<1>4. I => FeedIsOfItsThread /\ SupersededHasEnded
  OBVIOUS
<1> HIDE DEF I
<1> QED
  BY <1>1, <1>2, <1>3, <1>4, StateCorrect, OneRunningCorrect, TerminalCorrect,
     NoInterleavingCorrect, PTL DEF Spec

-----------------------------------------------------------------------------
(* The service against its two specifications: it uses the repository as   *)
(* RepoSpec says, so the theorems about the tables hold of the whole       *)
(* service, and it implements TurnLedger.                                  *)

\* What a step of the service may do to the tables.  An item only ever joins a
\* running turn, in the thread of that turn.
ServiceWrites ==
    \/ RecoverRunningTurns
    \/ \E th \in Thread : CreateThread(th)
    \/ \E t \in Turn, th \in Thread, i \in Item : CreateTurn(t, th, i)
    \/ \E t \in Turn, i \in Item : /\ turnStatus[t] = "running"
                                   /\ turnThread[t] \in Thread
                                   /\ AddItem(i, turnThread[t], t)
    \/ \E t \in Turn, s \in Terminal : FinishTurn(t, s)
    \/ UNCHANGED repoVars

\* The end of a turn finishes its row or leaves the tables alone.
LEMMA EndWrites ==
    ASSUME NEW t \in Turn, NEW s \in Terminal, NEW events, EndTurn(t, s, events)
    PROVE  ServiceWrites
BY DEF EndTurn, ServiceWrites

\* Every step of the service is one write, or none.
LEMMA ServiceStep ==
    ASSUME TypeOK, LinkInv, [Next]_vars PROVE ServiceWrites
<1>1. CASE Initialize \/ Crash \/ Shutdown \/ Stop
  BY <1>1 DEF Initialize, Crash, Shutdown, Stop, ServiceWrites
<1>2. ASSUME NEW th \in Thread, CreateThreadRequest(th) PROVE ServiceWrites
  BY <1>2 DEF CreateThreadRequest, ServiceWrites
<1>3. ASSUME NEW th \in Thread, NEW t \in Turn, NEW i \in Item, StartTurn(th, t, i)
      PROVE  ServiceWrites
  BY <1>3 DEF StartTurn, ServiceWrites
<1>4. ASSUME NEW th \in Thread, NEW t \in Turn, NEW i \in Item, SteerTurn(th, t, i)
      PROVE  ServiceWrites
  <2>1. th # NoThread
    BY RepoAssumption
  <2>2. turnStatus[t] = "running" /\ turnThread[t] = th
    BY <1>4, <2>1, LiveTurn DEF SteerTurn, GetRunning
  <2> QED
    BY <1>4, <2>2 DEF SteerTurn, ServiceWrites
<1>5. ASSUME NEW t \in Turn, NEW i \in Item, AgentItemCreated(t, i)
      PROVE  ServiceWrites
  <2>1. CASE AddItem(i, turnThread[t], t)
    <3>1. running[t] # NoThread
      BY <1>5 DEF AgentItemCreated, LinkInv, TasksAreTracked, Live
    <3>2. turnStatus[t] = "running" /\ turnThread[t] \in Thread
      BY <3>1, LiveTurn
    <3> QED
      BY <2>1, <3>2 DEF ServiceWrites
  <2>2. CASE EndTurn(t, "failed", Announce(t, i))
    BY <2>2, EndWrites DEF Terminal
  <2> QED
    BY <1>5, <2>1, <2>2 DEF AgentItemCreated
<1>6. ASSUME NEW t \in Turn, RunnerReturns(t) \/ RunnerRaises(t) \/ TaskCancelled(t)
      PROVE  ServiceWrites
  BY <1>6, EndWrites DEF RunnerReturns, RunnerRaises, TaskCancelled, Terminal
<1>7. ASSUME NEW t \in Turn,
             \/ WaiterCancelled(t) \/ FirstStep(t) \/ RunnerReceives(t)
             \/ RunnerIgnoresCancel(t) \/ AgentProgressUpdated(t)
             \/ \E th \in Thread : InterruptTurn(th, t)
             \/ \E i \in Item : AgentItemStarted(t, i) \/ AgentMessageDelta(t, i)
      PROVE  ServiceWrites
  BY <1>7 DEF WaiterCancelled, FirstStep, RunnerReceives, RunnerIgnoresCancel,
     AgentProgressUpdated, InterruptTurn, AgentItemStarted, AgentMessageDelta, ServiceWrites
<1>8. CASE UNCHANGED vars
  BY <1>8 DEF vars, ServiceWrites
<1>9. ASSUME NEW th \in Thread, NEW t \in Turn, NEW i \in Item,
             StartTurnKilled(th, t, i) \/ SteerTurnKilled(th, t, i)
      PROVE  ServiceWrites
  <2>1. CASE StartTurnKilled(th, t, i)
    BY <2>1 DEF StartTurnKilled, ServiceWrites
  <2>2. CASE SteerTurnKilled(th, t, i)
    <3>1. th # NoThread
      BY RepoAssumption
    <3>2. turnStatus[t] = "running" /\ turnThread[t] = th
      BY <2>2, <3>1, LiveTurn DEF SteerTurnKilled, GetRunning
    <3> QED
      BY <2>2, <3>2 DEF SteerTurnKilled, ServiceWrites
  <2> QED
    BY <1>9, <2>1, <2>2
<1>10. ASSUME NEW t \in Turn, NEW i \in Item, AgentItemKilled(t, i) PROVE ServiceWrites
  <2>1. running[t] # NoThread
    BY <1>10 DEF AgentItemKilled, LinkInv, TasksAreTracked, Live
  <2>2. turnStatus[t] = "running" /\ turnThread[t] \in Thread
    BY <2>1, LiveTurn
  <2> QED
    BY <1>10, <2>2 DEF AgentItemKilled, ServiceWrites
<1>11. ASSUME NEW t \in Turn, NEW status \in Terminal, EndTurnKilled(t, status)
       PROVE  ServiceWrites
  BY <1>11 DEF EndTurnKilled, ServiceWrites
<1> QED
  BY <1>1, <1>2, <1>3, <1>4, <1>5, <1>6, <1>7, <1>8, <1>9, <1>10, <1>11 DEF Next

\* The service calls the repository only as RepoSpec allows.
THEOREM ServiceUsesRepository == Spec => RepoSpec
<1>1. Init => RepoInit
  BY DEF Init
<1>2. TypeOK /\ LinkInv /\ [Next]_vars => [RepoNext]_repoVars
  BY ServiceStep DEF ServiceWrites, RepoNext
<1>3. StateInv => TypeOK /\ LinkInv
  BY DEF StateInv, LinkInv
<1> QED
  BY <1>1, <1>2, <1>3, StateCorrect, PTL DEF Spec, RepoSpec

\* No crash, storage fault or misbehaving runner leaves a row without its
\* parents, or a turn without the message that started it.
THEOREM ServiceRowsConnected == Spec => []RowsAreConnected
BY ServiceUsesRepository, RowsConnectedCorrect, PTL

\* Nor does any of them change a turn that has ended or an item that is stored.
THEOREM ServiceHistoryFinal == Spec => HistoryIsFinal
BY ServiceUsesRepository, HistoryFinalCorrect, PTL

-----------------------------------------------------------------------------
(* The refinement of TurnLedger.                                           *)

\* With one running turn per thread, the choice in OpenTurn is that turn.
LEMMA OpenIsRunning ==
    ASSUME OneRunningTurnPerThread, NEW t \in Turn, turnStatus[t] = "running"
    PROVE  OpenTurn(turnThread[t]) = t
<1>1. RunningOf(turnThread[t]) = {t}
  BY DEF OneRunningTurnPerThread, RunningOf
<1> QED
  BY <1>1 DEF OpenTurn, RunningOf

\* A thread whose running turns stay keeps its open turn.
LEMMA OpenStays ==
    ASSUME NEW th \in Thread, RunningOf(th)' = RunningOf(th)
    PROVE  OpenTurn(th)' = OpenTurn(th)
BY DEF OpenTurn

\* A thread is open exactly when it has a running turn.
LEMMA OpenTurnIs ==
    ASSUME NEW th \in Thread
    PROVE  /\ RunningOf(th) = {} => OpenTurn(th) = NoTurn
           /\ RunningOf(th) # {} => OpenTurn(th) \in RunningOf(th)
BY DEF OpenTurn

OpenMap    == [th \in Thread |-> OpenTurn(th)]
OutcomeMap == [t \in Turn |-> IF turnStatus[t] \in Terminal THEN turnStatus[t] ELSE "none"]
EntriesMap == [t \in Turn |-> {i \in Item : itemTurn[i] = t}]

\* create_turn opens a turn of a thread that has none.
LEMMA OpenStep ==
    ASSUME TypeOK, ~LegacySchema, RowsAreConnected, OneRunningTurnPerThread,
           NEW t \in Turn, NEW th \in Thread, NEW i \in Item, CreateTurn(t, th, i)
    PROVE  Ledger!Open(th, t, i)
<1> USE DEF TypeOK, RepoTypeOK
<1>1. RunningOf(th) = {}
  BY DEF CreateTurn, IndexAdmits, RunningOf
<1>2. OpenMap[th] = NoTurn
  BY <1>1, OpenTurnIs DEF OpenMap
<1>3. OutcomeMap[t] = "none" /\ EntriesMap[t] = {}
  <2>1. OutcomeMap[t] = "none"
    BY DEF CreateTurn, OutcomeMap, Terminal
  <2>2. \A j \in Item : itemTurn[j] # t
    BY RepoAssumption DEF CreateTurn, RowsAreConnected
  <2> QED
    BY <2>1, <2>2 DEF EntriesMap
<1>4. \A u \in Turn : i \notin EntriesMap[u]
  BY RepoAssumption DEF CreateTurn, EntriesMap
<1>5. OpenMap' = [OpenMap EXCEPT ![th] = t]
  <2>1. RunningOf(th)' = {t}
    BY <1>1 DEF CreateTurn, RunningOf
  <2>2. OpenTurn(th)' = t
    BY <2>1 DEF OpenTurn
  <2>3. \A o \in Thread \ {th} : OpenTurn(o)' = OpenTurn(o)
    <3> TAKE o \in Thread \ {th}
    <3>1. RunningOf(o)' = RunningOf(o)
      BY DEF CreateTurn, RunningOf
    <3> QED
      BY <3>1, OpenStays
  <2> QED
    BY <2>2, <2>3 DEF OpenMap
<1>6. EntriesMap' = [EntriesMap EXCEPT ![t] = {i}]
  <2>1. \A u \in Turn : {j \in Item : itemTurn'[j] = u} = IF u = t THEN {i} ELSE EntriesMap[u]
    BY <1>3, RepoAssumption DEF CreateTurn, EntriesMap
  <2> QED
    BY <2>1 DEF EntriesMap
<1>7. OutcomeMap' = OutcomeMap
  BY DEF CreateTurn, OutcomeMap, Terminal
<1> QED
  BY <1>2, <1>3, <1>4, <1>5, <1>6, <1>7
     DEF Ledger!Open, Ledger!Fresh, OpenMap, OutcomeMap, EntriesMap

\* add_item records an item in the open turn of its thread.
LEMMA RecordStep ==
    ASSUME TypeOK, OneRunningTurnPerThread, NEW t \in Turn, NEW i \in Item,
           NEW th \in Thread, turnThread[t] = th, turnStatus[t] = "running", AddItem(i, th, t)
    PROVE  Ledger!Record(th, i)
<1> USE DEF TypeOK, RepoTypeOK
<1>1. OpenMap[th] = t
  BY OpenIsRunning DEF OpenMap
<1>2. \A u \in Turn : i \notin EntriesMap[u]
  BY RepoAssumption DEF AddItem, EntriesMap
<1>3. EntriesMap' = [EntriesMap EXCEPT ![t] = @ \cup {i}]
  <2>1. \A u \in Turn : {j \in Item : itemTurn'[j] = u}
                          = IF u = t THEN EntriesMap[t] \cup {i} ELSE EntriesMap[u]
    BY RepoAssumption DEF AddItem, EntriesMap
  <2> QED
    BY <2>1 DEF EntriesMap
<1>4. OpenMap' = OpenMap /\ OutcomeMap' = OutcomeMap
  <2>1. \A o \in Thread : OpenTurn(o)' = OpenTurn(o)
    <3> TAKE o \in Thread
    <3>1. RunningOf(o)' = RunningOf(o)
      BY DEF AddItem, RunningOf
    <3> QED
      BY <3>1, OpenStays
  <2> QED
    BY <2>1 DEF AddItem, OpenMap, OutcomeMap
<1>5. t # NoTurn
  BY RepoAssumption
<1> QED
  BY <1>1, <1>2, <1>3, <1>4, <1>5
     DEF Ledger!Record, Ledger!Fresh, OpenMap, OutcomeMap, EntriesMap

\* finish_turn closes the open turn of its thread with its status.
LEMMA CloseStep ==
    ASSUME TypeOK, OneRunningTurnPerThread, NEW t \in Turn, NEW s \in Terminal,
           NEW th \in Thread, turnThread[t] = th, FinishTurn(t, s)
    PROVE  Ledger!Close(th, s)
<1> USE DEF TypeOK, RepoTypeOK
<1>1. OpenMap[th] = t /\ RunningOf(th) = {t}
  BY OpenIsRunning DEF OpenMap, FinishTurn, RunningOf, OneRunningTurnPerThread
<1>2. OpenMap' = [OpenMap EXCEPT ![th] = NoTurn]
  <2>1. RunningOf(th)' = {}
    BY <1>1 DEF FinishTurn, RunningOf, Terminal
  <2>2. OpenTurn(th)' = NoTurn
    BY <2>1 DEF OpenTurn
  <2>3. \A o \in Thread \ {th} : OpenTurn(o)' = OpenTurn(o)
    <3> TAKE o \in Thread \ {th}
    <3>1. RunningOf(o)' = RunningOf(o)
      BY DEF FinishTurn, RunningOf
    <3> QED
      BY <3>1, OpenStays
  <2> QED
    BY <2>2, <2>3 DEF OpenMap
<1>3. OutcomeMap' = [OutcomeMap EXCEPT ![t] = s]
  BY DEF FinishTurn, OutcomeMap, Terminal
<1>4. EntriesMap' = EntriesMap
  BY DEF FinishTurn, EntriesMap
<1>5. t # NoTurn
  BY RepoAssumption
<1> QED
  BY <1>1, <1>2, <1>3, <1>4, <1>5 DEF Ledger!Close, OpenMap, OutcomeMap, EntriesMap

\* The recovery at start closes whatever is open.
LEMMA CloseAllStep ==
    ASSUME TypeOK, OneRunningTurnPerThread, RowsAreConnected, RecoverRunningTurns
    PROVE  Ledger!CloseAll
<1> USE DEF TypeOK, RepoTypeOK
<1>1. OpenMap' = [th \in Thread |-> NoTurn]
  <2>1. \A th \in Thread : RunningOf(th)' = {}
    BY DEF RecoverRunningTurns, RunningOf
  <2>2. \A th \in Thread : OpenTurn(th)' = NoTurn
    BY <2>1 DEF OpenTurn
  <2> QED
    BY <2>2 DEF OpenMap
<1>2. \A t \in Turn : turnStatus[t] = "running" <=> \E th \in Thread : OpenMap[th] = t
  <2> TAKE t \in Turn
  <2>1. ASSUME turnStatus[t] = "running" PROVE \E th \in Thread : OpenMap[th] = t
    <3>1. turnThread[t] \in Thread
      BY <2>1 DEF RowsAreConnected
    <3> QED
      BY <2>1, <3>1, OpenIsRunning DEF OpenMap
  <2>2. ASSUME NEW th \in Thread, OpenMap[th] = t PROVE turnStatus[t] = "running"
    <3>1. OpenTurn(th) = t /\ t # NoTurn
      BY <2>2, RepoAssumption DEF OpenMap
    <3>2. OpenTurn(th) \in RunningOf(th)
      BY <3>1, OpenTurnIs
    <3> QED
      BY <3>1, <3>2 DEF RunningOf
  <2> QED
    BY <2>1, <2>2
<1>3. OutcomeMap' = [t \in Turn |-> IF \E th \in Thread : OpenMap[th] = t
                                     THEN "interrupted" ELSE OutcomeMap[t]]
  <2>1. OutcomeMap' = [t \in Turn |-> IF turnStatus[t] = "running"
                                       THEN "interrupted" ELSE OutcomeMap[t]]
    BY DEF RecoverRunningTurns, OutcomeMap, Terminal
  <2> QED
    BY <1>2, <2>1
<1>4. EntriesMap' = EntriesMap
  BY DEF RecoverRunningTurns, EntriesMap
<1> QED
  BY <1>1, <1>3, <1>4 DEF Ledger!CloseAll, OpenMap, OutcomeMap, EntriesMap

\* A step that changes neither turns nor items leaves the ledger as it is.
LEMMA LedgerStays ==
    ASSUME UNCHANGED <<turnThread, turnStatus, itemTurn>>
    PROVE  UNCHANGED Ledger!ledger
<1>1. \A th \in Thread : OpenTurn(th)' = OpenTurn(th)
  <2> TAKE th \in Thread
  <2>1. RunningOf(th)' = RunningOf(th)
    BY DEF RunningOf
  <2> QED
    BY <2>1, OpenStays
<1> QED
  BY <1>1 DEF Ledger!ledger

\* Every step of the service is a step of the ledger or leaves it alone.
LEMMA LedgerStep ==
    ASSUME TypeOK, LinkInv, ~LegacySchema, OneRunningTurnPerThread, RowsAreConnected,
           [Next]_vars
    PROVE  [Ledger!LedgerNext]_(Ledger!ledger)
<1>1. CASE RecoverRunningTurns
  BY <1>1, CloseAllStep DEF Ledger!LedgerNext
<1>2. ASSUME NEW th \in Thread, CreateThread(th) PROVE UNCHANGED Ledger!ledger
  BY <1>2, LedgerStays DEF CreateThread
<1>3. ASSUME NEW t \in Turn, NEW th \in Thread, NEW i \in Item, CreateTurn(t, th, i)
      PROVE  Ledger!LedgerNext
  BY <1>3, OpenStep DEF Ledger!LedgerNext
<1>4. ASSUME NEW t \in Turn, NEW i \in Item, turnStatus[t] = "running",
             turnThread[t] \in Thread, AddItem(i, turnThread[t], t)
      PROVE  Ledger!LedgerNext
  <2>1. PICK th \in Thread : th = turnThread[t]
    BY <1>4
  <2>2. AddItem(i, th, t)
    BY <1>4, <2>1 DEF AddItem
  <2> QED
    BY <1>4, <2>1, <2>2, RecordStep DEF Ledger!LedgerNext
<1>5. ASSUME NEW t \in Turn, NEW s \in Terminal, FinishTurn(t, s)
      PROVE  Ledger!LedgerNext
  <2>1. PICK th \in Thread : th = turnThread[t]
    BY <1>5 DEF FinishTurn, RowsAreConnected, TypeOK, RepoTypeOK
  <2>2. s \in Ledger!Outcome
    BY DEF Terminal, Ledger!Outcome
  <2> QED
    BY <1>5, <2>1, <2>2, CloseStep DEF Ledger!LedgerNext
<1>6. CASE UNCHANGED repoVars
  BY <1>6, LedgerStays DEF repoVars
<1> QED
  BY <1>1, <1>2, <1>3, <1>4, <1>5, <1>6, ServiceStep DEF ServiceWrites

\* With the index in the file the service, its tasks, crashes, storage faults
\* and misbehaving runners keep the ledger of turns.
THEOREM ServiceKeepsLedger ==
    ASSUME ~LegacySchema PROVE Spec => KeepsLedger
<1>1. Init => Ledger!LedgerInit
  <2> SUFFICES ASSUME Init PROVE Ledger!LedgerInit
    OBVIOUS
  <2>1. \A th \in Thread : RunningOf(th) = {}
    BY DEF Init, RepoInit, RunningOf
  <2>2. OpenMap = [th \in Thread |-> NoTurn]
    BY <2>1 DEF OpenMap, OpenTurn
  <2>3. OutcomeMap = [t \in Turn |-> "none"]
    BY DEF Init, RepoInit, OutcomeMap, Terminal
  <2>4. EntriesMap = [t \in Turn |-> {}]
    BY RepoAssumption DEF Init, RepoInit, EntriesMap
  <2> QED
    BY <2>2, <2>3, <2>4 DEF Ledger!LedgerInit, OpenMap, OutcomeMap, EntriesMap
<1>2. TypeOK /\ LinkInv /\ OneRunningTurnPerThread /\ RowsAreConnected /\ [Next]_vars
        => [Ledger!LedgerNext]_(Ledger!ledger)
  BY LedgerStep
<1>3. StateInv => TypeOK /\ LinkInv
  BY DEF StateInv, LinkInv
<1> QED
  BY <1>1, <1>2, <1>3, StateCorrect, OneRunningCorrect, ServiceRowsConnected, PTL
     DEF Spec, KeepsLedger, Ledger!LedgerSpec

-----------------------------------------------------------------------------
(* Announced and stored: the items table against the feeds under every     *)
(* fault, the turns that run against their tasks, the turns that ended     *)
(* against the events of their ends, and the life of each item.            *)

Completes(e) == e.type = "item.completed"

\* A step that stores no item announces none as completed.
StoresNothing ==
    /\ UNCHANGED <<itemThread, itemTurn>>
    /\ \/ UNCHANGED published
       \/ \E th \in Thread, events \in Seq(ThreadEvent) :
             /\ Publish(th, events)
             /\ \A m \in DOMAIN events : ~Completes(events[m])

\* A step that stores an item announces it, and no other, where it stores it.
StoresOne ==
    \E th \in Thread, t \in Turn, i \in Item, events \in Seq(ThreadEvent) :
        /\ itemTurn[i] = NoTurn
        /\ itemThread' = [itemThread EXCEPT ![i] = th]
        /\ itemTurn' = [itemTurn EXCEPT ![i] = t]
        /\ turnThread'[t] = th
        /\ Publish(th, events)
        /\ \A m \in DOMAIN events :
              Completes(events[m]) => events[m] = ItemEvent("item.completed", t, i)
        /\ \E m \in DOMAIN events : events[m] = ItemEvent("item.completed", t, i)

\* A kill that cuts off the announcement: the item of a running turn is stored,
\* and the process is gone.
StoresCut ==
    \E th \in Thread, t \in Turn, i \in Item, events \in Seq(ThreadEvent) :
        /\ itemTurn[i] = NoTurn
        /\ itemThread' = [itemThread EXCEPT ![i] = th]
        /\ itemTurn' = [itemTurn EXCEPT ![i] = t]
        /\ turnStatus[t] = "absent" \/ (turnStatus[t] = "running" /\ task[t] # "none")
        /\ turnStatus'[t] = "running" /\ turnThread'[t] = th
        /\ task'[t] = "none" /\ process' = "down"
        /\ Publish(th, events)
        /\ \A m \in DOMAIN events : ~Completes(events[m]) /\ events[m] \notin TerminalEvents

\* No event about a turn completes an item.
LEMMA EndedEvent ==
    ASSUME NEW t \in Turn, NEW s
    PROVE  Ended(s, t) \in ThreadEvent /\ ~Completes(Ended(s, t))
<1>1. \E type \in TurnEvents : Ended(s, t) = TurnEvent(type, t)
  BY DEF Ended, TurnEvents
<1>2. \A type \in TurnEvents : TurnEvent(type, t) \in ThreadEvent /\ ~Completes(TurnEvent(type, t))
  BY DEF TurnEvent, ThreadEvent, TurnEvents, Completes
<1> QED
  BY <1>1, <1>2

\* Which of the handlers' events complete an item.
LEMMA CompletingEvents ==
    ASSUME NEW t \in Turn, NEW i \in Item
    PROVE  /\ ~Completes(TurnEvent("turn.started", t)) /\ ~Completes(TurnEvent("turn.progress", t))
           /\ ~Completes(ItemEvent("item.started", t, i))
           /\ ~Completes(ItemEvent("item.delta", t, i))
           /\ \A m \in DOMAIN Announce(t, i) : ~Completes(Announce(t, i)[m])
<1>2. ~Completes(ItemEvent("item.started", t, i)) /\ ~Completes(ItemEvent("item.delta", t, i))
  BY DEF Completes, ItemEvent
<1>3. ~Completes(TurnEvent("turn.started", t)) /\ ~Completes(TurnEvent("turn.progress", t))
  BY DEF Completes, TurnEvent
<1>4. \A m \in DOMAIN Announce(t, i) : ~Completes(Announce(t, i)[m])
  <2>1. CASE i \in started[t]
    BY <2>1 DEF Announce
  <2>2. CASE i \notin started[t]
    BY <2>2, <1>2 DEF Announce
  <2> QED
    BY <2>1, <2>2
<1> QED
  BY <1>2, <1>3, <1>4

\* The end of a turn stores no item.
LEMMA EndStoresNothing ==
    ASSUME TypeOK, NEW t \in Turn, turnThread[t] \in Thread, NEW status \in Terminal,
           NEW events \in Seq(ThreadEvent), EndTurn(t, status, events),
           \A m \in DOMAIN events : ~Completes(events[m])
    PROVE  StoresNothing
<1>1. UNCHANGED <<itemThread, itemTurn>>
  BY DEF EndTurn, FinishTurn, repoVars
<1>2. CASE Publish(turnThread[t], events)
  BY <1>1, <1>2 DEF StoresNothing
<1>3. CASE Publish(turnThread[t], events \o <<Ended(status, t)>>)
  <2> DEFINE all == events \o <<Ended(status, t)>>
  <2>1. Ended(status, t) \in ThreadEvent
    BY EndedEvent
  <2>2. ~Completes(Ended(status, t))
    BY EndedEvent
  <2>3. all \in Seq(ThreadEvent)
    BY <2>1
  <2>4. \A m \in DOMAIN all : all[m] = Ended(status, t) \/ (m \in DOMAIN events /\ all[m] = events[m])
    BY <2>1
  <2>5. \A m \in DOMAIN all : ~Completes(all[m])
    BY <2>2, <2>4
  <2> HIDE DEF all
  <2>6. Publish(turnThread[t], all)
    BY <1>3 DEF all
  <2> QED
    BY <1>1, <2>3, <2>5, <2>6 DEF StoresNothing
<1> QED
  BY <1>2, <1>3 DEF EndTurn

\* What the handlers append to a feed: after events that complete nothing, the
\* completion of i.
LEMMA ThenCompleted ==
    ASSUME NEW t \in Turn, NEW i \in Item, NEW before \in Seq(ThreadEvent),
           \A m \in DOMAIN before : ~Completes(before[m])
    PROVE  LET events == before \o <<ItemEvent("item.completed", t, i)>> IN
           /\ events \in Seq(ThreadEvent)
           /\ \A m \in DOMAIN events :
                 Completes(events[m]) => events[m] = ItemEvent("item.completed", t, i)
           /\ \E m \in DOMAIN events : events[m] = ItemEvent("item.completed", t, i)
<1> DEFINE events == before \o <<ItemEvent("item.completed", t, i)>>
<1>1. ItemEvent("item.completed", t, i) \in ThreadEvent
  BY EventType DEF ItemEvents
<1>2. events \in Seq(ThreadEvent)
  BY <1>1
<1>3. \A m \in DOMAIN events : \/ events[m] = ItemEvent("item.completed", t, i)
                               \/ m \in DOMAIN before /\ events[m] = before[m]
  BY <1>1
<1>4. /\ Len(before) + 1 \in DOMAIN events
      /\ events[Len(before) + 1] = ItemEvent("item.completed", t, i)
  BY <1>1
<1> HIDE DEF events
<1>5. \A m \in DOMAIN events :
          Completes(events[m]) => events[m] = ItemEvent("item.completed", t, i)
  BY <1>3
<1> QED
  BY <1>2, <1>4, <1>5 DEF events

\* start_turn stores the user's message and announces it.
LEMMA StartStores ==
    ASSUME TypeOK, NEW th \in Thread, NEW t \in Turn, NEW i \in Item, StartTurn(th, t, i)
    PROVE  StoresOne
<1> DEFINE events == StartEvents(t, i)
<1>1. events \in Seq(ThreadEvent)
  BY EventType DEF ItemEvents, StartEvents
<1>2. ~Completes(events[1]) /\ ~Completes(events[2])
  BY CompletingEvents DEF StartEvents
<1>3. /\ \A m \in DOMAIN events : m \in {1, 2, 3}
      /\ 3 \in DOMAIN events /\ events[3] = ItemEvent("item.completed", t, i)
  BY DEF StartEvents
<1> HIDE DEF events
<1>4. Publish(th, events)
  BY DEF StartTurn, events
<1>5. /\ itemTurn[i] = NoTurn /\ turnThread'[t] = th
      /\ itemThread' = [itemThread EXCEPT ![i] = th]
      /\ itemTurn' = [itemTurn EXCEPT ![i] = t]
  BY DEF StartTurn, CreateTurn, TypeOK, RepoTypeOK
<1> QED
  BY <1>1, <1>2, <1>3, <1>4, <1>5 DEF StoresOne

\* steer_turn stores the message and announces it, or fails before it has.
LEMMA SteerStores ==
    ASSUME TypeOK, LinkInv, NEW th \in Thread, NEW t \in Turn, NEW i \in Item,
           SteerTurn(th, t, i)
    PROVE  StoresOne \/ StoresNothing
<1> DEFINE before == <<ItemEvent("item.started", t, i)>>
           events == <<ItemEvent("item.started", t, i), ItemEvent("item.completed", t, i)>>
<1>1. before \in Seq(ThreadEvent) /\ \A m \in DOMAIN before : ~Completes(before[m])
  BY EventType, CompletingEvents DEF ItemEvents
<1>2. CASE AddItem(i, th, t) /\ Publish(th, events)
  <2>1. events \in Seq(ThreadEvent)
    BY EventType DEF ItemEvents
  <2>2. ~Completes(events[1])
    BY CompletingEvents
  <2>3. /\ \A m \in DOMAIN events : m \in {1, 2}
        /\ 2 \in DOMAIN events /\ events[2] = ItemEvent("item.completed", t, i)
    OBVIOUS
  <2> HIDE DEF events
  <2>4. th # NoThread
    BY RepoAssumption
  <2>5. turnThread[t] = th
    BY <2>4, LiveTurn DEF SteerTurn, GetRunning
  <2>6. /\ itemTurn[i] = NoTurn /\ turnThread'[t] = th
        /\ itemThread' = [itemThread EXCEPT ![i] = th]
        /\ itemTurn' = [itemTurn EXCEPT ![i] = t]
    BY <1>2, <2>5 DEF AddItem
  <2> QED
    BY <1>2, <2>1, <2>2, <2>3, <2>6 DEF StoresOne
<1>3. CASE Publish(th, before) /\ UNCHANGED repoVars
  BY <1>1, <1>3 DEF StoresNothing, repoVars
<1> QED
  BY <1>2, <1>3 DEF SteerTurn

\* The handling of AgentItemCreated stores the item and announces it, or ends the
\* turn without it.
LEMMA CreatedStores ==
    ASSUME TypeOK, LinkInv, NEW t \in Turn, NEW i \in Item, AgentItemCreated(t, i)
    PROVE  StoresOne \/ StoresNothing
<1> DEFINE events == Announce(t, i) \o <<ItemEvent("item.completed", t, i)>>
<1>1. turnThread[t] \in Thread
  <2>1. running[t] # NoThread
    BY DEF AgentItemCreated, LinkInv, TasksAreTracked, Live
  <2> QED
    BY <2>1, LiveTurn
<1>2. Announce(t, i) \in Seq(ThreadEvent) /\ \A m \in DOMAIN Announce(t, i) : ~Completes(Announce(t, i)[m])
  BY EventType, CompletingEvents
<1>3. CASE AddItem(i, turnThread[t], t) /\ Publish(turnThread[t], events)
  <2>1. /\ events \in Seq(ThreadEvent)
        /\ \A m \in DOMAIN events :
              Completes(events[m]) => events[m] = ItemEvent("item.completed", t, i)
        /\ \E m \in DOMAIN events : events[m] = ItemEvent("item.completed", t, i)
    BY <1>2, ThenCompleted
  <2> HIDE DEF events
  <2>2. /\ itemTurn[i] = NoTurn /\ turnThread'[t] = turnThread[t]
        /\ itemThread' = [itemThread EXCEPT ![i] = turnThread[t]]
        /\ itemTurn' = [itemTurn EXCEPT ![i] = t]
    BY <1>3 DEF AddItem
  <2> QED
    BY <1>1, <1>3, <2>1, <2>2 DEF StoresOne
<1>4. CASE EndTurn(t, "failed", Announce(t, i))
  BY <1>1, <1>2, <1>4, EndStoresNothing DEF Terminal
<1> QED
  BY <1>3, <1>4 DEF AgentItemCreated

\* A killed step stores one item of a running turn and completes none, or stores
\* nothing.
LEMMA KilledStores ==
    ASSUME TypeOK, LinkInv, KilledStep PROVE StoresCut \/ StoresNothing
<1>1. ASSUME NEW th \in Thread, NEW t \in Turn, NEW i \in Item, StartTurnKilled(th, t, i)
      PROVE  StoresCut
  <2>1. PICK n \in 0 .. 2 : Publish(th, SubSeq(StartEvents(t, i), 1, n))
    BY <1>1 DEF StartTurnKilled
  <2> DEFINE events == SubSeq(StartEvents(t, i), 1, n)
  <2>2. /\ events \in Seq(ThreadEvent)
        /\ \A m \in DOMAIN events : m \in {1, 2} /\ events[m] = StartEvents(t, i)[m]
    BY StartPrefix
  <2>3. /\ StartEvents(t, i)[1] = TurnEvent("turn.started", t)
        /\ StartEvents(t, i)[2] = ItemEvent("item.started", t, i)
    BY DEF StartEvents
  <2>4. \A m \in {1, 2} : ~Completes(StartEvents(t, i)[m]) /\ StartEvents(t, i)[m] \notin TerminalEvents
    BY <2>3, CompletingEvents, TerminalType
  <2> HIDE DEF events
  <2>5. /\ itemTurn[i] = NoTurn
        /\ itemThread' = [itemThread EXCEPT ![i] = th]
        /\ itemTurn' = [itemTurn EXCEPT ![i] = t]
        /\ turnStatus[t] = "absent" /\ turnStatus'[t] = "running" /\ turnThread'[t] = th
        /\ task'[t] = "none" /\ process' = "down"
    BY <1>1 DEF StartTurnKilled, CreateTurn, Forget, TypeOK, RepoTypeOK
  <2>6. Publish(th, events)
    BY <2>1 DEF events
  <2> QED
    BY <2>2, <2>4, <2>5, <2>6 DEF StoresCut
<1>2. ASSUME NEW th \in Thread, NEW t \in Turn, NEW i \in Item, NEW events \in Seq(ThreadEvent),
             running[t] = th, AddItem(i, th, t), Forget, Publish(th, events),
             \A m \in DOMAIN events : ~Completes(events[m]) /\ events[m] \notin TerminalEvents
      PROVE  StoresCut
  <2>1. th # NoThread
    BY RepoAssumption
  <2>2. turnStatus[t] = "running" /\ turnThread[t] = th /\ task[t] # "none"
    BY <1>2, <2>1 DEF LinkInv, RunningIsStored, Live
  <2>3. turnStatus'[t] = "running" /\ turnThread'[t] = th /\ task'[t] = "none" /\ process' = "down"
    BY <1>2, <2>2 DEF AddItem, Forget
  <2> QED
    BY <1>2, <2>2, <2>3 DEF StoresCut, AddItem
<1>3. ASSUME NEW t \in Turn, NEW i \in Item
      PROVE  /\ <<ItemEvent("item.started", t, i)>> \in Seq(ThreadEvent)
             /\ \A m \in DOMAIN <<ItemEvent("item.started", t, i)>> :
                   LET e == <<ItemEvent("item.started", t, i)>>[m] IN
                   ~Completes(e) /\ e \notin TerminalEvents
  BY EventType, CompletingEvents, TerminalType DEF ItemEvents
<1>4. ASSUME NEW th \in Thread, NEW t \in Turn, NEW i \in Item, SteerTurnKilled(th, t, i)
      PROVE  StoresCut \/ StoresNothing
  <2> DEFINE events == <<ItemEvent("item.started", t, i)>>
  <2>1. /\ events \in Seq(ThreadEvent)
        /\ \A m \in DOMAIN events : ~Completes(events[m]) /\ events[m] \notin TerminalEvents
    BY <1>3
  <2>2. /\ running[t] = th /\ Forget /\ Publish(th, events)
        /\ AddItem(i, th, t) \/ UNCHANGED repoVars
    BY <1>4 DEF SteerTurnKilled, GetRunning
  <2> HIDE DEF events
  <2>3. CASE UNCHANGED repoVars
    BY <2>1, <2>2, <2>3 DEF StoresNothing, repoVars
  <2> QED
    BY <1>2, <2>1, <2>2, <2>3
<1>5. ASSUME NEW t \in Turn, NEW i \in Item, AgentItemKilled(t, i)
      PROVE  StoresCut
  <2>1. running[t] # NoThread
    BY <1>5 DEF AgentItemKilled, LinkInv, TasksAreTracked, Live
  <2>2. running[t] = turnThread[t] /\ turnThread[t] \in Thread
    BY <2>1, LiveTurn
  <2>3. /\ Announce(t, i) \in Seq(ThreadEvent)
        /\ \A m \in DOMAIN Announce(t, i) :
              ~Completes(Announce(t, i)[m]) /\ Announce(t, i)[m] \notin TerminalEvents
    BY AnnounceOpen, CompletingEvents
  <2> QED
    BY <1>2, <1>5, <2>2, <2>3 DEF AgentItemKilled
<1>6. ASSUME NEW t \in Turn, NEW status \in Terminal, EndTurnKilled(t, status)
      PROVE  StoresNothing
  BY <1>6 DEF EndTurnKilled, FinishTurn, StoresNothing
<1> QED
  BY <1>1, <1>4, <1>5, <1>6 DEF KilledStep

\* Every step of the service stores and announces one item, or neither, unless
\* it is killed between the two.
LEMMA StoreStep ==
    ASSUME TypeOK, LinkInv, [Next]_vars PROVE StoresOne \/ StoresNothing \/ StoresCut
<1>1. ASSUME NEW th \in Thread, NEW t \in Turn, NEW i \in Item,
             StartTurn(th, t, i) \/ SteerTurn(th, t, i)
      PROVE  StoresOne \/ StoresNothing
  BY <1>1, StartStores, SteerStores
<1>2. ASSUME NEW t \in Turn, NEW i \in Item, AgentItemCreated(t, i)
      PROVE  StoresOne \/ StoresNothing
  BY <1>2, CreatedStores
<1>3. ASSUME NEW t \in Turn,
             AgentProgressUpdated(t) \/ RunnerReturns(t) \/ RunnerRaises(t) \/ TaskCancelled(t)
      PROVE  StoresNothing
  <2>1. turnThread[t] \in Thread
    <3>1. running[t] # NoThread
      BY <1>3 DEF AgentProgressUpdated, RunnerReturns, RunnerRaises, TaskCancelled, LinkInv,
         TasksAreTracked, Live
    <3> QED
      BY <3>1, LiveTurn
  <2>2. CASE AgentProgressUpdated(t)
    <3> DEFINE events == <<TurnEvent("turn.progress", t)>>
    <3>1. events \in Seq(ThreadEvent)
      BY DEF TurnEvent, ThreadEvent, TurnEvents
    <3>2. \A m \in DOMAIN events : ~Completes(events[m])
      BY DEF TurnEvent, Completes
    <3>3. Publish(turnThread[t], events) /\ UNCHANGED <<itemThread, itemTurn>>
      BY <2>2 DEF AgentProgressUpdated, repoVars
    <3> QED
      BY <2>1, <3>1, <3>2, <3>3 DEF StoresNothing
  <2>3. CASE RunnerReturns(t) \/ RunnerRaises(t) \/ TaskCancelled(t)
    <3>1. PICK status \in Terminal : EndTurn(t, status, <<>>)
      BY <2>3 DEF RunnerReturns, RunnerRaises, TaskCancelled, Terminal
    <3>2. <<>> \in Seq(ThreadEvent) /\ \A m \in DOMAIN <<>> : ~Completes(<<>>[m])
      OBVIOUS
    <3> QED
      BY <2>1, <3>1, <3>2, EndStoresNothing
  <2> QED
    BY <1>3, <2>2, <2>3
<1>4. ASSUME NEW t \in Turn, NEW i \in Item, AgentItemStarted(t, i) \/ AgentMessageDelta(t, i)
      PROVE  StoresNothing
  <2>1. turnThread[t] \in Thread
    <3>1. running[t] # NoThread
      BY <1>4 DEF AgentItemStarted, AgentMessageDelta, LinkInv, TasksAreTracked, Live
    <3> QED
      BY <3>1, LiveTurn
  <2>2. UNCHANGED <<itemThread, itemTurn>>
    BY <1>4 DEF AgentItemStarted, AgentMessageDelta, repoVars
  <2>3. /\ Announce(t, i) \in Seq(ThreadEvent)
        /\ \A m \in DOMAIN Announce(t, i) : ~Completes(Announce(t, i)[m])
    BY EventType, CompletingEvents
  <2>4. CASE AgentItemStarted(t, i)
    BY <2>1, <2>2, <2>3, <2>4 DEF AgentItemStarted, StoresNothing
  <2>5. CASE AgentMessageDelta(t, i)
    <3> DEFINE events == Announce(t, i) \o <<ItemEvent("item.delta", t, i)>>
    <3>1. ItemEvent("item.delta", t, i) \in ThreadEvent
      BY EventType DEF ItemEvents
    <3>2. events \in Seq(ThreadEvent)
      BY <2>3, <3>1
    <3>3. \A m \in DOMAIN events : \/ events[m] = ItemEvent("item.delta", t, i)
                                   \/ /\ m \in DOMAIN Announce(t, i)
                                      /\ events[m] = Announce(t, i)[m]
      BY <2>3, <3>1
    <3>4. Publish(turnThread[t], events)
      BY <2>5 DEF AgentMessageDelta
    <3> HIDE DEF events
    <3>5. \A m \in DOMAIN events : ~Completes(events[m])
      BY <2>3, <3>3, CompletingEvents
    <3> QED
      BY <2>1, <2>2, <3>2, <3>4, <3>5 DEF StoresNothing
  <2> QED
    BY <1>4, <2>4, <2>5
<1>5. UNCHANGED <<itemThread, itemTurn, published>> => StoresNothing
  BY DEF StoresNothing
<1>6. CASE Initialize \/ Crash \/ Shutdown \/ Stop
  BY <1>5, <1>6 DEF Initialize, RecoverRunningTurns, Crash, Shutdown, Stop, Forget, repoVars
<1>7. ASSUME NEW th \in Thread, CreateThreadRequest(th) PROVE StoresNothing
  BY <1>5, <1>7 DEF CreateThreadRequest, CreateThread, serviceVars
<1>8. ASSUME NEW t \in Turn,
             \/ FirstStep(t) \/ RunnerReceives(t) \/ RunnerIgnoresCancel(t) \/ WaiterCancelled(t)
             \/ \E th \in Thread : InterruptTurn(th, t)
      PROVE  StoresNothing
  BY <1>5, <1>8 DEF FirstStep, RunnerReceives, RunnerIgnoresCancel, WaiterCancelled,
     InterruptTurn, repoVars
<1>9. CASE UNCHANGED vars
  BY <1>5, <1>9 DEF vars, repoVars, serviceVars
<1>10. CASE KilledStep
  BY <1>10, KilledStores
<1> QED
  BY <1>1, <1>2, <1>3, <1>4, <1>6, <1>7, <1>8, <1>9, <1>10 DEF Next, KilledStep

-----------------------------------------------------------------------------
\* An append keeps the events that are there and adds the new ones.
LEMMA Grown ==
    ASSUME TypeOK, NEW th \in Thread, NEW events \in Seq(ThreadEvent), Publish(th, events)
    PROVE  /\ \A o \in Thread : \A j \in DOMAIN published[o] :
                 j \in DOMAIN published'[o] /\ published'[o][j] = published[o][j]
           /\ \A o \in Thread : \A j \in DOMAIN published'[o] :
                 \/ j \in DOMAIN published[o] /\ published'[o][j] = published[o][j]
                 \/ /\ o = th
                    /\ \E m \in DOMAIN events : published'[o][j] = events[m]
           /\ \A m \in DOMAIN events :
                 \E j \in DOMAIN published'[th] : published'[th][j] = events[m]
<1>1. published[th] \in Seq(ThreadEvent) /\ published'[th] = published[th] \o events
  BY DEF TypeOK, Publish
<1>2. \A o \in Thread \ {th} : published'[o] = published[o]
  BY DEF TypeOK, Publish
<1> DEFINE old == published[th]
<1>3. \A j \in DOMAIN old : j \in DOMAIN (old \o events) /\ (old \o events)[j] = old[j]
  BY <1>1
<1>4. \A j \in DOMAIN (old \o events) :
          \/ j \in DOMAIN old /\ (old \o events)[j] = old[j]
          \/ \E m \in DOMAIN events : (old \o events)[j] = events[m]
  BY <1>1, ConcatIndex
<1>5. ASSUME NEW m \in DOMAIN events
      PROVE  \E j \in DOMAIN (old \o events) : (old \o events)[j] = events[m]
  <2>1. /\ Len(old) + m \in DOMAIN (old \o events)
        /\ (old \o events)[Len(old) + m] = events[m]
    BY <1>1
  <2> QED
    BY <2>1
<1>6. ASSUME NEW o \in Thread, NEW j \in DOMAIN published[o]
      PROVE  j \in DOMAIN published'[o] /\ published'[o][j] = published[o][j]
  BY <1>1, <1>2, <1>3
<1>7. ASSUME NEW o \in Thread, NEW j \in DOMAIN published'[o]
      PROVE  \/ j \in DOMAIN published[o] /\ published'[o][j] = published[o][j]
             \/ o = th /\ \E m \in DOMAIN events : published'[o][j] = events[m]
  BY <1>1, <1>2, <1>4
<1>8. ASSUME NEW m \in DOMAIN events
      PROVE  \E j \in DOMAIN published'[th] : published'[th][j] = events[m]
  BY <1>1, <1>5
<1> QED
  BY <1>6, <1>7, <1>8

\* While the process is down the only step is its start.
LEMMA DownStep ==
    ASSUME LinkInv, process = "down", [Next]_vars
    PROVE  Initialize \/ UNCHANGED vars
<1>1. \A t \in Turn : running[t] = NoThread /\ task[t] \notin Live
  BY DEF LinkInv, DownIsEmpty, TasksAreTracked
<1>2. ~Crash /\ ~Shutdown /\ ~Stop
  BY DEF Crash, Shutdown, Stop
<1>3. \A th \in Thread, t \in Turn, i \in Item :
          /\ ~CreateThreadRequest(th) /\ ~StartTurn(th, t, i) /\ ~StartTurnKilled(th, t, i)
          /\ ~SteerTurn(th, t, i) /\ ~SteerTurnKilled(th, t, i)
  BY DEF CreateThreadRequest, StartTurn, StartTurnKilled, SteerTurn, SteerTurnKilled, GetRunning
<1>4. \A th \in Thread, t \in Turn : ~CreateThreadRequest(th) /\ ~InterruptTurn(th, t)
  BY DEF CreateThreadRequest, InterruptTurn, GetRunning
<1>5. ASSUME NEW t \in Turn
      PROVE  /\ ~WaiterCancelled(t) /\ ~FirstStep(t) /\ ~RunnerReceives(t) /\ ~RunnerIgnoresCancel(t)
             /\ ~AgentProgressUpdated(t) /\ ~RunnerReturns(t) /\ ~RunnerRaises(t)
             /\ ~TaskCancelled(t)
  BY <1>1 DEF WaiterCancelled, FirstStep, RunnerReceives, RunnerIgnoresCancel,
     AgentProgressUpdated, RunnerReturns, RunnerRaises, TaskCancelled, Live
<1>6. ASSUME NEW t \in Turn, NEW i \in Item
      PROVE  /\ ~AgentItemStarted(t, i) /\ ~AgentMessageDelta(t, i)
             /\ ~AgentItemCreated(t, i) /\ ~AgentItemKilled(t, i)
  BY <1>1 DEF AgentItemStarted, AgentMessageDelta, AgentItemCreated, AgentItemKilled, Live
<1>7. \A t \in Turn, status \in Terminal : ~EndTurnKilled(t, status)
  BY <1>1 DEF EndTurnKilled, MayEndWith, Live
<1>8. \A th \in Thread : ~CreateThreadRequest(th)
  BY DEF CreateThreadRequest
<1> QED
  BY <1>2, <1>3, <1>4, <1>5, <1>6, <1>7, <1>8 DEF Next

\* No step gives a stored turn a task again.
LEMMA TaskStays ==
    ASSUME TypeOK, [Next]_vars, NEW u \in Turn, task[u] = "none", turnStatus[u] # "absent"
    PROVE  task'[u] = "none"
<1>1. ASSUME UNCHANGED task PROVE task'[u] = "none"
  BY <1>1
<1>2. ASSUME Forget PROVE task'[u] = "none"
  BY <1>2 DEF Forget
<1>3. CASE KilledStep
  BY <1>2, <1>3 DEF KilledStep, StartTurnKilled, SteerTurnKilled, AgentItemKilled, EndTurnKilled
<1>4. CASE Initialize \/ Crash \/ Shutdown \/ Stop
  BY <1>1, <1>2, <1>4 DEF Initialize, memory, Crash, Shutdown, Stop, CancelledState
<1>5. ASSUME NEW th \in Thread, NEW t \in Turn, NEW i \in Item,
             StartTurn(th, t, i) \/ SteerTurn(th, t, i)
      PROVE  task'[u] = "none"
  BY <1>5 DEF StartTurn, CreateTurn, SteerTurn, TypeOK
<1>6. ASSUME NEW t \in Turn,
             \/ WaiterCancelled(t) \/ FirstStep(t) \/ RunnerIgnoresCancel(t)
             \/ \E th \in Thread : InterruptTurn(th, t)
      PROVE  task'[u] = "none"
  <2>1. CASE FirstStep(t) \/ RunnerIgnoresCancel(t)
    BY <2>1 DEF FirstStep, RunnerIgnoresCancel, TypeOK
  <2>2. CASE Cancel(t)
    BY <2>2 DEF Cancel, CancelledState, TypeOK
  <2> QED
    BY <1>6, <2>1, <2>2 DEF WaiterCancelled, InterruptTurn
<1>7. ASSUME NEW t \in Turn, task[t] # "none", NEW status, NEW events, EndTurn(t, status, events)
      PROVE  task'[u] = "none"
  BY <1>7 DEF EndTurn, Leave, TypeOK
<1>8. ASSUME NEW t \in Turn,
             \/ RunnerReceives(t) \/ AgentProgressUpdated(t)
             \/ RunnerReturns(t) \/ RunnerRaises(t) \/ TaskCancelled(t)
      PROVE  task'[u] = "none"
  BY <1>7, <1>8 DEF RunnerReceives, AgentProgressUpdated, RunnerReturns, RunnerRaises, TaskCancelled
<1>9. ASSUME NEW t \in Turn, NEW i \in Item,
             AgentItemStarted(t, i) \/ AgentMessageDelta(t, i) \/ AgentItemCreated(t, i)
      PROVE  task'[u] = "none"
  BY <1>7, <1>9 DEF AgentItemStarted, AgentMessageDelta, AgentItemCreated
<1>10. ASSUME NEW th \in Thread, CreateThreadRequest(th) PROVE task'[u] = "none"
  BY <1>10 DEF CreateThreadRequest, serviceVars, memory
<1>11. CASE UNCHANGED vars
  BY <1>11 DEF vars, serviceVars, memory
<1> QED
  BY <1>3, <1>4, <1>5, <1>6, <1>8, <1>9, <1>10, <1>11 DEF Next, KilledStep

\* CutOffByKill after the step.
CutAfter(u) ==
    /\ task'[u] = "none"
    /\ turnStatus'[u] = "interrupted" \/ (turnStatus'[u] = "running" /\ process' = "down")
    /\ \A j \in DOMAIN published'[turnThread'[u]] :
          published'[turnThread'[u]][j] \in TerminalEvents =>
              published'[turnThread'[u]][j].turn # u

\* A turn that a kill has cut off stays so: nothing executes it, and the recovery
\* publishes no event.
LEMMA CutStays ==
    ASSUME TypeOK, LinkInv, IndexInv, [Next]_vars,
           NEW u \in Turn, turnStatus[u] # "absent", CutOffByKill(u)
    PROVE  CutAfter(u)
<1>1. RowsMove /\ FeedsGrow
  BY RowStep, FeedStep DEF IndexInv
<1>2. turnThread'[u] = turnThread[u] /\ task'[u] = "none"
  BY <1>1, RowsKept, TaskStays DEF CutOffByKill
<1>3. CASE process = "down"
  <2>1. CASE Initialize
    <3>1. turnStatus'[u] = "interrupted" /\ published' = published
      BY <2>1 DEF Initialize, RecoverRunningTurns, CutOffByKill, TypeOK, RepoTypeOK
    <3> QED
      BY <1>2, <3>1 DEF CutOffByKill, CutAfter
  <2>2. CASE UNCHANGED vars
    BY <1>2, <1>3, <2>2 DEF vars, repoVars, serviceVars, CutOffByKill, CutAfter
  <2> QED
    BY <1>3, <2>1, <2>2, DownStep
<1>4. CASE process # "down"
  <2>1. turnStatus[u] = "interrupted"
    BY <1>4 DEF CutOffByKill
  <2>2. turnStatus'[u] = "interrupted"
    BY <1>1, <2>1, RowsKept DEF Terminal
  <2>3. CASE published' = published
    BY <1>2, <2>2, <2>3 DEF CutOffByKill, CutAfter
  <2>4. ASSUME NEW th \in Thread, NEW t \in Turn, NEW events \in Seq(ThreadEvent),
               Appends(th, t, events)
        PROVE  CutAfter(u)
    <3>1. t # u
      BY <2>1, <2>4 DEF Appends
    <3>2. turnThread[u] \in Thread
      BY DEF LinkInv, RowsHaveThreads, TypeOK, RepoTypeOK
    <3>3. ASSUME NEW j \in DOMAIN published'[turnThread[u]],
                 published'[turnThread[u]][j] \in TerminalEvents
          PROVE  published'[turnThread[u]][j].turn # u
      <4>1. \/ /\ j \in DOMAIN published[turnThread[u]]
               /\ published'[turnThread[u]][j] = published[turnThread[u]][j]
            \/ published'[turnThread[u]][j].turn = t
        BY <2>4, <3>2, AppendedIndex
      <4> QED
        BY <3>1, <3>3, <4>1 DEF CutOffByKill
    <3> QED
      BY <1>2, <2>2, <3>3 DEF CutOffByKill, CutAfter
  <2> QED
    BY <1>1, <2>3, <2>4 DEF FeedsGrow
<1> QED
  BY <1>3, <1>4

\* The inductive form: an item that is announced as completed is an item.
CompletedIsItem ==
    \A th \in Thread : \A j \in DOMAIN published[th] :
        Completes(published[th][j]) => published[th][j].item \in Item

AnnounceInv == CompletedIsItem /\ AnnouncedIsStored

\* The item is announced after the step, where it is stored.
AnnouncedAfter(i) ==
    \E j \in DOMAIN published'[itemThread'[i]] :
        published'[itemThread'[i]][j] = ItemEvent("item.completed", itemTurn'[i], i)

\* What a stored item and its announcement keep in any step.
LEMMA StoredKept ==
    ASSUME TypeOK, LinkInv, IndexInv, RowsAreConnected, AnnounceInv, [Next]_vars,
           NEW k \in Item, itemTurn[k] # NoTurn,
           itemTurn'[k] = itemTurn[k], itemThread'[k] = itemThread[k]
    PROVE  /\ itemTurn[k] \in Turn /\ itemThread[k] \in Thread
           /\ itemThread'[k] = turnThread'[itemTurn'[k]]
           /\ IsAnnounced(k) => AnnouncedAfter(k)
           /\ CutOffByKill(itemTurn[k]) => CutAfter(itemTurn[k])
           /\ IsAnnounced(k) \/ CutOffByKill(itemTurn[k])
           /\ IsAnnounced(k) \/ \A o \in Item \ {k} : itemTurn[o] = itemTurn[k] => IsAnnounced(o)
<1>1. RowsMove /\ FeedsGrow
  BY RowStep, FeedStep DEF IndexInv
<1>2. itemTurn[k] \in Turn /\ itemThread[k] \in Thread /\ turnStatus[itemTurn[k]] # "absent"
  BY DEF RowsAreConnected, TypeOK, RepoTypeOK
<1>3. turnThread'[itemTurn[k]] = turnThread[itemTurn[k]]
  BY <1>1, <1>2, RowsKept
<1>4. /\ itemThread[k] = turnThread[itemTurn[k]]
      /\ \/ IsAnnounced(k)
         \/ /\ CutOffByKill(itemTurn[k])
            /\ \A o \in Item \ {k} : itemTurn[o] = itemTurn[k] => IsAnnounced(o)
  BY DEF AnnounceInv, AnnouncedIsStored, StoredIsCompleted
<1>5. ASSUME IsAnnounced(k) PROVE AnnouncedAfter(k)
  <2>1. \A j \in DOMAIN published[itemThread[k]] :
            /\ j \in DOMAIN published'[itemThread[k]]
            /\ published'[itemThread[k]][j] = published[itemThread[k]][j]
    <3>1. CASE published' = published
      BY <3>1
    <3>2. ASSUME NEW th \in Thread, NEW t \in Turn, NEW events \in Seq(ThreadEvent),
                 Appends(th, t, events)
          PROVE  \A j \in DOMAIN published[itemThread[k]] :
                     /\ j \in DOMAIN published'[itemThread[k]]
                     /\ published'[itemThread[k]][j] = published[itemThread[k]][j]
      <4>1. Publish(th, events)
        BY <3>2 DEF Appends, Publish
      <4> QED
        BY <1>2, <4>1, Grown
    <3> QED
      BY <1>1, <3>1, <3>2 DEF FeedsGrow
  <2> QED
    BY <1>5, <2>1 DEF IsAnnounced, AnnouncedAfter
<1>6. CutOffByKill(itemTurn[k]) => CutAfter(itemTurn[k])
  BY <1>2, CutStays
<1> QED
  BY <1>2, <1>3, <1>4, <1>5, <1>6

\* StoredIsCompleted after a step, spelled out.
LEMMA StoredAfter ==
    ASSUME \A k \in Item : itemTurn'[k] # NoTurn =>
              /\ itemThread'[k] = turnThread'[itemTurn'[k]]
              /\ \/ AnnouncedAfter(k)
                 \/ /\ CutAfter(itemTurn'[k])
                    /\ \A o \in Item \ {k} : itemTurn'[o] = itemTurn'[k] => AnnouncedAfter(o)
    PROVE  StoredIsCompleted'
BY DEF StoredIsCompleted, AnnouncedAfter, IsAnnounced, CutOffByKill, CutAfter, TerminalEvents

\* A step that stores nothing keeps what was announced and what was stored.
LEMMA NothingStored ==
    ASSUME TypeOK, LinkInv, IndexInv, RowsAreConnected, AnnounceInv, [Next]_vars, StoresNothing
    PROVE  AnnounceInv'
<1>1. UNCHANGED <<itemThread, itemTurn>>
  BY DEF StoresNothing
<1>2. \A o \in Thread : \A j \in DOMAIN published'[o] : Completes(published'[o][j]) =>
          j \in DOMAIN published[o] /\ published'[o][j] = published[o][j]
  <2>1. CASE UNCHANGED published
    BY <2>1
  <2>2. ASSUME NEW th \in Thread, NEW events \in Seq(ThreadEvent), Publish(th, events),
               \A m \in DOMAIN events : ~Completes(events[m])
        PROVE  \A o \in Thread : \A j \in DOMAIN published'[o] : Completes(published'[o][j]) =>
                   j \in DOMAIN published[o] /\ published'[o][j] = published[o][j]
    BY <2>2, Grown
  <2> QED
    BY <2>1, <2>2 DEF StoresNothing
<1>3. CompletedIsItem'
  BY <1>2 DEF AnnounceInv, CompletedIsItem
<1>4. CompletedIsStored'
  BY <1>1, <1>2 DEF AnnounceInv, AnnouncedIsStored, CompletedIsStored, Completes
<1>5. StoredIsCompleted'
  <2>1. ASSUME NEW k \in Item, itemTurn'[k] # NoTurn
        PROVE  /\ itemThread'[k] = turnThread'[itemTurn'[k]]
               /\ \/ AnnouncedAfter(k)
                  \/ /\ CutAfter(itemTurn'[k])
                     /\ \A o \in Item \ {k} : itemTurn'[o] = itemTurn'[k] => AnnouncedAfter(o)
    <3>1. \A o \in Item : itemTurn[o] # NoTurn => (IsAnnounced(o) => AnnouncedAfter(o))
      BY <1>1, StoredKept
    <3>2. /\ itemThread'[k] = turnThread'[itemTurn'[k]]
          /\ IsAnnounced(k) => AnnouncedAfter(k)
          /\ CutOffByKill(itemTurn[k]) => CutAfter(itemTurn[k])
          /\ IsAnnounced(k) \/ CutOffByKill(itemTurn[k])
          /\ IsAnnounced(k) \/ \A o \in Item \ {k} : itemTurn[o] = itemTurn[k] => IsAnnounced(o)
      BY <1>1, <2>1, StoredKept
    <3> QED
      BY <1>1, <2>1, <3>1, <3>2
  <2> QED
    BY <2>1, StoredAfter
<1> QED
  BY <1>3, <1>4, <1>5 DEF AnnounceInv, AnnouncedIsStored

\* A step stores item i of turn t, and completes no other item.
StoresItem(th, t, i, events) ==
    /\ itemTurn[i] = NoTurn
    /\ itemThread' = [itemThread EXCEPT ![i] = th]
    /\ itemTurn' = [itemTurn EXCEPT ![i] = t]
    /\ Publish(th, events)
    /\ \A m \in DOMAIN events :
          Completes(events[m]) => events[m] = ItemEvent("item.completed", t, i)

\* A step that stores item i of turn t: the items stored before, their events and
\* what was announced are kept, and only i is announced, if any item is.
LEMMA StoredOneKept ==
    ASSUME TypeOK, LinkInv, IndexInv, RowsAreConnected, AnnounceInv, [Next]_vars,
           NEW th \in Thread, NEW t \in Turn, NEW i \in Item, NEW events \in Seq(ThreadEvent),
           StoresItem(th, t, i, events)
    PROVE  /\ CompletedIsItem' /\ CompletedIsStored'
           /\ itemTurn'[i] = t /\ itemThread'[i] = th
           /\ \A k \in Item \ {i} : itemTurn'[k] = itemTurn[k] /\ itemThread'[k] = itemThread[k]
<1> USE DEF StoresItem
<1> DEFINE new == ItemEvent("item.completed", t, i)
<1>2. \A o \in Thread : \A j \in DOMAIN published'[o] : Completes(published'[o][j]) =>
          \/ j \in DOMAIN published[o] /\ published'[o][j] = published[o][j]
          \/ o = th /\ published'[o][j] = new
  BY Grown
<1>3. new.item = i /\ new.turn = t /\ new.type = "item.completed"
  BY DEF ItemEvent
<1>4. /\ itemTurn'[i] = t /\ itemThread'[i] = th
      /\ \A k \in Item \ {i} : itemTurn'[k] = itemTurn[k] /\ itemThread'[k] = itemThread[k]
  BY DEF TypeOK, RepoTypeOK
<1> HIDE DEF new
<1>5. CompletedIsItem'
  BY <1>2, <1>3 DEF AnnounceInv, CompletedIsItem
<1>6. CompletedIsStored'
  <2> SUFFICES ASSUME NEW o \in Thread, NEW j \in DOMAIN published'[o],
                      Completes(published'[o][j])
               PROVE  /\ itemTurn'[published'[o][j].item] = published'[o][j].turn
                      /\ itemThread'[published'[o][j].item] = o
    BY DEF CompletedIsStored, Completes
  <2>1. CASE o = th /\ published'[o][j] = new
    BY <1>3, <1>4, <2>1
  <2>2. CASE j \in DOMAIN published[o] /\ published'[o][j] = published[o][j]
    <3> DEFINE e == published[o][j]
    <3>1. e.item \in Item /\ itemTurn[e.item] = e.turn /\ itemThread[e.item] = o
      BY <2>2 DEF AnnounceInv, CompletedIsItem, AnnouncedIsStored, CompletedIsStored, Completes
    <3>2. e.turn \in Turn
      <4>1. published[o] \in Seq(ThreadEvent)
        BY DEF TypeOK
      <4>2. e \in ThreadEvent
        BY <2>2, <4>1
      <4> QED
        BY <4>2 DEF ThreadEvent
    <3>3. e.item # i
      BY <3>1, <3>2, RepoAssumption
    <3> QED
      BY <1>4, <2>2, <3>1, <3>3
  <2> QED
    BY <1>2, <2>1, <2>2
<1> QED
  BY <1>4, <1>5, <1>6

\* A step that stores an item announces it where it is stored.
LEMMA OneStored ==
    ASSUME TypeOK, LinkInv, IndexInv, RowsAreConnected, AnnounceInv, [Next]_vars, StoresOne
    PROVE  AnnounceInv'
<1>1. PICK th \in Thread, t \in Turn, i \in Item, events \in Seq(ThreadEvent) :
        /\ itemTurn[i] = NoTurn
        /\ itemThread' = [itemThread EXCEPT ![i] = th]
        /\ itemTurn' = [itemTurn EXCEPT ![i] = t]
        /\ turnThread'[t] = th
        /\ Publish(th, events)
        /\ \A m \in DOMAIN events :
              Completes(events[m]) => events[m] = ItemEvent("item.completed", t, i)
        /\ \E m \in DOMAIN events : events[m] = ItemEvent("item.completed", t, i)
  BY DEF StoresOne
<1>2. /\ CompletedIsItem' /\ CompletedIsStored'
      /\ itemTurn'[i] = t /\ itemThread'[i] = th
      /\ \A k \in Item \ {i} : itemTurn'[k] = itemTurn[k] /\ itemThread'[k] = itemThread[k]
  <2>1. StoresItem(th, t, i, events)
    BY <1>1 DEF StoresItem
  <2> QED
    BY <2>1, StoredOneKept
<1>3. AnnouncedAfter(i)
  <2>1. \E j \in DOMAIN published'[th] : published'[th][j] = ItemEvent("item.completed", t, i)
    BY <1>1, Grown
  <2> QED
    BY <1>2, <2>1 DEF AnnouncedAfter
<1>4. ASSUME NEW k \in Item, itemTurn'[k] # NoTurn
      PROVE  /\ itemThread'[k] = turnThread'[itemTurn'[k]]
             /\ \/ AnnouncedAfter(k)
                \/ /\ CutAfter(itemTurn'[k])
                   /\ \A o \in Item \ {k} : itemTurn'[o] = itemTurn'[k] => AnnouncedAfter(o)
  <2>1. CASE k = i
    BY <1>1, <1>2, <1>3, <2>1
  <2>2. CASE k # i
    <3>1. \A o \in Item \ {i} : itemTurn[o] # NoTurn => (IsAnnounced(o) => AnnouncedAfter(o))
      BY <1>2, StoredKept
    <3>2. /\ itemThread'[k] = turnThread'[itemTurn'[k]]
          /\ IsAnnounced(k) => AnnouncedAfter(k)
          /\ CutOffByKill(itemTurn[k]) => CutAfter(itemTurn[k])
          /\ IsAnnounced(k) \/ CutOffByKill(itemTurn[k])
          /\ IsAnnounced(k) \/ \A o \in Item \ {k} : itemTurn[o] = itemTurn[k] => IsAnnounced(o)
      BY <1>2, <1>4, <2>2, StoredKept
    <3> QED
      BY <1>2, <1>3, <1>4, <2>2, <3>1, <3>2
  <2> QED
    BY <2>1, <2>2
<1> QED
  BY <1>2, <1>4, StoredAfter DEF AnnounceInv, AnnouncedIsStored

\* A step that is killed before the announcement cuts off one item of a turn whose
\* other items are announced.
LEMMA OneCut ==
    ASSUME TypeOK, LinkInv, IndexInv, FeedIsOfItsThread, TerminalEventIsLast,
           RowsAreConnected, AnnounceInv, [Next]_vars, StoresCut
    PROVE  AnnounceInv'
<1>1. PICK th \in Thread, t \in Turn, i \in Item, events \in Seq(ThreadEvent) :
        /\ itemTurn[i] = NoTurn
        /\ itemThread' = [itemThread EXCEPT ![i] = th]
        /\ itemTurn' = [itemTurn EXCEPT ![i] = t]
        /\ turnStatus[t] = "absent" \/ (turnStatus[t] = "running" /\ task[t] # "none")
        /\ turnStatus'[t] = "running" /\ turnThread'[t] = th
        /\ task'[t] = "none" /\ process' = "down"
        /\ Publish(th, events)
        /\ \A m \in DOMAIN events : ~Completes(events[m]) /\ events[m] \notin TerminalEvents
  BY DEF StoresCut
<1>2. /\ CompletedIsItem' /\ CompletedIsStored'
      /\ itemTurn'[i] = t /\ itemThread'[i] = th
      /\ \A k \in Item \ {i} : itemTurn'[k] = itemTurn[k] /\ itemThread'[k] = itemThread[k]
  <2>1. StoresItem(th, t, i, events)
    BY <1>1 DEF StoresItem
  <2> QED
    BY <2>1, StoredOneKept
<1>3. CutAfter(t)
  <2> SUFFICES ASSUME NEW j \in DOMAIN published'[th], published'[th][j] \in TerminalEvents
               PROVE  published'[th][j].turn # t
    BY <1>1 DEF CutAfter
  <2>1. j \in DOMAIN published[th] /\ published'[th][j] = published[th][j]
    BY <1>1, Grown
  <2>2. turnStatus[published[th][j].turn] \in Terminal
    BY <2>1 DEF TerminalEventIsLast
  <2> QED
    BY <1>1, <2>1, <2>2 DEF Terminal
<1>4. \A k \in Item \ {i} : itemTurn[k] = t => AnnouncedAfter(k)
  <2> SUFFICES ASSUME NEW k \in Item \ {i}, itemTurn[k] = t PROVE AnnouncedAfter(k)
    OBVIOUS
  <2>1. itemTurn[k] # NoTurn
    BY RepoAssumption
  <2>2. turnStatus[t] # "absent"
    BY <2>1 DEF RowsAreConnected
  <2>3. ~CutOffByKill(t)
    BY <1>1, <2>2 DEF CutOffByKill
  <2> QED
    BY <1>2, <2>1, <2>3, StoredKept
<1>5. ASSUME NEW k \in Item, itemTurn'[k] # NoTurn
      PROVE  /\ itemThread'[k] = turnThread'[itemTurn'[k]]
             /\ \/ AnnouncedAfter(k)
                \/ /\ CutAfter(itemTurn'[k])
                   /\ \A o \in Item \ {k} : itemTurn'[o] = itemTurn'[k] => AnnouncedAfter(o)
  <2>1. CASE k = i
    BY <1>1, <1>2, <1>3, <1>4, <2>1
  <2>2. CASE k # i
    <3>1. \A o \in Item \ {i} : itemTurn[o] # NoTurn => (IsAnnounced(o) => AnnouncedAfter(o))
      BY <1>2, StoredKept
    <3>2. /\ itemThread'[k] = turnThread'[itemTurn'[k]]
          /\ IsAnnounced(k) => AnnouncedAfter(k)
          /\ CutOffByKill(itemTurn[k]) => CutAfter(itemTurn[k])
          /\ IsAnnounced(k) \/ CutOffByKill(itemTurn[k])
          /\ IsAnnounced(k) \/ \A o \in Item \ {k} : itemTurn[o] = itemTurn[k] => IsAnnounced(o)
      BY <1>2, <1>5, <2>2, StoredKept
    <3> QED
      BY <1>2, <1>4, <1>5, <2>2, <3>1, <3>2
  <2> QED
    BY <2>1, <2>2
<1> QED
  BY <1>2, <1>5, StoredAfter DEF AnnounceInv, AnnouncedIsStored

\* Whatever raises, is killed or misbehaves: what item.completed announces is
\* stored, in that turn and that thread; what is stored was announced, except for
\* the one item of an interrupted turn whose announcement a kill has cut off.
THEOREM AnnouncedCorrect == Spec => []AnnouncedIsStored
<1> DEFINE I == IndexInv /\ FeedIsOfItsThread /\ TerminalEventIsLast /\ AnnounceInv
<1>1. Init => I
  BY InitIndex, InitFeed DEF Init, RepoInit, AnnounceInv, CompletedIsItem, AnnouncedIsStored,
     CompletedIsStored, StoredIsCompleted
<1>2. TypeOK /\ LinkInv /\ RowsAreConnected /\ I /\ [Next]_vars => I'
  BY IndexStep, FeedThreadStep, TerminalStep, StoreStep, NothingStored, OneStored, OneCut
<1>3. StateInv => TypeOK /\ LinkInv
  BY DEF StateInv, LinkInv
<1>4. I => AnnouncedIsStored
  BY DEF AnnounceInv
<1> HIDE DEF I
<1> QED
  BY <1>1, <1>2, <1>3, <1>4, StateCorrect, ServiceRowsConnected, PTL DEF Spec
-----------------------------------------------------------------------------
(* A turn that runs has a task, and a task that returned has announced the  *)
(* end of its turn, as long as the writes succeed.                          *)

\* The end of a turn: its row is not left running.
LEMMA EndTracked ==
    ASSUME ~StorageFaults, TypeOK, NoTurnIsOrphaned, NEW t \in Turn, NEW status \in Terminal,
           NEW events, EndTurn(t, status, events)
    PROVE  NoTurnIsOrphaned'
<1>1. process' = process /\ task' = [task EXCEPT ![t] = "done"]
  BY DEF EndTurn, Leave
<1>2. \/ turnStatus' = [turnStatus EXCEPT ![t] = status]
      \/ turnStatus[t] # "running" /\ turnStatus' = turnStatus
  BY DEF EndTurn, FinishTurn, repoVars
<1>3. status # "running"
  BY DEF Terminal
<1> QED
  BY <1>1, <1>2, <1>3 DEF NoTurnIsOrphaned, TypeOK, RepoTypeOK

\* A cancellation of a task that has taken its first step leaves it live.
LEMMA CancelTracked ==
    ASSUME ~EagerCallers, TypeOK, NoTurnIsOrphaned, NEW t \in Turn,
           (\E th \in Thread : InterruptTurn(th, t)) \/ WaiterCancelled(t)
    PROVE  NoTurnIsOrphaned'
<1>1. /\ process' = process /\ turnStatus' = turnStatus
      /\ task[t] # "scheduled" /\ task' = [task EXCEPT ![t] = CancelledState(@)]
  BY DEF InterruptTurn, WaiterCancelled, Cancel, repoVars
<1>2. task[t] \in Live => CancelledState(task[t]) \in Live
  BY <1>1 DEF CancelledState, Live
<1> QED
  BY <1>1, <1>2 DEF NoTurnIsOrphaned, TypeOK

\* Every step keeps a live task for every running row of a serving process.
LEMMA TrackedStep ==
    ASSUME ~StorageFaults, ~EagerCallers, TypeOK, NoTurnIsOrphaned, [Next]_vars
    PROVE  NoTurnIsOrphaned'
<1>1. ASSUME UNCHANGED <<process, turnStatus, task>> PROVE NoTurnIsOrphaned'
  BY <1>1 DEF NoTurnIsOrphaned
<1>2. CASE Initialize \/ Crash \/ Shutdown \/ Stop
  BY <1>2 DEF Initialize, RecoverRunningTurns, Crash, Shutdown, Stop, Forget, NoTurnIsOrphaned
<1>11. CASE KilledStep
  BY <1>11 DEF KilledStep, StartTurnKilled, SteerTurnKilled, AgentItemKilled, EndTurnKilled,
     Forget, NoTurnIsOrphaned
<1>3. ASSUME NEW th \in Thread, NEW t \in Turn, NEW i \in Item, StartTurn(th, t, i)
      PROVE  NoTurnIsOrphaned'
  BY <1>3 DEF StartTurn, CreateTurn, NoTurnIsOrphaned, TypeOK, RepoTypeOK, Live
<1>4. ASSUME NEW t \in Turn, FirstStep(t) \/ RunnerIgnoresCancel(t)
      PROVE  NoTurnIsOrphaned'
  BY <1>4 DEF FirstStep, RunnerIgnoresCancel, NoTurnIsOrphaned, TypeOK, Live, repoVars
<1>5. ASSUME NEW t \in Turn, RunnerReturns(t) \/ RunnerRaises(t) \/ TaskCancelled(t)
      PROVE  NoTurnIsOrphaned'
  BY <1>5, EndTracked DEF RunnerReturns, RunnerRaises, TaskCancelled, Terminal
<1>6. ASSUME NEW t \in Turn, NEW i \in Item, AgentItemCreated(t, i)
      PROVE  NoTurnIsOrphaned'
  BY <1>1, <1>6, EndTracked DEF AgentItemCreated, AddItem, Terminal
<1>7. ASSUME NEW t \in Turn, WaiterCancelled(t) \/ \E th \in Thread : InterruptTurn(th, t)
      PROVE  NoTurnIsOrphaned'
  BY <1>7, CancelTracked
<1>8. ASSUME NEW t \in Turn,
             \/ RunnerReceives(t) \/ AgentProgressUpdated(t)
             \/ \E i \in Item : AgentItemStarted(t, i) \/ AgentMessageDelta(t, i)
             \/ \E th \in Thread, i \in Item : SteerTurn(th, t, i)
      PROVE  NoTurnIsOrphaned'
  BY <1>1, <1>8 DEF RunnerReceives, AgentProgressUpdated, AgentItemStarted, AgentMessageDelta,
     SteerTurn, AddItem, repoVars
<1>9. ASSUME NEW th \in Thread, CreateThreadRequest(th) PROVE NoTurnIsOrphaned'
  BY <1>1, <1>9 DEF CreateThreadRequest, CreateThread, serviceVars, memory
<1>10. CASE UNCHANGED vars
  BY <1>1, <1>10 DEF vars, repoVars, serviceVars, memory
<1> QED
  BY <1>2, <1>3, <1>4, <1>5, <1>6, <1>7, <1>8, <1>9, <1>10, <1>11 DEF Next, KilledStep

\* While the process serves, a running row has a task that can still finish it:
\* a crash leaves one behind, and the recovery of initialize() takes it up.
THEOREM NotOrphanedCorrect ==
    ASSUME ~StorageFaults, ~EagerCallers PROVE Spec => []NoTurnIsOrphaned
<1>1. Init => NoTurnIsOrphaned
  BY DEF Init, NoTurnIsOrphaned
<1>2. TypeOK /\ NoTurnIsOrphaned /\ [Next]_vars => NoTurnIsOrphaned'
  BY TrackedStep
<1> QED
  BY <1>1, <1>2, TypeCorrect, PTL DEF Spec

\* Only the end of its turn makes a task done.
LEMMA DoneByEnd ==
    ASSUME TypeOK, NEW t \in Turn, task'[t] = "done", task[t] # "done", [Next]_vars
    PROVE  /\ task[t] = "active" \/ task[t] = "cancelling"
           /\ \E status \in Terminal, events \in Seq(ThreadEvent) : EndTurn(t, status, events)
<1> DEFINE Ends == /\ task[t] = "active" \/ task[t] = "cancelling"
                   /\ \E status \in Terminal, events \in Seq(ThreadEvent) :
                         EndTurn(t, status, events)
<1>1. \A s \in TaskState : CancelledState(s) = "done" => s = "done"
  BY DEF CancelledState, TaskState
<1>2. ASSUME NEW u \in Turn, NEW status, NEW events, EndTurn(u, status, events) PROVE u = t
  BY <1>2 DEF EndTurn, Leave, TypeOK
<1>3. ASSUME NEW u \in Turn, RunnerReturns(u) \/ RunnerRaises(u) \/ TaskCancelled(u)
      PROVE  Ends
  <2>1. PICK status \in Terminal : EndTurn(u, status, <<>>)
    BY <1>3 DEF RunnerReturns, RunnerRaises, TaskCancelled, Terminal
  <2>2. <<>> \in Seq(ThreadEvent)
    OBVIOUS
  <2> QED
    BY <1>2, <1>3, <2>1, <2>2 DEF RunnerReturns, RunnerRaises, TaskCancelled
<1>4. ASSUME NEW u \in Turn, NEW i \in Item, AgentItemCreated(u, i) PROVE Ends
  <2>1. EndTurn(u, "failed", Announce(u, i))
    BY <1>4 DEF AgentItemCreated
  <2>2. Announce(u, i) \in Seq(ThreadEvent)
    BY EventType
  <2> QED
    BY <1>2, <1>4, <2>1, <2>2 DEF AgentItemCreated, Terminal
<1>5. task' # task
  OBVIOUS
<1>6. ASSUME NEW u \in Turn,
             \/ FirstStep(u) \/ RunnerIgnoresCancel(u) \/ WaiterCancelled(u)
             \/ \E th \in Thread : InterruptTurn(th, u)
      PROVE  FALSE
  <2>1. \/ task' = [task EXCEPT ![u] = "active"]
        \/ task' = [task EXCEPT ![u] = CancelledState(task[u])]
    BY <1>6 DEF FirstStep, RunnerIgnoresCancel, WaiterCancelled, InterruptTurn, Cancel
  <2> QED
    BY <1>1, <2>1 DEF TypeOK
<1>7. ~ (Initialize \/ Crash \/ Shutdown \/ Stop)
  BY <1>1, <1>5 DEF Initialize, Crash, Shutdown, Stop, Forget, memory, TypeOK
<1>8. \A th \in Thread, u \in Turn, i \in Item : ~StartTurn(th, u, i) /\ ~SteerTurn(th, u, i)
  BY <1>5 DEF StartTurn, SteerTurn, TypeOK
<1>9. ~ \E th \in Thread : CreateThreadRequest(th)
  BY <1>5 DEF CreateThreadRequest, serviceVars, memory
<1>10. \A u \in Turn : ~RunnerReceives(u) /\ ~AgentProgressUpdated(u)
  BY <1>5 DEF RunnerReceives, AgentProgressUpdated
<1>11. \A u \in Turn, i \in Item : ~AgentItemStarted(u, i) /\ ~AgentMessageDelta(u, i)
  BY <1>5 DEF AgentItemStarted, AgentMessageDelta
<1>12. ~UNCHANGED vars
  BY <1>5 DEF vars, serviceVars, memory
<1>13. ~KilledStep
  BY DEF KilledStep, StartTurnKilled, SteerTurnKilled, AgentItemKilled, EndTurnKilled, Forget
<1> QED
  BY <1>3, <1>4, <1>6, <1>7, <1>8, <1>9, <1>10, <1>11, <1>12, <1>13 DEF Next, KilledStep

\* Nothing is taken back from a feed.
LEMMA FeedsKeep ==
    ASSUME TypeOK, FeedsGrow
    PROVE  \A o \in Thread : \A j \in DOMAIN published[o] :
              j \in DOMAIN published'[o] /\ published'[o][j] = published[o][j]
<1>1. ASSUME NEW th \in Thread, NEW t \in Turn, NEW events \in Seq(ThreadEvent),
             Appends(th, t, events)
      PROVE  Publish(th, events)
  BY <1>1 DEF Appends, Publish
<1> QED
  BY <1>1, Grown DEF FeedsGrow

\* A task that ran to its end stored a terminal status and announced it.
LEMMA EndedStep ==
    ASSUME ~StorageFaults, TypeOK, LinkInv, IndexInv, EndedTurnsAreAnnounced, [Next]_vars
    PROVE  EndedTurnsAreAnnounced'
<1> SUFFICES ASSUME NEW t \in Turn, task'[t] = "done"
             PROVE  /\ turnStatus'[t] \in Terminal
                    /\ \E j \in DOMAIN published'[turnThread'[t]] :
                          published'[turnThread'[t]][j] = Ended(turnStatus'[t], t)
  BY DEF EndedTurnsAreAnnounced, Ended, TurnEvent
<1>1. CASE task[t] = "done"
  <2>1. /\ turnStatus[t] \in Terminal
        /\ \E j \in DOMAIN published[turnThread[t]] :
              published[turnThread[t]][j] = Ended(turnStatus[t], t)
    BY <1>1 DEF EndedTurnsAreAnnounced
  <2>2. turnStatus[t] # "absent"
    BY <2>1 DEF Terminal
  <2>3. turnThread'[t] = turnThread[t] /\ turnStatus'[t] = turnStatus[t]
    BY <2>1, <2>2, RowStep, RowsKept
  <2>4. turnThread[t] \in Thread
    BY <2>2 DEF LinkInv, RowsHaveThreads, TypeOK, RepoTypeOK
  <2>5. FeedsGrow
    BY FeedStep DEF IndexInv
  <2> QED
    BY <2>1, <2>3, <2>4, <2>5, FeedsKeep
<1>2. CASE task[t] # "done"
  <2>1. PICK status \in Terminal, events \in Seq(ThreadEvent) : EndTurn(t, status, events)
    BY <1>2, DoneByEnd
  <2>2. running[t] # NoThread
    BY <1>2, DoneByEnd DEF LinkInv, TasksAreTracked, Live
  <2>3. turnStatus[t] = "running" /\ turnThread[t] \in Thread
    BY <2>2, LiveTurn
  <2> DEFINE all == events \o <<Ended(status, t)>>
  <2>4. FinishTurn(t, status) /\ Publish(turnThread[t], all)
    BY <2>1, <2>3 DEF EndTurn
  <2>5. turnThread'[t] = turnThread[t] /\ turnStatus'[t] = status
    BY <2>4 DEF FinishTurn, TypeOK, RepoTypeOK
  <2>6. Ended(status, t) \in ThreadEvent
    BY EndedEvent
  <2>7. /\ all \in Seq(ThreadEvent)
        /\ \E m \in DOMAIN all : all[m] = Ended(status, t)
    <3>1. all \in Seq(ThreadEvent) /\ Len(all) = Len(events) + 1
      BY <2>6
    <3>2. Len(all) \in DOMAIN all /\ all[Len(all)] = Ended(status, t)
      BY <2>6
    <3> QED
      BY <3>1, <3>2
  <2> HIDE DEF all
  <2>8. \E j \in DOMAIN published'[turnThread[t]] :
            published'[turnThread[t]][j] = Ended(status, t)
    BY <2>3, <2>4, <2>7, Grown
  <2> QED
    BY <2>5, <2>8
<1> QED
  BY <1>1, <1>2

\* wait_for_turn, which awaits the task, returns when the status is stored and
\* turn.completed, turn.interrupted or turn.failed is in the feed.
THEOREM EndedAnnouncedCorrect ==
    ASSUME ~StorageFaults PROVE Spec => []EndedTurnsAreAnnounced
<1>1. Init => TypeOK /\ LinkInv /\ IndexInv /\ EndedTurnsAreAnnounced
  BY InitType, InitLinks, InitIndex DEF Init, EndedTurnsAreAnnounced
<1>2. TypeOK /\ LinkInv /\ IndexInv /\ EndedTurnsAreAnnounced /\ [Next]_vars
        => TypeOK' /\ LinkInv' /\ IndexInv' /\ EndedTurnsAreAnnounced'
  BY TypeStep, LinkStep, IndexStep, EndedStep
<1> QED
  BY <1>1, <1>2, PTL DEF Spec

-----------------------------------------------------------------------------
(* The life of an item in the feed of its thread.                           *)

\* ItemLifecycle, of one feed.
LifecycleOf(f) ==
    \A k \in DOMAIN f : f[k].type \in ItemEvents =>
        /\ f[k].type = "item.started" <=> \A j \in 1 .. k - 1 : f[j].item # f[k].item
        /\ \A j \in 1 .. k - 1 : f[j].item = f[k].item =>
              f[j].turn = f[k].turn /\ f[j].type # "item.completed"

\* Events of turn t, about i or about the turn itself, that begin the life of i
\* (fresh) or go on with it.
Follows(t, i, fresh, events) ==
    \A m \in DOMAIN events :
        /\ events[m].turn = t
        /\ events[m].item \in {i, NoItem}
        /\ events[m].type \in ItemEvents =>
              /\ events[m].item = i
              /\ events[m].type = "item.started" <=>
                    fresh /\ \A n \in 1 .. m - 1 : events[n].item # i
              /\ \A n \in 1 .. m - 1 : events[n].item = i => events[n].type # "item.completed"

\* The invariant, feed by feed.
LEMMA LifecycleByFeed == ItemLifecycle <=> \A th \in Thread : LifecycleOf(published[th])
BY DEF ItemLifecycle, LifecycleOf

\* Appending events that follow what the feed says of i keeps the feed's order.
LEMMA LifecycleGrows ==
    ASSUME NEW f \in Seq(ThreadEvent), NEW events \in Seq(ThreadEvent), LifecycleOf(f),
           NEW t \in Turn, NEW i \in Item, NEW fresh \in BOOLEAN,
           Follows(t, i, fresh, events),
           fresh <=> \A j \in DOMAIN f : f[j].item # i,
           \A j \in DOMAIN f : f[j].item = i => f[j].turn = t /\ f[j].type # "item.completed"
    PROVE  LifecycleOf(f \o events)
<1> DEFINE g == f \o events
<1>1. SUFFICES ASSUME NEW k \in DOMAIN g, g[k].type \in ItemEvents
               PROVE  /\ g[k].type = "item.started" <=> \A j \in 1 .. k - 1 : g[j].item # g[k].item
                      /\ \A j \in 1 .. k - 1 : g[j].item = g[k].item =>
                            g[j].turn = g[k].turn /\ g[j].type # "item.completed"
  BY DEF LifecycleOf
<1>2. /\ Len(f) \in Nat /\ Len(events) \in Nat /\ Len(g) = Len(f) + Len(events)
      /\ DOMAIN f = 1 .. Len(f) /\ DOMAIN events = 1 .. Len(events) /\ DOMAIN g = 1 .. Len(g)
      /\ \A j \in DOMAIN f : g[j] = f[j]
      /\ \A m \in DOMAIN events : g[Len(f) + m] = events[m]
  OBVIOUS
<1> HIDE DEF g
<1>3. CASE k <= Len(f)
  <2>1. g[k] = f[k] /\ k \in DOMAIN f /\ \A j \in 1 .. k - 1 : g[j] = f[j]
    BY <1>2, <1>3
  <2>2. /\ f[k].type = "item.started" <=> \A j \in 1 .. k - 1 : f[j].item # f[k].item
        /\ \A j \in 1 .. k - 1 : f[j].item = f[k].item =>
              f[j].turn = f[k].turn /\ f[j].type # "item.completed"
    BY <1>1, <2>1 DEF LifecycleOf
  <2>3. (\A j \in 1 .. k - 1 : f[j].item # f[k].item)
          <=> \A j \in 1 .. k - 1 : g[j].item # g[k].item
    BY <2>1
  <2> QED
    BY <2>1, <2>2, <2>3
<1>4. CASE k > Len(f)
  <2> DEFINE m == k - Len(f)
  <2>1. m \in DOMAIN events /\ k = Len(f) + m
    BY <1>2, <1>4
  <2>2. g[k] = events[m]
    BY <1>2, <2>1
  <2>3. /\ events[m].turn = t /\ events[m].item = i
        /\ events[m].type = "item.started" <=>
              fresh /\ \A n \in 1 .. m - 1 : events[n].item # i
        /\ \A n \in 1 .. m - 1 : events[n].item = i => events[n].type # "item.completed"
    <3> HIDE DEF m
    <3>1. events[m].type \in ItemEvents
      BY <1>1, <2>2
    <3> QED
      BY <2>1, <3>1 DEF Follows
  <2>4. \A n \in 1 .. m - 1 : n \in DOMAIN events /\ events[n].turn = t
    BY <1>2, <2>1 DEF Follows
  <2> HIDE DEF m
  <2>5. ASSUME NEW j \in 1 .. k - 1
        PROVE  \/ j \in DOMAIN f /\ g[j] = f[j]
               \/ \E n \in 1 .. m - 1 : g[j] = events[n]
    <3>1. CASE j <= Len(f)
      BY <1>2, <3>1
    <3>2. CASE j > Len(f)
      <4>1. j - Len(f) \in 1 .. m - 1
        BY <1>2, <2>1, <3>2
      <4>2. g[Len(f) + (j - Len(f))] = events[j - Len(f)]
        BY <1>2, <2>4, <4>1
      <4>3. Len(f) + (j - Len(f)) = j
        BY <1>2
      <4> QED
        BY <4>1, <4>2, <4>3
    <3> QED
      BY <1>2, <3>1, <3>2
  <2>6. \A j \in 1 .. k - 1 : g[j].item = i => g[j].turn = t /\ g[j].type # "item.completed"
    BY <2>3, <2>4, <2>5
  <2>7. /\ \A j \in DOMAIN f : j \in 1 .. k - 1 /\ g[j] = f[j]
        /\ \A n \in 1 .. m - 1 : Len(f) + n \in 1 .. k - 1 /\ g[Len(f) + n] = events[n]
    <3>1. k \in Nat /\ m \in Nat
      BY <1>2, <2>1
    <3>2. \A j \in DOMAIN f : j \in 1 .. k - 1
      BY <1>2, <1>4, <3>1
    <3>3. \A n \in 1 .. m - 1 : Len(f) + n \in 1 .. k - 1
      BY <1>2, <2>1, <3>1
    <3> QED
      BY <1>2, <2>4, <3>2, <3>3
  <2>8. (\A j \in 1 .. k - 1 : g[j].item # i)
          <=> fresh /\ \A n \in 1 .. m - 1 : events[n].item # i
    <3>1. ASSUME \A j \in 1 .. k - 1 : g[j].item # i
          PROVE  fresh /\ \A n \in 1 .. m - 1 : events[n].item # i
      BY <2>7, <3>1
    <3>2. ASSUME fresh, \A n \in 1 .. m - 1 : events[n].item # i
          PROVE  \A j \in 1 .. k - 1 : g[j].item # i
      BY <2>5, <3>2
    <3> QED
      BY <3>1, <3>2
  <2> QED
    BY <2>2, <2>3, <2>6, <2>8
<1> QED
  BY <1>2, <1>3, <1>4

\* The handlers' events follow: one event of an item, an announcement and one
\* more, and what may come after them.
LEMMA FollowsOne ==
    ASSUME NEW t \in Turn, NEW i \in Item, NEW type \in ItemEvents
    PROVE  Follows(t, i, type = "item.started", <<ItemEvent(type, t, i)>>)
BY DEF Follows, ItemEvent

\* The announcement of an item and one more event of it.
LEMMA FollowsTwo ==
    ASSUME NEW t \in Turn, NEW i \in Item, NEW type \in ItemEvents, type # "item.started"
    PROVE  Follows(t, i, TRUE, <<ItemEvent("item.started", t, i), ItemEvent(type, t, i)>>)
BY DEF Follows, ItemEvent, ItemEvents

\* The first three events of a turn.
LEMMA FollowsStart ==
    ASSUME NEW t \in Turn, NEW i \in Item
    PROVE  Follows(t, i, TRUE, StartEvents(t, i))
<1> USE DEF StartEvents
<1> DEFINE events == StartEvents(t, i)
<1>1. /\ events[1] = TurnEvent("turn.started", t) /\ events[2] = ItemEvent("item.started", t, i)
      /\ events[3] = ItemEvent("item.completed", t, i) /\ DOMAIN events = 1 .. 3
  OBVIOUS
<1>2. /\ events[1].turn = t /\ events[1].item = NoItem /\ events[1].type \notin ItemEvents
      /\ events[2].turn = t /\ events[2].item = i /\ events[2].type = "item.started"
      /\ events[3].turn = t /\ events[3].item = i /\ events[3].type = "item.completed"
  BY DEF ItemEvent, TurnEvent, ItemEvents
<1>3. NoItem # i
  BY ServiceAssumption
<1> HIDE DEF events
<1> QED
  BY <1>1, <1>2, <1>3 DEF Follows, events

\* A prefix of them.
LEMMA FollowsPrefix ==
    ASSUME NEW t \in Turn, NEW i \in Item, NEW n \in 0 .. 3
    PROVE  Follows(t, i, TRUE, SubSeq(StartEvents(t, i), 1, n))
<1> DEFINE events == StartEvents(t, i)
           e      == SubSeq(events, 1, n)
<1>1. DOMAIN e = 1 .. n /\ \A m \in 1 .. n : e[m] = events[m]
  BY StartPrefix
<1>2. Follows(t, i, TRUE, events) /\ DOMAIN events = 1 .. 3
  <2>1. Follows(t, i, TRUE, events)
    BY FollowsStart
  <2>2. DOMAIN events = 1 .. 3
    BY DEF StartEvents
  <2> QED
    BY <2>1, <2>2
<1>3. \A m \in 1 .. n : m \in 1 .. 3 /\ \A k \in 1 .. m - 1 : k \in 1 .. n
  OBVIOUS
<1> HIDE DEF events, e
<1>4. Follows(t, i, TRUE, e)
  BY <1>1, <1>2, <1>3 DEF Follows
<1> QED
  BY <1>4 DEF events, e

\* The end of the turn adds nothing about its items.
LEMMA FollowsEnd ==
    ASSUME NEW t \in Turn, NEW i \in Item, NEW fresh \in BOOLEAN, NEW s,
           NEW events \in Seq(ThreadEvent), Follows(t, i, fresh, events)
    PROVE  /\ events \o <<Ended(s, t)>> \in Seq(ThreadEvent)
           /\ Follows(t, i, fresh, events \o <<Ended(s, t)>>)
<1> DEFINE last == Ended(s, t)
           all  == events \o <<last>>
<1>1. last \in ThreadEvent /\ last.turn = t /\ last.item = NoItem /\ last.type \notin ItemEvents
  <2>1. \E type \in TurnEvents : last = TurnEvent(type, t)
    BY DEF Ended, TurnEvents
  <2>2. last \in ThreadEvent
    BY EndedEvent
  <2> QED
    BY <2>1, <2>2 DEF TurnEvent, TurnEvents, ItemEvents
<1> HIDE DEF last
<1>2. /\ all \in Seq(ThreadEvent) /\ Len(all) = Len(events) + 1 /\ Len(events) \in Nat
      /\ DOMAIN all = 1 .. Len(all) /\ DOMAIN events = 1 .. Len(events)
      /\ \A m \in DOMAIN events : all[m] = events[m]
      /\ all[Len(events) + 1] = last
  BY <1>1
<1> HIDE DEF all
<1>3. ASSUME NEW m \in DOMAIN all
      PROVE  /\ all[m].turn = t /\ all[m].item \in {i, NoItem}
             /\ all[m].type \in ItemEvents =>
                  /\ all[m].item = i
                  /\ all[m].type = "item.started" <=>
                        fresh /\ \A n \in 1 .. m - 1 : all[n].item # i
                  /\ \A n \in 1 .. m - 1 : all[n].item = i => all[n].type # "item.completed"
  <2>1. CASE m = Len(events) + 1
    BY <1>1, <1>2, <2>1
  <2>2. CASE m \in DOMAIN events
    <3>1. all[m] = events[m] /\ \A n \in 1 .. m - 1 : all[n] = events[n]
      BY <1>2, <2>2
    <3> QED
      BY <2>2, <3>1 DEF Follows
  <2> QED
    BY <1>2, <2>1, <2>2
<1>4. Follows(t, i, fresh, all)
  BY <1>3 DEF Follows
<1> QED
  BY <1>2, <1>4 DEF all, last

\* Every id in a feed was drawn from uuid4 before.
EventsAreMinted ==
    \A th \in Thread : \A j \in DOMAIN published[th] :
        published[th][j].item \in minted \cup {NoItem}

\* What is in started_items has been announced, and no other turn has named it.
StartedIsOpen ==
    \A t \in Turn : \A i \in started[t] :
        /\ i \in minted
        /\ turnStatus[t] # "absent"
        /\ \E j \in DOMAIN published[turnThread[t]] : published[turnThread[t]][j].item = i
        /\ \A j \in DOMAIN published[turnThread[t]] :
              published[turnThread[t]][j].item = i => published[turnThread[t]][j].turn = t

LifeInv == EventsAreMinted /\ StartedIsOpen /\ ItemLifecycle

\* A step that says nothing of an item.
TouchesNoItem ==
    /\ minted' = minted
    /\ \A u \in Turn : started'[u] = started[u] \/ started'[u] = {}
    /\ \/ published' = published
       \/ \E th \in Thread, events \in Seq(ThreadEvent) :
             /\ Publish(th, events)
             /\ \A m \in DOMAIN events :
                   events[m].item = NoItem /\ events[m].type \notin ItemEvents

\* A step that publishes events of one item: of an id just drawn, or of an item
\* that its turn has started and nobody has stored.
TouchesItem(th, t, i, fresh, events) ==
    /\ Publish(th, events)
    /\ Follows(t, i, fresh, events)
    /\ turnThread'[t] = th /\ turnStatus'[t] # "absent"
    /\ minted' = minted \cup {i}
    /\ \A u \in Turn : \/ started'[u] = started[u] \/ started'[u] = {}
                       \/ /\ u = t /\ started'[u] = started[u] \cup {i}
                          /\ fresh => \E m \in DOMAIN events : events[m].item = i
    /\ fresh => i \notin minted
    /\ ~fresh => i \in started[t] /\ itemTurn[i] = NoTurn /\ turnThread[t] = th

TouchesOneItem ==
    \E th \in Thread, t \in Turn, i \in Item, fresh \in BOOLEAN, events \in Seq(ThreadEvent) :
        TouchesItem(th, t, i, fresh, events)

\* start_turn and steer_turn draw the id of the message they publish.
LEMMA RequestTouches ==
    ASSUME TypeOK, LinkInv, NEW th \in Thread, NEW t \in Turn, NEW i \in Item,
           StartTurn(th, t, i) \/ SteerTurn(th, t, i)
    PROVE  TouchesOneItem
<1>1. CASE StartTurn(th, t, i)
  <2> DEFINE events == StartEvents(t, i)
  <2>1. events \in Seq(ThreadEvent) /\ Follows(t, i, TRUE, events)
    <3>1. events \in Seq(ThreadEvent)
      BY EventType DEF ItemEvents, StartEvents
    <3>2. Follows(t, i, TRUE, events)
      BY FollowsStart
    <3> QED
      BY <3>1, <3>2
  <2>3. Publish(th, events)
    BY <1>1 DEF StartTurn
  <2>4. turnThread'[t] = th /\ turnStatus'[t] # "absent"
    BY <1>1 DEF StartTurn, CreateTurn, TypeOK, RepoTypeOK
  <2>5. /\ i \notin minted /\ minted' = minted \cup {i}
        /\ \A u \in Turn : started'[u] = started[u] \/ started'[u] = {}
    BY <1>1 DEF StartTurn, TypeOK
  <2> HIDE DEF events
  <2>6. TouchesItem(th, t, i, TRUE, events)
    BY <2>1, <2>3, <2>4, <2>5 DEF TouchesItem
  <2> QED
    BY <2>1, <2>6 DEF TouchesOneItem
<1>2. CASE SteerTurn(th, t, i)
  <2> DEFINE one == <<ItemEvent("item.started", t, i)>>
             two == <<ItemEvent("item.started", t, i), ItemEvent("item.completed", t, i)>>
  <2>1. /\ one \in Seq(ThreadEvent) /\ Follows(t, i, TRUE, one)
        /\ two \in Seq(ThreadEvent) /\ Follows(t, i, TRUE, two)
    <3>1. one \in Seq(ThreadEvent) /\ two \in Seq(ThreadEvent)
      BY EventType DEF ItemEvents
    <3>2. "item.started" \in ItemEvents /\ "item.completed" \in ItemEvents
      BY DEF ItemEvents
    <3>3. Follows(t, i, "item.started" = "item.started", one)
      BY <3>2, FollowsOne
    <3>4. Follows(t, i, TRUE, one)
      BY <3>3
    <3>5. Follows(t, i, TRUE, two)
      BY <3>2, FollowsTwo
    <3> QED
      BY <3>1, <3>4, <3>5
  <2>2. /\ 1 \in DOMAIN one /\ one[1].item = i
        /\ 1 \in DOMAIN two /\ two[1].item = i
    BY DEF ItemEvent
  <2>3. Publish(th, one) \/ Publish(th, two)
    BY <1>2 DEF SteerTurn
  <2>4. turnThread'[t] = th /\ turnStatus'[t] # "absent"
    <3>1. running[t] # NoThread /\ running[t] = th
      BY <1>2, RepoAssumption DEF SteerTurn, GetRunning
    <3>2. turnThread' = turnThread /\ turnStatus' = turnStatus
      BY <1>2 DEF SteerTurn, AddItem, repoVars
    <3> QED
      BY <3>1, <3>2, LiveTurn
  <2>5. i \notin minted /\ minted' = minted \cup {i} /\ started' = started
    BY <1>2 DEF SteerTurn
  <2> HIDE DEF one, two
  <2>6. TouchesItem(th, t, i, TRUE, one) \/ TouchesItem(th, t, i, TRUE, two)
    BY <2>1, <2>2, <2>3, <2>4, <2>5 DEF TouchesItem
  <2> QED
    BY <2>1, <2>6 DEF TouchesOneItem
<1> QED
  BY <1>1, <1>2

\* What the handling of a runner's item publishes, by whether it was announced.
LEMMA AnnouncedFollows ==
    ASSUME NEW t \in Turn, NEW i \in Item, NEW type \in {"item.delta", "item.completed"}
    PROVE  LET fresh == i \notin started[t]
               event == Announce(t, i) \o <<ItemEvent(type, t, i)>> IN
           /\ Follows(t, i, fresh, Announce(t, i))
           /\ Follows(t, i, fresh, event)
           /\ fresh => /\ \E m \in DOMAIN event : event[m].item = i
                       /\ \E m \in DOMAIN Announce(t, i) : Announce(t, i)[m].item = i
<1>1. ItemEvent(type, t, i).item = i /\ ItemEvent("item.started", t, i).item = i
  BY DEF ItemEvent
<1>2. CASE i \in started[t]
  <2>1. Announce(t, i) = <<>> /\ Follows(t, i, FALSE, <<>>)
    BY <1>2 DEF Announce, Follows
  <2>2. <<>> \o <<ItemEvent(type, t, i)>> = <<ItemEvent(type, t, i)>>
    OBVIOUS
  <2>3. Follows(t, i, FALSE, <<ItemEvent(type, t, i)>>)
    BY FollowsOne DEF ItemEvents
  <2> QED
    BY <1>2, <2>1, <2>2, <2>3
<1>3. CASE i \notin started[t]
  <2>1. Announce(t, i) = <<ItemEvent("item.started", t, i)>>
    BY <1>3 DEF Announce
  <2>2. <<ItemEvent("item.started", t, i)>> \o <<ItemEvent(type, t, i)>>
            = <<ItemEvent("item.started", t, i), ItemEvent(type, t, i)>>
    <3> DEFINE a == ItemEvent("item.started", t, i)
               b == ItemEvent(type, t, i)
    <3>1. a \in ThreadEvent /\ b \in ThreadEvent
      BY EventType DEF ItemEvents
    <3> HIDE DEF a, b
    <3>2. /\ <<a>> \o <<b>> \in Seq(ThreadEvent) /\ <<a, b>> \in Seq(ThreadEvent)
          /\ Len(<<a>> \o <<b>>) = Len(<<a, b>>)
          /\ \A m \in 1 .. Len(<<a>> \o <<b>>) : (<<a>> \o <<b>>)[m] = <<a, b>>[m]
      BY <3>1
    <3>3. <<a>> \o <<b>> = <<a, b>>
      BY <3>2, SeqEqual
    <3> QED
      BY <3>3 DEF a, b
  <2>3. /\ Follows(t, i, TRUE, <<ItemEvent("item.started", t, i)>>)
        /\ Follows(t, i, TRUE, <<ItemEvent("item.started", t, i), ItemEvent(type, t, i)>>)
    BY FollowsOne, FollowsTwo DEF ItemEvents
  <2>4. (i \notin started[t]) = TRUE
    BY <1>3
  <2>5. /\ 1 \in DOMAIN <<ItemEvent("item.started", t, i)>>
        /\ <<ItemEvent("item.started", t, i)>>[1].item = i
        /\ 1 \in DOMAIN <<ItemEvent("item.started", t, i), ItemEvent(type, t, i)>>
        /\ <<ItemEvent("item.started", t, i), ItemEvent(type, t, i)>>[1].item = i
    BY <1>1
  <2> QED
    BY <2>1, <2>2, <2>3, <2>4, <2>5
<1> QED
  BY <1>2, <1>3

\* What a killed request had published is of the message whose id it drew.
LEMMA KilledRequestTouches ==
    ASSUME TypeOK, LinkInv, NEW th \in Thread, NEW t \in Turn, NEW i \in Item,
           StartTurnKilled(th, t, i) \/ SteerTurnKilled(th, t, i)
    PROVE  TouchesOneItem
<1>1. CASE StartTurnKilled(th, t, i)
  <2>1. PICK n \in 0 .. 2 : Publish(th, SubSeq(StartEvents(t, i), 1, n))
    BY <1>1 DEF StartTurnKilled
  <2> DEFINE events == SubSeq(StartEvents(t, i), 1, n)
  <2>2. events \in Seq(ThreadEvent) /\ Follows(t, i, TRUE, events)
    <3>1. n \in 0 .. 3
      OBVIOUS
    <3> QED
      BY <3>1, StartPrefix, FollowsPrefix
  <2> HIDE DEF events
  <2>3. turnThread'[t] = th /\ turnStatus'[t] # "absent"
    BY <1>1 DEF StartTurnKilled, CreateTurn, TypeOK, RepoTypeOK
  <2>4. i \notin minted /\ minted' = minted \cup {i} /\ \A u \in Turn : started'[u] = {}
    BY <1>1 DEF StartTurnKilled, Forget
  <2>5. TouchesItem(th, t, i, TRUE, events)
    BY <2>1, <2>2, <2>3, <2>4 DEF TouchesItem, events
  <2> QED
    BY <2>2, <2>5 DEF TouchesOneItem
<1>2. CASE SteerTurnKilled(th, t, i)
  <2> DEFINE events == <<ItemEvent("item.started", t, i)>>
  <2>1. events \in Seq(ThreadEvent) /\ Follows(t, i, TRUE, events)
    <3>1. events \in Seq(ThreadEvent) /\ "item.started" \in ItemEvents
      BY EventType DEF ItemEvents
    <3>2. Follows(t, i, "item.started" = "item.started", events)
      BY <3>1, FollowsOne
    <3> QED
      BY <3>1, <3>2
  <2>2. Publish(th, events)
    BY <1>2 DEF SteerTurnKilled
  <2>3. turnThread'[t] = th /\ turnStatus'[t] # "absent"
    <3>1. running[t] # NoThread /\ running[t] = th
      BY <1>2, RepoAssumption DEF SteerTurnKilled, GetRunning
    <3>2. turnThread' = turnThread /\ turnStatus' = turnStatus
      BY <1>2 DEF SteerTurnKilled, AddItem, repoVars
    <3> QED
      BY <3>1, <3>2, LiveTurn
  <2>4. i \notin minted /\ minted' = minted \cup {i} /\ \A u \in Turn : started'[u] = {}
    BY <1>2 DEF SteerTurnKilled, Forget
  <2> HIDE DEF events
  <2>5. TouchesItem(th, t, i, TRUE, events)
    BY <2>1, <2>2, <2>3, <2>4 DEF TouchesItem
  <2> QED
    BY <2>1, <2>5 DEF TouchesOneItem
<1> QED
  BY <1>1, <1>2

\* A repeated AgentItemStarted says nothing, whatever has become of the item.
LEMMA RepeatTouches ==
    ASSUME TypeOK, LinkInv, StartedIsOpen, NEW t \in Turn, NEW i \in started[t],
           AgentItemStarted(t, i)
    PROVE  TouchesNoItem
<1>1. Announce(t, i) = <<>> /\ i \in minted
  BY DEF Announce, StartedIsOpen
<1>2. minted' = minted /\ \A u \in Turn : started'[u] = started[u]
  BY <1>1 DEF AgentItemStarted, TypeOK
<1>3. /\ Publish(turnThread[t], <<>>)
      /\ <<>> \in Seq(ThreadEvent) /\ \A m \in DOMAIN <<>> : FALSE
  BY <1>1 DEF AgentItemStarted
<1>4. turnThread[t] \in Thread
  <2>1. running[t] # NoThread
    BY DEF AgentItemStarted, LinkInv, TasksAreTracked, Live
  <2> QED
    BY <2>1, LiveTurn
<1> QED
  BY <1>2, <1>3, <1>4 DEF TouchesNoItem

\* _execute's other events about an item: the id is new, or the turn has announced it.
LEMMA RunnerTouches ==
    ASSUME ~RunnerFaults, TypeOK, LinkInv, EventsAreMinted, StartedIsOpen,
           NEW t \in Turn, NEW i \in Item,
           \/ AgentItemStarted(t, i) /\ i \notin started[t]
           \/ AgentMessageDelta(t, i) \/ AgentItemCreated(t, i) \/ AgentItemKilled(t, i)
    PROVE  TouchesOneItem
<1> DEFINE th        == turnThread[t]
           fresh     == i \notin started[t]
           delta     == Announce(t, i) \o <<ItemEvent("item.delta", t, i)>>
           completed == Announce(t, i) \o <<ItemEvent("item.completed", t, i)>>
           failed    == Announce(t, i) \o <<Ended("failed", t)>>
<1>1. turnStatus[t] = "running" /\ turnThread[t] \in Thread
  <2>1. running[t] # NoThread
    BY DEF AgentItemStarted, AgentMessageDelta, AgentItemCreated, AgentItemKilled, LinkInv,
       TasksAreTracked, Live
  <2> QED
    BY <2>1, LiveTurn
<1>2. /\ minted' = minted \cup {i}
      /\ \A u \in Turn : \/ started'[u] = started[u] \/ started'[u] = {}
                         \/ u = t /\ started'[u] = started[u] \cup {i}
  <2>1. CASE started' = [started EXCEPT ![t] = @ \cup {i}]
    BY <2>1 DEF TypeOK, AgentItemStarted, AgentMessageDelta, AgentItemCreated, AgentItemKilled
  <2>2. CASE AgentItemKilled(t, i)
    BY <2>2 DEF AgentItemKilled, Forget
  <2> QED
    BY <2>1, <2>2 DEF AgentItemStarted, AgentMessageDelta, AgentItemCreated
<1>3. /\ fresh => i \notin minted
      /\ ~fresh => i \in started[t] /\ itemTurn[i] = NoTurn
  BY DEF AgentItemStarted, AgentMessageDelta, AgentItemCreated, AgentItemKilled, MayName,
     StartedIsOpen
<1>4. turnThread'[t] = th /\ turnStatus'[t] # "absent"
  <2>1. \/ UNCHANGED <<turnThread, turnStatus>>
        \/ turnThread' = turnThread /\ turnStatus' = [turnStatus EXCEPT ![t] = "failed"]
    BY DEF AgentItemStarted, AgentMessageDelta, AgentItemCreated, AgentItemKilled, AddItem,
       EndTurn, FinishTurn, repoVars
  <2> QED
    BY <1>1, <2>1 DEF TypeOK, RepoTypeOK
<1>5. /\ Announce(t, i) \in Seq(ThreadEvent) /\ Follows(t, i, fresh, Announce(t, i))
      /\ fresh => \E m \in DOMAIN Announce(t, i) : Announce(t, i)[m].item = i
  BY EventType, AnnouncedFollows
<1>6. /\ delta \in Seq(ThreadEvent) /\ Follows(t, i, fresh, delta)
      /\ fresh => \E m \in DOMAIN delta : delta[m].item = i
      /\ completed \in Seq(ThreadEvent) /\ Follows(t, i, fresh, completed)
      /\ fresh => \E m \in DOMAIN completed : completed[m].item = i
  BY AnnouncedFollows, AnnounceThenOpen
<1>7. /\ failed \in Seq(ThreadEvent) /\ Follows(t, i, fresh, failed)
      /\ fresh => \E m \in DOMAIN failed : failed[m].item = i
  <2>1. failed \in Seq(ThreadEvent) /\ Follows(t, i, fresh, failed)
    <3> HIDE DEF fresh
    <3> fresh \in BOOLEAN
      BY DEF fresh
    <3> QED
      BY <1>5, FollowsEnd
  <2>2. \A m \in DOMAIN Announce(t, i) : m \in DOMAIN failed /\ failed[m] = Announce(t, i)[m]
    <3>1. Ended("failed", t) \in ThreadEvent
      BY EndedEvent
    <3> QED
      BY <1>5, <3>1
  <2> QED
    BY <1>5, <2>1, <2>2
<1>8. \/ Publish(th, Announce(t, i)) \/ Publish(th, delta)
      \/ Publish(th, completed) \/ Publish(th, failed)
  BY DEF AgentItemStarted, AgentMessageDelta, AgentItemCreated, AgentItemKilled, EndTurn
<1> HIDE DEF delta, completed, failed, fresh
<1>9. PICK events \in Seq(ThreadEvent) :
          /\ Publish(th, events) /\ Follows(t, i, fresh, events)
          /\ fresh => \E m \in DOMAIN events : events[m].item = i
  BY <1>5, <1>6, <1>7, <1>8
<1>10. TouchesItem(th, t, i, fresh, events)
  BY <1>2, <1>3, <1>4, <1>9 DEF TouchesItem
<1>11. fresh \in BOOLEAN
  BY DEF fresh
<1> QED
  BY <1>1, <1>9, <1>10, <1>11 DEF TouchesOneItem

\* Every step of the service touches one item, or none.
LEMMA TouchStep ==
    ASSUME ~RunnerFaults, TypeOK, LinkInv, EventsAreMinted, StartedIsOpen, [Next]_vars
    PROVE  TouchesOneItem \/ TouchesNoItem
<1>1. ASSUME NEW th \in Thread, NEW t \in Turn, NEW i \in Item,
             StartTurn(th, t, i) \/ SteerTurn(th, t, i)
      PROVE  TouchesOneItem
  BY <1>1, RequestTouches
<1>2. ASSUME NEW t \in Turn, NEW i \in Item,
             \/ AgentItemStarted(t, i) \/ AgentMessageDelta(t, i)
             \/ AgentItemCreated(t, i) \/ AgentItemKilled(t, i)
      PROVE  TouchesOneItem \/ TouchesNoItem
  BY <1>2, RunnerTouches, RepeatTouches
<1>3. ASSUME NEW t \in Turn,
             AgentProgressUpdated(t) \/ RunnerReturns(t) \/ RunnerRaises(t) \/ TaskCancelled(t)
      PROVE  TouchesNoItem
  <2>1. turnThread[t] \in Thread
    <3>1. running[t] # NoThread
      BY <1>3 DEF AgentProgressUpdated, RunnerReturns, RunnerRaises, TaskCancelled, LinkInv,
         TasksAreTracked, Live
    <3> QED
      BY <3>1, LiveTurn
  <2>2. minted' = minted /\ started' = started
    BY <1>3 DEF AgentProgressUpdated, RunnerReturns, RunnerRaises, TaskCancelled
  <2>3. \A type \in TurnEvents :
            /\ <<TurnEvent(type, t)>> \in Seq(ThreadEvent)
            /\ TurnEvent(type, t).item = NoItem /\ TurnEvent(type, t).type \notin ItemEvents
    BY DEF TurnEvent, ThreadEvent, TurnEvents, ItemEvents
  <2>4. \E type \in TurnEvents :
            Publish(turnThread[t], <<TurnEvent(type, t)>>) \/ Publish(turnThread[t], <<>>)
    <3>1. CASE AgentProgressUpdated(t)
      BY <3>1 DEF AgentProgressUpdated, TurnEvents
    <3>2. ASSUME NEW status \in Terminal, EndTurn(t, status, <<>>)
          PROVE  \E type \in TurnEvents :
                    \/ Publish(turnThread[t], <<TurnEvent(type, t)>>)
                    \/ Publish(turnThread[t], <<>>)
      <4>1. PICK type \in TurnEvents : Ended(status, t) = TurnEvent(type, t)
        BY DEF Ended, TurnEvents
      <4>2. Ended(status, t) \in ThreadEvent
        BY EndedEvent
      <4>3. <<>> \o <<Ended(status, t)>> = <<Ended(status, t)>>
        BY <4>2, ConcatEmptySeq
      <4> QED
        BY <3>2, <4>1, <4>3 DEF EndTurn
    <3> QED
      BY <1>3, <3>1, <3>2 DEF RunnerReturns, RunnerRaises, TaskCancelled, Terminal
  <2>5. PICK events \in Seq(ThreadEvent) :
            /\ Publish(turnThread[t], events)
            /\ \A m \in DOMAIN events :
                  events[m].item = NoItem /\ events[m].type \notin ItemEvents
    <3>1. PICK type \in TurnEvents :
              Publish(turnThread[t], <<TurnEvent(type, t)>>) \/ Publish(turnThread[t], <<>>)
      BY <2>4
    <3> DEFINE e == TurnEvent(type, t)
    <3>2. e.item = NoItem /\ e.type \notin ItemEvents /\ <<e>> \in Seq(ThreadEvent)
      BY <2>3
    <3> HIDE DEF e
    <3>3. /\ \A m \in DOMAIN <<e>> : <<e>>[m].item = NoItem /\ <<e>>[m].type \notin ItemEvents
          /\ \A m \in DOMAIN <<>> : FALSE
          /\ <<>> \in Seq(ThreadEvent)
      BY <3>2
    <3> QED
      BY <3>1, <3>2, <3>3 DEF e
  <2> QED
    BY <2>1, <2>2, <2>5 DEF TouchesNoItem
<1>4. ASSUME UNCHANGED <<minted, published>>,
             \A u \in Turn : started'[u] = started[u] \/ started'[u] = {}
      PROVE  TouchesNoItem
  BY <1>4 DEF TouchesNoItem
<1>5. CASE Initialize \/ Crash \/ Shutdown \/ Stop
  BY <1>4, <1>5 DEF Initialize, Crash, Shutdown, Stop, Forget, memory
<1>6. ASSUME NEW th \in Thread, CreateThreadRequest(th) PROVE TouchesNoItem
  BY <1>4, <1>6 DEF CreateThreadRequest, serviceVars, memory
<1>7. ASSUME NEW t \in Turn,
             \/ WaiterCancelled(t) \/ FirstStep(t) \/ RunnerReceives(t) \/ RunnerIgnoresCancel(t)
             \/ \E th \in Thread : InterruptTurn(th, t)
      PROVE  TouchesNoItem
  BY <1>4, <1>7 DEF WaiterCancelled, FirstStep, RunnerReceives, RunnerIgnoresCancel, InterruptTurn
<1>8. CASE UNCHANGED vars
  BY <1>4, <1>8 DEF vars, serviceVars, memory
<1>9. ASSUME NEW th \in Thread, NEW t \in Turn, NEW i \in Item,
             StartTurnKilled(th, t, i) \/ SteerTurnKilled(th, t, i)
      PROVE  TouchesOneItem
  BY <1>9, KilledRequestTouches
<1>10. ASSUME NEW t \in Turn, NEW status \in Terminal, EndTurnKilled(t, status)
       PROVE  TouchesNoItem
  BY <1>4, <1>10 DEF EndTurnKilled, Forget
<1> QED
  BY <1>1, <1>2, <1>3, <1>5, <1>6, <1>7, <1>8, <1>9, <1>10 DEF Next

\* Events about the turn alone change nothing in the life of an item.
LEMMA NoItemTouched ==
    ASSUME TypeOK, LinkInv, RowsMove, FeedsGrow, LifeInv, TouchesNoItem
    PROVE  LifeInv'
<1>1. \A o \in Thread : \A j \in DOMAIN published[o] :
          j \in DOMAIN published'[o] /\ published'[o][j] = published[o][j]
  BY FeedsKeep
<1>2. \A o \in Thread : \A j \in DOMAIN published'[o] :
          \/ j \in DOMAIN published[o] /\ published'[o][j] = published[o][j]
          \/ published'[o][j].item = NoItem /\ published'[o][j].type \notin ItemEvents
  <2>1. CASE published' = published
    BY <2>1
  <2>2. ASSUME NEW th \in Thread, NEW events \in Seq(ThreadEvent), Publish(th, events),
               \A m \in DOMAIN events :
                  events[m].item = NoItem /\ events[m].type \notin ItemEvents
        PROVE  \A o \in Thread : \A j \in DOMAIN published'[o] :
                  \/ j \in DOMAIN published[o] /\ published'[o][j] = published[o][j]
                  \/ published'[o][j].item = NoItem /\ published'[o][j].type \notin ItemEvents
    BY <2>2, Grown
  <2> QED
    BY <2>1, <2>2 DEF TouchesNoItem
<1>3. EventsAreMinted'
  BY <1>2 DEF LifeInv, EventsAreMinted, TouchesNoItem
<1>4. StartedIsOpen'
  <2> SUFFICES ASSUME NEW t \in Turn, NEW i \in started'[t]
               PROVE  /\ i \in minted' /\ turnStatus'[t] # "absent"
                      /\ \E j \in DOMAIN published'[turnThread'[t]] :
                            published'[turnThread'[t]][j].item = i
                      /\ \A j \in DOMAIN published'[turnThread'[t]] :
                            published'[turnThread'[t]][j].item = i =>
                                published'[turnThread'[t]][j].turn = t
    BY DEF StartedIsOpen
  <2>1. i \in started[t]
    BY DEF TouchesNoItem
  <2>2. i \in Item /\ i # NoItem
    BY <2>1, ServiceAssumption DEF TypeOK
  <2>3. /\ i \in minted /\ turnStatus[t] # "absent"
        /\ \E j \in DOMAIN published[turnThread[t]] : published[turnThread[t]][j].item = i
        /\ \A j \in DOMAIN published[turnThread[t]] :
              published[turnThread[t]][j].item = i => published[turnThread[t]][j].turn = t
    BY <2>1 DEF LifeInv, StartedIsOpen
  <2>4. turnThread'[t] = turnThread[t] /\ turnStatus'[t] # "absent" /\ turnThread[t] \in Thread
    BY <2>3, RowsKept DEF LinkInv, RowsHaveThreads, TypeOK, RepoTypeOK
  <2> QED
    BY <1>1, <1>2, <2>2, <2>3, <2>4 DEF TouchesNoItem
<1>5. ItemLifecycle'
  <2> SUFFICES ASSUME NEW th \in Thread PROVE LifecycleOf(published[th])'
    BY DEF LifecycleByFeed, ItemLifecycle, LifecycleOf
  <2>1. LifecycleOf(published[th])
    BY LifecycleByFeed DEF LifeInv
  <2>2. published[th] \in Seq(ThreadEvent)
    BY DEF TypeOK
  <2> DEFINE f == published[th]
             g == published'[th]
  <2>3. ASSUME NEW k \in DOMAIN g, g[k].type \in ItemEvents
        PROVE  /\ k \in DOMAIN f /\ g[k] = f[k]
               /\ \A j \in 1 .. k - 1 : j \in DOMAIN f /\ g[j] = f[j]
    <3>1. k \in DOMAIN f /\ g[k] = f[k]
      BY <1>2, <2>3
    <3>2. \A j \in 1 .. k - 1 : j \in DOMAIN f
      BY <2>2, <3>1
    <3> QED
      BY <1>1, <3>1, <3>2
  <2> HIDE DEF f, g
  <2>4. LifecycleOf(f) => LifecycleOf(g)
    BY <2>3 DEF LifecycleOf
  <2> QED
    BY <2>1, <2>4 DEF f, g, LifecycleOf
<1> QED
  BY <1>3, <1>4, <1>5 DEF LifeInv

\* Events about one item keep the order of that item's events, and the items
\* that are started but not stored.
LEMMA OneItemTouched ==
    ASSUME TypeOK, LinkInv, RowsMove, FeedsGrow, AnnounceInv, LifeInv, TouchesOneItem
    PROVE  LifeInv'
<1>1. PICK th \in Thread, t \in Turn, i \in Item, fresh \in BOOLEAN,
           events \in Seq(ThreadEvent) : TouchesItem(th, t, i, fresh, events)
  BY DEF TouchesOneItem
<1>2. /\ \A o \in Thread : \A j \in DOMAIN published[o] :
            j \in DOMAIN published'[o] /\ published'[o][j] = published[o][j]
      /\ \A o \in Thread : \A j \in DOMAIN published'[o] :
            \/ j \in DOMAIN published[o] /\ published'[o][j] = published[o][j]
            \/ o = th /\ \E m \in DOMAIN events : published'[o][j] = events[m]
      /\ \A m \in DOMAIN events : \E j \in DOMAIN published'[th] : published'[th][j] = events[m]
  BY <1>1, Grown DEF TouchesItem
<1>3. /\ turnThread'[t] = th /\ turnStatus'[t] # "absent"
      /\ minted' = minted \cup {i}
      /\ \A u \in Turn : \/ started'[u] = started[u] \/ started'[u] = {}
                         \/ /\ u = t /\ started'[u] = started[u] \cup {i}
                            /\ fresh => \E m \in DOMAIN events : events[m].item = i
      /\ fresh => i \notin minted
      /\ ~fresh => i \in started[t] /\ itemTurn[i] = NoTurn /\ turnThread[t] = th
      /\ Follows(t, i, fresh, events)
  BY <1>1 DEF TouchesItem
<1>4. \A m \in DOMAIN events : events[m].turn = t /\ events[m].item \in {i, NoItem}
  BY <1>3 DEF Follows
<1>5. i # NoItem
  BY ServiceAssumption
<1>6. \A j \in DOMAIN published[th] : fresh => published[th][j].item # i
  BY <1>3, <1>5 DEF LifeInv, EventsAreMinted
<1>7. ~fresh =>
          /\ \E j \in DOMAIN published[th] : published[th][j].item = i
          /\ \A j \in DOMAIN published[th] :
                published[th][j].item = i => published[th][j].turn = t
  <2> SUFFICES ASSUME ~fresh
               PROVE  /\ \E j \in DOMAIN published[th] : published[th][j].item = i
                      /\ \A j \in DOMAIN published[th] :
                            published[th][j].item = i => published[th][j].turn = t
    OBVIOUS
  <2>1. i \in started[t] /\ turnThread[t] = th
    BY <1>3
  <2>2. /\ \E j \in DOMAIN published[turnThread[t]] : published[turnThread[t]][j].item = i
        /\ \A j \in DOMAIN published[turnThread[t]] :
              published[turnThread[t]][j].item = i => published[turnThread[t]][j].turn = t
    <3>1. StartedIsOpen
      BY DEF LifeInv
    <3>2. \E j \in DOMAIN published[turnThread[t]] : published[turnThread[t]][j].item = i
      BY ONLY <2>1, <3>1, t \in Turn DEF StartedIsOpen
    <3>3. \A j \in DOMAIN published[turnThread[t]] :
              published[turnThread[t]][j].item = i => published[turnThread[t]][j].turn = t
      BY ONLY <2>1, <3>1, t \in Turn DEF StartedIsOpen
    <3> QED
      BY <3>2, <3>3
  <2> QED
    BY <2>1, <2>2
<1>8. EventsAreMinted'
  BY <1>2, <1>3, <1>4 DEF LifeInv, EventsAreMinted
<1>9. StartedIsOpen'
  <2> SUFFICES ASSUME NEW u \in Turn, NEW k \in started'[u]
               PROVE  /\ k \in minted' /\ turnStatus'[u] # "absent"
                      /\ \E j \in DOMAIN published'[turnThread'[u]] :
                            published'[turnThread'[u]][j].item = k
                      /\ \A j \in DOMAIN published'[turnThread'[u]] :
                            published'[turnThread'[u]][j].item = k =>
                                published'[turnThread'[u]][j].turn = u
    BY DEF StartedIsOpen
  <2>1. CASE k \in started[u]
    <3> DEFINE o == turnThread[u]
    <3>1. /\ k \in minted /\ turnStatus[u] # "absent" /\ k \in Item
          /\ \E j \in DOMAIN published[o] : published[o][j].item = k
          /\ \A j \in DOMAIN published[o] : published[o][j].item = k => published[o][j].turn = u
      BY <2>1 DEF LifeInv, StartedIsOpen, TypeOK
    <3>2. turnThread'[u] = o /\ turnStatus'[u] # "absent" /\ o \in Thread
      BY <3>1, RowsKept DEF LinkInv, RowsHaveThreads, TypeOK, RepoTypeOK
    <3>3. ASSUME o = th, k = i PROVE u = t
      <4>1. ~fresh
        BY <1>3, <3>1, <3>3
      <4> QED
        BY <1>7, <3>1, <3>3, <4>1
    <3> HIDE DEF o
    <3>4. ASSUME NEW j \in DOMAIN published'[o], published'[o][j].item = k
          PROVE  published'[o][j].turn = u
      <4>1. CASE j \in DOMAIN published[o] /\ published'[o][j] = published[o][j]
        BY <3>1, <3>4, <4>1
      <4>2. ASSUME o = th, NEW m \in DOMAIN events, published'[o][j] = events[m]
            PROVE  published'[o][j].turn = u
        <5>1. k = i
          BY <1>4, <3>1, <3>4, <4>2, ServiceAssumption
        <5> QED
          BY <1>4, <3>3, <4>2, <5>1
      <4> QED
        BY <1>2, <3>2, <4>1, <4>2
    <3> QED
      BY <1>2, <1>3, <3>1, <3>2, <3>4
  <2>2. CASE k \notin started[u]
    <3>1. u = t /\ k = i
      BY <1>3, <2>2
    <3>2. fresh
      BY <1>3, <2>2, <3>1
    <3>3. \E j \in DOMAIN published'[th] : published'[th][j].item = i
      BY <1>2, <1>3, <2>2, <3>1, <3>2
    <3>4. \A j \in DOMAIN published'[th] : published'[th][j].item = i => published'[th][j].turn = t
      BY <1>2, <1>4, <1>6, <3>2
    <3> QED
      BY <1>3, <3>1, <3>3, <3>4
  <2> QED
    BY <2>1, <2>2
<1>10. ItemLifecycle'
  <2> SUFFICES ASSUME NEW o \in Thread PROVE LifecycleOf(published[o])'
    BY DEF ItemLifecycle, LifecycleOf
  <2>1. LifecycleOf(published[o]) /\ published[o] \in Seq(ThreadEvent)
    BY LifecycleByFeed DEF LifeInv, TypeOK
  <2>2. CASE o # th
    <3>1. published'[o] = published[o]
      BY <1>1, <2>2 DEF TouchesItem, Publish, TypeOK
    <3> QED
      BY <2>1, <3>1 DEF LifecycleOf
  <2>3. CASE o = th
    <3> DEFINE f == published[th]
    <3>1. published'[th] = f \o events
      BY <1>1 DEF TouchesItem, Publish, TypeOK
    <3>2. \A j \in DOMAIN f : f[j].item = i => f[j].turn = t /\ f[j].type # "item.completed"
      <4> SUFFICES ASSUME NEW j \in DOMAIN f, f[j].item = i
                   PROVE  f[j].turn = t /\ f[j].type # "item.completed"
        OBVIOUS
      <4>1. ~fresh
        BY <1>6
      <4>2. f[j].turn = t /\ itemTurn[i] = NoTurn
        BY <1>3, <1>7, <4>1
      <4>3. f[j].type = "item.completed" => itemTurn[i] = t
        BY <4>2 DEF AnnounceInv, AnnouncedIsStored, CompletedIsStored
      <4> QED
        BY <4>2, <4>3, RepoAssumption
    <3>3. fresh <=> \A j \in DOMAIN f : f[j].item # i
      BY <1>6, <1>7
    <3>4. LifecycleOf(f) /\ f \in Seq(ThreadEvent)
      BY <2>1, <2>3
    <3> HIDE DEF f
    <3>5. LifecycleOf(f \o events)
      BY <1>3, <3>2, <3>3, <3>4, LifecycleGrows
    <3> QED
      BY <2>3, <3>1, <3>5 DEF LifecycleOf
  <2> QED
    BY <2>2, <2>3
<1> QED
  BY <1>8, <1>9, <1>10 DEF LifeInv

\* README.md:87-91: whatever fails, is killed or is steered, the events of an item
\* are item.started, item.delta* and at most one item.completed, in one turn, as
\* long as the runner adds nothing to an item that is stored or another turn's.  It
\* may announce an item as often as it likes: started_items keeps the first.
THEOREM ItemLifecycleCorrect ==
    ASSUME ~RunnerFaults PROVE Spec => []ItemLifecycle
<1> DEFINE I == IndexInv /\ FeedIsOfItsThread /\ TerminalEventIsLast /\ AnnounceInv /\ LifeInv
<1>1. Init => I
  <2>1. Init => AnnounceInv
    BY DEF Init, RepoInit, AnnounceInv, CompletedIsItem, AnnouncedIsStored, CompletedIsStored,
       StoredIsCompleted
  <2>2. Init => LifeInv
    BY DEF Init, LifeInv, EventsAreMinted, StartedIsOpen, ItemLifecycle
  <2> QED
    BY <2>1, <2>2, InitIndex, InitFeed
<1>2. TypeOK /\ LinkInv /\ RowsAreConnected /\ I /\ [Next]_vars => I'
  <2> SUFFICES ASSUME TypeOK, LinkInv, RowsAreConnected, I, [Next]_vars PROVE I'
    OBVIOUS
  <2>1. RowsMove /\ FeedsGrow
    BY RowStep, FeedStep DEF IndexInv
  <2>2. AnnounceInv'
    BY StoreStep, NothingStored, OneStored, OneCut
  <2>3. LifeInv'
    BY <2>1, TouchStep, NoItemTouched, OneItemTouched DEF LifeInv
  <2> QED
    BY <2>2, <2>3, IndexStep, FeedThreadStep, TerminalStep
<1>3. StateInv => TypeOK /\ LinkInv
  BY DEF StateInv, LinkInv
<1>4. I => ItemLifecycle
  BY DEF LifeInv
<1> HIDE DEF I
<1> QED
  BY <1>1, <1>2, <1>3, <1>4, StateCorrect, ServiceRowsConnected, PTL DEF Spec
=============================================================================
