# TLA+ development of the agent thread runtime

This directory holds TLA+ models of the gateway and its terminal client, TLC
configurations that check them on small instances, and TLAPS proofs about every
part that is modelled: each invariant and each action property that a passing
run checks is a theorem too. Source paths below are relative to the repository.

* `PROJECT.json` lists the components, the runs, the source lines every
  definition stands for, the hazards, and the theorems.
* Every property has at least one *faulty variant* next to the definition it
  could be confused with (`TakeLatestEvent` beside `TakeEvent`): putting it in
  place of the original makes TLC find the property violated.

## 1. The system

The gateway is one asyncio process. A client opens a WebSocket; its requests go
through `JsonRpcConnection` and `ConversationRpcMethods` to
`AgentThreadService`, which writes through `SQLModelRepository`, runs each turn
as an asyncio task over an `AgentRunner`, and publishes events to the
`EventBroker`. The broker puts them into the queue of each subscription, and a
forwarder task of the connection sends them to the client. `agent-cli` is such a
client.

| Component | State it keeps | Operations | What is hard about it |
|---|---|---|---|
| `SQLModelRepository` | tables `threads`, `turns`, `items`; a partial unique index on running turns | `initialize`, `create_thread`, `create_turn`, `add_item`, `finish_turn`, `get_thread` | recovery at start, all-or-nothing `create_turn`, files older than the index, reads ordered by a wall clock |
| `AgentThreadService` | `_running` with a task, a control queue and `started_items` per turn; `_latest_progress` | `create_thread`, `start_turn`, `steer_turn`, `interrupt_turn`, `wait_for_turn`, `subscribe`, `_execute` | cancellation of a task at any point, writes that fail between two publications, crash and restart |
| `AgentRunner` contract, `TurnControl` | the control queue of a turn | `run`, `receive_one` | a runner may send any event, reuse ids, swallow a cancellation |
| `LlmifyAgentRunner` | prompt, round, pending calls of the tool loop | `run`, `_build_messages` | a call that arrives twice, two commits per call, a prompt rebuilt from whatever is stored |
| `EventBroker` | queues by thread | `subscribe`, `publish`, `progress_requested` | subscribers come and go while others publish; a queue is removed by a generator's `finally` |
| `ConversationRpcMethods` | `_subscriptions`: a forwarder task per thread | `_subscribe`, `_unsubscribe`, `_stop_subscription`, `_forward_events`, `close` | cancelling a forwarder in `get`, in `send`, or before it started |
| `JsonRpcConnection` | the socket and its send lock | `run`, `_handle`, `_send` | frames without id, with a null id, refused or unreadable; the client leaves during a request, a send or an idle receive |
| CLI `JsonRpcClient` | next id, pending futures, receiver task, queue of notifications | `request`, `_receive`, `_dispatch`, `close` | concurrent and cancelled callers, a socket lost with frames in flight, a receiver that ends early |
| CLI `Session`, commands, `run_once` | current thread, active turn, finished turns | `create_thread`, `use_thread`, `start_turn`, `handle_event`, every slash command | a reply handled after the events that follow it; other clients in the same thread |
| CLI `Console`, `EventRenderer`, `_prompt_loop` | whether the cursor is at a line start, the pending prompt, the ids being streamed | `write`, `line`, `break_line`, `message`, `ask`, `render` | events of several threads are rendered while the user types and `input()` blocks in a thread |

Not modelled: the container wiring, settings, schema routes, the example tool and
the theme (no state), and the fields of the protocol schemas (validated by
pydantic; which requests are refused, and with what code, is modelled).

What makes the components correct:

* repository: one running turn per thread, no row without its parents, a turn
  has its user message, terminal statuses are final, a thread reads back in the
  order of its commits and never in two orders;
* service: `_running`, rows, tasks and events agree; turns of a thread do not
  interleave; the terminal event is last and true; an item is announced, then
  completed at most once, completed only if stored, and stored without being
  completed only where a kill cut the turn off; a cancellation or a restart ends
  the turn;
* runner: every prompt is well formed, every call runs once, every stored call
  has its result, the loop ends;
* subscriptions: a client gets the feed of its threads in order, without
  repetition or gaps, a reply is true, and nothing is left after a disconnect;
* channel: a caller gets the answer to its own call, served at most once; what is
  due an answer gets exactly one; no caller waits for ever on a live receiver;
* client: its idea of the active turn is the gateway's once nothing is under way,
  a request never pairs a turn with another thread, one-shot mode returns;
* terminal: blocks begin their own lines, the prompt comes back, every message is
  written once and stays on the screen.

## 2. The modules

```
SQLModelRepository <- AgentThreadService <- ConversationProperties <- ServiceProofs
   ^        ^                                 | INSTANCE TurnLedger        |
   |        RepositoryProofs  <--------------------------------------------+
   |                ^
   ThreadHistory <- HistoryProofs
RpcChannel (INSTANCE RemoteCalls) <- RpcProofs
ThreadSubscriptions <- SubscriptionProperties <- SubscriptionProofs
LlmifyRunner <- RunnerProofs
CliSession <- SessionProofs
CliConsole <- ConsoleProofs
MCRepository, MCService, MCSubscriptions, MCRunner, MCRpc, MCSession, MCConsole:
instances for TLC
```

**`SQLModelRepository`** — the tables as functions from ids to columns. A write
runs in one `Session` under the lock and never suspends, so it is one step that
commits or leaves everything as it was. `CreateTurn` inserts both rows or none.
`IndexAdmits` is the partial unique index; `LegacySchema = TRUE` stands for a
file created before it, to which `create_all` adds nothing. `RepoSpec` lets
callers pass any ids. Payloads are left out: no write reads them.

**`ThreadHistory`** — the rows with their `created_at` stamps and what
`get_thread` reads back: `ORDER BY created_at, id`. A row is stamped in the step
that commits it, because the service reads the clock and writes without
suspending; the clock may stand still or be set back between two commits, and ids
are in any order. `committed` is a history of the real order. `ByCreation` puts a
row where the number of rows before it says, which is what can be proved about;
the provers know nothing of the library's `SortSeq`. `completed_at` is left out,
since no query reads it.

**`AgentThreadService`** — the service over the repository. The event loop
switches only where a coroutine really suspends. The service's locks are never
held across a suspension, the repository is synchronous and the queues are
unbounded, so a request is one action and so is the handling of one runner event
in `_execute`, for every other coroutine. A kill of the process is not bound to
suspensions: `Crash` falls between two actions, and `StartTurnKilled`,
`SteerTurnKilled`, `AgentItemKilled` and `EndTurnKilled` cut one in two between
its commit and a publication (service.py:108 and 119, 147 and 148, 266 and 267,
300 and the terminal event), which leaves the row and takes the process down.
`task` follows the asyncio task: `scheduled` (created, not run), `active`,
`cancelling`, `discarded` (cancelled before its first step, so asyncio never
enters `_execute`), `done`. `EndTurn` is the `except`/`else` branches with
`finally` (`Leave`), including a `finish_turn` that raises. `published` is a
history of what `EventBroker.publish` was given. Three constants say how the
surroundings behave: `StorageFaults` (a write may raise), `RunnerFaults` (item
ids may be reused, whoever drew them, and a cancellation swallowed),
`EagerCallers` (a task may be cancelled before its first step). A runner may
announce an item of its turn again and again in any case; the service passes on
the first announcement only.

**`ConversationProperties`** — what the service promises, the inductive
invariant `ServiceInv`, and the refinement of **`TurnLedger`**: the history of
threads without processes, tasks or tables (a thread has at most one open turn,
an item joins only the open turn of its thread, a restart closes what is open).
The mapping takes the running row of a thread as its open turn, terminal
statuses as outcomes, and the rows of `items` as entries.

**`ThreadSubscriptions`** and **`SubscriptionProperties`** — broker, forwarder
tasks and the request loop of a connection. Turns are an environment that
publishes. An event is its position in its thread's feed, which is what the
properties tell apart. A forwarder is suspended in `queue.get` (`waiting`), in
`_send` (`sending`), or not yet started (`created`). Cancelled in `get`, the
generator closes its queue at once; cancelled in `_send`, outside the generator,
the queue stays registered until the loop's finalizer closes it
(`FinalizeGenerator`). `StorageFaults` names where `get_thread` may raise: in
the request (`"request"`), which is answered with an error and leaves the old
subscription at work (`LookupFails`, `failing`), or in the forwarder
(`"forwarder"`), which ends before it is ready. Of the methods of
`ConversationRpcMethods` these are the two that touch the state of a connection;
the others pass a request on to the service. `NothingIsMissed` compares what was
sent, is in hand and waits with the feed.

**`LlmifyRunner`** — the tool loop: streaming, collecting calls, invoking them
one after the other, storing `tool_call` and `tool_result` as two commits, the
next round. Messages keep only their role and the calls they make or answer.
`_build_messages` maps the stored items to the prompt of the next turn.

**`RpcChannel`** — `JsonRpcClient` and `JsonRpcConnection` over one WebSocket. A
frame is its id (of a call, null, or absent) and what the gateway can make of its
body: valid, refused in one of the ways of `_request_error`, no JSON, or binary.
The gateway handles one frame at a time (`Receive`, `Handle`, `Send`); the
receiver task settles the future an answer names (`Dispatch`); callers are
cancelled (`Abandon`); either end closes, the connection is lost with a suffix of
both streams (`Lose`), a process dies (`Crash`), and other programs send frames
of their own. **`RemoteCalls`** is what callers are promised, without frames, ids
or sockets: a call is served at most once, returns what the gateway made of it,
or fails without saying whether it was served. `ImplementsRemoteCalls` is the
refinement.

**`CliSession`** — the client's receiver, event listener and the command being
executed, with an abstract gateway that answers one request at a time and other
clients that start turns in the threads they know. The steps of a command are
split where it awaits a reply, which is where events can overtake it. Any request
but `thread.unsubscribe`, which cannot fail, may be refused (`Refuse`), and the
`RpcError` ends the command where it stands (`CommandFails`): a `/use` whose
subscription fails keeps the old thread. The history `rejoined` tells threads the
client created, and whose subscription the gateway left alone, from those it
entered with `/use` or whose subscription was replaced or dropped since.

The gateway replaces a subscription in one step here, in several in
`ThreadSubscriptions`. For the client the two are the same: what is published
while no queue is registered is lost like what waits in the old queue just before
the step, and what the new forwarder sends ahead of the reply is handled by the
listener before `Resume` if events overtake the reply, as they may here.

**`CliConsole`** — `Console` with its three fields, `EventRenderer` with its
streaming ids, and the prompt loop. A terminal line is the sequence of what stands
on it: prompt, gutter of a message, text of a message. `input()` blocks in a
thread: the user's Enter moves the cursor there (`Enter`), and `ask` notices later
in the event loop (`Wake`), with events rendered in between. `Colors` is a terminal
on which the prompt is hidden with `CLEAR_LINE`; that takes everything off the
line, and the text among it is kept in the history `erased`. Text is `hasty` if it
was written after Enter and ahead of the next prompt. Without colours the prompt
is left behind by a newline.

## 3. The runs

Passing runs check deadlock too, except where the system really stops: a client
that has left (`MCSubscriptions`, `MCFanOut`), a thread whose bounded turns have
ended (`MCRunner`), a channel whose bounded calls are made and whose ends have
closed (`MCRpc`), a one-shot process that has exited and a user who types nothing
more (`MCSession`, `MCUseBusyThread`), an interactive client that has left
(`MCConsole`). The service never stops: a process that is down can start, one that
is up can crash.

| Run | Bounds | Shows |
|---|---|---|
| `repository` | 2 threads, 2 turns, 3 items with ordered ids, a clock of 3 readings that jumps anywhere | `OneRunningTurnPerThread`, `RowsAreConnected`, `HistoryIsFinal` under any sequence of calls with any ids; `ReadsFollowCommits` while the clock moves on, `ReadsAreStable` whatever it does |
| `service` | 1 thread, 2 turns, 3 items, 6 events, no faults, fairness | `NoTurnIsOrphaned`, `EndedTurnsAreAnnounced`, `ItemLifecycle`; `InterruptEndsTurn` and `RestartEndsTurns` |
| `service_faults` | 2 threads, 2 turns, 3 items, 4 events, every fault | `TypeOK`, `RunningIsStored`, `TurnsDoNotInterleave`, `TerminalEventIsLast`, `AnnouncedIsStored`, `ProgressIsOfRunningTurn`, and `KeepsLedger`, the refinement |
| `runner` | 2 calls per round, 2 rounds, 2 turns, 1 steer, crashes, unstorable results, fairness | `PromptIsWellFormed` for prompts made by the loop and from the history of a first turn of any outcome, `EachCallRunsOnce`, `CompletedTurnsLeaveNothingOpen`, `CallsHaveResults`, `TurnsEnd` |
| `subscriptions` | 1 client, 3 requests that may fail, 2 forwarders, 2 events, fairness | `SubscriptionsTypeOK`, `EachEventOnceInOrder`, `AnsweredIsDone`, `RequestsAreAnswered`, `DisconnectReleasesQueues` |
| `fan_out` | 2 clients, 1 subscription each, 3 events, requests and forwarders that fail | `NothingIsMissed`, `ProgressIsAggregated` |
| `rpc` | 2 calls, 1 foreign frame of each kind, 1 event or broken frame, fairness | `AnswersAreDue`, `CallsReturnInOrder`, `CallsEnd`, and `ImplementsRemoteCalls`, the refinement |
| `session` | 2 threads, one of them other clients', 2 turns, every command, run_once, requests that are refused, fairness | `OwnViewIsRight`, `ActiveTurnIsOfThread`, `OneShotSawItsTurn`, `OneShotReturns` |
| `console` | 2 threads, 3 messages of 2 deltas, 1 gap in a subscription, a terminal with colours | `BlocksStartLines`, `PromptComesBack`, `MessagesAreShownOnce` |
| `mode_change`, `use_busy_thread`, `interleaved_deltas` | small | the deviations of section 5 |

Why the bounds are enough. Two turns of a thread are the first case with a
successor that could meet the leftovers of its predecessor (row, entry,
progress, events), and a restart between them; three items give a turn its user
message, a steer and an item of the runner at once. Six events leave room for
the mandatory ones of a turn and for a delta or progress before, between and
after; with four, two turns still meet in one feed and an item is announced,
repeated and completed. Two threads make a wrong thread id visible. Two rounds
are the first value at which the loop counts, and nothing but that count ends a
turn whose model calls a tool in every response; two calls in a round let a
response repeat one and go on with the other. Two forwarders are the replaced
one and its successor; two events put one in the hand of the first while the
other waits in its queue or comes after the replacement. The three events of
`fan_out` and `mode_change` make a turn that ends and the start of the next.
Three clock readings give a tie, a step forward and a step back around one
commit. Two calls are in flight at once, one of them abandoned, answered late or
lost with the other's answer; a third party's frame falls before, between and
after them. Three messages let two threads stream at once and one of them go on
with a second message. `MaxPublished`, `MaxControl`, `MaxRequests`, `MaxTurns`,
`MaxSteers`, `MaxCalls` (of `RpcChannel`), `MaxParallel`, `MaxForeign`,
`MaxPushed`, `MaxDeltas`, `MaxGaps` and `MaxClock` bound what the environment
does; none restricts a step the code is obliged to take (the terminal event of a
turn, for instance, is exempt from `MaxPublished` in the service). Symmetry is
used only in runs without liveness, over ids that no definition orders.
`RepoTypeOK`, `HistoryTypeOK`, `RpcTypeOK` and `SessionTypeOK` are proved and in
no run; `ConsoleTypeOK` documents the states of its module.

What `service` needs and `service_faults` shows it needs: `NoTurnIsOrphaned` and
`EndedTurnsAreAnnounced` are false when a write fails (a turn whose
`finish_turn` raised keeps a running row until the next start) or when a caller
cancels a task that has not run; `ItemLifecycle` is false when a runner reuses an
id. The other invariants need none of that.

### Fairness

* Service: weak fairness of `Initialize` (a supervisor restarts a gateway that
  stopped) and, per turn, of `FirstStep` and `TaskCancelled` (the event loop runs
  the callbacks that are ready). No fairness of the runner: nothing obliges an
  agent to finish, so a turn ends only if it is cancelled or the process restarts.
* Subscriptions: weak fairness of every forwarder and of the connection's
  coroutine (same event loop); a frame that is being sent is either sent or its
  client leaves.
* Runner: the model's stream and a tool come to an end (`StreamStep`,
  `LoopStep`), which the code assumes: it sets no timeout.
* Channel: weak fairness of the receiver task and of the gateway's coroutine. Both
  are single loops; whichever of their steps is possible is taken. The network,
  callers and other programs owe nothing.
* Session: both event loops run, frames arrive, turns end, and a request is served
  or refused. `OneShotReturns` is
  about the client's waiting, so turns that never end are left out.

## 4. The proofs

Every theorem holds for any sets of threads, turns, items, connections, tasks and
calls, any bounds and every combination of faults, unless the last column says
otherwise. The only facts assumed of the constants are the `ASSUME`s of the
models: null values are no ids, switches are Booleans, bounds are numbers, and
`ChannelAssumption`'s about the kinds of frames and exceptions,
`HistoryAssumption`, that ids can be compared (integers stand for strings), and
`NothingAssumption`, that no request or reply is the null value of `CliSession`.

Some theorems assume that a fault is absent, because they are false with it;
section 5 and the end of section 3 say how. `~LegacySchema` is a
file made by this version of the code, `~StorageFaults` a disk that takes every
write, `~EagerCallers` callers that let a new task take its first step,
`~RunnerFaults` a runner that draws the ids of its items from `uuid4`, as llmify
does, and lets itself be cancelled.

| Module | Theorem | Statement | Assumes |
|---|---|---|---|
| `RepositoryProofs` | `TablesTypeCorrect` | `RepoSpec => []RepoTypeOK` | |
| | `RowsConnectedCorrect` | `RepoSpec => []RowsAreConnected` | |
| | `HistoryFinalCorrect` | `RepoSpec => HistoryIsFinal` | |
| | `OneRunningInTables` | `RepoSpec => []OneRunningTurnPerThread` | `~LegacySchema` |
| `HistoryProofs` | `HistoryTypeCorrect` | `HistorySpec => []HistoryTypeOK` | |
| | `HistoryUsesRepository` | `HistorySpec => RepoSpec` | |
| | `ReadsFollowCorrect` | `HistorySpec => []ReadsFollowCommits` | |
| | `ReadsStableCorrect` | `HistorySpec => ReadsAreStable` | |
| `ServiceProofs` | `TypeCorrect` | `Spec => []TypeOK` | |
| | `StateCorrect` | `Spec => []StateInv` | |
| | `RunningStoredCorrect` | `Spec => []RunningIsStored` | |
| | `ProgressCorrect` | `Spec => []ProgressIsOfRunningTurn` | |
| | `TerminalCorrect` | `Spec => []TerminalEventIsLast` | |
| | `OneRunningCorrect` | `Spec => []OneRunningTurnPerThread` | `~LegacySchema` |
| | `NoInterleavingCorrect` | `Spec => []TurnsDoNotInterleave` | `~LegacySchema` |
| | `ServiceCorrect` | `Spec => []ServiceInv` | `~LegacySchema` |
| | `ServiceUsesRepository` | `Spec => RepoSpec` | |
| | `ServiceRowsConnected` | `Spec => []RowsAreConnected` | |
| | `ServiceHistoryFinal` | `Spec => HistoryIsFinal` | |
| | `ServiceKeepsLedger` | `Spec => KeepsLedger` | `~LegacySchema` |
| | `AnnouncedCorrect` | `Spec => []AnnouncedIsStored` | |
| | `NotOrphanedCorrect` | `Spec => []NoTurnIsOrphaned` | `~StorageFaults`, `~EagerCallers` |
| | `EndedAnnouncedCorrect` | `Spec => []EndedTurnsAreAnnounced` | `~StorageFaults` |
| | `ItemLifecycleCorrect` | `Spec => []ItemLifecycle` | `~RunnerFaults` |
| `RunnerProofs` | `RunsOnceCorrect` | `Spec => []EachCallRunsOnce` | |
| | `NothingOpenCorrect` | `Spec => []CompletedTurnsLeaveNothingOpen` | `~EmptyDeltas` |
| | `ResultsCorrect` | `Spec => []CallsHaveResults` | |
| | `PromptCorrect` | `Spec => []PromptIsWellFormed` | |
| `SubscriptionProofs` | `SubscriptionsTypeCorrect` | `Spec => []SubscriptionsTypeOK` | |
| | `OrderCorrect` | `Spec => []EachEventOnceInOrder` | |
| | `AnsweredCorrect` | `Spec => []AnsweredIsDone` | |
| | `AggregationCorrect` | `Spec => ProgressIsAggregated` | |
| | `NothingMissedCorrect` | `Spec => []NothingIsMissed` | |
| `RpcProofs` | `ChannelTypeCorrect` | `Spec => []RpcTypeOK` | |
| | `ChannelImplementsRemoteCalls` | `Spec => ImplementsRemoteCalls` | |
| | `ReturnOrderCorrect` | `Spec => []CallsReturnInOrder` | |
| | `DueCorrect` | `Spec => []AnswersAreDue` | |
| `SessionProofs` | `SessionTypeCorrect` | `Spec => []SessionTypeOK` | |
| | `ActiveTurnCorrect` | `Spec => []ActiveTurnIsOfThread` | |
| | `OneShotCorrect` | `Spec => []OneShotSawItsTurn` | |
| | `OwnViewCorrect` | `Spec => []OwnViewIsRight` | |
| `ConsoleProofs` | `BlocksCorrect` | `Spec => []BlocksStartLines` | |
| | `PromptBackCorrect` | `Spec => []PromptComesBack` | |
| | `MessagesCorrect` | `Spec => []MessagesAreShownOnce` | |

### The service

The argument goes in four layers, each inductive relative to those before it.

1. *Types* (`TypeStep`).
2. *Links* (`LinkInv`: `DownIsEmpty`, `RunningIsStored`, `TasksAreTracked`,
   `RowsHaveThreads`, `ProgressIsOfRunningTurn`). `RunningIsStored` alone is not
   inductive: recovery ends every running row, which would strand an entry;
   `DownIsEmpty` says the map is empty then. `TasksAreTracked` is what a handler
   needs to know that the turn it ends still has its entry, and so its row.
3. *Rows* (`RowStep`, `IndexStep`). A step adds one running row the index
   admits, ends running rows, or leaves the rows alone.
4. *Feeds*. `FeedStep` shows that every step appends to one feed events of one
   turn that was running (or has just been created), a terminal one only as the
   last, together with the row's status. `TerminalEventIsLast` then needs
   `FeedIsOfItsThread` (an event's turn is stored in the thread of the feed).
   `TurnsDoNotInterleave` needs `SupersededHasEnded`: a turn that others have
   followed in the feed is not running, so it cannot publish again. It does not
   hold on a file without the index, hence the assumption.

### The tables, what is read, and the ledger

`RepositoryProofs` needs no strengthening: with the types, each write keeps the
rows connected and leaves ended turns and stored items alone. The second part of
`ServiceProofs` shows that every step of the service makes one write of the
repository or none (`ServiceUsesRepository`), so whatever is true of the tables
under arbitrary calls is true in the service without a second proof.

`HistoryProofs` first settles the order of a read. `created_at` and id order the
rows of a finite table totally (`OlderIsTotal`), an older row has fewer rows
before it (`OlderHasFewer`), so those numbers are different, and there are as
many as rows: each place of a read is taken by one row (`EachPlaceIsTaken`), and
any sequence of all rows in their order is the read (`OrderIsUnique`).
`ReadsFollowCorrect` then needs `CommittedInv`: the history of a thread has
exactly its items, with growing stamps while the clock moves on.
`ReadsStableCorrect` needs only that a thread's rows grow and keep their stamps
(`RowsGrow`, `GrowthKeepsOrder`): no insertion changes which of two old rows
comes first, whatever the clock does.

`ServiceKeepsLedger` maps each write to a step of `TurnLedger`: `create_turn` to
`Open`, `add_item` to `Record`, `finish_turn` to `Close`, recovery to `CloseAll`,
the others to a stutter. The ledger's open turn is *the* running row of a thread,
which is a choice; `OneRunningTurnPerThread` makes it unique, so this theorem too
is about files with the index.

### What is announced

`AnnouncedCorrect` says that the `items` table and the feeds agree: what a feed
completes is stored, under any crash and any fault, and what is stored is
completed in the feed of its thread, but for one item of a turn that was cut off.
Such a turn has no terminal event and the process that ran it is gone
(`CutOffByKill`); the one item is what it had committed and not yet published when
it was killed. No other gap is allowed: while a turn runs, and in every turn with
a terminal event, each of its items has been completed.
`StoreStep` splits the steps into those that store one item and announce it
(`StoresOne`), those that do neither (`StoresNothing`) and those that a kill cuts
after they stored (`StoresCut`); `CutStays` shows that a turn that was cut off
stays so. Added to the invariant is `CompletedIsItem`, that only events of items
complete one.

`NotOrphanedCorrect` is inductive with the types alone: a step that takes a live
task away ends its row in the same step (`EndTracked`), unless the write fails or
the task had not begun, which the two assumptions exclude; a restart may find
running rows, but recovers them before the process serves. `EndedAnnouncedCorrect`
also needs `LinkInv`: the turn a task ends is the running row of the thread whose
feed gets the event.

`ItemLifecycleCorrect` adds where ids come from and what `started_items` knows
(`LifeInv`): an id in a feed was drawn before (`EventsAreMinted`), and an item
that is in `started_items` has been announced by that turn and no other
(`StartedIsOpen`). `LifecycleGrows` shows that the events one handler publishes
extend a feed that has the property, if they start an item that is new to it and
complete one that is open. A repeated announcement extends the feed by nothing
(`RepeatTouches`). It holds with storage faults, eager callers and kills inside a
step.

### The tool loop

`RunsOnceCorrect` rests on `RunInv`: calls of one response have distinct ids
(`Collect` drops a repetition), a tool that was invoked belongs to an earlier
round or is the first of the calls still to answer (`RanIsBehind`), and that
call stays at the head until its result is stored. `OpenInv` says that the only
message open in a running turn is the one of the round that streams text.
`ResultInv` says that a stored call without result is the last row of the
history, of the turn that is about to store the result.

`PromptCorrect` follows each call of the prompt (`PromptInv`): it is answered
right behind its message, or abandoned in the store, which it stays because the
store only grows (`AbandonedForGood`), or still among the calls the loop is
answering, with nothing but answers since (`CallsAreAnswered`). Each answer is to
a call before it, those still to come included (`AnswersAreCalled`). A prompt
rebuilt from the history has this because a stored result directly follows its
call (`ResultsFollowCalls`).

### Subscriptions

`SubscriptionsTypeCorrect` already needs links between tasks and connections
(`LinkInv`): a subscription is a task of that connection for that thread, and a
task at work is either that subscription or the one a stop waits for
(`ActiveIsKnown`, with `StoppedIsRemoved` and `CloseAwaitsAll`). So a connection
has at most one task at work per thread (`OneAtWork`).

`OrderCorrect` then adds where events are: what was sent has been published, what
waits for a task is in order and behind what it is sending (`WaitingIsOrdered`),
and all of it comes after everything the client has already got of that thread
(`WaitingIsNew`). The last is what makes replacing a forwarder safe: the new
queue starts empty, and `OneAtWork` says that no second task can send in between.

`AnsweredCorrect` adds `AtWork`: the task of a subscription is not cancelled, and
it is registered and at work or the connection is still in `ready.wait()` for
it. It holds with storage faults too: a forwarder that dies before it registered
keeps its request open for ever (section 5), so no false answer is given.

`AggregationCorrect` is a step from the same invariant: the registered queue of
an answered subscription is one `progress_requested` looks at.

`NothingMissedCorrect` adds `PushInv`: a task that pushes is registered from a
position of the feed on (`PushingIsRegistered`), each frame is of a task that has
begun, for its client and thread (`FramesAreOfTasks`), and what such a task has
sent, has in hand and has waiting is the set of positions it owes
(`PushedIsOwed`). The order of the three comes from `OrderInv`.

### The channel

`ChannelImplementsRemoteCalls` uses `ChanInv`: ids are given in order, a call
that was not sent has no effect, a request on its way or in the gateway's hand is
unserved and there once, and an answer carries what the gateway made of the call
it names. A lost connection leaves a prefix of each stream (`PrefixIsPart`),
which keeps all of it.

`ReturnOrderCorrect` follows a call on its way there and back (`PipeInv`). While
the connection is open a call that waits is somewhere on it (`NoneIsLost`), and
ids grow from the answers on their way through the gateway's hand to the latest
request (`InOrder`, `HandFirst`, `DownInOrder`); an answer comes
behind those to all earlier calls that still wait, also on a connection that was
lost.

`DueCorrect` carries along the assignment of answers to frames (`DueInv`): a step
that answers extends it by the frame in hand, which is the last one read and has
no answer yet.

### The session

Everything rests on `BaseInv`. A command has at most one request or reply under
way (`OneInFlight`), which fits what it will do with it (`CallsFit`): a reply to
`turn.start` is about the current thread, and the snapshot of `use_thread` about
its target. What a reply that is no error says still holds when it is handled
(`Told`), although the gateway has gone on; an error leaves the gateway as it
was. `ActiveTurnCorrect` needs only that an event or reply makes a turn active
that is of the current thread.

`OneShotCorrect` says why other clients do not disturb a one-shot run: the thread
it created stays unknown to them (`FreshInv`), every event still to come is of
that thread (`FeedInv`), and its only turn is the run's own (`OneShotInv`).

`OwnViewCorrect` is about events that overtake replies. `ViewInv` looks at all
events of the current thread that have not been handled: with the forwarder, on
the wire, notified. The last of them describes what runs in the thread, and when
there is none, the client's `active` does (`ViewFollows`). A reply to
`turn.start` is handled after events that followed it, so a turn that has ended
must be known to have (`EndsAreKnown`), which is what `finished` is for. It is
about a thread the client created and whose subscription is still the first one
(`Follows`).

### The terminal

`BlocksCorrect` follows one line: where the console believes to be at an empty
line and no prompt is visible, the line is empty (`LineInv`), unless output came
between Enter and `Wake`. `PromptBackCorrect` adds that a prompt is pending while
the loop waits at it. `MessagesCorrect` needs `MessageInv`: until a message is
completed, what is shown of it are the deltas that were heard, in order, and its
id is among the streaming ones exactly if there are any; `WritingInv` says that
one thread at a time writes a message and none goes on with a completed one.
That what was written stays is `ErasedInv`: while the prompt is visible and could
be cleared away, all text on its line is hasty (`Spared`), because every operation
that shows the prompt first ends the line, except after Enter.
Each operation of `Console` keeps what the next one needs (`Tidy`), so a
rendering of several operations is put together from lemmas about one.

### Only model-checked

* Liveness (`InterruptEndsTurn`, `RestartEndsTurns`, `TurnsEnd`,
  `RequestsAreAnswered`, `DisconnectReleasesQueues`, `CallsEnd`,
  `OneShotReturns`) and anything with `ENABLED`: out of the prover's reach.
* That the deviations of section 5 occur: these are counterexamples.

## 5. Deviations

Three runs end in a counterexample, because the code and a document of the
repository disagree.

* `mode_change` — a subscribe for a thread that is already subscribed
  (methods.py:75) cancels the forwarder together with the events that wait in its
  queue; in the trace, the end of the turn that runs. README.md:118 says that
  subscription changes apply to the next turn. What is published between the end
  of the old queue and the registration of the new one is lost as well.
* `use_busy_thread` — `use_thread` (session.py:44) takes the active turn from a
  snapshot it read before it subscribed and overwrites what events said since.
* `interleaved_deltas` — only the first delta of a message opens a line with the
  gutter and the thread id (render.py:54); when two threads stream at once, later
  deltas of a background thread stand behind the text of another one. README.md:85
  says that events of background threads are prefixed with their thread id.

Others, which a change of a constant or of a property reproduces, or which are
steps of the models that no property forbids:

* `interrupt_turn` (service.py:157) may cancel a task that was created and has not
  run. asyncio then never enters `_execute`, so neither `except` nor `finally`
  runs: the row stays `running`, the entry stays, no terminal event comes, and the
  thread refuses new turns until a restart. `EagerCallers = TRUE` in `service`
  makes `NoTurnIsOrphaned` fail; `service_faults` allows it. It takes a caller
  whose interrupt comes before the event loop gets to the new task.
* With `LegacySchema = TRUE`, two turns of a thread run at once
  (`OneRunningTurnPerThread`), although such files are supported
  (gateway/tests/conversation/persistence/test_sqlmodel.py:41).
* With `StorageFaults = {"forwarder"}` in `subscriptions`, `RequestsAreAnswered`
  fails: a forwarder whose `get_thread` raises never sets `ready`, and the
  connection waits for it for ever (methods.py:82).
* A crash, or a result the table cannot hold, between the two commits of a tool
  call leaves a call without its result, and every later prompt of the thread
  repeats it unanswered (llmify.py:138). `PromptIsWellFormed` excludes such calls
  (`Dangling`) and `CallsHaveResults` speaks of turns that completed or were
  interrupted.
* With `EmptyDeltas = TRUE`, a turn completes with an announced message that was
  never created (llmify.py:114).
* A kill between a commit and its publication (service.py:108 and 119, 147 and 148,
  266 and 267) leaves a stored item that no event ever completes, and one between
  the status and the terminal event a turn that ends in silence: recovery at the
  next start publishes nothing. `AnnouncedIsStored` says how far that goes.
* An interrupted or failed turn leaves an announced item without its completion
  (service.py:274); README.md:87-91 promises the full lifecycle. `ItemLifecycle`
  therefore says "at most one" completion.
* llmify drops its `TurnControl` (llmify.py:72): a steer is stored and announced,
  and only the next turn's prompt contains it.
* `report_progress` of a blank message fails the turn (llmify.py:136).
* Items of one clock reading, or on both sides of a clock that was set back, read
  back in an order other than that of their commits (sqlmodel.py:68), and so does
  the next prompt. `ReadsFollowCommits` is about a clock that moves on.
* A forwarder cancelled while sending leaves its queue registered until its
  generator is finalized; a turn that starts in between gets progress nobody asked
  for (broker.py:33). `ProgressIsAggregated` states the direction that holds.
* A notification (no id) that fails is answered with an error whose id is null
  (connection.py:61), while one that succeeds is not answered
  (gateway/tests/conversation/transport/test_connection.py:164). A binary frame
  ends the connection, where a text frame that is no JSON gets an error.
* The client's receiver ends on a frame it cannot read; a request made after that
  waits for ever (cli rpc.py:45, 59). `CallsEnd` leaves such callers out.
* `run_once` on an existing thread returns at the end of another client's turn
  (app.py:62), and waits for ever if the socket closes (app.py:60).
  `OneShotSawItsTurn` is about a thread of its own, `OneShotReturns` about a
  connection that lasts.
* Between the user's Enter and the event loop noticing it, output takes the
  prompt for still open, and a block may begin behind other text
  (console.py:109). `BlocksStartLines` says that this is the only way it can.
  The next prompt is then drawn behind that text, and with colours the next
  output erases both (console.py:124-126), although console.py:20-23 promises to
  erase the prompt line only. `MessagesAreShownOnce` says that no other text is
  lost.

## 6. Not modelled, and what is left

Not modelled: the tools and the theme (stateless), the schema routes and settings
(generated or read once), the wiring of the container, and the validation of
fields by pydantic. In the order of what would add most:

1. A repository that really suspends: the `Repository` protocol is asynchronous,
   and with another adapter a request would be several steps. Which properties
   survive, and what the service's locks then protect. No such adapter exists
   in the repository.
2. The session over the channel: `CliSession` assumes a connection that lasts;
   its commands over `RpcChannel`, with a socket lost in the middle of `/use`.
3. `/subscribe` of background threads in `CliSession`; `CliConsole` has their
   output but not which of them the client knows.
4. The service with `ThreadHistory`: each proves to use the repository as
   `RepoSpec` says, but the clock is in the second only.
