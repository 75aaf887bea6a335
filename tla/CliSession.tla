----------------------------- MODULE CliSession -----------------------------
(***************************************************************************)
(* The terminal client: JsonRpcClient multiplexes replies and events of    *)
(* one WebSocket, Session keeps the current thread and its active turn,    *)
(* commands and run_once drive it.                                         *)
(*                                                                         *)
(* The client is three coroutines of one event loop: the receiver, the     *)
(* event listener and the command being executed, which suspends for the   *)
(* reply to each of its requests.  The gateway is abstract: it serves one  *)
(* request of the connection at a time and its turns start and end as      *)
(* AgentThreadService lets them, for this client and for others.           *)
(***************************************************************************)
EXTENDS Naturals, Sequences

CONSTANTS
    Thread, Turn,
    NoThread, NoTurn, Nothing,
    Existing,       \* the threads other clients know when this one connects
    Commands        \* the commands the user gives: slash commands, or run_once

OneShot      == {"run_once", "run_once --thread"}
CommandNames == OneShot \cup {"/new", "/use", "/progress", "/unsubscribe",
                             "/start", "/steer", "/interrupt", "text"}

ASSUME SessionAssumption ==
    /\ NoThread \notin Thread
    /\ NoTurn \notin Turn
    /\ Existing \subseteq Thread
    /\ Commands \subseteq CommandNames

VARIABLES
    threads,        \* the gateway's threads
    shared,         \* those whose id other clients have
    turnThread, turnStatus,
    subscribed,     \* threads this connection's forwarders serve
    forwarding,     \* events waiting in the queue of each forwarder
    request,        \* the request on its way to the gateway
    wire,           \* the frames on their way to the client
    answer,         \* the reply whose future is set and not yet awaited
    notifications,  \* JsonRpcClient._notifications
    command,        \* the command being executed, "prompt" or "exited"
    target,         \* its thread
    snapshot,       \* the running turn of the snapshot use_thread read
    current,        \* CliState.thread_id
    active,         \* CliState.active_turn_id
    finished,       \* CliState.finished_turn_ids
    own,            \* history: the turn run_once started
    rejoined        \* history: current was entered with /use, or its subscription replaced

gateway == <<threads, shared, turnThread, turnStatus>>
feeds   == <<subscribed, forwarding>>
view    == <<current, active, finished>>
task    == <<command, target, snapshot, own, rejoined>>
vars    == <<gateway, feeds, request, wire, answer, notifications, task, view>>

Event == [type : {"turn.started", "turn.ended"}, turn : Turn]
Op    == {"thread.create", "thread.get", "thread.subscribe", "thread.unsubscribe",
          "turn.start", "turn.steer", "turn.interrupt"}
Request == [op : Op, thread : Thread \cup {NoThread}, turn : Turn \cup {NoTurn}]
Reply   == [op : Op, ok : BOOLEAN, thread : Thread \cup {NoThread}, turn : Turn \cup {NoTurn}]

ASSUME NothingAssumption == Nothing \notin Request \cup Reply

SessionTypeOK ==
    /\ threads \subseteq Thread /\ shared \subseteq threads
    /\ turnThread \in [Turn -> Thread \cup {NoThread}]
    /\ turnStatus \in [Turn -> {"absent", "running", "ended"}]
    /\ subscribed \subseteq threads
    /\ forwarding \in [Thread -> Seq(Event)]
    /\ request \in Request \cup {Nothing}
    /\ wire \in Seq(Reply \cup Event)
    /\ answer \in Reply \cup {Nothing}
    /\ notifications \in Seq(Event)
    /\ command \in CommandNames \cup {"prompt", "waiting", "exited"}
    /\ target \in Thread \cup {NoThread}
    /\ {snapshot, active, own} \subseteq Turn \cup {NoTurn}
    /\ current \in Thread \cup {NoThread}
    /\ finished \subseteq Turn
    /\ rejoined \in BOOLEAN

Init ==
    /\ threads = Existing /\ shared = Existing
    /\ turnThread = [t \in Turn |-> NoThread]
    /\ turnStatus = [t \in Turn |-> "absent"]
    /\ subscribed = {} /\ forwarding = [th \in Thread |-> <<>>]
    /\ request = Nothing /\ wire = <<>> /\ answer = Nothing /\ notifications = <<>>
    /\ command = "prompt" /\ target = NoThread /\ snapshot = NoTurn /\ own = NoTurn
    /\ rejoined = FALSE
    /\ current = NoThread /\ active = NoTurn /\ finished = {}

-----------------------------------------------------------------------------
(* The gateway.                                                            *)

Running(th) == {t \in Turn : turnThread[t] = th /\ turnStatus[t] = "running"}
RunningTurn(th) == IF Running(th) = {} THEN NoTurn ELSE CHOOSE t \in Running(th) : TRUE

Publish(th, type, t) ==
    forwarding' = IF th \in subscribed
                    THEN [forwarding EXCEPT ![th] = Append(@, [type |-> type, turn |-> t])]
                    ELSE forwarding

OpenTurn(th, t) ==
    /\ Running(th) = {}
    /\ turnStatus[t] = "absent"
    /\ turnThread' = [turnThread EXCEPT ![t] = th]
    /\ turnStatus' = [turnStatus EXCEPT ![t] = "running"]
    /\ Publish(th, "turn.started", t)

\* Ids do not run out: the last one is left to this client.
OtherStarts(th, t) ==
    /\ th \in shared
    /\ \E u \in Turn \ {t} : turnStatus[u] = "absent"
    /\ OpenTurn(th, t)
    /\ UNCHANGED <<threads, shared, subscribed, request, wire, answer, notifications, task, view>>

TurnEnds(t) ==
    /\ turnStatus[t] = "running"
    /\ turnStatus' = [turnStatus EXCEPT ![t] = "ended"]
    /\ Publish(turnThread[t], "turn.ended", t)
    /\ UNCHANGED <<threads, shared, turnThread, subscribed>>
    /\ UNCHANGED <<request, wire, answer, notifications, task, view>>

Forward(th) ==
    /\ forwarding[th] # <<>>
    /\ wire' = Append(wire, Head(forwarding[th]))
    /\ forwarding' = [forwarding EXCEPT ![th] = Tail(@)]
    /\ UNCHANGED <<gateway, subscribed, request, answer, notifications, task, view>>

Respond(ok, th, t) ==
    /\ wire' = Append(wire, [op |-> request.op, ok |-> ok, thread |-> th, turn |-> t])
    /\ request' = Nothing

\* A subscription that is replaced or dropped takes its waiting events with it.
Serve ==
    /\ request # Nothing
    /\ UNCHANGED <<answer, notifications, command, target, snapshot, own, view>>
    /\ rejoined' = \/ rejoined
                   \/ /\ request.op \in {"thread.subscribe", "thread.unsubscribe"}
                      /\ request.thread = current
    /\ \/ /\ request.op = "thread.create"
          /\ \E th \in Thread \ threads :
                threads' = threads \cup {th} /\ Respond(TRUE, th, NoTurn)
          /\ UNCHANGED <<shared, turnThread, turnStatus, feeds>>
       \/ /\ request.op = "thread.get"
          /\ Respond(TRUE, request.thread, RunningTurn(request.thread))
          /\ UNCHANGED <<gateway, feeds>>
       \/ /\ request.op = "thread.subscribe"
          /\ subscribed' = subscribed \cup {request.thread}
          /\ forwarding' = [forwarding EXCEPT ![request.thread] = <<>>]
          /\ Respond(TRUE, request.thread, NoTurn)
          /\ UNCHANGED gateway
       \/ /\ request.op = "thread.unsubscribe"
          /\ subscribed' = subscribed \ {request.thread}
          /\ forwarding' = [forwarding EXCEPT ![request.thread] = <<>>]
          /\ Respond(TRUE, request.thread, NoTurn)
          /\ UNCHANGED gateway
       \/ /\ request.op = "turn.start"
          /\ \E t \in Turn : OpenTurn(request.thread, t) /\ Respond(TRUE, request.thread, t)
          /\ UNCHANGED <<threads, shared, subscribed>>
       \/ /\ request.op \in {"turn.steer", "turn.interrupt"}
          /\ request.turn \in Running(request.thread)
          /\ Respond(TRUE, request.thread, request.turn)
          /\ UNCHANGED <<gateway, feeds>>

\* An error: an id the gateway does not know, a turn that runs already or no longer,
\* a storage that fails.  Nothing has changed, an old subscription included.
Refuse ==
    /\ request # Nothing
    /\ request.op # "thread.unsubscribe"
    /\ Respond(FALSE, request.thread, NoTurn)
    /\ UNCHANGED <<gateway, feeds, answer, notifications, task, view>>

-----------------------------------------------------------------------------
(* JsonRpcClient.                                                          *)

Send(op, th, t) == request' = [op |-> op, thread |-> th, turn |-> t]

\* _receive and _dispatch: a reply resolves its future, an event is queued.
Dispatch ==
    /\ wire # <<>>
    /\ wire' = Tail(wire)
    /\ IF "op" \in DOMAIN Head(wire)
         THEN answer' = Head(wire) /\ UNCHANGED notifications
         ELSE notifications' = Append(notifications, Head(wire)) /\ UNCHANGED answer
    /\ UNCHANGED <<gateway, feeds, request, task, view>>

-----------------------------------------------------------------------------
(* Session.                                                                *)

\* _track_turn.
TrackTurn(event) ==
    \/ /\ event.type = "turn.started"
       /\ active' = event.turn
       /\ UNCHANGED finished
    \/ /\ event.type = "turn.ended"
       /\ active' = NoTurn
       /\ finished' = finished \cup {event.turn}

\* Faulty variants: the loop of run_once stops at any event, or at none.
StopsAtAnyEvent(event)  == command = "waiting"
NeverStops(event)       == FALSE

\* The loop of run_once stops at a terminal event, whatever its turn.
StopsAt(event) == command = "waiting" /\ event.type = "turn.ended"

\* The listener of the interactive loop runs all the time, the loop of run_once
\* once its turn was started.
HandleEvent ==
    /\ notifications # <<>>
    /\ command \notin {"run_once", "exited"}
    /\ LET event == Head(notifications) IN
         /\ IF turnThread[event.turn] = current
              THEN TrackTurn(event) ELSE UNCHANGED <<active, finished>>
         /\ command' = IF StopsAt(event) THEN "exited" ELSE command
    /\ notifications' = Tail(notifications)
    /\ UNCHANGED <<gateway, feeds, request, wire, answer, target, snapshot, own, rejoined, current>>

Begin(name, th) ==
    /\ command = "prompt"
    /\ command' = name
    /\ target' = th
    /\ UNCHANGED <<gateway, feeds, wire, answer, notifications, snapshot, own, rejoined, view>>

\* create_thread goes on with use_thread.
CreateThread(name) == Begin(name, NoThread) /\ Send("thread.create", NoThread, NoTurn)

\* A thread whose id the user has.
UseThread(name) ==
    \E th \in shared : Begin(name, th) /\ Send("thread.get", th, NoTurn)

\* require_thread and require_active_turn.
OnThread(name, op) ==
    /\ name \in Commands
    /\ current # NoThread
    /\ Begin(name, current)
    /\ Send(op, current, NoTurn)

OnTurn(name, op) ==
    /\ name \in Commands
    /\ current # NoThread
    /\ active # NoTurn
    /\ Begin(name, current)
    /\ Send(op, current, active)

\* Plain text starts a turn, or steers the active one.
SendText ==
    \/ active = NoTurn /\ OnThread("text", "turn.start")
    \/ OnTurn("text", "turn.steer")

\* The one command of a process that was started with a message.
RunOnce ==
    /\ current = NoThread
    /\ \/ "run_once" \in Commands /\ CreateThread("run_once")
       \/ "run_once --thread" \in Commands /\ UseThread("run_once")

Finish == command' = IF command = "run_once" THEN "exited" ELSE "prompt"

ThreadCreated ==
    /\ answer.op = "thread.create" /\ answer.ok
    /\ target' = answer.thread
    /\ Send("thread.get", answer.thread, NoTurn)
    /\ UNCHANGED <<command, snapshot, own, view, shared, rejoined>>

\* Faulty variant: the thread is current before it is subscribed.
SnapshotEntersThread ==
    /\ answer.op = "thread.get" /\ answer.ok
    /\ snapshot' = answer.turn
    /\ current' = target
    /\ Send("thread.subscribe", target, NoTurn)
    /\ UNCHANGED <<command, target, own, active, finished, shared, rejoined>>

\* use_thread, after its first request.
SnapshotRead ==
    /\ answer.op = "thread.get" /\ answer.ok
    /\ snapshot' = answer.turn
    /\ Send("thread.subscribe", target, NoTurn)
    /\ UNCHANGED <<command, target, own, view, shared, rejoined>>

\* use_thread, after its second request; run_once goes on with start_turn.
ThreadEntered ==
    /\ answer.op = "thread.subscribe" /\ answer.ok
    /\ command \in {"/new", "/use", "run_once"}
    /\ current' = target
    /\ active' = snapshot
    /\ shared' = IF command = "run_once" THEN shared ELSE shared \cup {target}
    /\ IF command = "run_once"
         THEN Send("turn.start", target, NoTurn) /\ UNCHANGED command
         ELSE Finish /\ UNCHANGED request
    /\ rejoined' = (command # "/new")
    /\ UNCHANGED <<target, snapshot, own, finished>>

\* Faulty variant: finished_turn_ids is not consulted.
TurnStartedAlways ==
    /\ answer.op = "turn.start" /\ answer.ok
    /\ active' = answer.turn
    /\ own' = answer.turn
    /\ command' = IF command = "run_once" THEN "waiting" ELSE "prompt"
    /\ UNCHANGED <<current, finished, target, snapshot, request, shared, rejoined>>

TurnStarted ==
    /\ answer.op = "turn.start" /\ answer.ok
    /\ active' = IF answer.turn \in finished THEN active ELSE answer.turn
    /\ own' = answer.turn
    /\ command' = IF command = "run_once" THEN "waiting" ELSE "prompt"
    /\ UNCHANGED <<current, finished, target, snapshot, request, shared, rejoined>>

\* The other replies only end the command.
CommandEnds ==
    /\ answer.ok
    /\ \/ answer.op \in {"turn.steer", "turn.interrupt", "thread.unsubscribe"}
       \/ answer.op = "thread.subscribe" /\ command = "/progress"
    /\ Finish
    /\ UNCHANGED <<view, target, snapshot, own, request, shared, rejoined>>

\* An RpcError ends the command, and the program of a client without a thread.
CommandFails ==
    /\ ~answer.ok
    /\ command' = IF command = "run_once" \/ current = NoThread THEN "exited" ELSE "prompt"
    /\ UNCHANGED <<view, target, snapshot, own, request, shared, rejoined>>

\* The coroutine of the command goes on with the reply.
Resume ==
    /\ answer # Nothing
    /\ answer' = Nothing
    /\ \/ ThreadCreated \/ SnapshotRead \/ ThreadEntered \/ TurnStarted
       \/ CommandEnds \/ CommandFails
    /\ UNCHANGED <<threads, turnThread, turnStatus, feeds, wire, notifications>>

-----------------------------------------------------------------------------
Issue ==
    \/ "/new" \in Commands /\ CreateThread("/new")
    \/ "/use" \in Commands /\ UseThread("/use")
    \/ RunOnce \/ SendText
    \/ OnThread("/progress", "thread.subscribe")
    \/ OnThread("/unsubscribe", "thread.unsubscribe")
    \/ OnThread("/start", "turn.start")
    \/ OnTurn("/steer", "turn.steer")
    \/ OnTurn("/interrupt", "turn.interrupt")

Next ==
    \/ \E th \in Thread, t \in Turn : OtherStarts(th, t)
    \/ \E t \in Turn : TurnEnds(t)
    \/ \E th \in Thread : Forward(th)
    \/ Serve \/ Refuse \/ Dispatch \/ HandleEvent \/ Resume \/ Issue

Spec == Init /\ [][Next]_vars

\* Both event loops run what is ready, frames arrive, and turns come to an end.
FairSpec ==
    /\ Spec
    /\ \A th \in Thread : WF_vars(Forward(th))
    /\ \A t \in Turn : WF_vars(TurnEnds(t))
    /\ WF_vars(Serve \/ Refuse) /\ WF_vars(Dispatch) /\ WF_vars(HandleEvent) /\ WF_vars(Resume)

-----------------------------------------------------------------------------
Quiet ==
    /\ request = Nothing /\ answer = Nothing
    /\ wire = <<>> /\ notifications = <<>>
    /\ \A th \in Thread : forwarding[th] = <<>>

\* README.md:79, "Plain text starts a turn (or steers a currently active turn)":
\* when nothing is under way between client and gateway, the turn the client
\* takes for active is the one that runs in its thread.
SettledViewIsRight ==
    Quiet /\ command = "prompt" /\ current # NoThread => active = RunningTurn(current)

\* It does, for a thread the client created and whose subscription it has not
\* touched since, however replies and events overtake each other.
OwnViewIsRight == ~rejoined => SettledViewIsRight

\* steer and interrupt always name a turn together with the thread it is in.
ActiveTurnIsOfThread == active # NoTurn => turnThread[active] = current

\* app.py:52: "Send one message and wait for its terminal event": when run_once
\* on a thread of its own returns without an error, its turn has ended.
OneShotSawItsTurn ==
    command = "exited" /\ own # NoTurn /\ current \notin shared
        => turnStatus[own] = "ended"

\* A one-shot run returns once the turns it may wait for have ended.
OneShotReturns == command = "run_once" ~> command = "exited"
=============================================================================
