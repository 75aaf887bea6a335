------------------------ MODULE ThreadSubscriptions ------------------------
(***************************************************************************)
(* From a published event to the client: EventBroker, the forwarder tasks  *)
(* of ConversationRpcMethods and the JsonRpcConnection that owns them.     *)
(*                                                                         *)
(* A connection serves one request at a time.  Its coroutine and its       *)
(* forwarders suspend in queue.get, in _send (lock and socket), in         *)
(* ready.wait and while gathering a cancelled forwarder; between these     *)
(* points each runs alone, which makes one step.                           *)
(*                                                                         *)
(* The turns are an environment that publishes; AgentThreadService says    *)
(* what they may publish.  An event is its position in its thread's feed.  *)
(***************************************************************************)
EXTENDS Naturals, Sequences, FiniteSets

CONSTANTS
    Thread, Connection,
    Forwarder,      \* the tasks a behaviour may create
    NoForwarder,
    StorageFaults,  \* whose get_thread may raise: the request's, the forwarder's
    MaxRequests,    \* bound on the requests of a connection
    MaxPublished    \* bound on a thread's feed

ASSUME SubscriptionsAssumption ==
    /\ NoForwarder \notin Forwarder
    /\ StorageFaults \subseteq {"request", "forwarder"}
    /\ MaxRequests \in Nat
    /\ MaxPublished \in Nat

VARIABLES
    published,      \* the feed of each thread, by kind of event
    progressEnabled,\* AgentContext.progress_enabled of the thread's latest turn
    subscribers,    \* EventBroker._subscribers: forwarders whose queue is registered
    queue,          \* positions waiting in the forwarder's asyncio.Queue
    forwarder,      \* each forwarder: its arguments and where it is suspended
    since,          \* length of the feed when the queue was registered
    handler,        \* each connection: where run() is suspended, and for what
    subscriptions,  \* ConversationRpcMethods._subscriptions
    online,         \* the client has not left
    sent            \* history: the frames a client was sent

broker     == <<subscribers, queue, since>>
connection == <<handler, subscriptions, online, sent>>
vars       == <<published, progressEnabled, broker, forwarder, connection>>

ProgressMode == {"off", "on_request", "proactive"}
Kind         == {"turn.started", "turn.progress", "turn.ended"}
NeverRegistered == MaxPublished + 1

NoRequest   == [op |-> "none"]
Request     == [op : {"subscribe"}, thread : Thread, mode : ProgressMode]
                   \cup [op : {"unsubscribe"}, thread : Thread]
Forwarding  == [at : {"created", "waiting", "sending", "ended"},
                cancelled : BOOLEAN, event : 0 .. MaxPublished,
                conn : Connection, thread : Thread, mode : ProgressMode]
Unused      == [at |-> "unused"]
Handling    == [at : {"receiving", "stopping", "ready", "replying", "failing", "closing", "closed"},
                request : Request \cup {NoRequest}, awaits : SUBSET Forwarder]
Frame       == [reply : Request] \cup [error : Request]
                   \cup [by : Forwarder, thread : Thread, event : 1 .. MaxPublished]

SubscriptionsTypeOK ==
    /\ published \in [Thread -> Seq(Kind)]
    /\ progressEnabled \in [Thread -> BOOLEAN]
    /\ subscribers \subseteq Forwarder
    /\ queue \in [Forwarder -> Seq(1 .. MaxPublished)]
    /\ forwarder \in [Forwarder -> Forwarding \cup {Unused}]
    /\ since \in [Forwarder -> 0 .. NeverRegistered]
    /\ handler \in [Connection -> Handling]
    /\ subscriptions \in [Connection -> [Thread -> Forwarder \cup {NoForwarder}]]
    /\ online \in [Connection -> BOOLEAN]
    /\ sent \in [Connection -> Seq(Frame)]

Init ==
    /\ published = [th \in Thread |-> <<>>]
    /\ progressEnabled = [th \in Thread |-> FALSE]
    /\ subscribers = {}
    /\ queue = [f \in Forwarder |-> <<>>]
    /\ forwarder = [f \in Forwarder |-> Unused]
    /\ since = [f \in Forwarder |-> NeverRegistered]
    /\ handler = [c \in Connection |->
                    [at |-> "receiving", request |-> NoRequest, awaits |-> {}]]
    /\ subscriptions = [c \in Connection |-> [th \in Thread |-> NoForwarder]]
    /\ online = [c \in Connection |-> TRUE]
    /\ sent = [c \in Connection |-> <<>>]

-----------------------------------------------------------------------------
(* EventBroker.                                                            *)

\* Faulty variant: progress is pushed to whoever enabled it.
AcceptsIfEnabled(f, kind) == kind = "turn.progress" => forwarder[f].mode # "off"

Accepts(f, kind) == kind = "turn.progress" => forwarder[f].mode = "proactive"

NextPosition(th) == Len(published[th]) + 1

Publish(th, kind) ==
    LET position == NextPosition(th) IN
    /\ position <= MaxPublished
    /\ published' = [published EXCEPT ![th] = Append(@, kind)]
    /\ queue' = [f \in Forwarder |->
                   IF f \in subscribers /\ forwarder[f].thread = th /\ Accepts(f, kind)
                     THEN Append(queue[f], position) ELSE queue[f]]
    /\ UNCHANGED <<subscribers, since, forwarder, connection>>

\* Faulty variant: only a push counts as a request.
ProgressRequestedByPush(th) ==
    \E f \in subscribers : forwarder[f].thread = th /\ forwarder[f].mode = "proactive"

ProgressRequested(th) ==
    \E f \in subscribers : forwarder[f].thread = th /\ forwarder[f].mode # "off"

TurnOpen(th) ==
    published[th] # <<>> /\ published[th][Len(published[th])] # "turn.ended"

\* start_turn asks the broker whether a subscriber wants progress.
TurnStarts(th) ==
    /\ ~TurnOpen(th)
    /\ progressEnabled' = [progressEnabled EXCEPT ![th] = ProgressRequested(th)]
    /\ Publish(th, "turn.started")

TurnContinues(th, kind) ==
    /\ TurnOpen(th)
    /\ kind # "turn.started"
    /\ Publish(th, kind)
    /\ UNCHANGED progressEnabled

-----------------------------------------------------------------------------
(* JsonRpcConnection.run and ConversationRpcMethods.                       *)

feed == <<published, progressEnabled>>

CancelAll(fs) ==
    [f \in Forwarder |-> IF f \in fs THEN [forwarder[f] EXCEPT !.cancelled = TRUE]
                                     ELSE forwarder[f]]

\* create_task(_forward_events(...)), then ready.wait().
CreateForwarder(c, r) ==
    \E f \in Forwarder :
        /\ forwarder[f] = Unused
        /\ forwarder' = [forwarder EXCEPT ![f] =
              [at |-> "created", cancelled |-> FALSE, event |-> 0,
               conn |-> c, thread |-> r.thread, mode |-> r.mode]]
        /\ subscriptions' = [subscriptions EXCEPT ![c][r.thread] = f]
        /\ handler' = [handler EXCEPT ![c] =
              [at |-> "ready", request |-> r, awaits |-> {f}]]

\* Faulty variants: a missing task is gathered too; no cancel before the gather.
StopUnchecked(c, r) ==
    LET f == subscriptions[c][r.thread] IN
    /\ subscriptions' = [subscriptions EXCEPT ![c][r.thread] = NoForwarder]
    /\ forwarder' = CancelAll({f})
    /\ handler' = [handler EXCEPT ![c] =
          [at |-> "stopping", request |-> r, awaits |-> {f}]]

StopWithoutCancel(c, r) ==
    LET f == subscriptions[c][r.thread] IN
    /\ f # NoForwarder
    /\ subscriptions' = [subscriptions EXCEPT ![c][r.thread] = NoForwarder]
    /\ handler' = [handler EXCEPT ![c] =
          [at |-> "stopping", request |-> r, awaits |-> {f}]]
    /\ UNCHANGED forwarder

\* _stop_subscription: pop, cancel, gather.
StopSubscription(c, r) ==
    LET f == subscriptions[c][r.thread] IN
    /\ f # NoForwarder
    /\ subscriptions' = [subscriptions EXCEPT ![c][r.thread] = NoForwarder]
    /\ forwarder' = CancelAll({f})
    /\ handler' = [handler EXCEPT ![c] =
          [at |-> "stopping", request |-> r, awaits |-> {f}]]

Ended(fs) == \A f \in fs : forwarder[f].at = "ended"

\* What follows the stop, or the absence of a subscription.
Proceed(c, r) ==
    \/ r.op = "subscribe" /\ CreateForwarder(c, r)
    \/ /\ r.op = "unsubscribe"
       /\ handler' = [handler EXCEPT ![c] = [at |-> "replying", request |-> r, awaits |-> {}]]
       /\ UNCHANGED <<forwarder, subscriptions>>

\* get_thread raises before the old subscription is touched.
LookupFails(c, r) ==
    /\ r.op = "subscribe"
    /\ "request" \in StorageFaults
    /\ handler' = [handler EXCEPT ![c] = [at |-> "failing", request |-> r, awaits |-> {}]]
    /\ UNCHANGED <<forwarder, subscriptions>>

Replies(c) == Len(SelectSeq(sent[c], LAMBDA frame : "by" \notin DOMAIN frame))

\* A client subscribes as long as a task is left for it.
Receive(c, r) ==
    /\ handler[c].at = "receiving"
    /\ Replies(c) < MaxRequests
    /\ r.op = "subscribe" => \E f \in Forwarder : forwarder[f] = Unused
    /\ \/ StopSubscription(c, r)
       \/ subscriptions[c][r.thread] = NoForwarder /\ Proceed(c, r)
       \/ LookupFails(c, r)
    /\ UNCHANGED <<feed, broker, online, sent>>

Stopped(c) ==
    /\ handler[c].at = "stopping"
    /\ Ended(handler[c].awaits)
    /\ Proceed(c, handler[c].request)
    /\ UNCHANGED <<feed, broker, online, sent>>

\* Faulty variant: the reply does not wait for the registration.
ReadyAtOnce(c) ==
    /\ handler[c].at = "ready"
    /\ handler' = [handler EXCEPT ![c].at = "replying", ![c].awaits = {}]
    /\ UNCHANGED <<feed, broker, forwarder, subscriptions, online, sent>>

Ready(c) ==
    /\ handler[c].at = "ready"
    /\ \A f \in handler[c].awaits : since[f] # NeverRegistered
    /\ handler' = [handler EXCEPT ![c].at = "replying", ![c].awaits = {}]
    /\ UNCHANGED <<feed, broker, forwarder, subscriptions, online, sent>>

\* Faulty variant: the connection ends without its forwarders.
CloseAlone(c) ==
    /\ handler' = [handler EXCEPT ![c] =
          [at |-> "closing", request |-> NoRequest, awaits |-> {}]]
    /\ UNCHANGED forwarder

\* methods.close(), from the finally clause of run().
Close(c) ==
    LET fs == {subscriptions[c][th] : th \in Thread} \ {NoForwarder} IN
    /\ forwarder' = CancelAll(fs)
    /\ handler' = [handler EXCEPT ![c] =
          [at |-> "closing", request |-> NoRequest, awaits |-> fs]]

Answer(c) ==
    IF handler[c].at = "replying" THEN [reply |-> handler[c].request]
                                  ELSE [error |-> handler[c].request]

Reply(c) ==
    /\ handler[c].at \in {"replying", "failing"}
    /\ UNCHANGED <<feed, broker, subscriptions, online>>
    /\ \/ /\ online[c]
          /\ sent' = [sent EXCEPT ![c] = Append(@, Answer(c))]
          /\ handler' = [handler EXCEPT ![c].at = "receiving", ![c].request = NoRequest]
          /\ UNCHANGED forwarder
       \/ ~online[c] /\ Close(c) /\ UNCHANGED sent

Disconnect(c) ==
    /\ online[c]
    /\ online' = [online EXCEPT ![c] = FALSE]
    /\ UNCHANGED <<feed, broker, forwarder, handler, subscriptions, sent>>

ReceiveDisconnect(c) ==
    /\ handler[c].at = "receiving"
    /\ ~online[c]
    /\ Close(c)
    /\ UNCHANGED <<feed, broker, subscriptions, online, sent>>

Closed(c) ==
    /\ handler[c].at = "closing"
    /\ Ended(handler[c].awaits)
    /\ handler' = [handler EXCEPT ![c].at = "closed", ![c].awaits = {}]
    /\ subscriptions' = [subscriptions EXCEPT ![c] = [th \in Thread |-> NoForwarder]]
    /\ UNCHANGED <<feed, broker, forwarder, online, sent>>

-----------------------------------------------------------------------------
(* _forward_events and the generators under it.                            *)

\* get_thread, then the queue is registered and ready is set.
ForwarderSubscribes(f) ==
    /\ forwarder[f].at = "created"
    /\ UNCHANGED <<feed, queue, connection>>
    /\ \/ /\ forwarder' = [forwarder EXCEPT ![f].at = "waiting"]
          /\ subscribers' = subscribers \cup {f}
          /\ since' = [since EXCEPT ![f] = Len(published[forwarder[f].thread])]
       \/ /\ "forwarder" \in StorageFaults
          /\ forwarder' = [forwarder EXCEPT ![f].at = "ended"]
          /\ UNCHANGED <<subscribers, since>>

\* Faulty variant: the latest event first.
TakeLatestEvent(f) ==
    /\ forwarder[f].at = "waiting"
    /\ ~forwarder[f].cancelled
    /\ queue[f] # <<>>
    /\ forwarder' = [forwarder EXCEPT ![f].at = "sending", ![f].event = queue[f][Len(queue[f])]]
    /\ queue' = [queue EXCEPT ![f] = SubSeq(@, 1, Len(@) - 1)]
    /\ UNCHANGED <<feed, subscribers, since, connection>>

TakeEvent(f) ==
    /\ forwarder[f].at = "waiting"
    /\ ~forwarder[f].cancelled
    /\ queue[f] # <<>>
    /\ forwarder' = [forwarder EXCEPT ![f].at = "sending", ![f].event = Head(queue[f])]
    /\ queue' = [queue EXCEPT ![f] = Tail(@)]
    /\ UNCHANGED <<feed, subscribers, since, connection>>

\* A cancellation that meets a frame already handed to the socket ends the task.
EventSent(f) ==
    LET c == forwarder[f].conn IN
    /\ forwarder[f].at = "sending"
    /\ online[c]
    /\ sent' = [sent EXCEPT ![c] = Append(@,
          [by |-> f, thread |-> forwarder[f].thread, event |-> forwarder[f].event])]
    /\ forwarder' = [forwarder EXCEPT ![f].event = 0,
          ![f].at = IF forwarder[f].cancelled THEN "ended" ELSE "waiting"]
    /\ UNCHANGED <<feed, broker, handler, subscriptions, online>>

SendFails(f) ==
    /\ forwarder[f].at = "sending"
    /\ ~online[forwarder[f].conn]
    /\ forwarder' = [forwarder EXCEPT ![f].at = "ended", ![f].event = 0]
    /\ UNCHANGED <<feed, broker, connection>>

\* Cancelled in queue.get, the generator's finally clause runs at once.
CancelledInGet(f) ==
    /\ forwarder[f].at = "waiting"
    /\ forwarder[f].cancelled
    /\ forwarder' = [forwarder EXCEPT ![f].at = "ended"]
    /\ subscribers' = subscribers \ {f}
    /\ UNCHANGED <<feed, queue, since, connection>>

\* Cancelled in _send, outside the generator: the queue stays registered.
CancelledInSend(f) ==
    /\ forwarder[f].at = "sending"
    /\ forwarder[f].cancelled
    /\ forwarder' = [forwarder EXCEPT ![f].at = "ended", ![f].event = 0]
    /\ UNCHANGED <<feed, broker, connection>>

\* The event loop's asyncgen finalizer closes a generator nobody iterates.
FinalizeGenerator(f) ==
    /\ forwarder[f].at = "ended"
    /\ f \in subscribers
    /\ subscribers' = subscribers \ {f}
    /\ UNCHANGED <<feed, queue, since, forwarder, connection>>

-----------------------------------------------------------------------------
ForwarderStep(f) ==
    \/ ForwarderSubscribes(f) \/ TakeEvent(f) \/ EventSent(f) \/ SendFails(f)
    \/ CancelledInGet(f) \/ CancelledInSend(f) \/ FinalizeGenerator(f)

HandlerStep(c) ==
    Stopped(c) \/ Ready(c) \/ Reply(c) \/ ReceiveDisconnect(c) \/ Closed(c)

Next ==
    \/ \E th \in Thread : TurnStarts(th)
    \/ \E th \in Thread, kind \in Kind : TurnContinues(th, kind)
    \/ \E c \in Connection, r \in Request : Receive(c, r)
    \/ \E c \in Connection : Disconnect(c) \/ HandlerStep(c)
    \/ \E f \in Forwarder : ForwarderStep(f)

Spec == Init /\ [][Next]_vars

\* The event loop runs what is ready; a client reads its socket or leaves it.
FairSpec ==
    /\ Spec
    /\ \A c \in Connection : WF_vars(HandlerStep(c))
    /\ \A f \in Forwarder : WF_vars(ForwarderStep(f))
=============================================================================
