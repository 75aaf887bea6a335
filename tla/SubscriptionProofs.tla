------------------------- MODULE SubscriptionProofs -------------------------
(***************************************************************************)
(* Theorems about the way from the broker to the clients, for any number   *)
(* of threads, connections and tasks, and with storage faults.             *)
(***************************************************************************)
EXTENDS SubscriptionProperties, TLAPS

\* With the types, what they depend on: feeds are bounded, a task that sends has
\* an event, and a request that is being handled is there.
TypeInv ==
    /\ SubscriptionsTypeOK
    /\ \A th \in Thread : Len(published[th]) <= MaxPublished
    /\ \A f \in Forwarder : forwarder[f].at = "sending" => forwarder[f].event # 0
    /\ \A c \in Connection :
          handler[c].at \in {"stopping", "ready", "replying", "failing"} => handler[c].request \in Request

\* A forwarder's record in each of its states.
LEMMA ForwarderType ==
    ASSUME TypeInv, NEW f \in Forwarder
    PROVE  /\ forwarder[f].at # "unused" => forwarder[f] \in Forwarding
           /\ forwarder[f] = Unused <=> forwarder[f].at = "unused"
           /\ forwarder[f] \in Forwarding =>
                 [forwarder[f] EXCEPT !.cancelled = TRUE] \in Forwarding
<1>1. forwarder[f] \in Forwarding \/ forwarder[f] = Unused
  BY DEF TypeInv, SubscriptionsTypeOK
<1>2. Unused.at = "unused"
  BY DEF Unused
<1>3. \A r \in Forwarding : r.at # "unused" /\ [r EXCEPT !.cancelled = TRUE] \in Forwarding
  BY DEF Forwarding
<1> QED
  BY <1>1, <1>2, <1>3

\* Cancelling tasks that were created keeps their records.
LEMMA CancelType ==
    ASSUME TypeInv, NEW fs, \A f \in fs : forwarder[f] # Unused, forwarder' = CancelAll(fs)
    PROVE  /\ forwarder' \in [Forwarder -> Forwarding \cup {Unused}]
           /\ \A f \in Forwarder :
                 /\ forwarder'[f].at = forwarder[f].at
                 /\ forwarder'[f].at = "sending" => forwarder'[f].event = forwarder[f].event
                 /\ f \notin fs => forwarder'[f] = forwarder[f]
                 /\ forwarder[f] # Unused => /\ forwarder'[f].conn = forwarder[f].conn
                                             /\ forwarder'[f].thread = forwarder[f].thread
                                             /\ forwarder'[f].event = forwarder[f].event
                                             /\ forwarder'[f].mode = forwarder[f].mode
<1>1. forwarder \in [Forwarder -> Forwarding \cup {Unused}]
  BY DEF TypeInv, SubscriptionsTypeOK
<1>2. \A r \in Forwarding : LET x == [r EXCEPT !.cancelled = TRUE] IN
          /\ x \in Forwarding
          /\ x.at = r.at /\ x.event = r.event
          /\ x.conn = r.conn /\ x.thread = r.thread /\ x.mode = r.mode
  BY DEF Forwarding
<1>3. \A f \in Forwarder :
          \/ forwarder'[f] = forwarder[f]
          \/ /\ f \in fs /\ forwarder[f] \in Forwarding
             /\ forwarder'[f] = [forwarder[f] EXCEPT !.cancelled = TRUE]
  BY <1>1 DEF CancelAll
<1>4. \A f \in Forwarder : f \notin fs => forwarder'[f] = forwarder[f]
  BY DEF CancelAll
<1>5. forwarder' \in [Forwarder -> Forwarding \cup {Unused}]
  <2>1. \A f \in Forwarder :
            (IF f \in fs THEN [forwarder[f] EXCEPT !.cancelled = TRUE] ELSE forwarder[f])
                \in Forwarding \cup {Unused}
    BY <1>1, <1>2
  <2> QED
    BY <2>1 DEF CancelAll
<1>6. ASSUME NEW f \in Forwarder
      PROVE  /\ forwarder'[f].at = forwarder[f].at
             /\ forwarder'[f].event = forwarder[f].event
             /\ forwarder'[f].conn = forwarder[f].conn
             /\ forwarder'[f].thread = forwarder[f].thread
             /\ forwarder'[f].mode = forwarder[f].mode
  <2>1. CASE forwarder'[f] = forwarder[f]
    BY <2>1
  <2>2. CASE /\ forwarder[f] \in Forwarding
             /\ forwarder'[f] = [forwarder[f] EXCEPT !.cancelled = TRUE]
    BY <1>2, <2>2
  <2> QED
    BY <1>3, <2>1, <2>2
<1> QED
  BY <1>4, <1>5, <1>6

\* A publication keeps the types.
LEMMA PublishType ==
    ASSUME TypeInv, NEW th \in Thread, NEW kind \in Kind, Publish(th, kind),
           progressEnabled' \in [Thread -> BOOLEAN]
    PROVE  TypeInv'
<1> USE SubscriptionsAssumption DEF TypeInv
<1>1. NextPosition(th) \in 1 .. MaxPublished /\ published[th] \in Seq(Kind)
  BY DEF Publish, NextPosition, SubscriptionsTypeOK
<1>2. /\ Append(published[th], kind) \in Seq(Kind)
      /\ Len(Append(published[th], kind)) <= MaxPublished
  BY <1>1 DEF Publish, NextPosition
<1>3. /\ published' \in [Thread -> Seq(Kind)]
      /\ \A o \in Thread : Len(published'[o]) <= MaxPublished
  BY <1>1, <1>2 DEF Publish, SubscriptionsTypeOK
<1>4. queue' \in [Forwarder -> Seq(1 .. MaxPublished)]
  <2>1. \A f \in Forwarder : Append(queue[f], NextPosition(th)) \in Seq(1 .. MaxPublished)
    BY <1>1 DEF SubscriptionsTypeOK
  <2> QED
    BY <2>1 DEF Publish, SubscriptionsTypeOK
<1> QED
  BY <1>3, <1>4 DEF Publish, connection, SubscriptionsTypeOK

-----------------------------------------------------------------------------
(* Which tasks a connection knows.                                         *)

Active == {"created", "waiting", "sending"}

\* A subscription is a task of that connection for that thread.
SubscribedIsMine ==
    \A c \in Connection, th \in Thread : subscriptions[c][th] # NoForwarder =>
        /\ forwarder[subscriptions[c][th]] # Unused
        /\ forwarder[subscriptions[c][th]].conn = c
        /\ forwarder[subscriptions[c][th]].thread = th

\* The task a stop waits for, of the thread of the request.
StoppingOf(c, f) ==
    /\ handler[c].at = "stopping"
    /\ handler[c].awaits = {f}
    /\ handler[c].request.thread = forwarder[f].thread

\* A task at work is the subscription of its thread or the one being stopped.
ActiveIsKnown ==
    \A f \in Forwarder : forwarder[f].at \in Active =>
        \/ subscriptions[forwarder[f].conn][forwarder[f].thread] = f
        \/ StoppingOf(forwarder[f].conn, f)

\* While a stop waits the thread of the request has no subscription.
StoppedIsRemoved ==
    \A c \in Connection : handler[c].at = "stopping" =>
        subscriptions[c][handler[c].request.thread] = NoForwarder

\* close() waits for every subscription.
CloseAwaitsAll ==
    \A c \in Connection : handler[c].at = "closing" =>
        \A th \in Thread : subscriptions[c][th] \in handler[c].awaits \cup {NoForwarder}

\* A task that has not run has no queue.
NewIsSilent ==
    \A f \in Forwarder : forwarder[f].at \in {"unused", "created"} =>
        f \notin subscribers /\ queue[f] = <<>> /\ since[f] = NeverRegistered

LinkInv ==
    SubscribedIsMine /\ ActiveIsKnown /\ StoppedIsRemoved /\ CloseAwaitsAll /\ NewIsSilent

\* What a request does to the tasks, in the terms of the invariants.
Creates(c, r, f) ==
    /\ forwarder[f] = Unused
    /\ forwarder' = [forwarder EXCEPT ![f] =
          [at |-> "created", cancelled |-> FALSE, event |-> 0,
           conn |-> c, thread |-> r.thread, mode |-> r.mode]]
    /\ subscriptions' = [subscriptions EXCEPT ![c][r.thread] = f]
    /\ handler' = [handler EXCEPT ![c] = [at |-> "ready", request |-> r, awaits |-> {f}]]

\* The types after a connection has started a task.
LEMMA CreateType ==
    ASSUME TypeInv, NEW c \in Connection, NEW r \in Request, r.op = "subscribe",
           NEW f \in Forwarder, Creates(c, r, f), UNCHANGED <<feed, broker, online, sent>>
    PROVE  TypeInv'
<1> USE DEF TypeInv
<1>1. r.thread \in Thread /\ r.mode \in ProgressMode
  BY DEF Request
<1>2. [at |-> "created", cancelled |-> FALSE, event |-> 0,
       conn |-> c, thread |-> r.thread, mode |-> r.mode] \in Forwarding
  BY <1>1, SubscriptionsAssumption DEF Forwarding
<1>3. forwarder' \in [Forwarder -> Forwarding \cup {Unused}]
  BY <1>2 DEF Creates, SubscriptionsTypeOK
<1>4. subscriptions' \in [Connection -> [Thread -> Forwarder \cup {NoForwarder}]]
  BY <1>1 DEF Creates, SubscriptionsTypeOK
<1>5. handler' \in [Connection -> Handling] /\ \A o \in Connection :
          handler'[o].at \in {"stopping", "ready", "replying", "failing"} => handler'[o].request \in Request
  <2>1. [at |-> "ready", request |-> r, awaits |-> {f}] \in Handling
    BY DEF Handling
  <2> QED
    BY <2>1 DEF Creates, SubscriptionsTypeOK
<1>6. \A g \in Forwarder : forwarder'[g].at = "sending" => forwarder'[g].event # 0
  BY DEF Creates, SubscriptionsTypeOK
<1> QED
  BY <1>3, <1>4, <1>5, <1>6 DEF SubscriptionsTypeOK, feed, broker

\* The types after a connection has cancelled tasks and gone on to h.
LEMMA StopType ==
    ASSUME TypeInv, NEW c \in Connection, NEW h \in Handling, NEW fs,
           h.at \in {"stopping", "ready", "replying", "failing"} => h.request \in Request,
           \A f \in fs : forwarder[f] # Unused,
           forwarder' = CancelAll(fs), handler' = [handler EXCEPT ![c] = h],
           subscriptions' \in [Connection -> [Thread -> Forwarder \cup {NoForwarder}]],
           sent' \in [Connection -> Seq(Frame)],
           UNCHANGED <<feed, broker, online>>
    PROVE  TypeInv'
<1>1. /\ forwarder' \in [Forwarder -> Forwarding \cup {Unused}]
      /\ \A f \in Forwarder :
            /\ forwarder'[f].at = forwarder[f].at
            /\ forwarder'[f].at = "sending" => forwarder'[f].event = forwarder[f].event
  BY CancelType
<1>2. handler' \in [Connection -> Handling] /\ \A o \in Connection :
          handler'[o].at \in {"stopping", "ready", "replying", "failing"} => handler'[o].request \in Request
  BY DEF TypeInv, SubscriptionsTypeOK
<1> QED
  BY <1>1, <1>2 DEF TypeInv, SubscriptionsTypeOK, feed, broker

\* The types after a connection has gone on to h and left the tasks alone.
LEMMA MoveType ==
    ASSUME TypeInv, NEW c \in Connection, NEW h \in Handling,
           h.at \in {"stopping", "ready", "replying", "failing"} => h.request \in Request,
           handler' = [handler EXCEPT ![c] = h],
           subscriptions' \in [Connection -> [Thread -> Forwarder \cup {NoForwarder}]],
           sent' \in [Connection -> Seq(Frame)],
           UNCHANGED <<feed, broker, forwarder, online>>
    PROVE  TypeInv'
BY DEF TypeInv, SubscriptionsTypeOK, feed, broker

LEMMA ProceedType ==
    ASSUME TypeInv, NEW c \in Connection, NEW r \in Request, Proceed(c, r),
           UNCHANGED <<feed, broker, online, sent>>
    PROVE  TypeInv'
<1>1. ASSUME r.op = "subscribe", NEW f \in Forwarder, Creates(c, r, f) PROVE TypeInv'
  BY <1>1, CreateType
<1>2. CASE /\ handler' = [handler EXCEPT ![c] = [at |-> "replying", request |-> r, awaits |-> {}]]
           /\ UNCHANGED <<forwarder, subscriptions>>
  <2>1. [at |-> "replying", request |-> r, awaits |-> {}] \in Handling
    BY DEF Handling
  <2> QED
    BY <1>2, <2>1, MoveType DEF TypeInv, SubscriptionsTypeOK
<1> QED
  BY <1>1, <1>2 DEF Proceed, CreateForwarder, Creates

LEMMA StopSubscriptionType ==
    ASSUME TypeInv, SubscribedIsMine, NEW c \in Connection, NEW r \in Request,
           StopSubscription(c, r), UNCHANGED <<feed, broker, online, sent>>
    PROVE  TypeInv'
<1> DEFINE f == subscriptions[c][r.thread]
           h == [at |-> "stopping", request |-> r, awaits |-> {f}]
           fs == {f}
<1>1. r.thread \in Thread
  BY DEF Request
<1>2. f \in Forwarder /\ \A g \in fs : forwarder[g] # Unused
  BY <1>1 DEF StopSubscription, SubscribedIsMine, TypeInv, SubscriptionsTypeOK
<1>3. h \in Handling /\ h.request \in Request
  BY <1>2 DEF Handling
<1>4. /\ subscriptions' = [subscriptions EXCEPT ![c][r.thread] = NoForwarder]
      /\ forwarder' = CancelAll(fs) /\ handler' = [handler EXCEPT ![c] = h]
  BY DEF StopSubscription
<1>5. subscriptions' \in [Connection -> [Thread -> Forwarder \cup {NoForwarder}]]
  BY <1>1, <1>4 DEF TypeInv, SubscriptionsTypeOK
<1>6. sent' \in [Connection -> Seq(Frame)] /\ UNCHANGED <<feed, broker, online>>
  BY DEF TypeInv, SubscriptionsTypeOK
<1> HIDE DEF f, h, fs
<1> QED
  BY <1>2, <1>3, <1>4, <1>5, <1>6, StopType

LEMMA CloseType ==
    ASSUME TypeInv, SubscribedIsMine, NEW c \in Connection, Close(c),
           UNCHANGED <<feed, broker, online, sent, subscriptions>>
    PROVE  TypeInv'
<1> DEFINE fs == {subscriptions[c][th] : th \in Thread} \ {NoForwarder}
           h  == [at |-> "closing", request |-> NoRequest, awaits |-> fs]
<1>1. fs \subseteq Forwarder /\ \A f \in fs : forwarder[f] # Unused
  BY DEF SubscribedIsMine, TypeInv, SubscriptionsTypeOK
<1>2. h \in Handling /\ h.at = "closing"
  BY <1>1 DEF Handling
<1>3. forwarder' = CancelAll(fs) /\ handler' = [handler EXCEPT ![c] = h]
  BY DEF Close
<1>4. /\ subscriptions' \in [Connection -> [Thread -> Forwarder \cup {NoForwarder}]]
      /\ sent' \in [Connection -> Seq(Frame)]
  BY DEF TypeInv, SubscriptionsTypeOK
<1> HIDE DEF fs, h
<1> QED
  BY <1>1, <1>2, <1>3, <1>4, StopType

\* The steps of a connection keep the types.
LEMMA ConnectionType ==
    ASSUME TypeInv, SubscribedIsMine, NEW c \in Connection,
           (\E r \in Request : Receive(c, r)) \/ Disconnect(c) \/ HandlerStep(c)
    PROVE  TypeInv'
<1>0. handler[c].at \in {"stopping", "ready", "replying", "failing"} => handler[c].request \in Request
  BY DEF TypeInv
<1>1. ASSUME NEW r \in Request, Receive(c, r) PROVE TypeInv'
  <2>1. CASE LookupFails(c, r)
    <3> DEFINE h == [at |-> "failing", request |-> r, awaits |-> {}]
    <3>1. h \in Handling /\ h.request \in Request /\ handler' = [handler EXCEPT ![c] = h]
      BY <2>1 DEF LookupFails, Handling
    <3> HIDE DEF h
    <3> QED
      BY <1>1, <2>1, <3>1, MoveType DEF Receive, LookupFails, TypeInv, SubscriptionsTypeOK
  <2> QED
    BY <1>1, <2>1, StopSubscriptionType, ProceedType DEF Receive
<1>2. CASE Stopped(c)
  BY <1>0, <1>2, ProceedType DEF Stopped
<1>3. CASE Ready(c)
  <2> DEFINE h == [handler[c] EXCEPT !.at = "replying", !.awaits = {}]
  <2>1. h \in Handling /\ h.request \in Request
    BY <1>3 DEF Ready, TypeInv, SubscriptionsTypeOK, Handling
  <2>2. handler' = [handler EXCEPT ![c] = h]
    BY <1>3 DEF Ready, TypeInv, SubscriptionsTypeOK, Handling
  <2> HIDE DEF h
  <2> QED
    BY <1>3, <2>1, <2>2, MoveType DEF Ready, TypeInv, SubscriptionsTypeOK
<1>4. CASE Reply(c) /\ online[c]
  <2> DEFINE h == [handler[c] EXCEPT !.at = "receiving", !.request = NoRequest]
  <2>1. h \in Handling /\ h.at = "receiving"
    BY DEF TypeInv, SubscriptionsTypeOK, Handling
  <2>2. handler' = [handler EXCEPT ![c] = h] /\ UNCHANGED <<feed, broker, forwarder, online, subscriptions>>
    BY <1>4 DEF Reply, Close, TypeInv, SubscriptionsTypeOK, Handling
  <2>3. Answer(c) \in Frame
    BY <1>0, <1>4 DEF Reply, Answer, Frame
  <2>4. sent' \in [Connection -> Seq(Frame)]
    <3>1. Append(sent[c], Answer(c)) \in Seq(Frame)
      BY <2>3 DEF TypeInv, SubscriptionsTypeOK
    <3> QED
      BY <1>4, <3>1 DEF Reply, TypeInv, SubscriptionsTypeOK
  <2> HIDE DEF h
  <2> QED
    BY <2>1, <2>2, <2>4, MoveType DEF TypeInv, SubscriptionsTypeOK
<1>5. CASE (Reply(c) /\ ~online[c]) \/ ReceiveDisconnect(c)
  BY <1>5, CloseType DEF Reply, ReceiveDisconnect
<1>6. CASE Disconnect(c)
  BY <1>6 DEF Disconnect, TypeInv, SubscriptionsTypeOK, feed, broker
<1>7. CASE Closed(c)
  <2> DEFINE h == [handler[c] EXCEPT !.at = "closed", !.awaits = {}]
  <2>1. h \in Handling /\ h.at = "closed"
    BY DEF TypeInv, SubscriptionsTypeOK, Handling
  <2>2. handler' = [handler EXCEPT ![c] = h]
    BY <1>7 DEF Closed, TypeInv, SubscriptionsTypeOK, Handling
  <2> HIDE DEF h
  <2> QED
    BY <1>7, <2>1, <2>2, MoveType DEF Closed, TypeInv, SubscriptionsTypeOK
<1> QED
  BY <1>1, <1>2, <1>3, <1>4, <1>5, <1>6, <1>7 DEF HandlerStep

\* The first element of a sequence, and the others.
LEMMA FirstAndRest ==
    ASSUME NEW S, NEW q \in Seq(S), q # <<>>
    PROVE  Head(q) \in S /\ Tail(q) \in Seq(S)
OBVIOUS

\* A task that ends keeps the types.
LEMMA EndedType ==
    ASSUME TypeInv, NEW f \in Forwarder, forwarder[f] \in Forwarding,
           NEW event \in 0 .. MaxPublished,
           forwarder' = [forwarder EXCEPT ![f] =
                            [forwarder[f] EXCEPT !.at = "ended", !.event = event]],
           subscribers' \subseteq Forwarder, UNCHANGED <<feed, queue, since, connection>>
    PROVE  TypeInv'
<1>0. forwarder \in [Forwarder -> Forwarding \cup {Unused}]
  BY DEF TypeInv, SubscriptionsTypeOK
<1>1. [forwarder[f] EXCEPT !.at = "ended", !.event = event] \in Forwarding
  BY DEF Forwarding
<1>2. forwarder' \in [Forwarder -> Forwarding \cup {Unused}]
  BY <1>0, <1>1
<1>3. \A g \in Forwarder : forwarder'[g].at = "sending" => forwarder'[g].event # 0
  <2>1. forwarder'[f].at # "sending"
    BY <1>0 DEF Forwarding
  <2> QED
    BY <1>0, <2>1 DEF TypeInv
<1> QED
  BY <1>2, <1>3 DEF TypeInv, SubscriptionsTypeOK, feed, connection

\* So do the steps of a task.
LEMMA ForwarderStepType ==
    ASSUME TypeInv, NEW f \in Forwarder, ForwarderStep(f)
    PROVE  TypeInv'
<1>0. /\ MaxPublished \in Nat
      /\ forwarder[f].at # "unused" => forwarder[f] \in Forwarding
      /\ forwarder \in [Forwarder -> Forwarding \cup {Unused}]
      /\ queue[f] \in Seq(1 .. MaxPublished)
  BY SubscriptionsAssumption, ForwarderType DEF TypeInv, SubscriptionsTypeOK
<1>1. CASE ForwarderSubscribes(f)
  <2>1. forwarder[f] \in Forwarding
    BY <1>0, <1>1 DEF ForwarderSubscribes
  <2>2. forwarder' \in [Forwarder -> Forwarding \cup {Unused}]
    <3>1. \A at \in {"waiting", "ended"} : [forwarder[f] EXCEPT !.at = at] \in Forwarding
      BY <2>1 DEF Forwarding
    <3>2. \E at \in {"waiting", "ended"} :
             forwarder' = [forwarder EXCEPT ![f] = [forwarder[f] EXCEPT !.at = at]]
      BY <1>0, <1>1, <2>1 DEF ForwarderSubscribes
    <3> QED
      BY <1>0, <3>1, <3>2
  <2>3. since' \in [Forwarder -> 0 .. NeverRegistered]
    <3>1. forwarder[f].thread \in Thread
      BY <2>1 DEF Forwarding
    <3>2. Len(published[forwarder[f].thread]) \in 0 .. NeverRegistered
      BY <1>0, <3>1 DEF TypeInv, SubscriptionsTypeOK, NeverRegistered
    <3> QED
      BY <1>1, <3>2 DEF ForwarderSubscribes, TypeInv, SubscriptionsTypeOK
  <2>4. subscribers' \subseteq Forwarder /\ UNCHANGED <<feed, queue, connection>>
    BY <1>1 DEF ForwarderSubscribes, TypeInv, SubscriptionsTypeOK
  <2>5. \A g \in Forwarder : forwarder'[g].at = "sending" => forwarder'[g].event # 0
    <3>1. forwarder'[f].at # "sending"
      BY <1>0, <1>1, <2>1 DEF ForwarderSubscribes, Forwarding
    <3>2. \A g \in Forwarder \ {f} : forwarder'[g] = forwarder[g]
      BY <1>0, <1>1 DEF ForwarderSubscribes
    <3> QED
      BY <3>1, <3>2 DEF TypeInv
  <2> QED
    BY <2>2, <2>3, <2>4, <2>5 DEF TypeInv, SubscriptionsTypeOK, feed, connection
<1>2. CASE TakeEvent(f)
  <2>1. /\ forwarder[f] \in Forwarding
        /\ Head(queue[f]) \in 1 .. MaxPublished
        /\ Tail(queue[f]) \in Seq(1 .. MaxPublished)
    <3>1. forwarder[f].at = "waiting" /\ queue[f] # <<>>
      BY <1>2 DEF TakeEvent
    <3> QED
      BY <1>0, <3>1, FirstAndRest
  <2>2. [forwarder[f] EXCEPT !.at = "sending", !.event = Head(queue[f])] \in Forwarding
    <3>1. \A r \in Forwarding, e \in 0 .. MaxPublished :
             [r EXCEPT !.at = "sending", !.event = e] \in Forwarding
      BY DEF Forwarding
    <3>2. Head(queue[f]) \in 0 .. MaxPublished
      BY <1>0, <2>1
    <3> QED
      BY <2>1, <3>1, <3>2
  <2>3. forwarder' = [forwarder EXCEPT ![f] =
                        [forwarder[f] EXCEPT !.at = "sending", !.event = Head(queue[f])]]
    BY <1>0, <1>2, <2>1 DEF TakeEvent
  <2>4. forwarder' \in [Forwarder -> Forwarding \cup {Unused}]
    BY <1>0, <2>2, <2>3
  <2>5. queue' \in [Forwarder -> Seq(1 .. MaxPublished)]
    BY <1>2, <2>1 DEF TakeEvent, TypeInv, SubscriptionsTypeOK
  <2>6. \A g \in Forwarder : forwarder'[g].at = "sending" => forwarder'[g].event # 0
    <3>1. forwarder'[f].event = Head(queue[f])
      BY <1>0, <2>1, <2>3 DEF Forwarding
    <3> QED
      BY <1>0, <2>1, <2>3, <3>1 DEF TypeInv
  <2> QED
    BY <1>2, <2>4, <2>5, <2>6 DEF TakeEvent, TypeInv, SubscriptionsTypeOK, feed, connection
<1>3. CASE EventSent(f)
  <2> DEFINE c == forwarder[f].conn
             at == IF forwarder[f].cancelled THEN "ended" ELSE "waiting"
             frame == [by |-> f, thread |-> forwarder[f].thread, event |-> forwarder[f].event]
  <2>1. forwarder[f] \in Forwarding /\ forwarder[f].event # 0
    BY <1>0, <1>3 DEF EventSent, TypeInv
  <2>2. frame \in Frame /\ c \in Connection
    BY <2>1 DEF Forwarding, Frame
  <2>3. [forwarder[f] EXCEPT !.event = 0, !.at = at] \in Forwarding
    <3>1. \A r \in Forwarding, x \in {"ended", "waiting"} :
             [r EXCEPT !.event = 0, !.at = x] \in Forwarding
      <4>1. 0 \in 0 .. MaxPublished
        BY SubscriptionsAssumption
      <4> QED
        BY <4>1 DEF Forwarding
    <3> QED
      BY <2>1, <3>1
  <2>4. forwarder' = [forwarder EXCEPT ![f] = [forwarder[f] EXCEPT !.event = 0, !.at = at]]
    BY <1>0, <1>3, <2>1 DEF EventSent
  <2>5. forwarder' \in [Forwarder -> Forwarding \cup {Unused}]
    BY <1>0, <2>3, <2>4
  <2>6. sent' \in [Connection -> Seq(Frame)]
    <3>1. Append(sent[c], frame) \in Seq(Frame)
      BY <2>2 DEF TypeInv, SubscriptionsTypeOK
    <3> QED
      BY <1>3, <3>1 DEF EventSent, TypeInv, SubscriptionsTypeOK
  <2>7. \A g \in Forwarder : forwarder'[g].at = "sending" => forwarder'[g].event # 0
    <3>1. forwarder'[f].at # "sending"
      BY <1>0, <2>1, <2>4 DEF Forwarding
    <3> QED
      BY <1>0, <2>4, <3>1 DEF TypeInv
  <2> QED
    BY <1>3, <2>5, <2>6, <2>7 DEF EventSent, TypeInv, SubscriptionsTypeOK, feed, broker
<1>4. CASE SendFails(f) \/ CancelledInGet(f) \/ CancelledInSend(f)
  <2>1. forwarder[f] \in Forwarding
    BY <1>0, <1>4 DEF SendFails, CancelledInGet, CancelledInSend
  <2>2. subscribers' \subseteq Forwarder /\ UNCHANGED <<feed, queue, since, connection>>
    BY <1>4 DEF SendFails, CancelledInGet, CancelledInSend, broker, TypeInv, SubscriptionsTypeOK
  <2>3. CASE SendFails(f) \/ CancelledInSend(f)
    <3>1. forwarder' = [forwarder EXCEPT ![f] = [forwarder[f] EXCEPT !.at = "ended", !.event = 0]]
      BY <1>0, <2>1, <2>3 DEF SendFails, CancelledInSend
    <3>2. 0 \in 0 .. MaxPublished
      BY SubscriptionsAssumption
    <3> QED
      BY <2>1, <2>2, <3>1, <3>2, EndedType
  <2>4. CASE CancelledInGet(f)
    <3> DEFINE event == forwarder[f].event
    <3>1. event \in 0 .. MaxPublished
      BY <2>1 DEF Forwarding
    <3>2. [forwarder[f] EXCEPT !.at = "ended"] =
             [forwarder[f] EXCEPT !.at = "ended", !.event = event]
      BY <2>1 DEF Forwarding
    <3>3. forwarder' = [forwarder EXCEPT ![f] = [forwarder[f] EXCEPT !.at = "ended"]]
      BY <1>0, <2>1, <2>4 DEF CancelledInGet
    <3>4. forwarder' = [forwarder EXCEPT ![f] =
                          [forwarder[f] EXCEPT !.at = "ended", !.event = event]]
      BY <3>2, <3>3
    <3> HIDE DEF event
    <3> QED
      BY <2>1, <2>2, <3>1, <3>4, EndedType
  <2> QED
    BY <1>4, <2>3, <2>4
<1>5. CASE FinalizeGenerator(f)
  BY <1>5 DEF FinalizeGenerator, TypeInv, SubscriptionsTypeOK, feed, connection
<1> QED
  BY <1>1, <1>2, <1>3, <1>4, <1>5 DEF ForwarderStep

LEMMA TypeStep ==
    ASSUME TypeInv, SubscribedIsMine, [Next]_vars PROVE TypeInv'
<1>1. ASSUME NEW th \in Thread, TurnStarts(th) PROVE TypeInv'
  <2>1. progressEnabled' \in [Thread -> BOOLEAN]
    <3>1. ProgressRequested(th) \in BOOLEAN
      BY DEF ProgressRequested
    <3> QED
      BY <1>1, <3>1 DEF TurnStarts, TypeInv, SubscriptionsTypeOK
  <2> QED
    BY <1>1, <2>1, PublishType DEF TurnStarts, Kind
<1>2. ASSUME NEW th \in Thread, NEW kind \in Kind, TurnContinues(th, kind) PROVE TypeInv'
  BY <1>2, PublishType DEF TurnContinues, TypeInv, SubscriptionsTypeOK
<1>3. CASE UNCHANGED vars
  BY <1>3 DEF vars, broker, connection, TypeInv, SubscriptionsTypeOK
<1> QED
  BY <1>1, <1>2, <1>3, ConnectionType, ForwarderStepType DEF Next

-----------------------------------------------------------------------------
(* Each step keeps the links.                                              *)

\* What any step of a task leaves as it is.
TaskMoves(f) ==
    /\ UNCHANGED <<handler, subscriptions, published, online>>
    /\ forwarder[f] \in Forwarding /\ forwarder'[f] \in Forwarding
    /\ forwarder'[f].at \in {"waiting", "sending", "ended"}
    /\ forwarder'[f].at \in Active => forwarder[f].at \in Active
    /\ forwarder'[f].conn = forwarder[f].conn
    /\ forwarder'[f].thread = forwarder[f].thread
    /\ forwarder'[f].cancelled = forwarder[f].cancelled
    /\ \A g \in Forwarder \ {f} :
          /\ forwarder'[g] = forwarder[g] /\ queue'[g] = queue[g] /\ since'[g] = since[g]
          /\ g \in subscribers' <=> g \in subscribers

LEMMA TaskStep ==
    ASSUME TypeInv, NEW f \in Forwarder, ForwarderStep(f) PROVE TaskMoves(f)
<1>0. /\ forwarder[f].at # "unused" => forwarder[f] \in Forwarding
      /\ forwarder \in [Forwarder -> Forwarding \cup {Unused}]
      /\ queue \in [Forwarder -> Seq(1 .. MaxPublished)]
      /\ since \in [Forwarder -> 0 .. NeverRegistered]
  BY ForwarderType DEF TypeInv, SubscriptionsTypeOK
<1>1. UNCHANGED <<handler, subscriptions, published, online>>
  BY DEF ForwarderStep, ForwarderSubscribes, TakeEvent, EventSent, SendFails, CancelledInGet,
     CancelledInSend, FinalizeGenerator, connection, feed
<1>2. forwarder[f] \in Forwarding
  BY <1>0 DEF ForwarderStep, ForwarderSubscribes, TakeEvent, EventSent, SendFails,
     CancelledInGet, CancelledInSend, FinalizeGenerator
<1>3. /\ forwarder'[f].at \in {"waiting", "sending", "ended"}
      /\ forwarder'[f].at \in Active => forwarder[f].at \in Active
      /\ forwarder'[f].conn = forwarder[f].conn
      /\ forwarder'[f].thread = forwarder[f].thread
      /\ forwarder'[f].cancelled = forwarder[f].cancelled
  BY <1>0, <1>2 DEF ForwarderStep, ForwarderSubscribes, TakeEvent, EventSent, SendFails,
     CancelledInGet, CancelledInSend, FinalizeGenerator, Active, Forwarding
<1>4. forwarder'[f] \in Forwarding
  <2>1. TypeInv'
    BY ForwarderStepType
  <2>2. forwarder'[f] \in Forwarding \cup {Unused}
    BY <2>1 DEF TypeInv, SubscriptionsTypeOK
  <2> QED
    BY <1>3, <2>2 DEF Unused
<1>5. ASSUME NEW g \in Forwarder \ {f}
      PROVE  /\ forwarder'[g] = forwarder[g] /\ queue'[g] = queue[g] /\ since'[g] = since[g]
             /\ g \in subscribers' <=> g \in subscribers
  BY <1>0 DEF ForwarderStep, ForwarderSubscribes, TakeEvent, EventSent, SendFails,
     CancelledInGet, CancelledInSend, FinalizeGenerator, broker
<1> QED
  BY <1>1, <1>2, <1>3, <1>4, <1>5 DEF TaskMoves

LEMMA TaskLinks ==
    ASSUME TypeInv, LinkInv, NEW f \in Forwarder, TaskMoves(f) PROVE LinkInv'
<1>0. Unused.at = "unused" /\ \A r \in Forwarding : r # Unused /\ r.at # "unused"
  BY DEF Forwarding, Unused
<1>1. SubscribedIsMine'
  <2>1. \A g \in Forwarder : /\ forwarder[g] # Unused => forwarder'[g] # Unused
                             /\ forwarder'[g].conn = forwarder[g].conn
                             /\ forwarder'[g].thread = forwarder[g].thread
    BY <1>0 DEF TaskMoves
  <2>2. \A c \in Connection, th \in Thread : subscriptions[c][th] \in Forwarder \cup {NoForwarder}
    BY DEF TypeInv, SubscriptionsTypeOK
  <2> QED
    BY <2>1, <2>2 DEF TaskMoves, LinkInv, SubscribedIsMine
<1>2. ActiveIsKnown'
  BY DEF TaskMoves, LinkInv, ActiveIsKnown, StoppingOf
<1>3. StoppedIsRemoved' /\ CloseAwaitsAll'
  BY DEF TaskMoves, LinkInv, StoppedIsRemoved, CloseAwaitsAll
<1>4. NewIsSilent'
  BY DEF TaskMoves, LinkInv, NewIsSilent
<1> QED
  BY <1>1, <1>2, <1>3, <1>4 DEF LinkInv

\* Cancelling changes no link but lets the connection go on.
LEMMA StopLinks ==
    ASSUME TypeInv, LinkInv, NEW c \in Connection, NEW r \in Request,
           handler[c].at = "receiving", StopSubscription(c, r),
           UNCHANGED <<feed, broker, online, sent>>
    PROVE  LinkInv'
<1> DEFINE f == subscriptions[c][r.thread]
           fs == {f}
<1>0. r.thread \in Thread /\ f \in Forwarder /\ f # NoForwarder
  BY DEF StopSubscription, Request, TypeInv, SubscriptionsTypeOK
<1>1. /\ \A g \in fs : forwarder[g] # Unused
      /\ forwarder[f].conn = c /\ forwarder[f].thread = r.thread
  BY <1>0 DEF LinkInv, SubscribedIsMine
<1>2. /\ \A g \in Forwarder : forwarder'[g].at = forwarder[g].at
      /\ \A g \in Forwarder : forwarder[g] # Unused =>
            /\ forwarder'[g].conn = forwarder[g].conn
            /\ forwarder'[g].thread = forwarder[g].thread
  <2>1. forwarder' = CancelAll(fs)
    BY DEF StopSubscription
  <2> HIDE DEF fs
  <2> QED
    BY <1>1, <2>1, CancelType
<1>3. \A g \in Forwarder : /\ forwarder[g] # Unused <=> forwarder[g].at # "unused"
                           /\ forwarder'[g] = Unused => forwarder'[g].at = "unused"
  <2>1. Unused.at = "unused"
    BY DEF Unused
  <2> QED
    BY <2>1, ForwarderType
<1>4. /\ subscriptions' = [subscriptions EXCEPT ![c][r.thread] = NoForwarder]
      /\ handler' = [handler EXCEPT ![c] = [at |-> "stopping", request |-> r, awaits |-> {f}]]
      /\ UNCHANGED <<subscribers, queue, since>>
  BY DEF StopSubscription, broker
<1> HIDE DEF f, fs
<1>5. /\ \A o \in Connection \ {c} : subscriptions'[o] = subscriptions[o] /\ handler'[o] = handler[o]
      /\ \A th \in Thread \ {r.thread} : subscriptions'[c][th] = subscriptions[c][th]
      /\ subscriptions'[c][r.thread] = NoForwarder
      /\ handler'[c].at = "stopping" /\ handler'[c].awaits = {f} /\ handler'[c].request = r
  <2>1. /\ subscriptions \in [Connection -> [Thread -> Forwarder \cup {NoForwarder}]]
        /\ handler \in [Connection -> Handling]
    BY DEF TypeInv, SubscriptionsTypeOK
  <2>2. /\ \A o \in Connection \ {c} : subscriptions'[o] = subscriptions[o]
        /\ \A th \in Thread \ {r.thread} : subscriptions'[c][th] = subscriptions[c][th]
        /\ subscriptions'[c][r.thread] = NoForwarder
    BY <1>0, <1>4, <2>1
  <2>3. /\ \A o \in Connection \ {c} : handler'[o] = handler[o]
        /\ handler'[c].at = "stopping" /\ handler'[c].awaits = {f} /\ handler'[c].request = r
    BY <1>4, <2>1
  <2> QED
    BY <2>2, <2>3
<1>6. SubscribedIsMine'
  <2>1. \A o \in Connection, th \in Thread :
            /\ subscriptions[o][th] \in Forwarder \cup {NoForwarder}
            /\ subscriptions'[o][th] # NoForwarder => subscriptions'[o][th] = subscriptions[o][th]
    <3> TAKE o \in Connection, th \in Thread
    <3>1. subscriptions[o][th] \in Forwarder \cup {NoForwarder}
      BY DEF TypeInv, SubscriptionsTypeOK
    <3>2. CASE o = c /\ th = r.thread
      BY <1>5, <3>1, <3>2
    <3>3. CASE ~(o = c /\ th = r.thread)
      BY <1>5, <3>1, <3>3
    <3> QED
      BY <3>2, <3>3
  <2> QED
    BY <1>2, <1>3, <2>1 DEF LinkInv, SubscribedIsMine
<1>7. ActiveIsKnown'
  <2> SUFFICES ASSUME NEW g \in Forwarder, forwarder[g].at \in Active
               PROVE  \/ subscriptions'[forwarder[g].conn][forwarder[g].thread] = g
                      \/ /\ handler'[forwarder[g].conn].at = "stopping"
                         /\ handler'[forwarder[g].conn].awaits = {g}
                         /\ handler'[forwarder[g].conn].request.thread = forwarder[g].thread
    BY <1>2, <1>3 DEF ActiveIsKnown, StoppingOf, Active
  <2>1. forwarder[g] \in Forwarding
    BY ForwarderType DEF Active
  <2>2. forwarder[g].conn \in Connection /\ forwarder[g].thread \in Thread
    BY <2>1 DEF Forwarding
  <2>3. \/ subscriptions[forwarder[g].conn][forwarder[g].thread] = g
        \/ forwarder[g].conn # c /\ StoppingOf(forwarder[g].conn, g)
    BY DEF LinkInv, ActiveIsKnown, StoppingOf
  <2>4. CASE forwarder[g].conn # c
    BY <1>5, <2>2, <2>3, <2>4 DEF StoppingOf
  <2>5. CASE forwarder[g].conn = c /\ forwarder[g].thread = r.thread
    BY <1>5, <2>3, <2>5 DEF f
  <2>6. CASE forwarder[g].conn = c /\ forwarder[g].thread # r.thread
    BY <1>5, <2>2, <2>3, <2>6
  <2> QED
    BY <2>4, <2>5, <2>6
<1>8. StoppedIsRemoved' /\ CloseAwaitsAll'
  BY <1>5 DEF LinkInv, StoppedIsRemoved, CloseAwaitsAll
<1>9. NewIsSilent'
  BY <1>2, <1>4 DEF LinkInv, NewIsSilent
<1> QED
  BY <1>6, <1>7, <1>8, <1>9 DEF LinkInv

\* A task is created where none is at work.
LEMMA CreateLinks ==
    ASSUME TypeInv, LinkInv, NEW c \in Connection, NEW r \in Request, NEW f \in Forwarder,
           Creates(c, r, f), subscriptions[c][r.thread] = NoForwarder,
           handler[c].at = "stopping" => Ended(handler[c].awaits),
           UNCHANGED <<feed, broker, online, sent>>
    PROVE  LinkInv'
<1>0. r.thread \in Thread /\ f # NoForwarder /\ forwarder[f].at = "unused"
  BY SubscriptionsAssumption, ForwarderType DEF Request, Creates
<1>1. /\ \A o \in Connection \ {c} : subscriptions'[o] = subscriptions[o] /\ handler'[o] = handler[o]
      /\ \A th \in Thread \ {r.thread} : subscriptions'[c][th] = subscriptions[c][th]
      /\ subscriptions'[c][r.thread] = f
      /\ handler'[c].at = "ready"
  <2>1. /\ subscriptions \in [Connection -> [Thread -> Forwarder \cup {NoForwarder}]]
        /\ handler \in [Connection -> Handling]
    BY DEF TypeInv, SubscriptionsTypeOK
  <2>2. /\ \A o \in Connection \ {c} : subscriptions'[o] = subscriptions[o]
        /\ \A th \in Thread \ {r.thread} : subscriptions'[c][th] = subscriptions[c][th]
        /\ subscriptions'[c][r.thread] = f
    BY <1>0, <2>1 DEF Creates
  <2>3. /\ \A o \in Connection \ {c} : handler'[o] = handler[o]
        /\ handler'[c].at = "ready"
    BY <2>1 DEF Creates
  <2> QED
    BY <2>2, <2>3
<1>2. /\ forwarder'[f].at = "created" /\ forwarder'[f].conn = c
      /\ forwarder'[f].thread = r.thread /\ forwarder'[f] # Unused
      /\ \A g \in Forwarder \ {f} : forwarder'[g] = forwarder[g]
  BY DEF Creates, Unused, TypeInv, SubscriptionsTypeOK
<1>3. \A o \in Connection, th \in Thread :
          /\ subscriptions[o][th] \in Forwarder \cup {NoForwarder}
          /\ subscriptions[o][th] # f
  <2>1. \A o \in Connection, th \in Thread : subscriptions[o][th] \in Forwarder \cup {NoForwarder}
    BY DEF TypeInv, SubscriptionsTypeOK
  <2> QED
    BY <1>0, <2>1 DEF LinkInv, SubscribedIsMine, Creates
<1>4. SubscribedIsMine'
  <2> SUFFICES ASSUME NEW o \in Connection, NEW th \in Thread, subscriptions'[o][th] # NoForwarder
               PROVE  /\ forwarder'[subscriptions'[o][th]] # Unused
                      /\ forwarder'[subscriptions'[o][th]].conn = o
                      /\ forwarder'[subscriptions'[o][th]].thread = th
    BY DEF SubscribedIsMine
  <2>1. CASE o = c /\ th = r.thread
    BY <1>1, <1>2, <2>1
  <2>2. CASE ~(o = c /\ th = r.thread)
    <3>1. subscriptions'[o][th] = subscriptions[o][th]
      BY <1>1, <2>2
    <3> QED
      BY <1>2, <1>3, <3>1 DEF LinkInv, SubscribedIsMine
  <2> QED
    BY <2>1, <2>2
<1>5. ActiveIsKnown'
  <2> SUFFICES ASSUME NEW g \in Forwarder, forwarder'[g].at \in Active
               PROVE  \/ subscriptions'[forwarder'[g].conn][forwarder'[g].thread] = g
                      \/ StoppingOf(forwarder[g].conn, g)'
    BY DEF ActiveIsKnown
  <2>1. CASE g = f
    BY <1>1, <1>2, <2>1
  <2>2. CASE g # f
    <3>1. forwarder'[g] = forwarder[g] /\ forwarder[g].at \in Active
      BY <1>2, <2>2
    <3>2. forwarder[g] \in Forwarding
      BY <3>1, ForwarderType DEF Active
    <3>3. forwarder[g].conn \in Connection /\ forwarder[g].thread \in Thread
      BY <3>2 DEF Forwarding
    <3>4. \/ subscriptions[forwarder[g].conn][forwarder[g].thread] = g
          \/ StoppingOf(forwarder[g].conn, g)
      BY <3>1 DEF LinkInv, ActiveIsKnown
    <3>5. CASE forwarder[g].conn # c
      BY <1>1, <3>1, <3>3, <3>4, <3>5 DEF StoppingOf
    <3>6. CASE forwarder[g].conn = c
      <4>1. ~StoppingOf(c, g)
        BY <3>1 DEF StoppingOf, Ended, Active
      <4>2. subscriptions[c][forwarder[g].thread] = g
        BY <3>4, <3>6, <4>1
      <4>3. forwarder[g].thread # r.thread
        BY <4>2, SubscriptionsAssumption
      <4> QED
        BY <1>1, <3>1, <3>3, <3>6, <4>2, <4>3
    <3> QED
      BY <3>5, <3>6
  <2> QED
    BY <2>1, <2>2
<1>6. StoppedIsRemoved' /\ CloseAwaitsAll'
  BY <1>1 DEF LinkInv, StoppedIsRemoved, CloseAwaitsAll
<1>7. NewIsSilent'
  BY <1>0, <1>2 DEF LinkInv, NewIsSilent, broker
<1> QED
  BY <1>4, <1>5, <1>6, <1>7 DEF LinkInv

\* close() keeps the subscriptions until their tasks have ended.
LEMMA CloseLinks ==
    ASSUME TypeInv, LinkInv, NEW c \in Connection, handler[c].at # "stopping", Close(c),
           UNCHANGED <<feed, broker, online, sent, subscriptions>>
    PROVE  LinkInv'
<1> DEFINE fs == {subscriptions[c][th] : th \in Thread} \ {NoForwarder}
<1>1. \A g \in fs : forwarder[g] # Unused
  BY DEF LinkInv, SubscribedIsMine
<1>2. /\ \A g \in Forwarder : forwarder'[g].at = forwarder[g].at
      /\ \A g \in Forwarder : forwarder[g] # Unused =>
            /\ forwarder'[g].conn = forwarder[g].conn
            /\ forwarder'[g].thread = forwarder[g].thread
  <2>1. forwarder' = CancelAll(fs)
    BY DEF Close
  <2> HIDE DEF fs
  <2> QED
    BY <1>1, <2>1, CancelType
<1>3. \A g \in Forwarder : /\ forwarder[g] # Unused <=> forwarder[g].at # "unused"
                           /\ forwarder'[g] = Unused => forwarder'[g].at = "unused"
  <2>1. Unused.at = "unused"
    BY DEF Unused
  <2> QED
    BY <2>1, ForwarderType
<1>4. /\ \A o \in Connection \ {c} : handler'[o] = handler[o]
      /\ handler'[c].at = "closing" /\ handler'[c].awaits = fs
  BY DEF Close, TypeInv, SubscriptionsTypeOK
<1>5. \A o \in Connection, th \in Thread : subscriptions[o][th] \in Forwarder \cup {NoForwarder}
  BY DEF TypeInv, SubscriptionsTypeOK
<1>6. SubscribedIsMine'
  BY <1>2, <1>3, <1>5 DEF LinkInv, SubscribedIsMine
<1>7. ActiveIsKnown'
  <2> SUFFICES ASSUME NEW g \in Forwarder, forwarder[g].at \in Active
               PROVE  \/ subscriptions[forwarder[g].conn][forwarder[g].thread] = g
                      \/ /\ handler'[forwarder[g].conn].at = "stopping"
                         /\ handler'[forwarder[g].conn].awaits = {g}
                         /\ handler'[forwarder[g].conn].request.thread = forwarder[g].thread
    BY <1>2, <1>3 DEF ActiveIsKnown, StoppingOf, Active
  <2>1. forwarder[g] \in Forwarding
    BY ForwarderType DEF Active
  <2>2. forwarder[g].conn \in Connection
    BY <2>1 DEF Forwarding
  <2> QED
    BY <1>4, <2>2 DEF LinkInv, ActiveIsKnown, StoppingOf
<1>8. StoppedIsRemoved' /\ CloseAwaitsAll'
  BY <1>4 DEF LinkInv, StoppedIsRemoved, CloseAwaitsAll
<1>9. NewIsSilent'
  BY <1>2 DEF LinkInv, NewIsSilent, broker
<1> QED
  BY <1>6, <1>7, <1>8, <1>9 DEF LinkInv

\* A connection that goes on, with its tasks as they are.
LEMMA MoveLinks ==
    ASSUME TypeInv, LinkInv, NEW c \in Connection, NEW h,
           handler' = [handler EXCEPT ![c] = h], h.at \notin {"stopping", "closing"},
           handler[c].at = "stopping" => Ended(handler[c].awaits),
           UNCHANGED <<broker, forwarder, subscriptions>>
    PROVE  LinkInv'
<1>1. /\ \A o \in Connection \ {c} : handler'[o] = handler[o]
      /\ handler'[c] = h
  BY DEF TypeInv, SubscriptionsTypeOK
<1>2. SubscribedIsMine' /\ NewIsSilent'
  BY DEF LinkInv, SubscribedIsMine, NewIsSilent, broker
<1>3. StoppedIsRemoved' /\ CloseAwaitsAll'
  BY <1>1 DEF LinkInv, StoppedIsRemoved, CloseAwaitsAll
<1>4. ActiveIsKnown'
  <2> SUFFICES ASSUME NEW g \in Forwarder, forwarder[g].at \in Active
               PROVE  \/ subscriptions[forwarder[g].conn][forwarder[g].thread] = g
                      \/ StoppingOf(forwarder[g].conn, g)'
    BY DEF ActiveIsKnown, LinkInv
  <2>1. forwarder[g] \in Forwarding
    BY ForwarderType DEF Active
  <2>2. forwarder[g].conn \in Connection
    BY <2>1 DEF Forwarding
  <2>3. CASE subscriptions[forwarder[g].conn][forwarder[g].thread] = g
    BY <2>3
  <2>4. CASE StoppingOf(forwarder[g].conn, g)
    <3>1. forwarder[g].conn # c
      BY <2>4 DEF StoppingOf, Ended, Active
    <3> QED
      BY <1>1, <2>2, <2>4, <3>1 DEF StoppingOf
  <2> QED
    BY <2>3, <2>4 DEF LinkInv, ActiveIsKnown
<1> QED
  BY <1>2, <1>3, <1>4 DEF LinkInv

\* After close() has waited, nothing of the connection is at work.
LEMMA ClosedLinks ==
    ASSUME TypeInv, LinkInv, NEW c \in Connection, Closed(c) PROVE LinkInv'
<1>1. /\ \A o \in Connection \ {c} : handler'[o] = handler[o] /\ subscriptions'[o] = subscriptions[o]
      /\ handler'[c].at = "closed" /\ \A th \in Thread : subscriptions'[c][th] = NoForwarder
      /\ UNCHANGED <<forwarder, subscribers, queue, since>>
      /\ handler[c].at = "closing" /\ Ended(handler[c].awaits)
  <2>1. handler[c] \in Handling /\ handler \in [Connection -> Handling]
    BY DEF TypeInv, SubscriptionsTypeOK
  <2>2. /\ \A o \in Connection \ {c} : handler'[o] = handler[o]
        /\ handler'[c].at = "closed"
    BY <2>1 DEF Closed, Handling
  <2> QED
    BY <2>2 DEF Closed, broker, TypeInv, SubscriptionsTypeOK
<1>2. SubscribedIsMine' /\ NewIsSilent'
  BY <1>1 DEF LinkInv, SubscribedIsMine, NewIsSilent
<1>3. StoppedIsRemoved' /\ CloseAwaitsAll'
  BY <1>1 DEF LinkInv, StoppedIsRemoved, CloseAwaitsAll
<1>4. ActiveIsKnown'
  <2> SUFFICES ASSUME NEW g \in Forwarder, forwarder[g].at \in Active
               PROVE  \/ subscriptions'[forwarder[g].conn][forwarder[g].thread] = g
                      \/ StoppingOf(forwarder[g].conn, g)'
    BY <1>1 DEF ActiveIsKnown
  <2>1. forwarder[g] \in Forwarding
    BY ForwarderType DEF Active
  <2>2. forwarder[g].conn \in Connection /\ forwarder[g].thread \in Thread
    BY <2>1 DEF Forwarding
  <2>3. \/ subscriptions[forwarder[g].conn][forwarder[g].thread] = g
        \/ StoppingOf(forwarder[g].conn, g)
    BY DEF LinkInv, ActiveIsKnown
  <2>4. forwarder[g].conn # c
    <3> SUFFICES ASSUME forwarder[g].conn = c PROVE FALSE
      OBVIOUS
    <3>1. subscriptions[c][forwarder[g].thread] = g
      BY <1>1, <2>3 DEF StoppingOf
    <3>2. g \in handler[c].awaits
      BY <1>1, <2>2, <3>1, SubscriptionsAssumption DEF LinkInv, CloseAwaitsAll
    <3> QED
      BY <1>1, <3>2 DEF Ended, Active
  <2> QED
    BY <1>1, <2>2, <2>3, <2>4 DEF StoppingOf
<1> QED
  BY <1>2, <1>3, <1>4 DEF LinkInv

\* Every step keeps the links.
LEMMA LinkStep ==
    ASSUME TypeInv, LinkInv, [Next]_vars PROVE LinkInv'
<1>1. CASE UNCHANGED <<broker, forwarder, handler, subscriptions>>
  BY <1>1 DEF LinkInv, SubscribedIsMine, ActiveIsKnown, StoppedIsRemoved, CloseAwaitsAll,
     NewIsSilent, StoppingOf, broker
<1>2. ASSUME NEW th \in Thread, NEW kind, Publish(th, kind) PROVE LinkInv'
  <2>1. UNCHANGED <<subscribers, since, forwarder, handler, subscriptions>>
    BY <1>2 DEF Publish, connection
  <2>2. \A f \in Forwarder : f \notin subscribers => queue'[f] = queue[f]
    BY <1>2 DEF Publish
  <2> QED
    BY <2>1, <2>2 DEF LinkInv, SubscribedIsMine, ActiveIsKnown, StoppedIsRemoved, CloseAwaitsAll,
       NewIsSilent, StoppingOf
<1>3. ASSUME NEW f \in Forwarder, ForwarderStep(f) PROVE LinkInv'
  BY <1>3, TaskStep, TaskLinks
<1>4. ASSUME NEW c \in Connection, NEW r \in Request, Proceed(c, r),
             subscriptions[c][r.thread] = NoForwarder,
             handler[c].at = "stopping" => Ended(handler[c].awaits),
             UNCHANGED <<feed, broker, online, sent>>
      PROVE  LinkInv'
  <2>1. ASSUME NEW f \in Forwarder, Creates(c, r, f) PROVE LinkInv'
    BY <1>4, <2>1, CreateLinks
  <2>2. CASE /\ handler' = [handler EXCEPT ![c] = [at |-> "replying", request |-> r, awaits |-> {}]]
             /\ UNCHANGED <<forwarder, subscriptions>>
    BY <1>4, <2>2, MoveLinks
  <2> QED
    BY <1>4, <2>1, <2>2 DEF Proceed, CreateForwarder, Creates
<1>5. ASSUME NEW c \in Connection, NEW r \in Request, Receive(c, r) PROVE LinkInv'
  <2>1. CASE LookupFails(c, r)
    <3> DEFINE h == [at |-> "failing", request |-> r, awaits |-> {}]
    <3>1. h.at = "failing" /\ handler' = [handler EXCEPT ![c] = h]
      BY <2>1 DEF LookupFails
    <3>2. handler[c].at = "receiving" /\ UNCHANGED <<broker, forwarder, subscriptions>>
      BY <1>5, <2>1 DEF Receive, LookupFails
    <3> HIDE DEF h
    <3> QED
      BY <3>1, <3>2, MoveLinks
  <2> QED
    BY <1>4, <1>5, <2>1, StopLinks DEF Receive
<1>6. ASSUME NEW c \in Connection, Stopped(c) PROVE LinkInv'
  <2>1. handler[c].request \in Request /\ subscriptions[c][handler[c].request.thread] = NoForwarder
    BY <1>6 DEF Stopped, TypeInv, LinkInv, StoppedIsRemoved
  <2> QED
    BY <1>4, <1>6, <2>1 DEF Stopped
<1>7. ASSUME NEW c \in Connection, Ready(c) \/ (Reply(c) /\ online[c]) PROVE LinkInv'
  <2>1. handler[c] \in Handling /\ handler[c].at \in {"ready", "replying", "failing"}
        /\ UNCHANGED <<broker, forwarder, subscriptions>>
    BY <1>7 DEF Ready, Reply, Close, TypeInv, SubscriptionsTypeOK
  <2>2. CASE Ready(c)
    <3> DEFINE h == [handler[c] EXCEPT !.at = "replying", !.awaits = {}]
    <3>1. h.at = "replying" /\ handler' = [handler EXCEPT ![c] = h]
      BY <2>1, <2>2 DEF Ready, Handling, TypeInv, SubscriptionsTypeOK
    <3> HIDE DEF h
    <3> QED
      BY <2>1, <3>1, MoveLinks
  <2>3. CASE Reply(c) /\ online[c]
    <3> DEFINE h == [handler[c] EXCEPT !.at = "receiving", !.request = NoRequest]
    <3>1. h.at = "receiving" /\ handler' = [handler EXCEPT ![c] = h]
      BY <2>1, <2>3 DEF Reply, Handling, TypeInv, SubscriptionsTypeOK
    <3> HIDE DEF h
    <3> QED
      BY <2>1, <3>1, MoveLinks
  <2> QED
    BY <1>7, <2>2, <2>3
<1>8. ASSUME NEW c \in Connection, (Reply(c) /\ ~online[c]) \/ ReceiveDisconnect(c) PROVE LinkInv'
  BY <1>8, CloseLinks DEF Reply, ReceiveDisconnect
<1>9. ASSUME NEW c \in Connection, Closed(c) PROVE LinkInv'
  BY <1>9, ClosedLinks
<1>10. ASSUME NEW c \in Connection, Disconnect(c) PROVE LinkInv'
  BY <1>1, <1>10 DEF Disconnect
<1>11. CASE UNCHANGED vars
  BY <1>1, <1>11 DEF vars, connection
<1> QED
  BY <1>2, <1>3, <1>5, <1>6, <1>7, <1>8, <1>9, <1>10, <1>11
  DEF Next, HandlerStep, TurnStarts, TurnContinues

LEMMA InitLinks == Init => TypeInv /\ LinkInv
<1> SUFFICES ASSUME Init PROVE TypeInv /\ LinkInv
  OBVIOUS
<1>1. Unused.at = "unused"
  BY DEF Unused
<1>2. TypeInv
  <2>1. SubscriptionsTypeOK
    BY SubscriptionsAssumption DEF Init, SubscriptionsTypeOK, NeverRegistered, Handling
  <2> QED
    BY <1>1, <2>1, SubscriptionsAssumption DEF Init, TypeInv
<1>3. LinkInv
  BY <1>1 DEF Init, LinkInv, SubscribedIsMine, ActiveIsKnown, StoppedIsRemoved, CloseAwaitsAll,
     NewIsSilent, Active
<1> QED
  BY <1>2, <1>3

\* broker.py, methods.py and connection.py only keep what their fields can hold.
THEOREM SubscriptionsTypeCorrect == Spec => []SubscriptionsTypeOK
<1>1. TypeInv /\ LinkInv /\ [Next]_vars => TypeInv' /\ LinkInv'
  BY TypeStep, LinkStep DEF LinkInv
<1>2. TypeInv => SubscriptionsTypeOK
  BY DEF TypeInv
<1> QED
  BY <1>1, <1>2, InitLinks, PTL DEF Spec

-----------------------------------------------------------------------------
(* The order of the events.                                                *)

\* An event that was sent has been published.
SentIsPast ==
    \A c \in Connection : \A j \in DOMAIN sent[c] :
        IsEvent(sent[c][j]) => sent[c][j].event <= Len(published[sent[c][j].thread])

\* What waits for a task at work is in the order of the feed, behind what the
\* task is sending.
WaitingIsOrdered ==
    \A f \in Forwarder : forwarder[f].at \in Active =>
        /\ \A k \in DOMAIN queue[f] : queue[f][k] <= Len(published[forwarder[f].thread])
        /\ \A j, k \in DOMAIN queue[f] : j < k => queue[f][j] < queue[f][k]
        /\ forwarder[f].at = "sending" =>
              /\ forwarder[f].event <= Len(published[forwarder[f].thread])
              /\ \A k \in DOMAIN queue[f] : forwarder[f].event < queue[f][k]

\* It comes after all that the client has got of the thread.
WaitingIsNew ==
    \A f \in Forwarder : forwarder[f].at \in Active =>
        \A j \in DOMAIN sent[forwarder[f].conn] :
            LET frame == sent[forwarder[f].conn][j] IN
            IsEvent(frame) /\ frame.thread = forwarder[f].thread =>
                /\ \A k \in DOMAIN queue[f] : frame.event < queue[f][k]
                /\ forwarder[f].at = "sending" => frame.event < forwarder[f].event

OrderInv == SentIsPast /\ WaitingIsOrdered /\ WaitingIsNew /\ EachEventOnceInOrder

\* Frames are answers or events.
LEMMA FrameType ==
    /\ \A m \in Frame : IsEvent(m) => m.thread \in Thread /\ m.event \in 1 .. MaxPublished
    /\ \A c : ~IsEvent(Answer(c))
    /\ \A f, th, e : LET m == [by |-> f, thread |-> th, event |-> e] IN
                     IsEvent(m) /\ m.thread = th /\ m.event = e
<1>1. \A m \in [reply : Request] \cup [error : Request] : ~IsEvent(m)
  BY DEF IsEvent
<1>2. \A m \in [by : Forwarder, thread : Thread, event : 1 .. MaxPublished] :
          m.thread \in Thread /\ m.event \in 1 .. MaxPublished
  OBVIOUS
<1>3. \A m \in Frame : IsEvent(m) => m.thread \in Thread /\ m.event \in 1 .. MaxPublished
  BY <1>1, <1>2 DEF Frame
<1>4. \A c : ~IsEvent(Answer(c))
  BY DEF IsEvent, Answer
<1>5. \A f, th, e : LET m == [by |-> f, thread |-> th, event |-> e] IN
                    IsEvent(m) /\ m.thread = th /\ m.event = e
  BY DEF IsEvent
<1> QED
  BY <1>3, <1>4, <1>5

\* The events of a client, with their types.
LEMMA SentType ==
    ASSUME TypeInv, NEW c \in Connection, NEW j \in DOMAIN sent[c], IsEvent(sent[c][j])
    PROVE  sent[c][j].thread \in Thread /\ sent[c][j].event \in Nat
<1>1. sent[c] \in Seq(Frame)
  BY DEF TypeInv, SubscriptionsTypeOK
<1>2. sent[c][j] \in Frame
  BY <1>1
<1> QED
  BY <1>2, FrameType, SubscriptionsAssumption

\* A step that sends no event and leaves the feeds and the queues.
LEMMA OrderKept ==
    ASSUME TypeInv, OrderInv, UNCHANGED <<published, queue>>,
           \A c \in Connection : \A j \in DOMAIN sent'[c] :
               IsEvent(sent'[c][j]) => j \in DOMAIN sent[c] /\ sent'[c][j] = sent[c][j],
           \A g \in Forwarder : forwarder'[g].at \in Active =>
               /\ forwarder'[g] \in Forwarding
               /\ \/ /\ forwarder[g].at \in Active
                     /\ forwarder'[g].conn = forwarder[g].conn
                     /\ forwarder'[g].thread = forwarder[g].thread
                     /\ forwarder'[g].at = "sending" =>
                           forwarder[g].at = "sending" /\ forwarder'[g].event = forwarder[g].event
                  \/ queue[g] = <<>> /\ forwarder'[g].at # "sending"
    PROVE  OrderInv'
<1>1. SentIsPast'
  BY DEF OrderInv, SentIsPast
<1>2. EachEventOnceInOrder'
  BY DEF OrderInv, EachEventOnceInOrder
<1>3. WaitingIsOrdered'
  BY DEF OrderInv, WaitingIsOrdered
<1>4. WaitingIsNew'
  <2> SUFFICES ASSUME NEW g \in Forwarder, forwarder'[g].at \in Active,
                      NEW j \in DOMAIN sent'[forwarder'[g].conn],
                      IsEvent(sent'[forwarder'[g].conn][j]),
                      sent'[forwarder'[g].conn][j].thread = forwarder'[g].thread
               PROVE  /\ \A k \in DOMAIN queue[g] :
                            sent'[forwarder'[g].conn][j].event < queue[g][k]
                      /\ forwarder'[g].at = "sending" =>
                            sent'[forwarder'[g].conn][j].event < forwarder'[g].event
    BY DEF WaitingIsNew
  <2>1. forwarder'[g].conn \in Connection
    BY DEF Forwarding
  <2>2. /\ j \in DOMAIN sent[forwarder'[g].conn]
        /\ sent'[forwarder'[g].conn][j] = sent[forwarder'[g].conn][j]
    BY <2>1
  <2> QED
    BY <2>2 DEF OrderInv, WaitingIsNew
<1> QED
  BY <1>1, <1>2, <1>3, <1>4 DEF OrderInv


\* Where the elements of a tail come from.
LEMMA RestOf ==
    ASSUME NEW S, NEW q \in Seq(S), q # <<>>
    PROVE  /\ 1 \in DOMAIN q /\ Head(q) = q[1]
           /\ \A k \in DOMAIN Tail(q) : k + 1 \in DOMAIN q /\ 1 < k + 1 /\ Tail(q)[k] = q[k + 1]
OBVIOUS

\* Where the elements of a longer sequence come from.
LEMMA MoreOf ==
    ASSUME NEW S, NEW q \in Seq(S), NEW x
    PROVE  \A k \in DOMAIN Append(q, x) :
               \/ k \in DOMAIN q /\ Append(q, x)[k] = q[k]
               \/ k = Len(q) + 1 /\ Append(q, x)[k] = x
OBVIOUS

\* A task takes the first event that waits.
LEMMA TakeOrder ==
    ASSUME TypeInv, OrderInv, NEW f \in Forwarder, TakeEvent(f) PROVE OrderInv'
<1>0. /\ forwarder[f] \in Forwarding /\ queue[f] \in Seq(1 .. MaxPublished) /\ queue[f] # <<>>
      /\ forwarder \in [Forwarder -> Forwarding \cup {Unused}]
      /\ queue \in [Forwarder -> Seq(1 .. MaxPublished)]
      /\ forwarder[f].at \in Active
  BY ForwarderType DEF TakeEvent, TypeInv, SubscriptionsTypeOK, Active
<1>1. /\ UNCHANGED <<published, sent>>
      /\ \A g \in Forwarder \ {f} : forwarder'[g] = forwarder[g] /\ queue'[g] = queue[g]
      /\ queue'[f] = Tail(queue[f])
  BY <1>0 DEF TakeEvent, connection, feed
<1>2. /\ forwarder'[f].event = queue[f][1]
      /\ forwarder'[f].conn = forwarder[f].conn /\ forwarder'[f].thread = forwarder[f].thread
  BY <1>0, RestOf DEF TakeEvent, Forwarding
<1>3. /\ 1 \in DOMAIN queue[f]
      /\ \A k \in DOMAIN queue'[f] : /\ k + 1 \in DOMAIN queue[f] /\ 1 < k + 1
                                     /\ queue'[f][k] = queue[f][k + 1]
  BY <1>0, <1>1, RestOf
<1>4. SentIsPast' /\ EachEventOnceInOrder'
  BY <1>1 DEF OrderInv, SentIsPast, EachEventOnceInOrder
<1>5. WaitingIsOrdered'
  <2> SUFFICES ASSUME NEW g \in Forwarder, forwarder'[g].at \in Active
               PROVE  /\ \A k \in DOMAIN queue'[g] :
                            queue'[g][k] <= Len(published'[forwarder'[g].thread])
                      /\ \A j, k \in DOMAIN queue'[g] : j < k => queue'[g][j] < queue'[g][k]
                      /\ forwarder'[g].at = "sending" =>
                            /\ forwarder'[g].event <= Len(published'[forwarder'[g].thread])
                            /\ \A k \in DOMAIN queue'[g] : forwarder'[g].event < queue'[g][k]
    BY DEF WaitingIsOrdered
  <2>1. CASE g # f
    BY <1>1, <2>1 DEF OrderInv, WaitingIsOrdered
  <2>2. CASE g = f
    <3>1. /\ \A k \in DOMAIN queue[f] : queue[f][k] <= Len(published[forwarder[f].thread])
          /\ \A j, k \in DOMAIN queue[f] : j < k => queue[f][j] < queue[f][k]
      BY <1>0 DEF OrderInv, WaitingIsOrdered
    <3>2. \A j, k \in DOMAIN queue'[f] : j < k => queue'[f][j] < queue'[f][k]
      <4> SUFFICES ASSUME NEW j \in DOMAIN queue'[f], NEW k \in DOMAIN queue'[f], j < k
                   PROVE  queue'[f][j] < queue'[f][k]
        OBVIOUS
      <4>1. j \in Nat /\ k \in Nat
        BY <1>0, <1>1
      <4> QED
        BY <1>3, <3>1, <4>1
    <3> QED
      BY <1>1, <1>2, <1>3, <2>2, <3>1, <3>2
  <2> QED
    BY <2>1, <2>2
<1>6. WaitingIsNew'
  <2> SUFFICES ASSUME NEW g \in Forwarder, forwarder'[g].at \in Active,
                      NEW j \in DOMAIN sent[forwarder'[g].conn],
                      IsEvent(sent[forwarder'[g].conn][j]),
                      sent[forwarder'[g].conn][j].thread = forwarder'[g].thread
               PROVE  /\ \A k \in DOMAIN queue'[g] :
                            sent[forwarder'[g].conn][j].event < queue'[g][k]
                      /\ forwarder'[g].at = "sending" =>
                            sent[forwarder'[g].conn][j].event < forwarder'[g].event
    BY <1>1 DEF WaitingIsNew
  <2>1. CASE g # f
    BY <1>1, <2>1 DEF OrderInv, WaitingIsNew
  <2>2. CASE g = f
    <3>1. \A k \in DOMAIN queue[f] : sent[forwarder[f].conn][j].event < queue[f][k]
      BY <1>0, <1>2, <2>2 DEF OrderInv, WaitingIsNew
    <3> QED
      BY <1>2, <1>3, <2>2, <3>1
  <2> QED
    BY <2>1, <2>2
<1> QED
  BY <1>4, <1>5, <1>6 DEF OrderInv

\* A publication comes after all that was published.
LEMMA PublishOrder ==
    ASSUME TypeInv, LinkInv, OrderInv, NEW th \in Thread, NEW kind \in Kind, Publish(th, kind)
    PROVE  OrderInv'
<1> DEFINE new == Len(published[th]) + 1
<1>0. /\ published[th] \in Seq(Kind) /\ new \in Nat
      /\ published \in [Thread -> Seq(Kind)]
      /\ queue \in [Forwarder -> Seq(1 .. MaxPublished)]
  BY DEF TypeInv, SubscriptionsTypeOK
<1>1. UNCHANGED <<forwarder, sent>>
  BY DEF Publish, connection
<1>2. /\ Len(published'[th]) = new
      /\ \A o \in Thread : /\ Len(published[o]) \in Nat /\ Len(published'[o]) \in Nat
                           /\ Len(published[o]) <= Len(published'[o])
  BY <1>0 DEF Publish
<1>3. \A g \in Forwarder : \A k \in DOMAIN queue'[g] :
          \/ k \in DOMAIN queue[g] /\ queue'[g][k] = queue[g][k]
          \/ /\ forwarder[g].thread = th /\ k = Len(queue[g]) + 1
             /\ queue'[g][k] = new
  <2> TAKE g \in Forwarder
  <2>1. \/ queue'[g] = queue[g]
        \/ forwarder[g].thread = th /\ queue'[g] = Append(queue[g], new)
    BY <1>0 DEF Publish, NextPosition
  <2>2. queue[g] \in Seq(1 .. MaxPublished)
    BY <1>0
  <2> HIDE DEF new
  <2> QED
    BY <2>1, <2>2, MoreOf
<1>4. \A g \in Forwarder : \A k \in DOMAIN queue[g] :
          k \in Nat /\ k <= Len(queue[g]) /\ queue[g][k] \in Nat
  <2> TAKE g \in Forwarder
  <2>1. queue[g] \in Seq(1 .. MaxPublished)
    BY <1>0
  <2> QED
    BY <2>1, SubscriptionsAssumption
<1>5. \A g \in Forwarder : Len(queue[g]) \in Nat
  BY <1>0
<1>6. \A g \in Forwarder : forwarder[g].at \in Active =>
          forwarder[g] \in Forwarding /\ forwarder[g].thread \in Thread
                                      /\ forwarder[g].conn \in Connection
                                      /\ forwarder[g].event \in Nat
  <2> SUFFICES ASSUME NEW g \in Forwarder, forwarder[g].at \in Active
               PROVE  forwarder[g] \in Forwarding
    BY SubscriptionsAssumption DEF Forwarding
  <2> QED
    BY ForwarderType DEF Active
<1> HIDE DEF new
<1>7. SentIsPast'
  <2> SUFFICES ASSUME NEW c \in Connection, NEW j \in DOMAIN sent[c], IsEvent(sent[c][j])
               PROVE  sent[c][j].event <= Len(published'[sent[c][j].thread])
    BY <1>1 DEF SentIsPast
  <2> QED
    BY <1>2, SentType DEF OrderInv, SentIsPast
<1>8. EachEventOnceInOrder'
  BY <1>1 DEF OrderInv, EachEventOnceInOrder
<1>9. WaitingIsOrdered'
  <2> SUFFICES ASSUME NEW g \in Forwarder, forwarder[g].at \in Active
               PROVE  /\ \A k \in DOMAIN queue'[g] :
                            queue'[g][k] <= Len(published'[forwarder[g].thread])
                      /\ \A j, k \in DOMAIN queue'[g] : j < k => queue'[g][j] < queue'[g][k]
                      /\ forwarder[g].at = "sending" =>
                            /\ forwarder[g].event <= Len(published'[forwarder[g].thread])
                            /\ \A k \in DOMAIN queue'[g] : forwarder[g].event < queue'[g][k]
    BY <1>1 DEF WaitingIsOrdered
  <2>1. /\ \A k \in DOMAIN queue[g] : queue[g][k] <= Len(published[forwarder[g].thread])
        /\ \A j, k \in DOMAIN queue[g] : j < k => queue[g][j] < queue[g][k]
        /\ forwarder[g].at = "sending" =>
              /\ forwarder[g].event <= Len(published[forwarder[g].thread])
              /\ \A k \in DOMAIN queue[g] : forwarder[g].event < queue[g][k]
    BY DEF OrderInv, WaitingIsOrdered
  <2>2. forwarder[g].thread \in Thread /\ forwarder[g].event \in Nat
    BY <1>6
  <2>3. forwarder[g].thread = th => Len(published[forwarder[g].thread]) < new
    <3>1. Len(published[th]) < new
      BY <1>2 DEF new
    <3> QED
      BY <3>1
  <2>4. \A k \in DOMAIN queue'[g] : queue'[g][k] <= Len(published'[forwarder[g].thread])
    BY <1>2, <1>3, <1>4, <2>1, <2>2
  <2>5. ASSUME NEW j \in DOMAIN queue'[g], NEW k \in DOMAIN queue'[g], j < k
        PROVE  queue'[g][j] < queue'[g][k]
    <3>1. j \in DOMAIN queue[g] /\ queue'[g][j] = queue[g][j]
      BY <1>3, <1>4, <1>5, <2>5
    <3>2. CASE k \in DOMAIN queue[g] /\ queue'[g][k] = queue[g][k]
      BY <2>1, <2>5, <3>1, <3>2
    <3>3. CASE forwarder[g].thread = th /\ queue'[g][k] = new
      <4>1. queue[g][j] \in Nat /\ queue[g][j] <= Len(published[forwarder[g].thread])
        BY <1>4, <2>1, <3>1
      <4> QED
        BY <1>0, <1>2, <2>2, <2>3, <3>1, <3>3, <4>1
    <3> QED
      BY <1>3, <3>2, <3>3
  <2>6. forwarder[g].at = "sending" =>
            /\ forwarder[g].event <= Len(published'[forwarder[g].thread])
            /\ \A k \in DOMAIN queue'[g] : forwarder[g].event < queue'[g][k]
    BY <1>0, <1>2, <1>3, <1>4, <2>1, <2>2, <2>3
  <2> QED
    BY <2>4, <2>5, <2>6
<1>10. WaitingIsNew'
  <2> SUFFICES ASSUME NEW g \in Forwarder, forwarder[g].at \in Active,
                      NEW j \in DOMAIN sent[forwarder[g].conn],
                      IsEvent(sent[forwarder[g].conn][j]),
                      sent[forwarder[g].conn][j].thread = forwarder[g].thread
               PROVE  /\ \A k \in DOMAIN queue'[g] :
                            sent[forwarder[g].conn][j].event < queue'[g][k]
                      /\ forwarder[g].at = "sending" =>
                            sent[forwarder[g].conn][j].event < forwarder[g].event
    BY <1>1 DEF WaitingIsNew
  <2> DEFINE frame == sent[forwarder[g].conn][j]
  <2>1. forwarder[g].conn \in Connection /\ forwarder[g].thread \in Thread
    BY <1>6
  <2>2. frame.event \in Nat /\ frame.event <= Len(published[forwarder[g].thread])
    BY <2>1, SentType DEF OrderInv, SentIsPast
  <2>3. /\ \A k \in DOMAIN queue[g] : frame.event < queue[g][k]
        /\ forwarder[g].at = "sending" => frame.event < forwarder[g].event
    BY DEF OrderInv, WaitingIsNew
  <2>4. forwarder[g].thread = th => frame.event < new
    BY <1>2, <2>1, <2>2 DEF new
  <2> HIDE DEF frame
  <2>5. \A k \in DOMAIN queue'[g] : frame.event < queue'[g][k]
    BY <1>3, <2>3, <2>4
  <2> QED
    BY <2>3, <2>5 DEF frame
<1> QED
  BY <1>7, <1>8, <1>9, <1>10 DEF OrderInv


\* One task at work per connection and thread.
LEMMA OneAtWork ==
    ASSUME TypeInv, LinkInv, NEW f \in Forwarder, NEW g \in Forwarder,
           forwarder[f].at \in Active, forwarder[g].at \in Active,
           forwarder[f].conn = forwarder[g].conn, forwarder[f].thread = forwarder[g].thread
    PROVE  f = g
<1> DEFINE c == forwarder[f].conn
           th == forwarder[f].thread
<1>1. c \in Connection
  <2>1. forwarder[f] \in Forwarding
    BY ForwarderType DEF Active
  <2> QED
    BY <2>1 DEF Forwarding
<1>2. /\ subscriptions[c][th] = f \/ StoppingOf(c, f)
      /\ subscriptions[c][th] = g \/ StoppingOf(c, g)
  BY DEF LinkInv, ActiveIsKnown
<1>3. \A t \in Forwarder : StoppingOf(c, t) /\ forwarder[t].thread = th
                              => subscriptions[c][th] = NoForwarder
  BY <1>1 DEF StoppingOf, LinkInv, StoppedIsRemoved
<1> QED
  BY <1>2, <1>3, SubscriptionsAssumption DEF StoppingOf

\* An event is sent behind all that the client has got of its thread.
LEMMA SendOrder ==
    ASSUME TypeInv, LinkInv, OrderInv, NEW f \in Forwarder, EventSent(f) PROVE OrderInv'
<1> DEFINE c == forwarder[f].conn
           th == forwarder[f].thread
           e == forwarder[f].event
           new == [by |-> f, thread |-> th, event |-> e]
<1>0. /\ forwarder[f] \in Forwarding /\ forwarder[f].at = "sending" /\ forwarder[f].at \in Active
      /\ forwarder \in [Forwarder -> Forwarding \cup {Unused}]
      /\ sent \in [Connection -> Seq(Frame)]
  BY ForwarderType DEF EventSent, TypeInv, SubscriptionsTypeOK, Active
<1>1. c \in Connection /\ th \in Thread /\ e \in Nat
  BY <1>0, SubscriptionsAssumption DEF Forwarding
<1>2. /\ UNCHANGED <<published, queue>>
      /\ \A g \in Forwarder \ {f} : forwarder'[g] = forwarder[g]
      /\ \A o \in Connection \ {c} : sent'[o] = sent[o]
      /\ sent'[c] = Append(sent[c], new)
  BY <1>0, <1>1 DEF EventSent, broker, feed
<1>3. /\ forwarder'[f].at # "sending" /\ forwarder'[f].conn = c /\ forwarder'[f].thread = th
  BY <1>0 DEF EventSent, Forwarding
<1>4. new.event = e /\ new.thread = th /\ IsEvent(new)
  BY FrameType
<1>5. sent[c] \in Seq(Frame) /\ Len(sent[c]) \in Nat /\ DOMAIN sent[c] = 1 .. Len(sent[c])
  BY <1>0, <1>1
<1>6. /\ e <= Len(published[th])
      /\ \A k \in DOMAIN queue[f] : e < queue[f][k]
  BY <1>0 DEF OrderInv, WaitingIsOrdered
<1>7. \A j \in DOMAIN sent[c] : IsEvent(sent[c][j]) /\ sent[c][j].thread = th =>
          sent[c][j].event < e /\ \A k \in DOMAIN queue[f] : sent[c][j].event < queue[f][k]
  BY <1>0 DEF OrderInv, WaitingIsNew
<1> HIDE DEF new
<1>8. \A k \in DOMAIN sent'[c] : \/ k \in DOMAIN sent[c] /\ sent'[c][k] = sent[c][k]
                                 \/ k = Len(sent[c]) + 1 /\ sent'[c][k] = new
  BY <1>2, <1>5, MoreOf
<1> HIDE DEF c, th, e
<1>9. SentIsPast'
  <2> SUFFICES ASSUME NEW o \in Connection, NEW j \in DOMAIN sent'[o], IsEvent(sent'[o][j])
               PROVE  sent'[o][j].event <= Len(published[sent'[o][j].thread])
    BY <1>2 DEF SentIsPast
  <2>1. CASE o = c
    BY <1>4, <1>6, <1>8, <2>1 DEF OrderInv, SentIsPast
  <2>2. CASE o # c
    BY <1>2, <2>2 DEF OrderInv, SentIsPast
  <2> QED
    BY <2>1, <2>2
<1>10. EachEventOnceInOrder'
  <2> SUFFICES ASSUME NEW o \in Connection, NEW j \in DOMAIN sent'[o], NEW k \in DOMAIN sent'[o],
                      j < k, IsEvent(sent'[o][j]), IsEvent(sent'[o][k]),
                      sent'[o][j].thread = sent'[o][k].thread
               PROVE  sent'[o][j].event < sent'[o][k].event
    BY DEF EachEventOnceInOrder
  <2>1. CASE o # c
    BY <1>2, <2>1 DEF OrderInv, EachEventOnceInOrder
  <2>2. CASE o = c
    <3>1. j \in DOMAIN sent[c] /\ sent'[c][j] = sent[c][j]
      BY <1>5, <1>8, <2>2
    <3>2. CASE k \in DOMAIN sent[c] /\ sent'[c][k] = sent[c][k]
      BY <1>1, <2>2, <3>1, <3>2 DEF OrderInv, EachEventOnceInOrder
    <3>3. CASE sent'[c][k] = new
      BY <1>4, <1>7, <2>2, <3>1, <3>3
    <3> QED
      BY <1>8, <2>2, <3>2, <3>3
  <2> QED
    BY <2>1, <2>2
<1>11. WaitingIsOrdered'
  <2> SUFFICES ASSUME NEW g \in Forwarder, forwarder'[g].at \in Active
               PROVE  /\ \A k \in DOMAIN queue[g] :
                            queue[g][k] <= Len(published[forwarder'[g].thread])
                      /\ \A j, k \in DOMAIN queue[g] : j < k => queue[g][j] < queue[g][k]
                      /\ forwarder'[g].at = "sending" =>
                            /\ forwarder'[g].event <= Len(published[forwarder'[g].thread])
                            /\ \A k \in DOMAIN queue[g] : forwarder'[g].event < queue[g][k]
    BY <1>2 DEF WaitingIsOrdered
  <2>1. CASE g = f
    BY <1>0, <1>3, <2>1 DEF OrderInv, WaitingIsOrdered, th
  <2>2. CASE g # f
    BY <1>2, <2>2 DEF OrderInv, WaitingIsOrdered
  <2> QED
    BY <2>1, <2>2
<1>12. WaitingIsNew'
  <2> SUFFICES ASSUME NEW g \in Forwarder, forwarder'[g].at \in Active,
                      NEW j \in DOMAIN sent'[forwarder'[g].conn],
                      IsEvent(sent'[forwarder'[g].conn][j]),
                      sent'[forwarder'[g].conn][j].thread = forwarder'[g].thread
               PROVE  /\ \A k \in DOMAIN queue[g] :
                            sent'[forwarder'[g].conn][j].event < queue[g][k]
                      /\ forwarder'[g].at = "sending" =>
                            sent'[forwarder'[g].conn][j].event < forwarder'[g].event
    BY <1>2 DEF WaitingIsNew
  <2>1. CASE g = f
    BY <1>3, <1>4, <1>6, <1>7, <1>8, <2>1
  <2>2. CASE g # f
    <3>1. forwarder'[g] = forwarder[g] /\ forwarder[g].at \in Active
      BY <1>2, <2>2
    <3>2. forwarder[g] \in Forwarding
      BY <3>1, ForwarderType DEF Active
    <3>3. forwarder[g].conn \in Connection
      BY <3>2 DEF Forwarding
    <3>4. \/ forwarder[g].conn # c
          \/ forwarder[g].thread # th
      BY <1>0, <2>2, <3>1, OneAtWork DEF c, th
    <3>5. j \in DOMAIN sent[forwarder[g].conn]
          /\ sent'[forwarder[g].conn][j] = sent[forwarder[g].conn][j]
      BY <1>2, <1>4, <1>8, <3>1, <3>3, <3>4
    <3> QED
      BY <3>1, <3>5 DEF OrderInv, WaitingIsNew
  <2> QED
    BY <2>1, <2>2
<1> QED
  BY <1>9, <1>10, <1>11, <1>12 DEF OrderInv


\* The other steps of a task.
LEMMA TaskOrder ==
    ASSUME TypeInv, LinkInv, OrderInv, NEW f \in Forwarder, ForwarderStep(f) PROVE OrderInv'
<1>1. CASE TakeEvent(f)
  BY <1>1, TakeOrder
<1>2. CASE EventSent(f)
  BY <1>2, SendOrder
<1>3. CASE \/ ForwarderSubscribes(f) \/ SendFails(f) \/ CancelledInGet(f)
           \/ CancelledInSend(f) \/ FinalizeGenerator(f)
  <2>1. UNCHANGED <<published, queue, sent>>
    BY <1>3 DEF ForwarderSubscribes, SendFails, CancelledInGet, CancelledInSend,
       FinalizeGenerator, feed, broker, connection
  <2>2. TaskMoves(f)
    BY TaskStep
  <2>3. forwarder'[f].at = "sending" => forwarder'[f] = forwarder[f]
    <3>1. forwarder \in [Forwarder -> Forwarding \cup {Unused}]
      BY DEF TypeInv, SubscriptionsTypeOK
    <3>2. forwarder[f] \in Forwarding
      BY <2>2 DEF TaskMoves
    <3> QED
      BY <1>3, <3>1, <3>2 DEF ForwarderSubscribes, SendFails, CancelledInGet, CancelledInSend,
         FinalizeGenerator, Forwarding
  <2>4. ASSUME NEW g \in Forwarder, forwarder'[g].at \in Active
        PROVE  /\ forwarder'[g] \in Forwarding /\ forwarder[g].at \in Active
               /\ forwarder'[g].conn = forwarder[g].conn
               /\ forwarder'[g].thread = forwarder[g].thread
               /\ forwarder'[g].at = "sending" => forwarder'[g] = forwarder[g]
    <3>1. CASE g = f
      BY <2>2, <2>3, <2>4, <3>1 DEF TaskMoves
    <3>2. CASE g # f
      <4>1. forwarder'[g] = forwarder[g] /\ forwarder[g].at \in Active
        BY <2>2, <2>4, <3>2 DEF TaskMoves
      <4> QED
        BY <4>1, ForwarderType DEF Active
    <3> QED
      BY <3>1, <3>2
  <2> QED
    BY <2>1, <2>4, OrderKept
<1> QED
  BY <1>1, <1>2, <1>3 DEF ForwarderStep

\* Cancelling and replying send no event.
LEMMA CancelOrder ==
    ASSUME TypeInv, OrderInv, NEW fs, \A f \in fs : forwarder[f] # Unused,
           forwarder' = CancelAll(fs), UNCHANGED <<published, queue, sent>>
    PROVE  OrderInv'
<1>1. /\ forwarder' \in [Forwarder -> Forwarding \cup {Unused}]
      /\ \A g \in Forwarder :
            /\ forwarder'[g].at = forwarder[g].at
            /\ forwarder[g] # Unused => /\ forwarder'[g].conn = forwarder[g].conn
                                        /\ forwarder'[g].thread = forwarder[g].thread
                                        /\ forwarder'[g].event = forwarder[g].event
  BY CancelType
<1>2. ASSUME NEW g \in Forwarder, forwarder'[g].at \in Active
      PROVE  /\ forwarder'[g] \in Forwarding /\ forwarder[g].at \in Active
             /\ forwarder'[g].conn = forwarder[g].conn
             /\ forwarder'[g].thread = forwarder[g].thread
             /\ forwarder'[g].event = forwarder[g].event
             /\ forwarder'[g].at = "sending" => forwarder[g].at = "sending"
  <2>1. Unused.at \notin Active
    BY DEF Unused, Active
  <2>2. forwarder'[g] # Unused /\ forwarder[g] # Unused
    BY <1>1, <1>2, <2>1
  <2> QED
    BY <1>1, <1>2, <2>2
<1> QED
  BY <1>2, OrderKept

LEMMA CreateOrder ==
    ASSUME TypeInv, LinkInv, OrderInv, NEW c \in Connection, NEW r \in Request, NEW f \in Forwarder,
           r.op = "subscribe", Creates(c, r, f), UNCHANGED <<feed, broker, online, sent>>
    PROVE  OrderInv'
<1>1. forwarder[f].at = "unused" /\ queue[f] = <<>>
  BY ForwarderType DEF Creates, LinkInv, NewIsSilent
<1>2. TypeInv'
  BY CreateType
<1>3. /\ forwarder'[f].at = "created"
      /\ \A g \in Forwarder \ {f} : forwarder'[g] = forwarder[g]
  BY DEF Creates, TypeInv, SubscriptionsTypeOK
<1>4. ASSUME NEW g \in Forwarder, forwarder'[g].at \in Active
      PROVE  /\ forwarder'[g] \in Forwarding
             /\ \/ forwarder[g].at \in Active /\ forwarder'[g] = forwarder[g]
                \/ queue[g] = <<>> /\ forwarder'[g].at # "sending"
  <2>1. forwarder'[g] \in Forwarding
    <3>1. forwarder'[g] \in Forwarding \cup {Unused}
      BY <1>2 DEF TypeInv, SubscriptionsTypeOK
    <3>2. Unused.at \notin Active
      BY DEF Unused, Active
    <3> QED
      BY <1>4, <3>1, <3>2
  <2> QED
    BY <1>1, <1>3, <1>4, <2>1
<1> QED
  BY <1>4, OrderKept DEF feed, broker

\* Steps that leave the tasks alone and send no event.
LEMMA IdleOrder ==
    ASSUME TypeInv, OrderInv, UNCHANGED <<published, queue, forwarder>>,
           \A c \in Connection : \A j \in DOMAIN sent'[c] :
               IsEvent(sent'[c][j]) => j \in DOMAIN sent[c] /\ sent'[c][j] = sent[c][j]
    PROVE  OrderInv'
<1>1. \A g \in Forwarder : forwarder[g].at \in Active => forwarder[g] \in Forwarding
  BY ForwarderType DEF Active
<1> QED
  BY <1>1, OrderKept

\* Every step keeps the order.
LEMMA OrderStep ==
    ASSUME TypeInv, LinkInv, OrderInv, [Next]_vars PROVE OrderInv'
<1>1. CASE UNCHANGED <<published, queue, forwarder, sent>>
  BY <1>1, IdleOrder
<1>2. ASSUME NEW c \in Connection, NEW r \in Request, Proceed(c, r),
             UNCHANGED <<feed, broker, online, sent>>
      PROVE  OrderInv'
  <2>1. ASSUME NEW f \in Forwarder, r.op = "subscribe", Creates(c, r, f) PROVE OrderInv'
    BY <1>2, <2>1, CreateOrder
  <2>2. CASE UNCHANGED forwarder
    BY <1>1, <1>2, <2>2 DEF feed, broker
  <2> QED
    BY <1>2, <2>1, <2>2 DEF Proceed, CreateForwarder, Creates
<1>3. ASSUME NEW c \in Connection, NEW r \in Request, Receive(c, r) PROVE OrderInv'
  <2>1. CASE StopSubscription(c, r)
    <3> DEFINE fs == {subscriptions[c][r.thread]}
    <3>1. r.thread \in Thread
      BY DEF Request
    <3>2. \A f \in fs : forwarder[f] # Unused
      BY <2>1, <3>1 DEF StopSubscription, LinkInv, SubscribedIsMine
    <3>3. forwarder' = CancelAll(fs) /\ UNCHANGED <<published, queue, sent>>
      BY <1>3, <2>1 DEF StopSubscription, Receive, feed, broker
    <3> HIDE DEF fs
    <3> QED
      BY <3>2, <3>3, CancelOrder
  <2>2. CASE LookupFails(c, r)
    BY <1>1, <1>3, <2>2 DEF Receive, LookupFails, feed, broker
  <2> QED
    BY <1>2, <1>3, <2>1, <2>2 DEF Receive
<1>4. ASSUME NEW c \in Connection, Stopped(c) PROVE OrderInv'
  BY <1>2, <1>4 DEF Stopped, TypeInv
<1>5. ASSUME NEW c \in Connection, Close(c), UNCHANGED <<feed, broker, sent>> PROVE OrderInv'
  <2> DEFINE fs == {subscriptions[c][th] : th \in Thread} \ {NoForwarder}
  <2>1. \A f \in fs : forwarder[f] # Unused
    BY DEF LinkInv, SubscribedIsMine
  <2>2. forwarder' = CancelAll(fs) /\ UNCHANGED <<published, queue, sent>>
    BY <1>5 DEF Close, feed, broker
  <2> HIDE DEF fs
  <2> QED
    BY <2>1, <2>2, CancelOrder
<1>6. ASSUME NEW c \in Connection, Reply(c), online[c] PROVE OrderInv'
  <2>1. sent[c] \in Seq(Frame) /\ sent \in [Connection -> Seq(Frame)]
    BY DEF TypeInv, SubscriptionsTypeOK
  <2>2. /\ UNCHANGED <<published, queue, forwarder>>
        /\ \A o \in Connection \ {c} : sent'[o] = sent[o]
        /\ sent'[c] = Append(sent[c], Answer(c))
    BY <1>6, <2>1 DEF Reply, feed, broker
  <2>3. \A j \in DOMAIN sent'[c] :
            IsEvent(sent'[c][j]) => j \in DOMAIN sent[c] /\ sent'[c][j] = sent[c][j]
    <3>1. ~IsEvent(Answer(c))
      BY FrameType
    <3> QED
      BY <2>1, <2>2, <3>1, MoreOf
  <2> QED
    BY <2>2, <2>3, IdleOrder
<1>7. ASSUME NEW c \in Connection, HandlerStep(c) \/ Disconnect(c) PROVE OrderInv'
  BY <1>1, <1>4, <1>5, <1>6, <1>7
  DEF HandlerStep, Ready, Reply, ReceiveDisconnect, Closed, Disconnect, feed, broker
<1>8. ASSUME NEW th \in Thread, TurnStarts(th) \/ \E kind \in Kind : TurnContinues(th, kind)
      PROVE  OrderInv'
  BY <1>8, PublishOrder DEF TurnStarts, TurnContinues, Kind
<1>9. CASE UNCHANGED vars
  BY <1>1, <1>9 DEF vars, broker, connection
<1> QED
  BY <1>3, <1>7, <1>8, <1>9, TaskOrder DEF Next

LEMMA InitOrder == Init => OrderInv
BY InitLinks, SubscriptionsAssumption DEF Init, OrderInv, SentIsPast, WaitingIsOrdered, WaitingIsNew,
   EachEventOnceInOrder, Active, Unused

\* methods.py, broker.py: whatever a client subscribes and unsubscribes, it gets
\* an event of a thread at most once and in the order of the feed.
THEOREM OrderCorrect == Spec => []EachEventOnceInOrder
<1>1. /\ TypeInv /\ LinkInv /\ [Next]_vars => TypeInv' /\ LinkInv'
      /\ TypeInv /\ LinkInv /\ OrderInv /\ [Next]_vars => OrderInv'
  BY TypeStep, LinkStep, OrderStep DEF LinkInv
<1>2. OrderInv => EachEventOnceInOrder
  BY DEF OrderInv
<1> QED
  BY <1>1, <1>2, InitLinks, InitOrder, PTL DEF Spec


-----------------------------------------------------------------------------
(* What an answer says.                                                    *)

\* A subscription's task is registered and at work, or its request is still open
\* and the task has not registered.
Works(c, f) ==
    /\ ~forwarder[f].cancelled
    /\ \/ f \in subscribers /\ forwarder[f].at \in {"waiting", "sending"}
       \/ handler[c].at = "ready" /\ handler[c].awaits = {f} /\ since[f] = NeverRegistered

AtWork ==
    \A c \in Connection, th \in Thread :
        /\ subscriptions[c][th] # NoForwarder
        /\ online[c]
        /\ handler[c].at \notin {"closing", "closed"}
        => Works(c, subscriptions[c][th])

\* A step of a task.
LEMMA TaskWork ==
    ASSUME TypeInv, LinkInv, AtWork, NEW f \in Forwarder, ForwarderStep(f) PROVE AtWork'
<1>0. TaskMoves(f)
  BY TaskStep
<1> SUFFICES ASSUME NEW c \in Connection, NEW th \in Thread, subscriptions[c][th] # NoForwarder,
                    online[c], handler[c].at \notin {"closing", "closed"}
             PROVE  Works(c, subscriptions[c][th])'
  BY <1>0 DEF AtWork, TaskMoves
<1> DEFINE g == subscriptions[c][th]
<1>1. g \in Forwarder /\ Works(c, g) /\ forwarder[g].conn = c
  BY DEF AtWork, LinkInv, SubscribedIsMine, TypeInv, SubscriptionsTypeOK
<1>2. CASE g # f
  BY <1>0, <1>1, <1>2 DEF TaskMoves, Works
<1>3. CASE g = f
  <2>1. /\ forwarder[f] \in Forwarding /\ ~forwarder'[f].cancelled
        /\ UNCHANGED <<handler, subscriptions>>
    BY <1>0, <1>1, <1>3 DEF TaskMoves, Works
  <2>2. forwarder \in [Forwarder -> Forwarding \cup {Unused}] /\ subscribers \subseteq Forwarder
    BY DEF TypeInv, SubscriptionsTypeOK
  <2>3. CASE ForwarderSubscribes(f)
    BY <1>1, <1>3, <2>1, <2>2, <2>3 DEF ForwarderSubscribes, Works, Forwarding
  <2>4. CASE TakeEvent(f) \/ EventSent(f)
    BY <1>1, <1>3, <2>1, <2>2, <2>4 DEF TakeEvent, EventSent, Works, broker, Forwarding
  <2>5. CASE FinalizeGenerator(f)
    BY <1>1, <1>3, <2>1, <2>2, <2>5 DEF FinalizeGenerator, Works
  <2>6. ~SendFails(f) /\ ~CancelledInGet(f) /\ ~CancelledInSend(f)
    BY <1>1, <1>3 DEF SendFails, CancelledInGet, CancelledInSend, Works
  <2> QED
    BY <1>3, <2>1, <2>3, <2>4, <2>5, <2>6 DEF ForwarderStep
<1> QED
  BY <1>2, <1>3

\* A step of one connection leaves the tasks of the others at work.
LEMMA ConnectionWork ==
    ASSUME TypeInv, LinkInv, AtWork, NEW c \in Connection, UNCHANGED broker,
           \A o \in Connection : online'[o] => online[o],
           \A o \in Connection \ {c} : handler'[o] = handler[o] /\ subscriptions'[o] = subscriptions[o],
           \A g \in Forwarder : forwarder[g] # Unused /\ forwarder[g].conn # c
                                   => forwarder'[g] = forwarder[g],
           \A th \in Thread : /\ subscriptions'[c][th] # NoForwarder
                              /\ online'[c] /\ handler'[c].at \notin {"closing", "closed"}
                              => Works(c, subscriptions[c][th])'
    PROVE  AtWork'
<1> SUFFICES ASSUME NEW o \in Connection, NEW th \in Thread, subscriptions'[o][th] # NoForwarder,
                    online'[o], handler'[o].at \notin {"closing", "closed"}
             PROVE  Works(o, subscriptions[o][th])'
  BY DEF AtWork
<1>1. CASE o = c
  BY <1>1
<1>2. CASE o # c
  <2> DEFINE g == subscriptions[o][th]
  <2>1. g \in Forwarder /\ g # NoForwarder /\ Works(o, g)
    BY <1>2 DEF AtWork, TypeInv, SubscriptionsTypeOK
  <2>2. forwarder[g] # Unused /\ forwarder[g].conn = o
    BY <2>1 DEF LinkInv, SubscribedIsMine
  <2>3. forwarder'[g] = forwarder[g] /\ subscriptions'[o] = subscriptions[o]
        /\ handler'[o] = handler[o]
    BY <1>2, <2>1, <2>2
  <2> QED
    BY <2>1, <2>3 DEF Works, broker
<1> QED
  BY <1>1, <1>2

\* A subscription is stopped: its task is no longer one.
LEMMA StopWork ==
    ASSUME TypeInv, LinkInv, AtWork, NEW c \in Connection, NEW r \in Request,
           handler[c].at = "receiving", StopSubscription(c, r), UNCHANGED <<feed, broker, online, sent>>
    PROVE  AtWork'
<1> DEFINE f == subscriptions[c][r.thread]
<1>1. r.thread \in Thread /\ f \in Forwarder /\ f # NoForwarder
  BY DEF StopSubscription, Request, TypeInv, SubscriptionsTypeOK
<1>2. forwarder[f].conn = c /\ forwarder[f].thread = r.thread
  BY <1>1 DEF LinkInv, SubscribedIsMine
<1>3. \A g \in Forwarder \ {f} : forwarder'[g] = forwarder[g]
  BY DEF StopSubscription, CancelAll
<1>4. /\ subscriptions' = [subscriptions EXCEPT ![c][r.thread] = NoForwarder]
      /\ \A o \in Connection \ {c} : handler'[o] = handler[o]
      /\ subscriptions \in [Connection -> [Thread -> Forwarder \cup {NoForwarder}]]
  BY DEF StopSubscription, TypeInv, SubscriptionsTypeOK
<1> HIDE DEF f
<1>5. /\ \A o \in Connection \ {c} : subscriptions'[o] = subscriptions[o]
      /\ subscriptions'[c][r.thread] = NoForwarder
      /\ \A th \in Thread \ {r.thread} : subscriptions'[c][th] = subscriptions[c][th]
  BY <1>1, <1>4
<1>6. ASSUME NEW th \in Thread, subscriptions'[c][th] # NoForwarder, online'[c]
      PROVE  Works(c, subscriptions[c][th])'
  <2> DEFINE g == subscriptions[c][th]
  <2>1. th # r.thread /\ subscriptions'[c][th] = g /\ g # NoForwarder
    BY <1>5, <1>6
  <2>2. g \in Forwarder /\ g # f
    BY <1>2, <1>4, <2>1 DEF LinkInv, SubscribedIsMine
  <2>3. Works(c, g) /\ online[c]
    BY <1>6, <2>1 DEF AtWork
  <2> HIDE DEF g
  <2> QED
    BY <1>3, <2>1, <2>2, <2>3 DEF Works, broker
<1> QED
  BY <1>2, <1>3, <1>4, <1>5, <1>6, ConnectionWork

\* A created task is waited for.
LEMMA CreateWork ==
    ASSUME TypeInv, LinkInv, AtWork, NEW c \in Connection, NEW r \in Request, NEW f \in Forwarder,
           handler[c].at \in {"receiving", "stopping"}, Creates(c, r, f),
           UNCHANGED <<feed, broker, online, sent>>
    PROVE  AtWork'
<1>1. r.thread \in Thread /\ since[f] = NeverRegistered
  BY ForwarderType DEF Request, Creates, LinkInv, NewIsSilent
<1>2. /\ ~forwarder'[f].cancelled
      /\ \A g \in Forwarder \ {f} : forwarder'[g] = forwarder[g]
      /\ \A o \in Connection \ {c} : subscriptions'[o] = subscriptions[o] /\ handler'[o] = handler[o]
      /\ subscriptions'[c][r.thread] = f
      /\ \A th \in Thread \ {r.thread} : subscriptions'[c][th] = subscriptions[c][th]
      /\ handler'[c].at = "ready" /\ handler'[c].awaits = {f}
  BY <1>1 DEF Creates, TypeInv, SubscriptionsTypeOK
<1>3. ASSUME NEW th \in Thread, subscriptions'[c][th] # NoForwarder, online'[c]
      PROVE  Works(c, subscriptions[c][th])'
  <2>1. CASE th = r.thread
    BY <1>1, <1>2, <2>1 DEF Works, broker
  <2>2. CASE th # r.thread
    <3> DEFINE g == subscriptions[c][th]
    <3>1. subscriptions'[c][th] = g /\ g # NoForwarder
      BY <1>2, <1>3, <2>2
    <3>2. g \in Forwarder /\ g # f
      BY <3>1 DEF LinkInv, SubscribedIsMine, Creates, TypeInv, SubscriptionsTypeOK
    <3>3. Works(c, g)
      BY <1>3, <3>1 DEF AtWork
    <3> HIDE DEF g
    <3> QED
      BY <1>2, <3>1, <3>2, <3>3 DEF Works, broker
  <2> QED
    BY <2>1, <2>2
<1> QED
  BY <1>2, <1>3, ConnectionWork DEF Creates

\* A connection goes on once what it waited for has registered.
LEMMA MoveWork ==
    ASSUME TypeInv, LinkInv, AtWork, NEW c \in Connection, NEW h, handler' = [handler EXCEPT ![c] = h],
           handler[c].at \notin {"closing", "closed"},
           handler[c].at = "ready" => \A f \in handler[c].awaits : since[f] # NeverRegistered,
           UNCHANGED <<broker, forwarder, subscriptions, online>>
    PROVE  AtWork'
<1>1. \A o \in Connection \ {c} : handler'[o] = handler[o]
  BY DEF TypeInv, SubscriptionsTypeOK
<1>2. \A th \in Thread : subscriptions[c][th] # NoForwarder /\ online[c]
                            => Works(c, subscriptions[c][th])'
  BY DEF AtWork, Works, broker
<1> QED
  BY <1>1, <1>2, ConnectionWork

\* Every step keeps the tasks at work.
LEMMA WorkStep ==
    ASSUME TypeInv, LinkInv, AtWork, [Next]_vars PROVE AtWork'
<1>1. CASE /\ UNCHANGED <<subscribers, since, forwarder, handler, subscriptions>>
           /\ \A c \in Connection : online'[c] => online[c]
  BY <1>1 DEF AtWork, Works
<1>2. ASSUME NEW c \in Connection, NEW r \in Request, Proceed(c, r),
             handler[c].at \in {"receiving", "stopping"}, UNCHANGED <<feed, broker, online, sent>>
      PROVE  AtWork'
  <2>1. ASSUME NEW f \in Forwarder, Creates(c, r, f) PROVE AtWork'
    BY <1>2, <2>1, CreateWork
  <2>2. CASE /\ handler' = [handler EXCEPT ![c] = [at |-> "replying", request |-> r, awaits |-> {}]]
             /\ UNCHANGED <<forwarder, subscriptions>>
    BY <1>2, <2>2, MoveWork
  <2> QED
    BY <1>2, <2>1, <2>2 DEF Proceed, CreateForwarder, Creates
<1>3. ASSUME NEW c \in Connection, NEW r \in Request, Receive(c, r) PROVE AtWork'
  <2>1. CASE LookupFails(c, r)
    <3> DEFINE h == [at |-> "failing", request |-> r, awaits |-> {}]
    <3>1. handler' = [handler EXCEPT ![c] = h] /\ handler[c].at = "receiving"
          /\ UNCHANGED <<broker, forwarder, subscriptions, online>>
      BY <1>3, <2>1 DEF Receive, LookupFails
    <3> HIDE DEF h
    <3> QED
      BY <3>1, MoveWork
  <2> QED
    BY <1>2, <1>3, <2>1, StopWork DEF Receive
<1>4. ASSUME NEW c \in Connection, Stopped(c) PROVE AtWork'
  BY <1>2, <1>4 DEF Stopped, TypeInv
<1>5. ASSUME NEW c \in Connection, Ready(c) PROVE AtWork'
  <2> DEFINE h == [handler[c] EXCEPT !.at = "replying", !.awaits = {}]
  <2>1. handler' = [handler EXCEPT ![c] = h]
    BY <1>5 DEF Ready, Handling, TypeInv, SubscriptionsTypeOK
  <2> HIDE DEF h
  <2> QED
    BY <1>5, <2>1, MoveWork DEF Ready
<1>6. ASSUME NEW c \in Connection, Reply(c), online[c] PROVE AtWork'
  <2> DEFINE h == [handler[c] EXCEPT !.at = "receiving", !.request = NoRequest]
  <2>1. handler' = [handler EXCEPT ![c] = h]
    BY <1>6 DEF Reply, Handling, TypeInv, SubscriptionsTypeOK
  <2> HIDE DEF h
  <2> QED
    BY <1>6, <2>1, MoveWork DEF Reply
<1>7. ASSUME NEW c \in Connection, Close(c), UNCHANGED <<broker, online, subscriptions>> PROVE AtWork'
  <2>1. /\ \A o \in Connection \ {c} : handler'[o] = handler[o]
        /\ handler'[c].at = "closing"
    BY <1>7 DEF Close, TypeInv, SubscriptionsTypeOK
  <2>2. \A g \in Forwarder : forwarder[g].conn # c => forwarder'[g] = forwarder[g]
    <3> DEFINE fs == {subscriptions[c][th] : th \in Thread} \ {NoForwarder}
    <3>1. \A g \in fs : forwarder[g].conn = c
      BY DEF LinkInv, SubscribedIsMine
    <3>2. forwarder' = CancelAll(fs)
      BY <1>7 DEF Close
    <3> HIDE DEF fs
    <3> QED
      BY <3>1, <3>2 DEF CancelAll
  <2> QED
    BY <1>7, <2>1, <2>2, ConnectionWork
<1>8. ASSUME NEW c \in Connection, Closed(c) PROVE AtWork'
  <2>1. /\ \A o \in Connection \ {c} : handler'[o] = handler[o] /\ subscriptions'[o] = subscriptions[o]
        /\ handler'[c].at = "closed"
    BY <1>8 DEF Closed, Handling, TypeInv, SubscriptionsTypeOK
  <2> QED
    BY <1>8, <2>1, ConnectionWork DEF Closed
<1>9. ASSUME NEW c \in Connection, Disconnect(c) PROVE AtWork'
  BY <1>1, <1>9 DEF Disconnect, broker, TypeInv, SubscriptionsTypeOK
<1>10. ASSUME NEW c \in Connection, HandlerStep(c) PROVE AtWork'
  BY <1>4, <1>5, <1>6, <1>7, <1>8, <1>10 DEF HandlerStep, Reply, ReceiveDisconnect
<1>11. ASSUME NEW th \in Thread, NEW kind, Publish(th, kind) PROVE AtWork'
  BY <1>1, <1>11 DEF Publish, connection
<1>12. CASE UNCHANGED vars
  BY <1>1, <1>12 DEF vars, broker, connection
<1> QED
  BY <1>3, <1>9, <1>10, <1>11, <1>12, TaskWork DEF Next, TurnStarts, TurnContinues

\* methods.py _subscribe, _unsubscribe: a connection that has answered has the
\* subscriptions it has told of, registered and at work, and no others.
THEOREM AnsweredCorrect == Spec => []AnsweredIsDone
<1>1. TypeInv /\ LinkInv /\ AtWork /\ [Next]_vars => TypeInv' /\ LinkInv' /\ AtWork'
  BY TypeStep, LinkStep, WorkStep DEF LinkInv
<1>2. LinkInv /\ AtWork => AnsweredIsDone
  BY DEF LinkInv, AtWork, Works, ActiveIsKnown, StoppingOf, AnsweredIsDone, Active
<1>3. Init => AtWork
  BY DEF Init, AtWork
<1> QED
  BY <1>1, <1>2, <1>3, InitLinks, PTL DEF Spec

\* README.md:113: if one client has been answered that it subscribed with
\* progress, start_turn asks the turn that starts for it.
THEOREM AggregationCorrect == Spec => ProgressIsAggregated
<1> DEFINE Enabled == \A th \in Thread : TurnStarts(th) =>
                        \A c \in Connection :
                            LET f == subscriptions[c][th] IN
                            /\ f # NoForwarder /\ online[c] /\ handler[c].at = "receiving"
                            /\ forwarder[f].mode # "off"
                            => progressEnabled'[th]
<1>1. TypeInv /\ LinkInv /\ AtWork => Enabled
  <2> SUFFICES ASSUME TypeInv, LinkInv, AtWork, NEW th \in Thread, TurnStarts(th),
                      NEW c \in Connection, subscriptions[c][th] # NoForwarder, online[c],
                      handler[c].at = "receiving",
                      forwarder[subscriptions[c][th]].mode # "off"
               PROVE  progressEnabled'[th]
    OBVIOUS
  <2>1. subscriptions[c][th] \in subscribers
    BY DEF AtWork, Works
  <2>2. forwarder[subscriptions[c][th]].thread = th
    BY DEF LinkInv, SubscribedIsMine
  <2>3. ProgressRequested(th)
    BY <2>1, <2>2 DEF ProgressRequested
  <2> QED
    BY <2>3 DEF TurnStarts, TypeInv, SubscriptionsTypeOK
<1>2. TypeInv /\ LinkInv /\ AtWork /\ [Next]_vars => TypeInv' /\ LinkInv' /\ AtWork'
  BY TypeStep, LinkStep, WorkStep DEF LinkInv
<1>3. Init => AtWork
  BY DEF Init, AtWork
<1>4. TypeInv /\ LinkInv /\ AtWork /\ [Next]_vars => [Enabled]_vars
  BY <1>1
<1> QED
  BY <1>2, <1>3, <1>4, InitLinks, PTL DEF Spec, ProgressIsAggregated

-----------------------------------------------------------------------------
(* A subscription misses nothing.                                          *)

Pushing == {"waiting", "sending"}

\* A task that pushes has its queue registered, from a position of the feed on.
PushingIsRegistered ==
    \A f \in Forwarder : forwarder[f].at \in Pushing =>
        f \in subscribers /\ since[f] <= Len(published[forwarder[f].thread])

\* A frame was sent by a task that has begun, to its client, about its thread.
FramesAreOfTasks ==
    \A c \in Connection : \A j \in DOMAIN sent[c] : IsEvent(sent[c][j]) =>
        LET f == sent[c][j].by IN
        /\ f \in Forwarder /\ forwarder[f].at \notin {"unused", "created"}
        /\ forwarder[f].conn = c /\ forwarder[f].thread = sent[c][j].thread

PushedIsOwed ==
    \A f \in Forwarder : forwarder[f].at \in Pushing => Pushed(f) = Owed(f)

PushInv == PushingIsRegistered /\ FramesAreOfTasks /\ PushedIsOwed

\* What f has pushed, position by position.
Sends(f, e) ==
    \E j \in DOMAIN sent[forwarder[f].conn] :
        /\ IsEvent(sent[forwarder[f].conn][j])
        /\ sent[forwarder[f].conn][j].by = f /\ sent[forwarder[f].conn][j].event = e

Waits(f, e) == \E k \in DOMAIN queue[f] : queue[f][k] = e

LEMMA PushedIs ==
    /\ \A f, e : e \in Pushed(f) <=>
          (\/ Sends(f, e)
           \/ Waits(f, e)
           \/ (forwarder[f].at = "sending" /\ e = forwarder[f].event))
    /\ \A f, e : (e \in Pushed(f))' <=>
          (\/ Sends(f, e)'
           \/ Waits(f, e)'
           \/ (forwarder'[f].at = "sending" /\ e = forwarder'[f].event))
<1>1. \A f, e : e \in SentBy(f) <=> Sends(f, e)
  BY DEF SentBy, Sends
<1>2. \A f, e : e \in Queued(f) <=> Waits(f, e)
  BY DEF Queued, Waits
<1>3. \A f, e : (e \in SentBy(f))' <=> Sends(f, e)'
  BY DEF SentBy, Sends
<1>4. \A f, e : (e \in Queued(f))' <=> Waits(f, e)'
  BY DEF Queued, Waits
<1>5. \A f, e : e \in Pushed(f) <=>
          (\/ Sends(f, e)
           \/ Waits(f, e)
           \/ (forwarder[f].at = "sending" /\ e = forwarder[f].event))
  BY <1>1, <1>2 DEF Pushed, InHand
<1>6. \A f, e : (e \in Pushed(f))' <=>
          (\/ Sends(f, e)'
           \/ Waits(f, e)'
           \/ (forwarder'[f].at = "sending" /\ e = forwarder'[f].event))
  BY <1>3, <1>4 DEF Pushed, InHand
<1> QED
  BY <1>5, <1>6

\* A task that goes on with what it does, its queue and its feed as before.
PushGoesOn(g) ==
    /\ forwarder'[g].at = forwarder[g].at /\ forwarder'[g].event = forwarder[g].event
    /\ forwarder'[g].thread = forwarder[g].thread /\ forwarder'[g].mode = forwarder[g].mode
    /\ queue'[g] = queue[g] /\ since'[g] = since[g]
    /\ published'[forwarder[g].thread] = published[forwarder[g].thread]
    /\ \A e : Sends(g, e)' <=> Sends(g, e)

LEMMA PushStays ==
    ASSUME NEW g, PushGoesOn(g), Pushed(g) = Owed(g)
    PROVE  Pushed(g)' = Owed(g)'
<1>1. \A e : Waits(g, e)' <=> Waits(g, e)
  BY DEF Waits, PushGoesOn
<1>2. Owed(g)' = Owed(g)
  BY DEF Owed, PushGoesOn
<1>3. \A e : (e \in Pushed(g))' <=> e \in Pushed(g)
  BY <1>1, PushedIs DEF PushGoesOn
<1>4. Pushed(g)' = Pushed(g)
  BY <1>3
<1> QED
  BY <1>2, <1>4

\* Where the elements of a sequence go when its first is taken.
LEMMA Rest ==
    ASSUME NEW S, NEW q \in Seq(S), q # <<>>
    PROVE  \A k \in DOMAIN q : k = 1 \/ \E j \in DOMAIN Tail(q) : Tail(q)[j] = q[k]
<1> SUFFICES ASSUME NEW k \in DOMAIN q, k # 1
             PROVE  \E j \in DOMAIN Tail(q) : Tail(q)[j] = q[k]
  OBVIOUS
<1>1. k - 1 \in DOMAIN Tail(q) /\ Tail(q)[k - 1] = q[k]
  OBVIOUS
<1> QED
  BY <1>1

\* What a longer sequence holds.
HoldsMore(longer, q, x) ==
    /\ \A k \in DOMAIN longer : \/ k \in DOMAIN q /\ longer[k] = q[k]
                                \/ longer[k] = x
    /\ \A k \in DOMAIN q : k \in DOMAIN longer /\ longer[k] = q[k]
    /\ \E k \in DOMAIN longer : longer[k] = x

LEMMA LongerThan ==
    ASSUME NEW S, NEW q \in Seq(S), NEW x
    PROVE  HoldsMore(Append(q, x), q, x)
<1>1. Len(q) + 1 \in DOMAIN Append(q, x) /\ Append(q, x)[Len(q) + 1] = x
  OBVIOUS
<1>2. \A k \in DOMAIN q : k \in DOMAIN Append(q, x) /\ Append(q, x)[k] = q[k]
  OBVIOUS
<1> QED
  BY <1>1, <1>2, MoreOf DEF HoldsMore

\* A step that sends no event, leaves feeds and queues, and lets the tasks that
\* push after it go on with what they do.
LEMMA PushKept ==
    ASSUME TypeInv, PushInv, UNCHANGED <<published, queue, since>>,
           \A c \in Connection : \A j \in DOMAIN sent[c] :
               j \in DOMAIN sent'[c] /\ sent'[c][j] = sent[c][j],
           \A c \in Connection : \A j \in DOMAIN sent'[c] :
               IsEvent(sent'[c][j]) => j \in DOMAIN sent[c] /\ sent'[c][j] = sent[c][j],
           \A g \in Forwarder : forwarder[g].at \notin {"unused", "created"} =>
               /\ forwarder'[g].at \notin {"unused", "created"}
               /\ forwarder'[g].conn = forwarder[g].conn
               /\ forwarder'[g].thread = forwarder[g].thread,
           \A g \in Forwarder : forwarder'[g].at \in Pushing =>
               /\ forwarder'[g].at = forwarder[g].at
               /\ forwarder'[g].event = forwarder[g].event
               /\ forwarder'[g].mode = forwarder[g].mode
               /\ g \in subscribers => g \in subscribers'
    PROVE  PushInv'
<1>1. \A g \in Forwarder : forwarder'[g].at \in Pushing =>
          /\ forwarder[g].at \in Pushing /\ forwarder[g].conn \in Connection
          /\ forwarder'[g].conn = forwarder[g].conn
          /\ forwarder'[g].thread = forwarder[g].thread
  <2> SUFFICES ASSUME NEW g \in Forwarder, forwarder'[g].at \in Pushing
               PROVE  /\ forwarder[g].at \in Pushing /\ forwarder[g].conn \in Connection
                      /\ forwarder'[g].conn = forwarder[g].conn
                      /\ forwarder'[g].thread = forwarder[g].thread
    OBVIOUS
  <2>1. forwarder[g].at \in Pushing /\ forwarder[g].at \notin {"unused", "created"}
    BY DEF Pushing
  <2>2. forwarder[g] \in Forwarding
    BY <2>1, ForwarderType
  <2> QED
    BY <2>1, <2>2 DEF Forwarding
<1>2. PushingIsRegistered'
  BY <1>1 DEF PushInv, PushingIsRegistered
<1>3. FramesAreOfTasks'
  BY DEF PushInv, FramesAreOfTasks
<1>4. PushedIsOwed'
  <2> SUFFICES ASSUME NEW g \in Forwarder, forwarder'[g].at \in Pushing
               PROVE  Pushed(g)' = Owed(g)'
    BY DEF PushedIsOwed
  <2>1. \A e : Sends(g, e)' <=> Sends(g, e)
    BY <1>1 DEF Sends
  <2>2. PushGoesOn(g)
    BY <1>1, <2>1 DEF PushGoesOn
  <2>3. Pushed(g) = Owed(g)
    BY <1>1 DEF PushInv, PushedIsOwed
  <2> QED
    BY <2>2, <2>3, PushStays
<1> QED
  BY <1>2, <1>3, <1>4 DEF PushInv


\* A task that registers owes nothing yet.
LEMMA BeginPush ==
    ASSUME TypeInv, LinkInv, PushInv, NEW f \in Forwarder, ForwarderSubscribes(f),
           forwarder'[f].at = "waiting"
    PROVE  PushInv'
<1>1. TaskMoves(f) /\ forwarder[f].at = "created"
  BY TaskStep DEF ForwarderStep, ForwarderSubscribes
<1>2. /\ forwarder[f] \in Forwarding /\ forwarder[f].thread \in Thread
      /\ forwarder \in [Forwarder -> Forwarding \cup {Unused}]
      /\ since \in [Forwarder -> 0 .. NeverRegistered]
      /\ Len(published[forwarder[f].thread]) \in Nat
  BY <1>1 DEF TaskMoves, Forwarding, TypeInv, SubscriptionsTypeOK
<1>3. UNCHANGED <<published, queue, sent>>
  BY DEF ForwarderSubscribes, feed, connection
<1>4. /\ f \in subscribers' /\ since'[f] = Len(published[forwarder[f].thread])
      /\ queue[f] = <<>>
      /\ forwarder'[f].conn = forwarder[f].conn /\ forwarder'[f].thread = forwarder[f].thread
  <2>1. forwarder'[f].at # "ended"
    OBVIOUS
  <2>2. f \in subscribers' /\ since'[f] = Len(published[forwarder[f].thread])
    BY <1>2, <2>1 DEF ForwarderSubscribes, Forwarding
  <2> QED
    BY <1>1, <2>2 DEF TaskMoves, LinkInv, NewIsSilent
<1>5. \A g \in Forwarder \ {f} : /\ forwarder'[g] = forwarder[g] /\ since'[g] = since[g]
                                 /\ g \in subscribers' <=> g \in subscribers
  BY <1>1 DEF TaskMoves
<1>6. PushingIsRegistered'
  <2> SUFFICES ASSUME NEW g \in Forwarder, forwarder'[g].at \in Pushing
               PROVE  g \in subscribers' /\ since'[g] <= Len(published[forwarder'[g].thread])
    BY <1>3 DEF PushingIsRegistered
  <2>1. CASE g = f
    BY <1>2, <1>4, <2>1
  <2>2. CASE g # f
    BY <1>5, <2>2 DEF PushInv, PushingIsRegistered
  <2> QED
    BY <2>1, <2>2
<1>7. FramesAreOfTasks'
  BY <1>1, <1>3, <1>5 DEF PushInv, FramesAreOfTasks
<1>8. PushedIsOwed'
  <2> SUFFICES ASSUME NEW g \in Forwarder, forwarder'[g].at \in Pushing
               PROVE  Pushed(g)' = Owed(g)'
    BY DEF PushedIsOwed
  <2>1. CASE g = f
    <3>1. \A e : ~Waits(f, e)'
      BY <1>3, <1>4 DEF Waits
    <3>2. \A e : ~Sends(f, e)'
      <4>1. forwarder[f].conn \in Connection
        BY <1>2 DEF Forwarding
      <4>2. \A j \in DOMAIN sent[forwarder[f].conn] :
                IsEvent(sent[forwarder[f].conn][j]) => sent[forwarder[f].conn][j].by # f
        BY <1>1, <4>1 DEF PushInv, FramesAreOfTasks
      <4> QED
        BY <1>3, <1>4, <4>2 DEF Sends
    <3>3. \A e : ~(e \in Pushed(f))'
      BY <3>1, <3>2, PushedIs
    <3>4. \A k \in DOMAIN published[forwarder[f].thread] :
              ~(k > Len(published[forwarder[f].thread]))
      BY <1>2 DEF TypeInv, SubscriptionsTypeOK
    <3>5. Owed(f)' = {}
      BY <1>3, <1>4, <3>4 DEF Owed
    <3> QED
      BY <2>1, <3>3, <3>5
  <2>2. CASE g # f
    <3>1. forwarder'[g] = forwarder[g]
      BY <1>5, <2>2
    <3>2. \A e : Sends(g, e)' <=> Sends(g, e)
      BY <1>3, <3>1 DEF Sends
    <3>3. PushGoesOn(g)
      BY <1>3, <1>5, <2>2, <3>1, <3>2 DEF PushGoesOn
    <3> QED
      BY <3>1, <3>3, PushStays DEF PushInv, PushedIsOwed
  <2> QED
    BY <2>1, <2>2
<1> QED
  BY <1>6, <1>7, <1>8 DEF PushInv

\* The first event that waits goes into the task's hand.
LEMMA TakePush ==
    ASSUME TypeInv, PushInv, NEW f \in Forwarder, TakeEvent(f)
    PROVE  PushInv'
<1>1. TaskMoves(f) /\ forwarder[f].at = "waiting"
  BY TaskStep DEF ForwarderStep, TakeEvent
<1>2. /\ forwarder[f] \in Forwarding /\ forwarder \in [Forwarder -> Forwarding \cup {Unused}]
      /\ queue[f] \in Seq(1 .. MaxPublished) /\ queue[f] # <<>>
      /\ queue \in [Forwarder -> Seq(1 .. MaxPublished)]
  BY <1>1 DEF TaskMoves, TakeEvent, TypeInv, SubscriptionsTypeOK
<1>3. UNCHANGED <<published, subscribers, since, sent>>
  BY DEF TakeEvent, feed, connection
<1>4. \A g \in Forwarder \ {f} : forwarder'[g] = forwarder[g] /\ queue'[g] = queue[g]
  BY <1>1 DEF TaskMoves
<1>5. /\ forwarder'[f].at = "sending" /\ forwarder'[f].event = queue[f][1]
      /\ forwarder'[f].conn = forwarder[f].conn
      /\ forwarder'[f].thread = forwarder[f].thread
      /\ forwarder'[f].mode = forwarder[f].mode
      /\ queue'[f] = Tail(queue[f])
  BY <1>2, RestOf DEF TakeEvent, Forwarding
<1>6. PushingIsRegistered'
  BY <1>1, <1>3, <1>4, <1>5 DEF PushInv, PushingIsRegistered, Pushing
<1>7. FramesAreOfTasks'
  <2>1. \A g \in Forwarder : forwarder[g].at \notin {"unused", "created"} =>
            /\ forwarder'[g].at \notin {"unused", "created"}
            /\ forwarder'[g].conn = forwarder[g].conn
            /\ forwarder'[g].thread = forwarder[g].thread
    BY <1>4, <1>5
  <2> QED
    BY <1>3, <2>1 DEF PushInv, FramesAreOfTasks
<1>8. PushedIsOwed'
  <2> SUFFICES ASSUME NEW g \in Forwarder, forwarder'[g].at \in Pushing
               PROVE  Pushed(g)' = Owed(g)'
    BY DEF PushedIsOwed
  <2>1. CASE g = f
    <3>1. \A e : Waits(f, e) <=> e = queue[f][1] \/ Waits(f, e)'
      <4>1. /\ 1 \in DOMAIN queue[f]
            /\ \A k \in DOMAIN Tail(queue[f]) :
                  k + 1 \in DOMAIN queue[f] /\ Tail(queue[f])[k] = queue[f][k + 1]
        BY <1>2, RestOf
      <4>2. \A k \in DOMAIN queue[f] : k = 1 \/
                \E j \in DOMAIN Tail(queue[f]) : Tail(queue[f])[j] = queue[f][k]
        BY <1>2, Rest
      <4> QED
        BY <1>5, <4>1, <4>2 DEF Waits
    <3>2. \A e : Sends(f, e)' <=> Sends(f, e)
      BY <1>3, <1>5 DEF Sends
    <3>3. \A e : (e \in Pushed(f))' <=> e \in Pushed(f)
      BY <1>1, <1>5, <3>1, <3>2, PushedIs
    <3>4. Owed(f)' = Owed(f)
      BY <1>3, <1>5 DEF Owed
    <3>5. Pushed(f) = Owed(f)
      BY <1>1 DEF PushInv, PushedIsOwed, Pushing
    <3>6. Pushed(f)' = Pushed(f)
      BY <3>3
    <3> QED
      BY <2>1, <3>4, <3>5, <3>6
  <2>2. CASE g # f
    <3>1. forwarder'[g] = forwarder[g]
      BY <1>4, <2>2
    <3>2. \A e : Sends(g, e)' <=> Sends(g, e)
      BY <1>3, <3>1 DEF Sends
    <3>3. PushGoesOn(g)
      BY <1>3, <1>4, <2>2, <3>1, <3>2 DEF PushGoesOn
    <3> QED
      BY <3>1, <3>3, PushStays DEF PushInv, PushedIsOwed
  <2> QED
    BY <2>1, <2>2
<1> QED
  BY <1>6, <1>7, <1>8 DEF PushInv


\* The event in the task's hand is sent.
LEMMA SendPush ==
    ASSUME TypeInv, PushInv, NEW f \in Forwarder, EventSent(f)
    PROVE  PushInv'
<1> DEFINE c == forwarder[f].conn
           new == [by |-> f, thread |-> forwarder[f].thread, event |-> forwarder[f].event]
<1>1. TaskMoves(f) /\ forwarder[f].at = "sending"
  BY TaskStep DEF ForwarderStep, EventSent
<1>2. /\ forwarder[f] \in Forwarding /\ forwarder \in [Forwarder -> Forwarding \cup {Unused}]
      /\ sent \in [Connection -> Seq(Frame)] /\ c \in Connection
      /\ sent[c] \in Seq(Frame)
  BY <1>1 DEF TaskMoves, Forwarding, TypeInv, SubscriptionsTypeOK
<1>3. UNCHANGED <<published, subscribers, queue, since>>
  BY DEF EventSent, feed, broker
<1>4. \A g \in Forwarder \ {f} : forwarder'[g] = forwarder[g]
  BY <1>1 DEF TaskMoves
<1>5. /\ forwarder'[f].at \in {"waiting", "ended"}
      /\ forwarder'[f].conn = c
      /\ forwarder'[f].thread = forwarder[f].thread
      /\ forwarder'[f].mode = forwarder[f].mode
  BY <1>2 DEF EventSent, Forwarding
<1>6. /\ \A o \in Connection \ {c} : sent'[o] = sent[o]
      /\ sent'[c] = Append(sent[c], new)
  BY <1>2 DEF EventSent
<1>7. /\ IsEvent(new) /\ new.by = f
      /\ new.thread = forwarder[f].thread /\ new.event = forwarder[f].event
  BY FrameType
<1> HIDE DEF new
<1>8. /\ \A j \in DOMAIN sent'[c] : \/ j \in DOMAIN sent[c] /\ sent'[c][j] = sent[c][j]
                                    \/ sent'[c][j] = new
      /\ \A j \in DOMAIN sent[c] : j \in DOMAIN sent'[c] /\ sent'[c][j] = sent[c][j]
      /\ \E j \in DOMAIN sent'[c] : sent'[c][j] = new
  <2>1. sent[c] \in Seq(Frame)
    BY <1>2
  <2>2. HoldsMore(Append(sent[c], new), sent[c], new)
    BY <2>1, LongerThan
  <2> QED
    BY <1>6, <2>2 DEF HoldsMore
<1> HIDE DEF c
<1>9. \A g \in Forwarder : forwarder[g].at \notin {"unused", "created"} =>
          /\ forwarder'[g].at \notin {"unused", "created"}
          /\ forwarder'[g].conn = forwarder[g].conn
          /\ forwarder'[g].thread = forwarder[g].thread
  BY <1>4, <1>5 DEF c
<1>10. PushingIsRegistered'
  BY <1>1, <1>3, <1>4, <1>5 DEF PushInv, PushingIsRegistered, Pushing
<1>11. FramesAreOfTasks'
  <2> SUFFICES ASSUME NEW o \in Connection, NEW j \in DOMAIN sent'[o], IsEvent(sent'[o][j])
               PROVE  LET g == sent'[o][j].by IN
                      /\ g \in Forwarder /\ forwarder'[g].at \notin {"unused", "created"}
                      /\ forwarder'[g].conn = o /\ forwarder'[g].thread = sent'[o][j].thread
    BY DEF FramesAreOfTasks
  <2>1. CASE o = c /\ sent'[c][j] = new
    BY <1>5, <1>7, <2>1
  <2>2. CASE j \in DOMAIN sent[o] /\ sent'[o][j] = sent[o][j]
    BY <1>9, <2>2 DEF PushInv, FramesAreOfTasks
  <2> QED
    BY <1>6, <1>8, <2>1, <2>2
<1>12. PushedIsOwed'
  <2> SUFFICES ASSUME NEW g \in Forwarder, forwarder'[g].at \in Pushing
               PROVE  Pushed(g)' = Owed(g)'
    BY DEF PushedIsOwed
  <2>1. CASE g = f
    <3>1. \A e : Waits(f, e)' <=> Waits(f, e)
      BY <1>3 DEF Waits
    <3>2. \A e : Sends(f, e)' <=> Sends(f, e) \/ e = forwarder[f].event
      BY <1>5, <1>7, <1>8 DEF Sends, c
    <3>3. forwarder'[f].at # "sending"
      BY <1>5
    <3>4. \A e : (e \in Pushed(f))' <=> e \in Pushed(f)
      BY <1>1, <3>1, <3>2, <3>3, PushedIs
    <3>5. Pushed(f)' = Pushed(f)
      BY <3>4
    <3>6. Owed(f)' = Owed(f)
      BY <1>3, <1>5 DEF Owed
    <3>7. Pushed(f) = Owed(f)
      BY <1>1 DEF PushInv, PushedIsOwed, Pushing
    <3> QED
      BY <2>1, <3>5, <3>6, <3>7
  <2>2. CASE g # f
    <3>1. forwarder'[g] = forwarder[g]
      BY <1>4, <2>2
    <3>2. forwarder[g].conn \in Connection
      <4>1. forwarder[g] \in Forwarding
        BY <3>1, ForwarderType DEF Pushing
      <4> QED
        BY <4>1 DEF Forwarding
    <3>3. \A e : Sends(g, e)' <=> Sends(g, e)
      <4>1. CASE forwarder[g].conn # c
        BY <1>6, <3>1, <3>2, <4>1 DEF Sends
      <4>2. CASE forwarder[g].conn = c
        BY <1>7, <1>8, <2>2, <3>1, <4>2 DEF Sends
      <4> QED
        BY <4>1, <4>2
    <3>4. PushGoesOn(g)
      BY <1>3, <3>1, <3>3 DEF PushGoesOn
    <3> QED
      BY <3>1, <3>4, PushStays DEF PushInv, PushedIsOwed
  <2> QED
    BY <2>1, <2>2
<1> QED
  BY <1>10, <1>11, <1>12 DEF PushInv

\* A publication is owed by those it is queued for.
LEMMA PublishPush ==
    ASSUME TypeInv, PushInv, NEW th \in Thread, NEW kind \in Kind, Publish(th, kind)
    PROVE  PushInv'
<1> DEFINE new == Len(published[th]) + 1
<1>1. UNCHANGED <<forwarder, subscribers, since, sent>>
  BY DEF Publish, connection
<1>2. /\ published[th] \in Seq(Kind) /\ new \in Nat
      /\ published \in [Thread -> Seq(Kind)]
      /\ queue \in [Forwarder -> Seq(1 .. MaxPublished)]
      /\ since \in [Forwarder -> 0 .. NeverRegistered]
  BY DEF TypeInv, SubscriptionsTypeOK
<1>3. /\ \A o \in Thread \ {th} : published'[o] = published[o]
      /\ published'[th] = Append(published[th], kind)
      /\ \A o \in Thread : Len(published[o]) \in Nat /\ Len(published'[o]) \in Nat
                           /\ Len(published[o]) <= Len(published'[o])
  BY <1>2 DEF Publish
<1>4. /\ DOMAIN published'[th] = DOMAIN published[th] \cup {new}
      /\ \A k \in DOMAIN published[th] : k # new /\ published'[th][k] = published[th][k]
      /\ published'[th][new] = kind
  BY <1>2, <1>3
<1>5. \A g \in Forwarder : forwarder[g].at \in Pushing =>
          /\ forwarder[g].thread \in Thread /\ forwarder[g].conn \in Connection
          /\ g \in subscribers /\ since[g] \in Nat
          /\ since[g] <= Len(published[forwarder[g].thread])
          /\ Pushed(g) = Owed(g)
  <2> SUFFICES ASSUME NEW g \in Forwarder, forwarder[g].at \in Pushing
               PROVE  /\ forwarder[g].thread \in Thread /\ forwarder[g].conn \in Connection
                      /\ since[g] \in Nat
    BY DEF PushInv, PushingIsRegistered, PushedIsOwed
  <2>1. forwarder[g] \in Forwarding
    BY ForwarderType DEF Pushing
  <2> QED
    BY <1>2, <2>1, SubscriptionsAssumption DEF Forwarding, NeverRegistered
<1>6. \A g \in Forwarder : queue'[g] = IF g \in subscribers /\ forwarder[g].thread = th
                                            /\ Accepts(g, kind)
                                         THEN Append(queue[g], new) ELSE queue[g]
  BY DEF Publish, NextPosition
<1>7. \A g \in Forwarder : \A e : Sends(g, e)' <=> Sends(g, e)
  BY <1>1 DEF Sends
<1> HIDE DEF new
<1>8. PushingIsRegistered'
  <2> SUFFICES ASSUME NEW g \in Forwarder, forwarder[g].at \in Pushing
               PROVE  g \in subscribers /\ since[g] <= Len(published'[forwarder[g].thread])
    BY <1>1 DEF PushingIsRegistered
  <2> QED
    BY <1>3, <1>5
<1>9. FramesAreOfTasks'
  BY <1>1 DEF PushInv, FramesAreOfTasks
<1>10. PushedIsOwed'
  <2> SUFFICES ASSUME NEW g \in Forwarder, forwarder[g].at \in Pushing
               PROVE  Pushed(g)' = Owed(g)'
    BY <1>1 DEF PushedIsOwed
  <2>1. CASE forwarder[g].thread # th
    <3>1. PushGoesOn(g)
      BY <1>1, <1>3, <1>5, <1>6, <1>7, <2>1 DEF PushGoesOn
    <3> QED
      BY <1>5, <3>1, PushStays
  <2>2. CASE forwarder[g].thread = th /\ Accepts(g, kind)
    <3>1. queue'[g] = Append(queue[g], new) /\ queue[g] \in Seq(1 .. MaxPublished)
      BY <1>2, <1>5, <1>6, <2>2
    <3>2. \A e : Waits(g, e)' <=> Waits(g, e) \/ e = new
      <4>1. /\ \A j \in DOMAIN queue'[g] : \/ j \in DOMAIN queue[g] /\ queue'[g][j] = queue[g][j]
                                           \/ queue'[g][j] = new
            /\ \A j \in DOMAIN queue[g] : j \in DOMAIN queue'[g] /\ queue'[g][j] = queue[g][j]
            /\ \E j \in DOMAIN queue'[g] : queue'[g][j] = new
        <5>1. HoldsMore(queue'[g], queue[g], new)
          BY <3>1, LongerThan
        <5> QED
          BY <5>1 DEF HoldsMore
      <4> QED
        BY <4>1 DEF Waits
    <3>3. \A e : (e \in Pushed(g))' <=> e \in Pushed(g) \/ e = new
      BY <1>1, <1>7, <3>2, PushedIs
    <3>4. new > since[g]
      BY <1>2, <1>5, <2>2 DEF new
    <3>5. Owed(g)' = Owed(g) \cup {new}
      <4>1. \A k : k \in Owed(g) <=> /\ k \in DOMAIN published[th]
                                     /\ k > since[g]
                                     /\ published[th][k] # "turn.progress"
                                           \/ forwarder[g].mode = "proactive"
        BY <2>2 DEF Owed
      <4>2. \A k : (k \in Owed(g))' <=> /\ k \in DOMAIN published'[th]
                                        /\ k > since[g]
                                        /\ published'[th][k] # "turn.progress"
                                              \/ forwarder[g].mode = "proactive"
        BY <1>1, <2>2 DEF Owed
      <4>3. kind # "turn.progress" \/ forwarder[g].mode = "proactive"
        BY <2>2 DEF Accepts
      <4> QED
        BY <1>4, <3>4, <4>1, <4>2, <4>3
    <3> QED
      BY <1>5, <3>3, <3>5
  <2>3. CASE forwarder[g].thread = th /\ ~Accepts(g, kind)
    <3>1. queue'[g] = queue[g]
      BY <1>6, <2>3
    <3>2. \A e : (e \in Pushed(g))' <=> e \in Pushed(g)
      BY <1>1, <1>7, <3>1, PushedIs DEF Waits
    <3>3. Owed(g)' = Owed(g)
      <4>1. \A k : k \in Owed(g) <=> /\ k \in DOMAIN published[th]
                                     /\ k > since[g]
                                     /\ published[th][k] # "turn.progress"
                                           \/ forwarder[g].mode = "proactive"
        BY <2>3 DEF Owed
      <4>2. \A k : (k \in Owed(g))' <=> /\ k \in DOMAIN published'[th]
                                        /\ k > since[g]
                                        /\ published'[th][k] # "turn.progress"
                                              \/ forwarder[g].mode = "proactive"
        BY <1>1, <2>3 DEF Owed
      <4>3. kind = "turn.progress" /\ forwarder[g].mode # "proactive"
        BY <2>3 DEF Accepts
      <4> QED
        BY <1>4, <4>1, <4>2, <4>3
    <3>4. Pushed(g)' = Pushed(g)
      BY <3>2
    <3> QED
      BY <1>5, <3>3, <3>4
  <2> QED
    BY <2>1, <2>2, <2>3
<1> QED
  BY <1>8, <1>9, <1>10 DEF PushInv


\* The steps of a task.
LEMMA TaskPush ==
    ASSUME TypeInv, LinkInv, PushInv, NEW f \in Forwarder, ForwarderStep(f)
    PROVE  PushInv'
<1>1. TaskMoves(f) /\ forwarder \in [Forwarder -> Forwarding \cup {Unused}]
  BY TaskStep DEF TypeInv, SubscriptionsTypeOK
<1>2. forwarder[f] \in Forwarding
  BY <1>1 DEF TaskMoves
<1>3. CASE TakeEvent(f)
  BY <1>3, TakePush
<1>4. CASE EventSent(f)
  BY <1>4, SendPush
<1>5. CASE ForwarderSubscribes(f) /\ forwarder'[f].at = "waiting"
  BY <1>5, BeginPush
<1>6. CASE \/ ForwarderSubscribes(f) /\ forwarder'[f].at # "waiting"
           \/ SendFails(f) \/ CancelledInGet(f) \/ CancelledInSend(f) \/ FinalizeGenerator(f)
  <2>1. /\ UNCHANGED <<published, queue, since, sent>>
        /\ forwarder'[f].at = "ended"
    BY <1>1, <1>2, <1>6 DEF ForwarderSubscribes, SendFails, CancelledInGet, CancelledInSend,
       FinalizeGenerator, feed, broker, connection, Forwarding
  <2>2. \A g \in Forwarder : forwarder[g].at \notin {"unused", "created"} =>
            /\ forwarder'[g].at \notin {"unused", "created"}
            /\ forwarder'[g].conn = forwarder[g].conn
            /\ forwarder'[g].thread = forwarder[g].thread
    BY <1>1, <2>1 DEF TaskMoves
  <2>3. \A g \in Forwarder : forwarder'[g].at \in Pushing =>
            /\ forwarder'[g] = forwarder[g]
            /\ g \in subscribers => g \in subscribers'
    BY <1>1, <2>1 DEF TaskMoves, Pushing
  <2> QED
    BY <2>1, <2>2, <2>3, PushKept
<1> QED
  BY <1>3, <1>4, <1>5, <1>6 DEF ForwarderStep

\* Cancelling sends nothing.
LEMMA CancelPush ==
    ASSUME TypeInv, PushInv, NEW fs, \A f \in fs : forwarder[f] # Unused,
           forwarder' = CancelAll(fs), UNCHANGED <<published, broker, sent>>
    PROVE  PushInv'
<1>1. \A g \in Forwarder :
          /\ forwarder'[g].at = forwarder[g].at
          /\ forwarder[g] # Unused => /\ forwarder'[g].conn = forwarder[g].conn
                                      /\ forwarder'[g].thread = forwarder[g].thread
                                      /\ forwarder'[g].event = forwarder[g].event
                                      /\ forwarder'[g].mode = forwarder[g].mode
  BY CancelType
<1>2. \A g \in Forwarder : forwarder[g].at # "unused" => forwarder[g] # Unused
  BY DEF Unused
<1> QED
  BY <1>1, <1>2, PushKept DEF broker, Pushing

\* Nor does starting a task.
LEMMA CreatePush ==
    ASSUME TypeInv, PushInv, NEW c \in Connection, NEW r \in Request, NEW f \in Forwarder,
           Creates(c, r, f), UNCHANGED <<feed, broker, sent>>
    PROVE  PushInv'
<1>1. forwarder[f].at = "unused"
  BY ForwarderType DEF Creates
<1>2. /\ forwarder'[f].at = "created"
      /\ \A g \in Forwarder \ {f} : forwarder'[g] = forwarder[g]
  BY DEF Creates, TypeInv, SubscriptionsTypeOK
<1>3. \A g \in Forwarder : forwarder[g].at \notin {"unused", "created"} =>
          forwarder'[g] = forwarder[g]
  BY <1>1, <1>2
<1>4. \A g \in Forwarder : forwarder'[g].at \in Pushing => forwarder'[g] = forwarder[g]
  BY <1>2 DEF Pushing
<1> QED
  BY <1>3, <1>4, PushKept DEF feed, broker

\* Steps that leave the tasks alone and send no event.
LEMMA IdlePush ==
    ASSUME TypeInv, PushInv, UNCHANGED <<published, broker, forwarder>>,
           \A c \in Connection : \A j \in DOMAIN sent[c] :
               j \in DOMAIN sent'[c] /\ sent'[c][j] = sent[c][j],
           \A c \in Connection : \A j \in DOMAIN sent'[c] :
               IsEvent(sent'[c][j]) => j \in DOMAIN sent[c] /\ sent'[c][j] = sent[c][j]
    PROVE  PushInv'
BY PushKept DEF broker

\* Every step keeps what was pushed equal to what is owed.
LEMMA PushStep ==
    ASSUME TypeInv, LinkInv, PushInv, [Next]_vars PROVE PushInv'
<1>1. CASE UNCHANGED <<published, broker, forwarder, sent>>
  BY <1>1, IdlePush
<1>2. ASSUME NEW c \in Connection, NEW r \in Request, Proceed(c, r),
             UNCHANGED <<feed, broker, online, sent>>
      PROVE  PushInv'
  <2>1. ASSUME NEW f \in Forwarder, Creates(c, r, f) PROVE PushInv'
    BY <1>2, <2>1, CreatePush
  <2>2. CASE UNCHANGED forwarder
    BY <1>1, <1>2, <2>2 DEF feed
  <2> QED
    BY <1>2, <2>1, <2>2 DEF Proceed, CreateForwarder, Creates
<1>3. ASSUME NEW c \in Connection, NEW r \in Request, Receive(c, r) PROVE PushInv'
  <2>1. CASE StopSubscription(c, r)
    <3> DEFINE fs == {subscriptions[c][r.thread]}
    <3>1. r.thread \in Thread
      BY DEF Request
    <3>2. \A f \in fs : forwarder[f] # Unused
      BY <2>1, <3>1 DEF StopSubscription, LinkInv, SubscribedIsMine
    <3>3. forwarder' = CancelAll(fs) /\ UNCHANGED <<published, broker, sent>>
      BY <1>3, <2>1 DEF StopSubscription, Receive, feed
    <3> HIDE DEF fs
    <3> QED
      BY <3>2, <3>3, CancelPush
  <2>2. CASE LookupFails(c, r)
    BY <1>1, <1>3, <2>2 DEF Receive, LookupFails, feed
  <2> QED
    BY <1>2, <1>3, <2>1, <2>2 DEF Receive
<1>4. ASSUME NEW c \in Connection, Stopped(c) PROVE PushInv'
  BY <1>2, <1>4 DEF Stopped, TypeInv
<1>5. ASSUME NEW c \in Connection, Close(c), UNCHANGED <<feed, broker, sent>> PROVE PushInv'
  <2> DEFINE fs == {subscriptions[c][th] : th \in Thread} \ {NoForwarder}
  <2>1. \A f \in fs : forwarder[f] # Unused
    BY DEF LinkInv, SubscribedIsMine
  <2>2. forwarder' = CancelAll(fs) /\ UNCHANGED <<published, broker, sent>>
    BY <1>5 DEF Close, feed
  <2> HIDE DEF fs
  <2> QED
    BY <2>1, <2>2, CancelPush
<1>6. ASSUME NEW c \in Connection, Reply(c), online[c] PROVE PushInv'
  <2>1. sent[c] \in Seq(Frame) /\ sent \in [Connection -> Seq(Frame)]
    BY DEF TypeInv, SubscriptionsTypeOK
  <2>2. /\ UNCHANGED <<published, broker, forwarder>>
        /\ \A o \in Connection \ {c} : sent'[o] = sent[o]
        /\ sent'[c] = Append(sent[c], Answer(c))
    BY <1>6, <2>1 DEF Reply, feed
  <2>3. /\ \A j \in DOMAIN sent'[c] :
              IsEvent(sent'[c][j]) => j \in DOMAIN sent[c] /\ sent'[c][j] = sent[c][j]
        /\ \A j \in DOMAIN sent[c] : j \in DOMAIN sent'[c] /\ sent'[c][j] = sent[c][j]
    <3>1. ~IsEvent(Answer(c))
      BY FrameType
    <3> QED
      <4>1. HoldsMore(sent'[c], sent[c], Answer(c))
        BY <2>1, <2>2, LongerThan
      <4> QED
        BY <3>1, <4>1 DEF HoldsMore
  <2> QED
    BY <2>2, <2>3, IdlePush
<1>7. ASSUME NEW c \in Connection, HandlerStep(c) \/ Disconnect(c) PROVE PushInv'
  BY <1>1, <1>4, <1>5, <1>6, <1>7
  DEF HandlerStep, Ready, Reply, ReceiveDisconnect, Closed, Disconnect, feed
<1>8. ASSUME NEW th \in Thread, TurnStarts(th) \/ \E kind \in Kind : TurnContinues(th, kind)
      PROVE  PushInv'
  BY <1>8, PublishPush DEF TurnStarts, TurnContinues, Kind
<1>9. CASE UNCHANGED vars
  BY <1>1, <1>9 DEF vars, connection
<1> QED
  BY <1>3, <1>7, <1>8, <1>9, TaskPush DEF Next

LEMMA InitPush == Init => PushInv
BY DEF Init, PushInv, PushingIsRegistered, FramesAreOfTasks, PushedIsOwed, Pushing, Unused

\* What a client has got of a thread comes before what its task still has.
LEMMA SentComesFirst ==
    ASSUME TypeInv, OrderInv, PushInv, NEW f \in Forwarder, forwarder[f].at \in Pushing
    PROVE  /\ \A e \in SentBy(f) : \A p \in InHand(f) \cup Queued(f) : e < p
           /\ \A p \in InHand(f) : \A q \in Queued(f) : p < q
           /\ \A j, k \in DOMAIN queue[f] : j < k => queue[f][j] < queue[f][k]
<1>1. forwarder[f].at \in Active
  BY DEF Pushing, Active
<1>2. forwarder[f].conn \in Connection
  <2>1. forwarder[f] \in Forwarding
    BY ForwarderType DEF Pushing
  <2> QED
    BY <2>1 DEF Forwarding
<1>3. ASSUME NEW e \in SentBy(f), NEW p \in InHand(f) \cup Queued(f)
      PROVE  e < p
  <2>1. PICK j \in DOMAIN sent[forwarder[f].conn] :
            /\ IsEvent(sent[forwarder[f].conn][j])
            /\ sent[forwarder[f].conn][j].by = f /\ sent[forwarder[f].conn][j].event = e
    BY <1>3 DEF SentBy
  <2>2. sent[forwarder[f].conn][j].thread = forwarder[f].thread
    BY <1>2, <2>1 DEF PushInv, FramesAreOfTasks
  <2>3. /\ \A k \in DOMAIN queue[f] : e < queue[f][k]
        /\ forwarder[f].at = "sending" => e < forwarder[f].event
    BY <1>1, <2>1, <2>2 DEF OrderInv, WaitingIsNew
  <2> QED
    BY <1>3, <2>3 DEF InHand, Queued
<1>4. \A p \in InHand(f) : \A q \in Queued(f) : p < q
  BY <1>1 DEF OrderInv, WaitingIsOrdered, InHand, Queued
<1>5. \A j, k \in DOMAIN queue[f] : j < k => queue[f][j] < queue[f][k]
  BY <1>1 DEF OrderInv, WaitingIsOrdered
<1> QED
  BY <1>3, <1>4, <1>5

\* broker.py, methods.py _forward_events: from its registration on a subscription
\* misses no event it accepts, whatever else the client asks for meanwhile.
THEOREM NothingMissedCorrect == Spec => []NothingIsMissed
<1>1. /\ TypeInv /\ LinkInv /\ [Next]_vars => TypeInv' /\ LinkInv'
      /\ TypeInv /\ LinkInv /\ OrderInv /\ [Next]_vars => OrderInv'
      /\ TypeInv /\ LinkInv /\ PushInv /\ [Next]_vars => PushInv'
  BY TypeStep, LinkStep, OrderStep, PushStep DEF LinkInv
<1>2. TypeInv /\ OrderInv /\ PushInv => NothingIsMissed
  <2> SUFFICES ASSUME TypeInv, OrderInv, PushInv, NEW f \in subscribers,
                      forwarder[f].at \in {"waiting", "sending"}
               PROVE  /\ Pushed(f) = Owed(f)
                      /\ \A e \in SentBy(f) : \A p \in InHand(f) \cup Queued(f) : e < p
                      /\ \A p \in InHand(f) : \A q \in Queued(f) : p < q
                      /\ \A j, k \in DOMAIN queue[f] : j < k => queue[f][j] < queue[f][k]
    BY DEF NothingIsMissed
  <2>1. f \in Forwarder /\ forwarder[f].at \in Pushing
    BY DEF TypeInv, SubscriptionsTypeOK, Pushing
  <2>2. Pushed(f) = Owed(f)
    BY <2>1 DEF PushInv, PushedIsOwed
  <2> QED
    BY <2>1, <2>2, SentComesFirst
<1> QED
  BY <1>1, <1>2, InitLinks, InitOrder, InitPush, PTL DEF Spec

=============================================================================
