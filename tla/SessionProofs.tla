--------------------------- MODULE SessionProofs ---------------------------
(***************************************************************************)
(* Theorems about the terminal client, for any number of threads, turns    *)
(* and commands, and whatever other clients do.                            *)
(***************************************************************************)
EXTENDS CliSession, TLAPS

IsReply(x) == "op" \in DOMAIN x
NoReply    == \A k \in DOMAIN wire : ~IsReply(wire[k])

Entering  == {"/new", "/use", "run_once"}
OneShots  == {"run_once", "waiting", "exited"}
Resting   == {"prompt", "waiting", "exited"}

\* A command waits for one reply at a time.
OneInFlight ==
    /\ request # Nothing => answer = Nothing
    /\ request # Nothing \/ answer # Nothing => NoReply
    /\ \A j, k \in DOMAIN wire : IsReply(wire[j]) /\ IsReply(wire[k]) => j = k
    /\ command \in Resting => request = Nothing /\ answer = Nothing /\ NoReply

\* The reply r is on its way, or its future is set.
Replied(r) ==
    (answer # Nothing /\ answer = r) \/ \E k \in DOMAIN wire : IsReply(wire[k]) /\ wire[k] = r

\* What a request asks for is what its command needs next.
Fits(op, th) ==
    /\ op = "thread.create" => command \in {"/new", "run_once"} /\ target = NoThread
    /\ op = "thread.get" => command \in Entering /\ th = target /\ target \in threads
    /\ op = "thread.subscribe" => th \in threads /\
          \/ command = "/progress" /\ current # NoThread
          \/ /\ command \in Entering /\ th = target
             /\ snapshot = NoTurn \/ turnThread[snapshot] = target
    /\ op = "thread.unsubscribe" => command = "/unsubscribe"
    /\ op = "turn.start" =>
          /\ command \in {"/start", "text", "run_once"}
          /\ th = current /\ current # NoThread
          /\ command = "run_once" => current = target
    /\ op \in {"turn.steer", "turn.interrupt"} => command \in {"/steer", "text", "/interrupt"}
    /\ op \in {"thread.create", "thread.get", "thread.subscribe"} /\ command = "run_once" =>
          current = NoThread

\* What a reply says of the gateway still holds when it is read.
Told(r) ==
    /\ r.op = "thread.create" /\ r.ok => r.thread \in threads
    /\ r.op = "thread.get" /\ r.ok => r.turn = NoTurn \/ turnThread[r.turn] = r.thread
    /\ r.op = "thread.subscribe" /\ r.ok => r.thread \in subscribed
    /\ r.op = "turn.start" /\ r.ok => r.turn \in Turn /\ turnThread[r.turn] = r.thread

CallsFit ==
    /\ request # Nothing => Fits(request.op, request.thread)
    /\ \A r \in Reply : Replied(r) => Fits(r.op, r.thread) /\ Told(r)

\* A turn has a thread once it exists, and a thread one running turn.
TurnsInv ==
    /\ \A t \in Turn : turnStatus[t] = "absent" <=> turnThread[t] = NoThread
    /\ \A t \in Turn : turnThread[t] \in threads \cup {NoThread}
    /\ \A t, u \in Turn :
          turnStatus[t] = "running" /\ turnStatus[u] = "running" /\ turnThread[t] = turnThread[u]
              => t = u

\* The event e has not been handled yet.
Pending(e) ==
    \/ \E th \in Thread : \E k \in DOMAIN forwarding[th] : forwarding[th][k] = e
    \/ \E k \in DOMAIN wire : wire[k] = e
    \/ \E k \in DOMAIN notifications : notifications[k] = e

\* An event is of a turn that exists, and no turn ends twice.
EventsInv ==
    /\ \A th \in Thread : \A k \in DOMAIN forwarding[th] :
          turnThread[forwarding[th][k].turn] = th
    /\ \A e \in Event : Pending(e) =>
          /\ turnThread[e.turn] # NoThread
          /\ e.type = "turn.ended" => turnStatus[e.turn] = "ended"

\* What holds of the requests, the replies, the turns and the events.
BaseInv ==
    /\ SessionTypeOK
    /\ OneInFlight /\ CallsFit /\ TurnsInv /\ EventsInv
    /\ current \in threads \cup {NoThread}

-----------------------------------------------------------------------------
\* A thread nobody but this client knows, in which nothing has happened.
Fresh(th) == th \in threads \ shared /\ th # current /\ \A t \in Turn : turnThread[t] # th

\* A thread the client has just created is fresh until it has entered it.
FreshInv ==
    /\ \A r \in Reply : Replied(r) /\ r.op = "thread.create" /\ r.ok => Fresh(r.thread)
    /\ command \in {"/new", "run_once"} =>
          \/ target = NoThread \/ Fresh(target)
          \/ command = "run_once" /\ target \in shared \cup {current}

\* The events of a one-shot run, and of a client that has entered no thread yet,
\* are all of the thread it is about to enter or has entered.
FeedInv ==
    /\ current = NoThread \/ command \in OneShots =>
          /\ subscribed \subseteq {target}
          /\ \A e \in Event : Pending(e) => turnThread[e.turn] = target
          /\ current \in {NoThread, target}
    /\ current = NoThread =>
          own = NoTurn /\ (command \in Entering \cup {"exited"} \/ target = NoThread)
    /\ command = "run_once" => own = NoTurn

\* In a thread of its own a one-shot run finds no turn but the one it starts.
OneShotInv ==
    /\ command = "run_once" /\ request # Nothing /\ request.op = "turn.start" =>
          target \in shared \/ \A t \in Turn : turnThread[t] # target
    /\ command = "run_once" =>
          \A r \in Reply : Replied(r) /\ r.op = "turn.start" /\ r.ok =>
              target \in shared \/ \A t \in Turn : turnThread[t] = target => t = r.turn
    /\ command = "waiting" =>
          target = current /\ (target \in shared \/ \A t \in Turn : turnThread[t] = target => t = own)
    /\ OneShotSawItsTurn

-----------------------------------------------------------------------------
\* After the event e, this is what runs in the thread.
Describes(e, runs) == IF e.type = "turn.started" THEN e.turn \in runs ELSE runs = {}

HasOf(queue, mine)      == \E k \in DOMAIN queue : queue[k] \in mine
LaterOf(queue, k, mine) == \E m \in DOMAIN queue : m > k /\ queue[m] \in mine

\* Of the events of a thread that wait with the forwarder, are on the wire or are
\* notified, the last describes what runs in it; when none is left, act does.
FollowsUp(fwd, wir, ntf, mine, runs, act) ==
    /\ \A k \in DOMAIN fwd : k = Len(fwd) => Describes(fwd[k], runs)
    /\ \A k \in DOMAIN wir : wir[k] \in mine =>
          Describes(wir[k], runs) \/ LaterOf(wir, k, mine) \/ fwd # <<>>
    /\ \A k \in DOMAIN ntf : ntf[k] \in mine =>
          Describes(ntf[k], runs) \/ LaterOf(ntf, k, mine) \/ HasOf(wir, mine) \/ fwd # <<>>
    /\ fwd = <<>> /\ ~HasOf(wir, mine) /\ ~HasOf(ntf, mine) =>
          IF act = NoTurn THEN runs = {} ELSE act \in runs

Mine == {e \in Event : turnThread[e.turn] = current}

ViewFollows ==
    FollowsUp(forwarding[current], wire, notifications, Mine, Running(current), active)

\* A turn of the thread that has ended is known to have, or will be.
EndsAreKnown ==
    \A t \in Turn : turnThread[t] = current /\ turnStatus[t] = "ended" =>
        t \in finished \/ Pending([type |-> "turn.ended", turn |-> t])

\* The client is in a thread it created and has not touched the subscription.
Follows ==
    /\ ~rejoined /\ current # NoThread
    /\ command \notin OneShots

ViewInv == Follows => current \in subscribed /\ ViewFollows /\ EndsAreKnown
-----------------------------------------------------------------------------
(* Types, and what tells replies and events apart.                         *)

LEMMA FrameKinds ==
    /\ \A x \in Reply : "op" \in DOMAIN x
    /\ \A x \in Event : "op" \notin DOMAIN x
BY DEF Reply, Event

LEMMA RunningTurnFacts ==
    ASSUME NEW th
    PROVE  /\ RunningTurn(th) \in Turn \cup {NoTurn}
           /\ RunningTurn(th) = NoTurn \/ RunningTurn(th) \in Running(th)
BY DEF RunningTurn, Running

\* What the publication of an event does to the forwarders' queues.
LEMMA Published ==
    ASSUME SessionTypeOK, NEW th \in Thread \cup {NoThread}, NEW t \in Turn,
           NEW type \in {"turn.started", "turn.ended"}, Publish(th, type, t)
    PROVE  /\ [type |-> type, turn |-> t] \in Event
           /\ forwarding' \in [Thread -> Seq(Event)]
           /\ \A x \in Thread \ {th} : forwarding'[x] = forwarding[x]
           /\ th \in subscribed =>
                 forwarding'[th] = Append(forwarding[th], [type |-> type, turn |-> t])
           /\ th \notin subscribed => forwarding'[th] = forwarding[th]
<1>1. [type |-> type, turn |-> t] \in Event
  BY DEF Event
<1> DEFINE e == [type |-> type, turn |-> t]
<1> HIDE DEF e
<1>2. /\ forwarding \in [Thread -> Seq(Event)] /\ e \in Event
      /\ forwarding' = IF th \in subscribed
                         THEN [forwarding EXCEPT ![th] = Append(forwarding[th], e)]
                         ELSE forwarding
  BY <1>1 DEF SessionTypeOK, Publish, e
<1>3. /\ forwarding' \in [Thread -> Seq(Event)]
      /\ \A x \in Thread \ {th} : forwarding'[x] = forwarding[x]
      /\ th \in subscribed => forwarding'[th] = Append(forwarding[th], e)
      /\ th \notin subscribed => forwarding'[th] = forwarding[th]
  <2>1. CASE th \notin subscribed
    BY <1>2, <2>1
  <2>2. CASE th \in subscribed
    <3>1. th \in Thread
      BY <2>2 DEF SessionTypeOK
    <3>2. Append(forwarding[th], e) \in Seq(Event)
      BY <1>2, <3>1
    <3> QED
      BY <1>2, <2>2, <3>1, <3>2
  <2> QED
    BY <2>1, <2>2
<1> QED
  BY <1>1, <1>3 DEF e

\* What the start of a turn changes.
LEMMA Opened ==
    ASSUME SessionTypeOK, NEW th \in Thread \cup {NoThread}, NEW t \in Turn, OpenTurn(th, t)
    PROVE  /\ turnThread' \in [Turn -> Thread \cup {NoThread}]
           /\ turnStatus' \in [Turn -> {"absent", "running", "ended"}]
           /\ turnStatus[t] = "absent" /\ Running(th) = {}
           /\ turnThread'[t] = th /\ turnStatus'[t] = "running"
           /\ \A u \in Turn \ {t} : turnThread'[u] = turnThread[u] /\ turnStatus'[u] = turnStatus[u]
           /\ Publish(th, "turn.started", t)
BY DEF OpenTurn, SessionTypeOK

\* The reply of the gateway to a request.
LEMMA Responded ==
    ASSUME SessionTypeOK, request # Nothing, NEW ok \in BOOLEAN, NEW th \in Thread \cup {NoThread},
           NEW t \in Turn \cup {NoTurn}, Respond(ok, th, t)
    PROVE  /\ request \in Request /\ request' = Nothing
           /\ [op |-> request.op, ok |-> ok, thread |-> th, turn |-> t] \in Reply
           /\ wire' = Append(wire, [op |-> request.op, ok |-> ok, thread |-> th, turn |-> t])
           /\ wire' \in Seq(Reply \cup Event)
<1>1. request \in Request /\ request.op \in Op
  BY DEF SessionTypeOK, Request
<1>2. [op |-> request.op, ok |-> ok, thread |-> th, turn |-> t] \in Reply
  BY <1>1 DEF Reply
<1> QED
  BY <1>1, <1>2 DEF Respond, SessionTypeOK

\* The ways the gateway serves a request, with the reply r.
ServedWith(r) ==
    /\ request \in Request /\ request # Nothing /\ request' = Nothing
    /\ r \in Reply /\ r.op = request.op /\ wire' = Append(wire, r)
    /\ rejoined' \in {rejoined, TRUE}
    /\ UNCHANGED <<shared, answer, notifications, command, target, snapshot, own, view>>

Created(r) ==
    /\ r.ok /\ r.op = "thread.create" /\ r.thread \in Thread \ threads
    /\ threads' = threads \cup {r.thread}
    /\ UNCHANGED <<turnThread, turnStatus, feeds>>

Looked(r) ==
    /\ r.op = "thread.get" /\ r.thread = request.thread
    /\ r.turn = NoTurn \/ r.turn \in Running(r.thread)
    /\ UNCHANGED <<gateway, feeds>>

Resubscribed(r) ==
    /\ r.op \in {"thread.subscribe", "thread.unsubscribe"} /\ r.thread = request.thread
    /\ r.thread = current => rejoined'
    /\ subscribed' = IF r.op = "thread.subscribe" THEN subscribed \cup {r.thread}
                                                  ELSE subscribed \ {r.thread}
    /\ forwarding' = [forwarding EXCEPT ![r.thread] = <<>>]
    /\ UNCHANGED gateway

Started(r) ==
    /\ r.op = "turn.start" /\ r.ok /\ r.thread = request.thread /\ r.turn \in Turn
    /\ OpenTurn(r.thread, r.turn)
    /\ UNCHANGED <<threads, subscribed>>

Refused(r) ==
    /\ r.thread = request.thread
    /\ ~r.ok \/ r.op \in {"turn.steer", "turn.interrupt"}
    /\ UNCHANGED <<gateway, feeds>>

ServedBy(r) ==
    ServedWith(r) /\ (Created(r) \/ Looked(r) \/ Resubscribed(r) \/ Started(r) \/ Refused(r))

\* A request is served or refused.
Handled == Serve \/ Refuse

LEMMA ServeCases ==
    ASSUME SessionTypeOK, Handled PROVE \E r \in Reply : ServedBy(r)
<1> USE DEF gateway, feeds
<1>1. /\ request \in Request /\ request # Nothing
      /\ request.op \in Op /\ request.thread \in Thread \cup {NoThread}
      /\ request.turn \in Turn \cup {NoTurn}
      /\ UNCHANGED <<answer, notifications, command, target, snapshot, own, view>>
      /\ rejoined' \in {rejoined, TRUE}
  BY DEF Handled, Serve, Refuse, SessionTypeOK, Request, task
<1>3. ASSUME request.op = "thread.create", NEW th \in Thread \ threads,
             threads' = threads \cup {th}, Respond(TRUE, th, NoTurn),
             UNCHANGED <<shared, turnThread, turnStatus, feeds>>
      PROVE  \E r \in Reply : ServedBy(r)
  <2> DEFINE r == [op |-> request.op, ok |-> TRUE, thread |-> th,
                   turn |-> NoTurn]
  <2>1. /\ ServedWith(r) /\ r \in Reply /\ r.op = request.op /\ r.ok \in BOOLEAN
        /\ r.thread = th /\ r.turn = NoTurn /\ r.ok = TRUE
    BY <1>1, <1>3 DEF Respond, ServedWith, Reply
  <2> HIDE DEF r
  <2> QED
    BY <1>3, <2>1 DEF ServedBy, Created
<1>4. ASSUME request.op = "thread.get",
             Respond(TRUE, request.thread, RunningTurn(request.thread)), UNCHANGED <<gateway, feeds>>
      PROVE  \E r \in Reply : ServedBy(r)
  <2> DEFINE r == [op |-> request.op, ok |-> TRUE, thread |-> request.thread,
                   turn |-> RunningTurn(request.thread)]
  <2>1. /\ ServedWith(r) /\ r \in Reply /\ r.op = request.op /\ r.ok \in BOOLEAN
        /\ r.thread = request.thread /\ r.turn = RunningTurn(request.thread) /\ r.ok = TRUE
    BY <1>1, <1>4, RunningTurnFacts DEF Respond, ServedWith, Reply
  <2> HIDE DEF r
  <2> QED
    BY <1>4, <2>1, RunningTurnFacts DEF ServedBy, Looked
<1>5. ASSUME request.op \in {"thread.subscribe", "thread.unsubscribe"},
             subscribed' = IF request.op = "thread.subscribe"
                             THEN subscribed \cup {request.thread}
                             ELSE subscribed \ {request.thread},
             forwarding' = [forwarding EXCEPT ![request.thread] = <<>>],
             request.thread = current => rejoined',
             Respond(TRUE, request.thread, NoTurn), UNCHANGED gateway
      PROVE  \E r \in Reply : ServedBy(r)
  <2> DEFINE r == [op |-> request.op, ok |-> TRUE, thread |-> request.thread,
                   turn |-> NoTurn]
  <2>1. /\ ServedWith(r) /\ r \in Reply /\ r.op = request.op /\ r.ok \in BOOLEAN
        /\ r.thread = request.thread /\ r.turn = NoTurn /\ r.ok = TRUE
    BY <1>1, <1>5 DEF Respond, ServedWith, Reply
  <2> HIDE DEF r
  <2> QED
    BY <1>5, <2>1 DEF ServedBy, Resubscribed
<1>6. ASSUME request.op = "turn.start", NEW t \in Turn, OpenTurn(request.thread, t),
             Respond(TRUE, request.thread, t), UNCHANGED <<threads, shared, subscribed>>
      PROVE  \E r \in Reply : ServedBy(r)
  <2> DEFINE r == [op |-> request.op, ok |-> TRUE, thread |-> request.thread,
                   turn |-> t]
  <2>1. /\ ServedWith(r) /\ r \in Reply /\ r.op = request.op /\ r.ok \in BOOLEAN
        /\ r.thread = request.thread /\ r.turn = t /\ r.ok = TRUE
    BY <1>1, <1>6 DEF Respond, ServedWith, Reply
  <2> HIDE DEF r
  <2> QED
    BY <1>6, <2>1 DEF ServedBy, Started
<1>7. ASSUME NEW ok \in BOOLEAN, ~ok \/ request.op \in {"turn.steer", "turn.interrupt"},
             NEW t \in Turn \cup {NoTurn}, Respond(ok, request.thread, t),
             UNCHANGED <<gateway, feeds>>
      PROVE  \E r \in Reply : ServedBy(r)
  <2> DEFINE r == [op |-> request.op, ok |-> ok, thread |-> request.thread, turn |-> t]
  <2>1. /\ ServedWith(r) /\ r \in Reply /\ r.op = request.op
        /\ r.thread = request.thread /\ r.turn = t /\ r.ok = ok
    BY <1>1, <1>7 DEF Respond, ServedWith, Reply
  <2> HIDE DEF r
  <2> QED
    BY <1>7, <2>1 DEF ServedBy, Refused
<1>8. CASE Refuse
  BY <1>7, <1>8 DEF Refuse
<1>9. CASE Serve
  <2>1. rejoined' = \/ rejoined
                    \/ /\ request.op \in {"thread.subscribe", "thread.unsubscribe"}
                       /\ request.thread = current
    BY <1>9 DEF Serve
  <2> QED
    BY <1>1, <1>3, <1>4, <1>5, <1>6, <1>7, <1>9, <2>1 DEF Serve
<1> QED
  BY <1>8, <1>9 DEF Handled

\* The queues of frames: what is left when the first one is taken.
LEMMA TailFacts ==
    ASSUME NEW S, NEW q \in Seq(S), q # <<>>
    PROVE  /\ Head(q) \in S /\ Tail(q) \in Seq(S) /\ Head(q) = q[1] /\ 1 \in DOMAIN q
           /\ Len(q) \in Nat /\ Len(Tail(q)) = Len(q) - 1
           /\ \A k \in DOMAIN Tail(q) : k + 1 \in DOMAIN q /\ Tail(q)[k] = q[k + 1]
           /\ \A k \in DOMAIN q : k = 1 \/ (k - 1 \in DOMAIN Tail(q) /\ Tail(q)[k - 1] = q[k])
OBVIOUS

LEMMA AppendFacts ==
    ASSUME NEW S, NEW q \in Seq(S), NEW x \in S
    PROVE  /\ Append(q, x) \in Seq(S) /\ Append(q, x) # <<>>
           /\ Len(q) \in Nat /\ Len(Append(q, x)) = Len(q) + 1
           /\ Append(q, x)[Len(q) + 1] = x
           /\ \A k \in DOMAIN q : k \in DOMAIN Append(q, x) /\ Append(q, x)[k] = q[k]
           /\ \A k \in DOMAIN Append(q, x) : k \in DOMAIN q \/ k = Len(q) + 1
OBVIOUS

LEMMA TypeServe ==
    ASSUME SessionTypeOK, CallsFit, Handled PROVE SessionTypeOK'
<1> USE DEF gateway, feeds, task, view
<1>1. PICK r \in Reply : ServedBy(r)
  BY ServeCases
<1>2. /\ request \in Request /\ request' = Nothing /\ wire' = Append(wire, r)
      /\ UNCHANGED <<shared, answer, notifications, command, target, snapshot, own, view>>
      /\ rejoined' \in BOOLEAN
      /\ wire \in Seq(Reply \cup Event)
      /\ r.thread \in Thread \cup {NoThread} /\ request.thread \in Thread \cup {NoThread}
  BY <1>1 DEF ServedBy, ServedWith, SessionTypeOK, Reply, Request
<1>3. wire' \in Seq(Reply \cup Event)
  BY <1>2, AppendFacts
<1>4. ASSUME threads \subseteq threads', threads' \subseteq Thread,
             turnThread' \in [Turn -> Thread \cup {NoThread}],
             turnStatus' \in [Turn -> {"absent", "running", "ended"}],
             subscribed' \subseteq threads', forwarding' \in [Thread -> Seq(Event)]
      PROVE  SessionTypeOK'
  BY <1>2, <1>3, <1>4 DEF SessionTypeOK
<1>5. CASE Created(r)
  BY <1>4, <1>5 DEF Created, SessionTypeOK
<1>6. CASE Looked(r) \/ Refused(r)
  BY <1>4, <1>6 DEF Looked, Refused, SessionTypeOK
<1>7. CASE Resubscribed(r)
  <2>1. forwarding' \in [Thread -> Seq(Event)]
    <3>1. <<>> \in Seq(Event) /\ forwarding \in [Thread -> Seq(Event)]
      BY DEF SessionTypeOK
    <3> QED
      BY <1>7, <3>1 DEF Resubscribed
  <2>2. r.op = "thread.subscribe" => r.thread \in threads
    BY <1>1, <1>7 DEF ServedBy, ServedWith, Resubscribed, CallsFit, Fits
  <2> QED
    BY <1>4, <1>7, <2>1, <2>2 DEF Resubscribed, SessionTypeOK
<1>8. CASE Started(r)
  <2>1. /\ turnThread' \in [Turn -> Thread \cup {NoThread}]
        /\ turnStatus' \in [Turn -> {"absent", "running", "ended"}]
        /\ Publish(r.thread, "turn.started", r.turn)
    BY <1>2, <1>8, Opened DEF Started
  <2>2. forwarding' \in [Thread -> Seq(Event)]
    BY <1>2, <1>8, <2>1, Published DEF Started
  <2> QED
    BY <1>4, <1>8, <2>1, <2>2 DEF Started, SessionTypeOK
<1> QED
  BY <1>1, <1>5, <1>6, <1>7, <1>8 DEF ServedBy

\* Frames of the wire, and what its first one is.
LEMMA TypeDispatch ==
    ASSUME SessionTypeOK, Dispatch PROVE SessionTypeOK'
<1> USE DEF gateway, feeds, task, view
<1>1. wire \in Seq(Reply \cup Event) /\ wire # <<>>
  BY DEF SessionTypeOK, Dispatch
<1>2. Head(wire) \in Reply \cup Event /\ wire' \in Seq(Reply \cup Event)
  BY <1>1, TailFacts DEF Dispatch
<1>3. CASE "op" \in DOMAIN Head(wire)
  BY <1>2, <1>3, FrameKinds DEF Dispatch, SessionTypeOK
<1>4. CASE "op" \notin DOMAIN Head(wire)
  <2>1. Head(wire) \in Event /\ notifications' = Append(notifications, Head(wire))
    BY <1>2, <1>4, FrameKinds DEF Dispatch
  <2>2. notifications' \in Seq(Event)
    BY <2>1, AppendFacts DEF SessionTypeOK
  <2> QED
    BY <1>2, <1>4, <2>2 DEF Dispatch, SessionTypeOK
<1> QED
  BY <1>3, <1>4

LEMMA TypeForward ==
    ASSUME SessionTypeOK, NEW th \in Thread, Forward(th) PROVE SessionTypeOK'
<1> USE DEF gateway, feeds, task, view
<1>1. /\ forwarding \in [Thread -> Seq(Event)] /\ forwarding[th] \in Seq(Event)
      /\ forwarding[th] # <<>> /\ wire \in Seq(Reply \cup Event)
  BY DEF SessionTypeOK, Forward
<1>2. Head(forwarding[th]) \in Event /\ Tail(forwarding[th]) \in Seq(Event)
  BY <1>1, TailFacts
<1>3. wire' \in Seq(Reply \cup Event)
  BY <1>1, <1>2, AppendFacts DEF Forward
<1>4. forwarding' \in [Thread -> Seq(Event)]
  BY <1>1, <1>2 DEF Forward
<1> QED
  BY <1>3, <1>4 DEF Forward, SessionTypeOK

LEMMA TypeHandle ==
    ASSUME SessionTypeOK, HandleEvent PROVE SessionTypeOK'
<1> USE DEF gateway, feeds, task, view
<1>1. notifications \in Seq(Event) /\ notifications # <<>>
  BY DEF SessionTypeOK, HandleEvent
<1>2. Head(notifications) \in Event /\ notifications' \in Seq(Event)
  BY <1>1, TailFacts DEF HandleEvent
<1>3. Head(notifications).turn \in Turn
  BY <1>2 DEF Event
<1>4. /\ active' \in {active, NoTurn, Head(notifications).turn}
      /\ finished' \in {finished, finished \cup {Head(notifications).turn}}
      /\ command' \in {command, "exited"}
  BY DEF HandleEvent, TrackTurn
<1>5. active' \in Turn \cup {NoTurn} /\ finished' \subseteq Turn
  BY <1>3, <1>4 DEF SessionTypeOK
<1> QED
  BY <1>2, <1>4, <1>5 DEF HandleEvent, SessionTypeOK

LEMMA TypePublish ==
    ASSUME SessionTypeOK,
           \/ \E th \in Thread, t \in Turn : OtherStarts(th, t)
           \/ \E t \in Turn : TurnEnds(t) /\ turnThread[t] \in Thread
    PROVE  SessionTypeOK'
<1> USE DEF task, view
<1>1. ASSUME NEW th \in Thread, NEW t \in Turn, OtherStarts(th, t) PROVE SessionTypeOK'
  <2>1. /\ turnThread' \in [Turn -> Thread \cup {NoThread}]
        /\ turnStatus' \in [Turn -> {"absent", "running", "ended"}]
        /\ Publish(th, "turn.started", t)
    BY <1>1, Opened DEF OtherStarts
  <2>2. forwarding' \in [Thread -> Seq(Event)]
    BY <2>1, Published
  <2> QED
    BY <1>1, <2>1, <2>2 DEF OtherStarts, SessionTypeOK
<1>2. ASSUME NEW t \in Turn, TurnEnds(t), turnThread[t] \in Thread PROVE SessionTypeOK'
  <2>1. turnStatus' \in [Turn -> {"absent", "running", "ended"}]
    BY <1>2 DEF TurnEnds, SessionTypeOK
  <2>2. forwarding' \in [Thread -> Seq(Event)]
    BY <1>2, Published DEF TurnEnds
  <2> QED
    BY <1>2, <2>1, <2>2 DEF TurnEnds, SessionTypeOK
<1> QED
  BY <1>1, <1>2

\* The commands, and the request each begins with.
Issued ==
    /\ command = "prompt" /\ request' \in Request /\ request'.thread = target'
    /\ UNCHANGED <<gateway, feeds, wire, answer, notifications, snapshot, own, rejoined, view>>
    /\ \/ request'.op = "thread.create" /\ command' \in {"/new", "run_once"} /\ target' = NoThread
       \/ request'.op = "thread.get" /\ command' \in {"/use", "run_once"} /\ target' \in shared
       \/ /\ current # NoThread /\ target' = current
          /\ \/ request'.op = "thread.subscribe" /\ command' = "/progress"
             \/ request'.op = "thread.unsubscribe" /\ command' = "/unsubscribe"
             \/ request'.op = "turn.start" /\ command' \in {"/start", "text"}
             \/ request'.op = "turn.steer" /\ command' \in {"/steer", "text"}
             \/ request'.op = "turn.interrupt" /\ command' = "/interrupt"
    /\ command' = "run_once" => current = NoThread

LEMMA IssueCases ==
    ASSUME SessionTypeOK, Issue PROVE Issued
<1>1. shared \subseteq Thread /\ current \in Thread \cup {NoThread} /\ active \in Turn \cup {NoTurn}
  BY DEF SessionTypeOK
<1>2. ASSUME NEW name, CreateThread(name), name \in {"/new", "run_once"},
             name = "run_once" => current = NoThread
      PROVE  Issued
  BY <1>2 DEF CreateThread, Begin, Send, Issued, Request, Op
<1>3. ASSUME NEW name, UseThread(name), name \in {"/use", "run_once"},
             name = "run_once" => current = NoThread
      PROVE  Issued
  BY <1>1, <1>3 DEF UseThread, Begin, Send, Issued, Request, Op
<1>4. ASSUME NEW name, NEW op, OnThread(name, op) \/ OnTurn(name, op),
             \/ op = "thread.subscribe" /\ name = "/progress"
             \/ op = "thread.unsubscribe" /\ name = "/unsubscribe"
             \/ op = "turn.start" /\ name \in {"/start", "text"}
             \/ op = "turn.steer" /\ name \in {"/steer", "text"}
             \/ op = "turn.interrupt" /\ name = "/interrupt"
      PROVE  Issued
  <2>1. \E t \in Turn \cup {NoTurn} : /\ request' = [op |-> op, thread |-> current, turn |-> t]
                                      /\ Begin(name, current) /\ current # NoThread
    BY <1>1, <1>4 DEF OnThread, OnTurn, Send
  <2> QED
    BY <1>1, <1>4, <2>1 DEF Begin, Issued, Request, Op
<1> QED
  BY <1>2, <1>3, <1>4 DEF Issue, RunOnce, SendText

LEMMA TypeIssue ==
    ASSUME SessionTypeOK, Issue PROVE SessionTypeOK'
<1>1. Issued
  BY IssueCases
<1>2. command' \in CommandNames
  BY <1>1 DEF Issued, CommandNames, OneShot
<1>3. target' \in Thread \cup {NoThread}
  BY <1>1 DEF Issued, SessionTypeOK
<1> QED
  BY <1>1, <1>2, <1>3 DEF Issued, SessionTypeOK, gateway, feeds, view

LEMMA TypeResume ==
    ASSUME SessionTypeOK, CallsFit, Resume PROVE SessionTypeOK'
<1>1. /\ answer \in Reply /\ answer # Nothing /\ answer' = Nothing
      /\ answer.thread \in Thread \cup {NoThread} /\ answer.turn \in Turn \cup {NoTurn}
      /\ UNCHANGED <<threads, turnThread, turnStatus, feeds, wire, notifications>>
  BY DEF Resume, SessionTypeOK, Reply
<1>2. ASSUME request' \in Request \cup {Nothing}, target' \in Thread \cup {NoThread},
             command' \in CommandNames \cup {"prompt", "waiting", "exited"},
             {snapshot', active', own'} \subseteq Turn \cup {NoTurn},
             current' \in Thread \cup {NoThread}, shared' \subseteq threads,
             finished' = finished, rejoined' \in BOOLEAN
      PROVE  SessionTypeOK'
  BY <1>1, <1>2 DEF SessionTypeOK, feeds
<1>3. /\ target \in Thread \cup {NoThread} /\ current \in Thread \cup {NoThread}
      /\ snapshot \in Turn \cup {NoTurn} /\ active \in Turn \cup {NoTurn}
      /\ own \in Turn \cup {NoTurn} /\ shared \subseteq threads /\ rejoined \in BOOLEAN
      /\ command \in CommandNames \cup {"prompt", "waiting", "exited"}
      /\ request \in Request \cup {Nothing}
  BY DEF SessionTypeOK
<1>4. \A op \in Op, th \in Thread \cup {NoThread} :
          [op |-> op, thread |-> th, turn |-> NoTurn] \in Request
  BY DEF Request
<1>5. {"thread.get", "thread.subscribe", "turn.start"} \subseteq Op
  BY DEF Op
<1>6. CASE ThreadCreated
  <2>1. request' \in Request
    BY <1>1, <1>4, <1>5, <1>6 DEF ThreadCreated, Send
  <2> QED
    BY <1>1, <1>2, <1>3, <1>6, <2>1 DEF ThreadCreated, view
<1>7. CASE SnapshotRead
  <2>1. request' \in Request
    BY <1>3, <1>4, <1>5, <1>7 DEF SnapshotRead, Send
  <2> QED
    BY <1>1, <1>2, <1>3, <1>7, <2>1 DEF SnapshotRead, view
<1>8. CASE ThreadEntered
  <2>1. request' \in Request \cup {Nothing}
    BY <1>3, <1>4, <1>5, <1>8 DEF ThreadEntered, Send
  <2>2. command' \in CommandNames \cup {"prompt", "waiting", "exited"}
    BY <1>3, <1>8 DEF ThreadEntered, Finish
  <2>3. target \in threads /\ shared' \subseteq shared \cup {target}
    <3>1. Replied(answer)
      BY <1>1 DEF Replied
    <3> QED
      BY <1>1, <1>8, <3>1 DEF ThreadEntered, CallsFit, Fits
  <2>4. rejoined' \in BOOLEAN
    BY <1>8 DEF ThreadEntered
  <2> QED
    BY <1>2, <1>3, <1>8, <2>1, <2>2, <2>3, <2>4 DEF ThreadEntered
<1>9. CASE TurnStarted
  <2>1. command' \in CommandNames \cup {"prompt", "waiting", "exited"}
    BY <1>9 DEF TurnStarted
  <2>2. active' \in Turn \cup {NoTurn} /\ own' \in Turn \cup {NoTurn}
    BY <1>1, <1>3, <1>9 DEF TurnStarted
  <2> QED
    BY <1>2, <1>3, <1>9, <2>1, <2>2 DEF TurnStarted
<1>10. CASE CommandEnds \/ CommandFails
  <2>1. command' \in CommandNames \cup {"prompt", "waiting", "exited"}
    BY <1>10 DEF CommandEnds, CommandFails, Finish
  <2> QED
    BY <1>2, <1>3, <1>10, <2>1 DEF CommandEnds, CommandFails, view
<1> QED
  BY <1>6, <1>7, <1>8, <1>9, <1>10 DEF Resume

-----------------------------------------------------------------------------
(* One reply at a time.                                                    *)

\* Where nothing is sent or answered, the same replies are under way.
RepliesKept == \A r \in Reply : Replied(r)' => Replied(r)

LEMMA FlightKept ==
    ASSUME OneInFlight, UNCHANGED <<request, wire, answer>>,
           command' = command \/ (command = "waiting" /\ command' = "exited")
    PROVE  OneInFlight' /\ RepliesKept
BY DEF OneInFlight, NoReply, RepliesKept, Replied, Resting

LEMMA FlightForward ==
    ASSUME SessionTypeOK, OneInFlight, NEW th \in Thread, Forward(th)
    PROVE  OneInFlight' /\ RepliesKept
<1> DEFINE e == Head(forwarding[th])
<1>1. e \in Event /\ wire \in Seq(Reply \cup Event) /\ wire' = Append(wire, e)
  <2>1. forwarding[th] \in Seq(Event) /\ forwarding[th] # <<>>
    BY DEF SessionTypeOK, Forward
  <2> QED
    BY <2>1, TailFacts DEF SessionTypeOK, Forward
<1>2. ~IsReply(e)
  BY <1>1, FrameKinds DEF IsReply
<1> HIDE DEF e
<1>3. \A k \in DOMAIN wire' : IsReply(wire'[k]) => k \in DOMAIN wire /\ wire'[k] = wire[k]
  BY <1>1, <1>2
<1>4. UNCHANGED <<request, answer, command>>
  BY DEF Forward, task
<1>5. OneInFlight'
  BY <1>3, <1>4 DEF OneInFlight, NoReply
<1>6. RepliesKept
  BY <1>3, <1>4 DEF RepliesKept, Replied
<1> QED
  BY <1>5, <1>6

LEMMA FlightDispatch ==
    ASSUME SessionTypeOK, OneInFlight, Dispatch
    PROVE  OneInFlight' /\ RepliesKept
<1>1. /\ wire \in Seq(Reply \cup Event) /\ wire # <<>> /\ wire' = Tail(wire)
      /\ UNCHANGED <<request, command>>
  BY DEF SessionTypeOK, Dispatch, task
<1>2. /\ Head(wire) = wire[1] /\ 1 \in DOMAIN wire
      /\ \A k \in DOMAIN wire' : k + 1 \in DOMAIN wire /\ wire'[k] = wire[k + 1] /\ k + 1 # 1
  BY <1>1, TailFacts
<1>3. CASE ~IsReply(wire[1])
  <2>1. answer' = answer
    BY <1>2, <1>3 DEF Dispatch, IsReply
  <2>2. OneInFlight'
    <3>1. \A j, k \in DOMAIN wire' : j + 1 = k + 1 => j = k
      BY <1>1
    <3> QED
      BY <1>1, <1>2, <2>1, <3>1 DEF OneInFlight, NoReply
  <2>3. RepliesKept
    BY <1>2, <2>1 DEF RepliesKept, Replied
  <2> QED
    BY <2>2, <2>3
<1>4. CASE IsReply(wire[1])
  <2>1. answer' = wire[1] /\ answer = Nothing /\ request = Nothing /\ command \notin Resting
    BY <1>2, <1>4 DEF Dispatch, IsReply, OneInFlight, NoReply
  <2>2. \A k \in DOMAIN wire' : ~IsReply(wire'[k])
    BY <1>2, <1>4 DEF OneInFlight
  <2>3. OneInFlight'
    BY <1>1, <2>1, <2>2 DEF OneInFlight, NoReply
  <2>4. RepliesKept
    BY <1>2, <1>4, <2>1, <2>2 DEF RepliesKept, Replied
  <2> QED
    BY <2>3, <2>4
<1> QED
  BY <1>3, <1>4

\* The gateway's reply is the only one.
LEMMA FlightServe ==
    ASSUME SessionTypeOK, OneInFlight, NEW r \in Reply, ServedWith(r)
    PROVE  /\ OneInFlight' /\ \A x \in Reply : Replied(x)' => x = r
           /\ \A x \in Reply : ~Replied(x)
<1>1. /\ request # Nothing /\ request' = Nothing /\ UNCHANGED <<answer, command>>
      /\ wire \in Seq(Reply \cup Event) /\ wire' = Append(wire, r)
      /\ answer = Nothing /\ NoReply /\ command \notin Resting
  BY DEF SessionTypeOK, ServedWith, task, OneInFlight
<1>2. \A k \in DOMAIN wire' : IsReply(wire'[k]) => k = Len(wire) + 1 /\ wire'[k] = r
  BY <1>1, AppendFacts DEF NoReply
<1> QED
  BY <1>1, <1>2 DEF OneInFlight, NoReply, Replied

\* The command goes on with the only reply there is, and sends at most one request.
LEMMA FlightResume ==
    ASSUME SessionTypeOK, OneInFlight, Resume
    PROVE  /\ OneInFlight' /\ \A x \in Reply : ~Replied(x)'
           /\ answer \in Reply /\ Replied(answer) /\ request = Nothing /\ NoReply
           /\ command \notin Resting
<1>1. /\ answer # Nothing /\ answer' = Nothing /\ answer \in Reply /\ UNCHANGED wire
  BY DEF Resume, SessionTypeOK
<1>2. request = Nothing /\ NoReply /\ command \notin Resting
  BY <1>1 DEF OneInFlight
<1>3. command' \in Resting => request' = request
  BY <1>2 DEF Resume, ThreadCreated, SnapshotRead, ThreadEntered, TurnStarted, CommandEnds,
              CommandFails
<1> QED
  BY <1>1, <1>2, <1>3 DEF OneInFlight, NoReply, Replied

LEMMA FlightIssue ==
    ASSUME SessionTypeOK, OneInFlight, Issued
    PROVE  /\ OneInFlight' /\ \A x \in Reply : ~Replied(x)'
           /\ request' \in Request /\ request' # Nothing /\ command' \notin Resting
<1>1. request = Nothing /\ answer = Nothing /\ NoReply /\ UNCHANGED <<wire, answer>>
  BY DEF Issued, OneInFlight, Resting
<1>2. command' \notin Resting /\ request' \in Request /\ request' # Nothing
  BY NothingAssumption DEF Issued, Resting
<1> QED
  BY <1>1, <1>2 DEF OneInFlight, NoReply, Replied

-----------------------------------------------------------------------------
(* The gateway's turns, and the events on their way.                       *)

\* A turn stays in its thread, and what has ended stays so.
GatewayStays ==
    /\ threads \subseteq threads'
    /\ \A t \in Turn : turnThread[t] # NoThread => turnThread'[t] = turnThread[t]
    /\ \A t \in Turn : turnStatus[t] = "ended" => turnStatus'[t] = "ended"

LEMMA TurnsKept ==
    ASSUME SessionTypeOK, TurnsInv, UNCHANGED <<turnThread, turnStatus>>, threads \subseteq threads'
    PROVE  TurnsInv' /\ GatewayStays
BY DEF TurnsInv, GatewayStays

LEMMA TurnsOpened ==
    ASSUME SessionTypeOK, TurnsInv, NEW th \in threads, NEW t \in Turn, OpenTurn(th, t),
           threads' = threads
    PROVE  TurnsInv' /\ GatewayStays
<1>1. th \in Thread /\ th # NoThread
  BY SessionAssumption DEF SessionTypeOK
<1>2. /\ turnStatus[t] = "absent" /\ turnThread'[t] = th /\ turnStatus'[t] = "running"
      /\ \A u \in Turn \ {t} : turnThread'[u] = turnThread[u] /\ turnStatus'[u] = turnStatus[u]
      /\ \A u \in Turn : ~(turnThread[u] = th /\ turnStatus[u] = "running")
  BY <1>1, Opened DEF Running
<1>3. turnThread[t] = NoThread
  BY <1>2 DEF TurnsInv
<1>4. GatewayStays
  BY <1>2, <1>3 DEF GatewayStays
<1>5. TurnsInv'
  BY <1>1, <1>2 DEF TurnsInv
<1> QED
  BY <1>4, <1>5

LEMMA TurnsEnded ==
    ASSUME SessionTypeOK, TurnsInv, NEW t \in Turn, TurnEnds(t)
    PROVE  /\ TurnsInv' /\ GatewayStays
           /\ turnThread[t] \in threads /\ turnStatus'[t] = "ended" /\ turnStatus[t] = "running"
           /\ \A u \in Turn \ {t} : turnStatus'[u] = turnStatus[u]
           /\ turnThread' = turnThread /\ threads' = threads
<1>1. /\ turnStatus[t] = "running" /\ UNCHANGED <<threads, turnThread>>
      /\ turnStatus' = [turnStatus EXCEPT ![t] = "ended"]
      /\ turnStatus \in [Turn -> {"absent", "running", "ended"}]
  BY DEF TurnEnds, SessionTypeOK
<1>2. turnStatus'[t] = "ended" /\ \A u \in Turn \ {t} : turnStatus'[u] = turnStatus[u]
  BY <1>1
<1>3. turnThread[t] \in threads
  BY <1>1 DEF TurnsInv
<1>4. TurnsInv'
  BY <1>1, <1>2 DEF TurnsInv
<1>5. GatewayStays
  BY <1>1, <1>2 DEF GatewayStays
<1> QED
  BY <1>1, <1>2, <1>3, <1>4, <1>5

\* No event enters the wire or the notifications.
FramesKept ==
    \A e \in Event :
        /\ (\E k \in DOMAIN wire' : wire'[k] = e) => \E k \in DOMAIN wire : wire[k] = e
        /\ notifications' = notifications

\* No event enters a forwarder's queue.
QueuesKept ==
    \A th \in Thread : \A k \in DOMAIN forwarding'[th] :
        \E j \in DOMAIN forwarding[th] : forwarding'[th][k] = forwarding[th][j]

NoNewEvents == \A e \in Event : Pending(e)' => Pending(e)

LEMMA EventsKept ==
    ASSUME SessionTypeOK, SessionTypeOK', EventsInv, GatewayStays, NoNewEvents, QueuesKept
    PROVE  EventsInv'
<1>1. ASSUME NEW th \in Thread, NEW k \in DOMAIN forwarding'[th]
      PROVE  turnThread'[forwarding'[th][k].turn] = th
  <2>1. PICK j \in DOMAIN forwarding[th] : forwarding'[th][k] = forwarding[th][j]
    BY <1>1 DEF QueuesKept
  <2>2. forwarding[th][j] \in Event
    BY DEF SessionTypeOK
  <2>3. turnThread[forwarding[th][j].turn] = th /\ forwarding[th][j].turn \in Turn
    BY <2>2 DEF EventsInv, Event
  <2>4. Pending(forwarding[th][j])
    BY DEF Pending
  <2>5. turnThread[forwarding[th][j].turn] # NoThread
    BY <2>2, <2>4 DEF EventsInv
  <2> QED
    BY <2>1, <2>3, <2>5 DEF GatewayStays
<1>2. ASSUME NEW e \in Event, Pending(e)'
      PROVE  /\ turnThread'[e.turn] # NoThread
             /\ e.type = "turn.ended" => turnStatus'[e.turn] = "ended"
  BY <1>2 DEF NoNewEvents, EventsInv, GatewayStays, Event
<1> QED
  BY <1>1, <1>2 DEF EventsInv

\* A published event is of the thread it is published for.
LEMMA EventsPublished ==
    ASSUME SessionTypeOK, EventsInv, GatewayStays, FramesKept,
           NEW th \in Thread, NEW t \in Turn, NEW type \in {"turn.started", "turn.ended"},
           Publish(th, type, t), turnThread'[t] = th, th # NoThread,
           type = "turn.ended" => turnStatus'[t] = "ended"
    PROVE  /\ EventsInv'
           /\ \A e \in Event : Pending(e)' =>
                 Pending(e) \/ (th \in subscribed /\ e = [type |-> type, turn |-> t])
<1> DEFINE new == [type |-> type, turn |-> t]
<1>1. new \in Event /\ new.turn = t /\ new.type = type
  BY DEF Event
<1>2. /\ \A x \in Thread \ {th} : forwarding'[x] = forwarding[x]
      /\ th \in subscribed => forwarding'[th] = Append(forwarding[th], new)
      /\ th \notin subscribed => forwarding'[th] = forwarding[th]
  BY DEF Publish, SessionTypeOK
<1> HIDE DEF new
<1>3. \A x \in Thread : forwarding[x] \in Seq(Event)
  BY DEF SessionTypeOK
<1>4. ASSUME NEW x \in Thread, NEW k \in DOMAIN forwarding'[x]
      PROVE  \/ k \in DOMAIN forwarding[x] /\ forwarding'[x][k] = forwarding[x][k]
             \/ x = th /\ th \in subscribed /\ forwarding'[x][k] = new
  <2>1. CASE x # th \/ th \notin subscribed
    BY <1>2, <2>1
  <2>2. CASE x = th /\ th \in subscribed
    BY <1>1, <1>2, <1>3, <2>2, AppendFacts
  <2> QED
    BY <2>1, <2>2
<1>5. ASSUME NEW e \in Event, Pending(e)' PROVE Pending(e) \/ (th \in subscribed /\ e = new)
  BY <1>4, <1>5 DEF Pending, FramesKept
<1>6. ASSUME NEW x \in Thread, NEW k \in DOMAIN forwarding'[x]
      PROVE  turnThread'[forwarding'[x][k].turn] = x
  <2>1. CASE k \in DOMAIN forwarding[x] /\ forwarding'[x][k] = forwarding[x][k]
    <3>1. forwarding[x][k] \in Event
      BY <1>3, <2>1
    <3>2. turnThread[forwarding[x][k].turn] = x /\ forwarding[x][k].turn \in Turn
      BY <2>1, <3>1 DEF EventsInv, Event
    <3>3. Pending(forwarding[x][k])
      BY <2>1 DEF Pending
    <3>4. turnThread[forwarding[x][k].turn] # NoThread
      BY <3>1, <3>3 DEF EventsInv
    <3> QED
      BY <2>1, <3>2, <3>4 DEF GatewayStays
  <2>2. CASE x = th /\ forwarding'[x][k] = new
    BY <1>1, <2>2
  <2> QED
    BY <1>4, <2>1, <2>2
<1>7. ASSUME NEW e \in Event, Pending(e)'
      PROVE  /\ turnThread'[e.turn] # NoThread
             /\ e.type = "turn.ended" => turnStatus'[e.turn] = "ended"
  <2>1. CASE Pending(e)
    BY <2>1 DEF EventsInv, GatewayStays, Event
  <2>2. CASE e = new
    BY <1>1, <2>2
  <2> QED
    BY <1>5, <1>7, <2>1, <2>2
<1>8. EventsInv'
  BY <1>6, <1>7 DEF EventsInv
<1> QED
  BY <1>5, <1>8 DEF new

\* An event that is passed on is the one that was waiting.
LEMMA EventForwarded ==
    ASSUME SessionTypeOK, NEW th \in Thread, Forward(th)
    PROVE  NoNewEvents /\ QueuesKept
<1> DEFINE q == forwarding[th]
<1>1. q \in Seq(Event) /\ q # <<>> /\ forwarding \in [Thread -> Seq(Event)]
  BY DEF SessionTypeOK, Forward
<1>2. /\ forwarding'[th] = Tail(q) /\ wire' = Append(wire, Head(q))
      /\ \A x \in Thread \ {th} : forwarding'[x] = forwarding[x]
      /\ notifications' = notifications
  BY <1>1 DEF Forward
<1>3. /\ Head(q) = q[1] /\ 1 \in DOMAIN q /\ Head(q) \in Event
      /\ \A k \in DOMAIN Tail(q) : k + 1 \in DOMAIN q /\ Tail(q)[k] = q[k + 1]
  BY <1>1, TailFacts
<1>4. QueuesKept
  <2> SUFFICES ASSUME NEW x \in Thread, NEW k \in DOMAIN forwarding'[x]
               PROVE  \E j \in DOMAIN forwarding[x] : forwarding'[x][k] = forwarding[x][j]
    BY DEF QueuesKept
  <2>1. CASE x = th
    BY <1>2, <1>3, <2>1
  <2>2. CASE x # th
    BY <1>2, <2>2
  <2> QED
    BY <2>1, <2>2
<1>5. \A k \in DOMAIN wire' : \/ k \in DOMAIN wire /\ wire'[k] = wire[k]
                              \/ wire'[k] = q[1]
  <2>1. wire \in Seq(Reply \cup Event)
    BY DEF SessionTypeOK
  <2> QED
    BY <1>2, <1>3, <2>1, AppendFacts
<1>6. NoNewEvents
  BY <1>2, <1>3, <1>4, <1>5 DEF NoNewEvents, Pending, QueuesKept
<1> QED
  BY <1>4, <1>6

LEMMA EventDispatched ==
    ASSUME SessionTypeOK, Dispatch PROVE NoNewEvents /\ QueuesKept
<1>1. /\ wire \in Seq(Reply \cup Event) /\ wire # <<>> /\ wire' = Tail(wire)
      /\ notifications \in Seq(Event) /\ UNCHANGED forwarding
  BY DEF SessionTypeOK, Dispatch, feeds
<1>2. /\ Head(wire) = wire[1] /\ 1 \in DOMAIN wire /\ wire[1] \in Reply \cup Event
      /\ \A k \in DOMAIN wire' : k + 1 \in DOMAIN wire /\ wire'[k] = wire[k + 1]
  BY <1>1, TailFacts
<1>3. \A k \in DOMAIN notifications' :
          \/ k \in DOMAIN notifications /\ notifications'[k] = notifications[k]
          \/ notifications'[k] = wire[1]
  <2>1. CASE notifications' = notifications
    BY <2>1
  <2>2. CASE notifications' # notifications
    <3>1. notifications' = Append(notifications, wire[1]) /\ wire[1] \in Event
      BY <1>2, <2>2, FrameKinds DEF Dispatch
    <3> QED
      BY <1>1, <3>1, AppendFacts
  <2> QED
    BY <2>1, <2>2
<1>4. QueuesKept
  BY <1>1 DEF QueuesKept
<1>5. NoNewEvents
  BY <1>1, <1>2, <1>3 DEF NoNewEvents, Pending
<1> QED
  BY <1>4, <1>5

LEMMA EventHandled ==
    ASSUME SessionTypeOK, HandleEvent PROVE NoNewEvents /\ QueuesKept
<1>1. /\ notifications \in Seq(Event) /\ notifications # <<>>
      /\ notifications' = Tail(notifications) /\ UNCHANGED <<forwarding, wire>>
  BY DEF SessionTypeOK, HandleEvent, feeds
<1>2. \A k \in DOMAIN notifications' :
          k + 1 \in DOMAIN notifications /\ notifications'[k] = notifications[k + 1]
  BY <1>1, TailFacts
<1> QED
  BY <1>1, <1>2 DEF NoNewEvents, QueuesKept, Pending

LEMMA EventsUntouched ==
    ASSUME UNCHANGED <<wire, notifications, forwarding>>
    PROVE  NoNewEvents /\ QueuesKept /\ FramesKept
BY DEF NoNewEvents, QueuesKept, FramesKept, Pending

\* A reply is no event, and a new subscription starts with an empty queue.
LEMMA EventsServed ==
    ASSUME SessionTypeOK, NEW r \in Reply, ServedWith(r)
    PROVE  /\ FramesKept
           /\ UNCHANGED forwarding \/ Resubscribed(r) => NoNewEvents /\ QueuesKept
<1>1. wire \in Seq(Reply \cup Event) /\ wire' = Append(wire, r) /\ UNCHANGED notifications
  BY DEF SessionTypeOK, ServedWith
<1>2. \A e \in Event : e # r
  BY FrameKinds
<1>3. \A k \in DOMAIN wire' : (k \in DOMAIN wire /\ wire'[k] = wire[k]) \/ wire'[k] = r
  BY <1>1, AppendFacts
<1>4. FramesKept
  BY <1>1, <1>2, <1>3 DEF FramesKept
<1>5. ASSUME UNCHANGED forwarding \/ Resubscribed(r) PROVE QueuesKept
  <2>1. \A th \in Thread : forwarding'[th] = forwarding[th] \/ forwarding'[th] = <<>>
    BY <1>5 DEF Resubscribed, SessionTypeOK
  <2> QED
    BY <2>1 DEF QueuesKept
<1>6. QueuesKept => NoNewEvents
  BY <1>4 DEF QueuesKept, NoNewEvents, FramesKept, Pending
<1> QED
  BY <1>4, <1>5, <1>6

-----------------------------------------------------------------------------
(* Every step keeps the requests, the replies, the turns and the events.   *)

LEMMA FitsStay ==
    ASSUME SessionTypeOK, GatewayStays, NEW op, NEW th, Fits(op, th),
           UNCHANGED <<command, target, current, snapshot>>
    PROVE  Fits(op, th)'
<1>1. threads \subseteq threads' /\ NoThread \notin threads /\ snapshot \in Turn \cup {NoTurn}
  BY SessionAssumption DEF SessionTypeOK, GatewayStays
<1>2. snapshot # NoTurn /\ turnThread[snapshot] = target /\ target \in threads
          => turnThread'[snapshot] = target
  BY <1>1 DEF GatewayStays
<1> QED
  BY <1>1, <1>2 DEF Fits

LEMMA ToldStays ==
    ASSUME SessionTypeOK, GatewayStays, NEW r \in Reply, Fits(r.op, r.thread), Told(r),
           subscribed \subseteq subscribed'
    PROVE  Told(r)'
<1>1. r.turn \in Turn \cup {NoTurn} /\ threads \subseteq threads' /\ NoThread \notin threads
  BY SessionAssumption DEF Reply, GatewayStays, SessionTypeOK
<1>2. r.op \in {"thread.get", "turn.start"} => r.thread # NoThread
  BY <1>1 DEF Fits
<1> QED
  BY <1>1, <1>2 DEF Told, GatewayStays

LEMMA CallsKept ==
    ASSUME BaseInv, GatewayStays, RepliesKept,
           UNCHANGED <<request, target, current, snapshot, subscribed>>,
           command' = command \/ (command = "waiting" /\ command' = "exited")
    PROVE  CallsFit'
<1>1. CASE command' = command
  <2>1. ASSUME request # Nothing PROVE Fits(request.op, request.thread)'
    BY <1>1, <2>1, FitsStay DEF BaseInv, CallsFit
  <2>2. ASSUME NEW r \in Reply, Replied(r)' PROVE Fits(r.op, r.thread)' /\ Told(r)'
    <3>1. Fits(r.op, r.thread) /\ Told(r)
      BY <2>2 DEF BaseInv, CallsFit, RepliesKept
    <3> QED
      BY <1>1, <3>1, FitsStay, ToldStays DEF BaseInv
  <2> QED
    BY <2>1, <2>2 DEF CallsFit
<1>2. CASE command = "waiting"
  <2>1. request = Nothing /\ \A r \in Reply : ~Replied(r)
    BY <1>2 DEF BaseInv, OneInFlight, NoReply, Resting, Replied
  <2> QED
    BY <2>1 DEF CallsFit, RepliesKept
<1> QED
  BY <1>1, <1>2

LEMMA BaseOther ==
    ASSUME BaseInv, NEW th \in Thread, NEW t \in Turn, OtherStarts(th, t)
    PROVE  /\ BaseInv' /\ GatewayStays /\ RepliesKept
           /\ \A e \in Event : Pending(e)' =>
                 Pending(e) \/ (th \in subscribed /\ e = [type |-> "turn.started", turn |-> t])
<1> USE DEF task, view
<1>1. /\ SessionTypeOK' /\ OneInFlight' /\ RepliesKept
  BY TypePublish, FlightKept DEF BaseInv, OtherStarts
<1>2. th \in threads /\ OpenTurn(th, t) /\ threads' = threads /\ th # NoThread
  BY SessionAssumption DEF OtherStarts, BaseInv, SessionTypeOK
<1>3. TurnsInv' /\ GatewayStays
  BY <1>2, TurnsOpened DEF BaseInv
<1>4. Publish(th, "turn.started", t) /\ turnThread'[t] = th
  BY <1>2, Opened DEF BaseInv
<1>5. FramesKept
  BY DEF FramesKept, OtherStarts
<1>6. /\ EventsInv'
      /\ \A e \in Event : Pending(e)' =>
            Pending(e) \/ (th \in subscribed /\ e = [type |-> "turn.started", turn |-> t])
  BY <1>2, <1>3, <1>4, <1>5, EventsPublished DEF BaseInv
<1>7. CallsFit'
  BY <1>1, <1>3, CallsKept DEF OtherStarts
<1> QED
  BY <1>1, <1>2, <1>3, <1>6, <1>7 DEF BaseInv, OtherStarts

LEMMA BaseEnds ==
    ASSUME BaseInv, NEW t \in Turn, TurnEnds(t)
    PROVE  /\ BaseInv' /\ GatewayStays /\ RepliesKept
           /\ \A e \in Event : Pending(e)' =>
                 \/ Pending(e)
                 \/ turnThread[t] \in subscribed /\ e = [type |-> "turn.ended", turn |-> t]
<1> USE DEF task, view
<1>1. /\ TurnsInv' /\ GatewayStays /\ turnThread[t] \in threads /\ turnStatus'[t] = "ended"
      /\ turnThread' = turnThread /\ threads' = threads
  BY TurnsEnded DEF BaseInv
<1>2. turnThread[t] \in Thread /\ turnThread[t] # NoThread
  BY <1>1, SessionAssumption DEF BaseInv, SessionTypeOK
<1>3. SessionTypeOK' /\ OneInFlight' /\ RepliesKept
  BY <1>2, TypePublish, FlightKept DEF BaseInv, TurnEnds
<1>4. FramesKept
  BY DEF FramesKept, TurnEnds
<1>5. Publish(turnThread[t], "turn.ended", t)
  BY DEF TurnEnds
<1>6. /\ EventsInv'
      /\ \A e \in Event : Pending(e)' =>
            \/ Pending(e)
            \/ turnThread[t] \in subscribed /\ e = [type |-> "turn.ended", turn |-> t]
  BY <1>1, <1>2, <1>4, <1>5, EventsPublished DEF BaseInv
<1>7. CallsFit'
  BY <1>1, <1>3, CallsKept DEF TurnEnds
<1> QED
  BY <1>1, <1>3, <1>6, <1>7 DEF BaseInv, TurnEnds

LEMMA BaseFrames ==
    ASSUME BaseInv,
           \/ \E th \in Thread : Forward(th)
           \/ Dispatch \/ HandleEvent
    PROVE  BaseInv' /\ GatewayStays /\ RepliesKept /\ NoNewEvents
<1> USE DEF gateway, feeds, task, view
<1>1. SessionTypeOK' /\ OneInFlight' /\ RepliesKept
  <2>1. ASSUME NEW th \in Thread, Forward(th) PROVE SessionTypeOK' /\ OneInFlight' /\ RepliesKept
    BY <2>1, TypeForward, FlightForward DEF BaseInv
  <2>2. CASE Dispatch
    BY <2>2, TypeDispatch, FlightDispatch DEF BaseInv
  <2>3. CASE HandleEvent
    <3>1. /\ UNCHANGED <<request, wire, answer>>
          /\ command' = command \/ (command = "waiting" /\ command' = "exited")
      BY <2>3 DEF HandleEvent, StopsAt
    <3> QED
      BY <2>3, <3>1, TypeHandle, FlightKept DEF BaseInv
  <2> QED
    BY <2>1, <2>2, <2>3
<1>2. /\ UNCHANGED <<gateway, request, target, current, snapshot, subscribed>>
      /\ command' = command \/ (command = "waiting" /\ command' = "exited")
  BY DEF Forward, Dispatch, HandleEvent, StopsAt
<1>3. TurnsInv' /\ GatewayStays
  BY <1>2, TurnsKept DEF BaseInv
<1>4. NoNewEvents /\ QueuesKept
  BY EventForwarded, EventDispatched, EventHandled DEF BaseInv
<1>5. EventsInv'
  BY <1>1, <1>3, <1>4, EventsKept DEF BaseInv
<1>6. CallsFit'
  BY <1>1, <1>2, <1>3, CallsKept
<1> QED
  BY <1>1, <1>2, <1>3, <1>4, <1>5, <1>6 DEF BaseInv

LEMMA BaseIssue ==
    ASSUME BaseInv, Issue
    PROVE  /\ BaseInv' /\ GatewayStays /\ NoNewEvents /\ Issued
           /\ \A x \in Reply : ~Replied(x)'
           /\ request' # Nothing
<1> USE DEF gateway, feeds, view
<1>1. Issued /\ SessionTypeOK'
  BY IssueCases, TypeIssue DEF BaseInv
<1>2. OneInFlight' /\ (\A x \in Reply : ~Replied(x)') /\ request' # Nothing
  BY <1>1, FlightIssue DEF BaseInv
<1>3. UNCHANGED <<gateway, subscribed, forwarding, wire, notifications, current, snapshot>>
  BY <1>1 DEF Issued
<1>4. TurnsInv' /\ GatewayStays
  BY <1>3, TurnsKept DEF BaseInv
<1>5. EventsInv' /\ NoNewEvents
  BY <1>1, <1>3, <1>4, EventsUntouched, EventsKept DEF BaseInv
<1>6. Fits(request.op, request.thread)'
  <2>1. shared \subseteq threads /\ current \in threads \cup {NoThread}
    BY DEF BaseInv, SessionTypeOK
  <2> QED
    BY <1>1, <1>3, <2>1 DEF Issued, Fits, Entering
<1>7. CallsFit'
  BY <1>2, <1>6 DEF CallsFit
<1> QED
  BY <1>1, <1>2, <1>3, <1>4, <1>5, <1>7 DEF BaseInv

LEMMA BaseServe ==
    ASSUME BaseInv, NEW r \in Reply, Handled, ServedBy(r)
    PROVE  /\ BaseInv' /\ GatewayStays
           /\ \A x \in Reply : Replied(x)' => x = r
           /\ \A x \in Reply : ~Replied(x)
           /\ \A e \in Event : Pending(e)' =>
                 \/ Pending(e)
                 \/ /\ Started(r) /\ r.thread \in subscribed
                    /\ e = [type |-> "turn.started", turn |-> r.turn]
<1> USE DEF gateway, feeds, task, view
<1>1. SessionTypeOK' /\ ServedWith(r)
  BY TypeServe DEF BaseInv, ServedBy
<1>2. OneInFlight' /\ (\A x \in Reply : Replied(x)' => x = r) /\ \A x \in Reply : ~Replied(x)
  BY <1>1, FlightServe DEF BaseInv
<1>3. /\ request # Nothing /\ request' = Nothing /\ r.op = request.op
      /\ UNCHANGED <<shared, command, target, snapshot, current>>
      /\ Fits(request.op, request.thread)
  BY <1>1 DEF ServedWith, BaseInv, CallsFit
<1>4. FramesKept /\ (UNCHANGED forwarding \/ Resubscribed(r) => NoNewEvents /\ QueuesKept)
  BY <1>1, EventsServed DEF BaseInv
<1>5. ASSUME TurnsInv', EventsInv', GatewayStays, Fits(r.op, r.thread)', Told(r)' PROVE BaseInv'
  <2>1. CallsFit'
    BY <1>2, <1>3, <1>5 DEF CallsFit
  <2>2. current' \in threads' \cup {NoThread}
    BY <1>3, <1>5 DEF BaseInv, GatewayStays
  <2> QED
    BY <1>1, <1>2, <1>5, <2>1, <2>2 DEF BaseInv
<1>6. ASSUME UNCHANGED <<turnThread, turnStatus>>, threads \subseteq threads',
             UNCHANGED forwarding \/ Resubscribed(r), Told(r)',
             r.thread = request.thread \/ r.op = "thread.create"
      PROVE  BaseInv' /\ GatewayStays /\ NoNewEvents
  <2>1. TurnsInv' /\ GatewayStays
    BY <1>6, TurnsKept DEF BaseInv
  <2>2. EventsInv' /\ NoNewEvents
    BY <1>1, <1>4, <1>6, <2>1, EventsKept DEF BaseInv
  <2>3. \A th : th = request.thread => Fits(r.op, th)'
    BY <1>3, <2>1, FitsStay DEF BaseInv
  <2>4. Fits(r.op, r.thread)'
    <3>1. CASE r.thread = request.thread
      BY <2>3, <3>1
    <3>2. CASE r.op = "thread.create"
      BY <2>3, <3>2 DEF Fits
    <3> QED
      BY <1>6, <3>1, <3>2
  <2> QED
    BY <1>5, <1>6, <2>1, <2>2, <2>4
<1>7. CASE Created(r)
  BY <1>2, <1>6, <1>7 DEF Created, Told, NoNewEvents
<1>8. CASE Looked(r)
  BY <1>2, <1>6, <1>8 DEF Looked, Told, NoNewEvents, Running
<1>9. CASE Refused(r)
  BY <1>2, <1>6, <1>9 DEF Refused, Told, NoNewEvents
<1>10. CASE Resubscribed(r)
  BY <1>2, <1>6, <1>10 DEF Resubscribed, Told, NoNewEvents
<1>11. CASE Started(r)
  <2>1. /\ r.op = "turn.start" /\ r.thread = request.thread /\ r.turn \in Turn
        /\ OpenTurn(r.thread, r.turn) /\ threads' = threads
    BY <1>11 DEF Started
  <2>2. r.thread \in threads /\ r.thread \in Thread /\ r.thread # NoThread
    BY <1>3, <2>1, SessionAssumption DEF Fits, BaseInv, SessionTypeOK
  <2>3. TurnsInv' /\ GatewayStays
    BY <2>1, <2>2, TurnsOpened DEF BaseInv
  <2>4. Publish(r.thread, "turn.started", r.turn) /\ turnThread'[r.turn] = r.thread
    BY <2>1, <2>2, Opened DEF BaseInv
  <2>5. /\ EventsInv'
        /\ \A e \in Event : Pending(e)' =>
              \/ Pending(e)
              \/ r.thread \in subscribed /\ e = [type |-> "turn.started", turn |-> r.turn]
    BY <1>4, <2>1, <2>2, <2>3, <2>4, EventsPublished DEF BaseInv
  <2>6. Fits(r.op, r.thread)'
    BY <1>3, <2>1, <2>3, FitsStay DEF BaseInv
  <2>7. Told(r)'
    BY <2>1, <2>4 DEF Told
  <2> QED
    BY <1>2, <1>5, <1>11, <2>3, <2>5, <2>6, <2>7
<1> QED
  BY <1>2, <1>7, <1>8, <1>9, <1>10, <1>11 DEF ServedBy

LEMMA BaseResume ==
    ASSUME BaseInv, Resume
    PROVE  /\ BaseInv' /\ GatewayStays /\ NoNewEvents
           /\ \A x \in Reply : ~Replied(x)'
           /\ answer \in Reply /\ Replied(answer) /\ request = Nothing
           /\ Fits(answer.op, answer.thread) /\ Told(answer)
           /\ command \notin Resting
<1> USE DEF gateway, feeds, view
<1>1. /\ SessionTypeOK' /\ OneInFlight' /\ \A x \in Reply : ~Replied(x)'
      /\ answer \in Reply /\ Replied(answer) /\ request = Nothing /\ command \notin Resting
  BY TypeResume, FlightResume DEF BaseInv
<1>2. Fits(answer.op, answer.thread) /\ Told(answer)
  BY <1>1 DEF BaseInv, CallsFit
<1>3. UNCHANGED <<threads, turnThread, turnStatus, forwarding, wire, notifications>>
  BY DEF Resume
<1>4. TurnsInv' /\ GatewayStays
  BY <1>3, TurnsKept DEF BaseInv
<1>5. EventsInv' /\ NoNewEvents
  BY <1>1, <1>3, <1>4, EventsUntouched, EventsKept DEF BaseInv
<1> SUFFICES BaseInv'
  BY <1>1, <1>2, <1>4, <1>5
<1>6. ASSUME request' = Nothing, current' \in threads \cup {NoThread} PROVE BaseInv'
  <2>1. CallsFit'
    BY <1>1, <1>6 DEF CallsFit
  <2> QED
    BY <1>1, <1>3, <1>4, <1>5, <1>6, <2>1 DEF BaseInv
<1>7. ASSUME NEW op, NEW th, Send(op, th, NoTurn), Fits(op, th)',
             current' \in threads \cup {NoThread}
      PROVE  BaseInv'
  <2>1. request'.op = op /\ request'.thread = th
    BY <1>7 DEF Send
  <2>2. Fits(request.op, request.thread)'
    BY <1>7, <2>1
  <2>3. CallsFit'
    BY <1>1, <2>2 DEF CallsFit
  <2> QED
    BY <1>1, <1>3, <1>4, <1>5, <1>7, <2>3 DEF BaseInv
<1>8. current \in threads \cup {NoThread}
  BY DEF BaseInv
<1>9. CASE ThreadCreated
  <2>1. /\ command \in {"/new", "run_once"} /\ answer.thread \in threads
        /\ command = "run_once" => current = NoThread
        /\ target' = answer.thread /\ UNCHANGED <<command, current>>
    BY <1>2, <1>9 DEF ThreadCreated, Fits, Told
  <2>2. \A th : th = answer.thread => Fits("thread.get", th)'
    BY <1>3, <2>1 DEF Fits, Entering
  <2> QED
    BY <1>7, <1>8, <1>9, <2>1, <2>2 DEF ThreadCreated
<1>10. CASE SnapshotRead
  <2>1. /\ command \in Entering /\ target \in threads /\ answer.thread = target
        /\ answer.turn = NoTurn \/ turnThread[answer.turn] = target
        /\ command = "run_once" => current = NoThread
        /\ snapshot' = answer.turn /\ UNCHANGED <<command, current, target>>
    BY <1>2, <1>10 DEF SnapshotRead, Fits, Told
  <2>2. \A th : th = target => Fits("thread.subscribe", th)'
    BY <1>3, <2>1 DEF Fits, Entering
  <2> QED
    BY <1>7, <1>8, <1>10, <2>1, <2>2 DEF SnapshotRead
<1>11. CASE ThreadEntered
  <2>1. target \in threads /\ target # NoThread /\ current' = target /\ target' = target
    BY <1>2, <1>11, SessionAssumption DEF ThreadEntered, Fits, BaseInv, SessionTypeOK
  <2>2. CASE command = "run_once"
    <3>1. \A th : th = target => Fits("turn.start", th)'
      BY <1>11, <2>1, <2>2 DEF ThreadEntered, Fits
    <3> QED
      BY <1>7, <1>11, <2>1, <2>2, <3>1 DEF ThreadEntered
  <2>3. CASE command # "run_once"
    BY <1>1, <1>6, <1>11, <2>1, <2>3 DEF ThreadEntered
  <2> QED
    BY <2>2, <2>3
<1>12. CASE TurnStarted \/ CommandEnds \/ CommandFails
  BY <1>1, <1>6, <1>8, <1>12 DEF TurnStarted, CommandEnds, CommandFails
<1> QED
  BY <1>9, <1>10, <1>11, <1>12 DEF Resume

LEMMA BaseStutter ==
    ASSUME BaseInv, UNCHANGED vars PROVE BaseInv'
<1> USE DEF vars, gateway, feeds, task, view
<1>1. SessionTypeOK' /\ OneInFlight' /\ TurnsInv'
  BY DEF BaseInv, SessionTypeOK, OneInFlight, NoReply, TurnsInv
<1>2. GatewayStays /\ RepliesKept /\ NoNewEvents /\ QueuesKept
  BY DEF GatewayStays, RepliesKept, Replied, NoNewEvents, Pending, QueuesKept
<1>3. EventsInv'
  BY <1>1, <1>2, EventsKept DEF BaseInv
<1>4. CallsFit'
  BY <1>2, CallsKept
<1> QED
  BY <1>1, <1>3, <1>4 DEF BaseInv

LEMMA BaseInit == Init => BaseInv
<1> SUFFICES ASSUME Init PROVE BaseInv
  OBVIOUS
<1>1. SessionTypeOK
  <2>1. <<>> \in Seq(Event) /\ <<>> \in Seq(Reply \cup Event)
    OBVIOUS
  <2>2. forwarding \in [Thread -> Seq(Event)]
    BY <2>1 DEF Init
  <2> QED
    BY <2>1, <2>2, SessionAssumption DEF Init, SessionTypeOK
<1>2. OneInFlight /\ CallsFit
  BY DEF Init, OneInFlight, CallsFit, NoReply, Replied
<1>3. TurnsInv
  BY DEF Init, TurnsInv
<1>4. EventsInv
  BY DEF Init, EventsInv, Pending
<1> QED
  BY <1>1, <1>2, <1>3, <1>4 DEF Init, BaseInv

LEMMA BaseStep == BaseInv /\ [Next]_vars => BaseInv'
<1> SUFFICES ASSUME BaseInv, [Next]_vars PROVE BaseInv'
  OBVIOUS
<1>1. CASE Handled
  <2>1. PICK r \in Reply : ServedBy(r)
    BY <1>1, ServeCases DEF BaseInv
  <2> QED
    BY <1>1, <2>1, BaseServe
<1> QED
  BY <1>1, BaseStutter, BaseOther, BaseEnds, BaseFrames, BaseIssue, BaseResume DEF Next, Handled

-----------------------------------------------------------------------------
(* The turn that steer and interrupt name.                                 *)

ActiveInv == ActiveTurnIsOfThread /\ (current = NoThread => active = NoTurn)

LEMMA ActiveStep ==
    ASSUME BaseInv, ActiveInv, [Next]_vars PROVE ActiveInv'
<1> USE DEF vars, gateway, feeds, task, view
<1>1. ASSUME UNCHANGED <<active, current>>, GatewayStays PROVE ActiveInv'
  BY <1>1 DEF ActiveInv, ActiveTurnIsOfThread, BaseInv, SessionTypeOK, GatewayStays
<1>2. CASE UNCHANGED vars
  BY <1>2 DEF ActiveInv, ActiveTurnIsOfThread
<1>3. ASSUME NEW th \in Thread, NEW t \in Turn, OtherStarts(th, t) PROVE ActiveInv'
  BY <1>1, <1>3, BaseOther DEF OtherStarts
<1>4. ASSUME NEW t \in Turn, TurnEnds(t) PROVE ActiveInv'
  BY <1>1, <1>4, BaseEnds DEF TurnEnds
<1>5. ASSUME NEW th \in Thread, Forward(th) PROVE ActiveInv'
  BY <1>1, <1>5, BaseFrames DEF Forward
<1>6. CASE Handled
  <2>1. PICK r \in Reply : ServedBy(r)
    BY <1>6, ServeCases DEF BaseInv
  <2> QED
    BY <1>1, <1>6, <2>1, BaseServe DEF ServedBy, ServedWith
<1>7. CASE Dispatch
  BY <1>1, <1>7, BaseFrames DEF Dispatch
<1>8. CASE HandleEvent
  <2> DEFINE e == Head(notifications)
  <2>1. e \in Event /\ Pending(e)
    BY <1>8, TailFacts DEF HandleEvent, Pending, BaseInv, SessionTypeOK
  <2>2. e.turn \in Turn /\ turnThread[e.turn] # NoThread
    BY <2>1 DEF BaseInv, EventsInv, Event
  <2>3. /\ UNCHANGED <<turnThread, current>> /\ GatewayStays
        /\ active' # active => turnThread[e.turn] = current /\ active' \in {e.turn, NoTurn}
    BY <1>8, BaseFrames DEF HandleEvent, TrackTurn
  <2> QED
    BY <1>1, <2>2, <2>3 DEF ActiveInv, ActiveTurnIsOfThread
<1>9. CASE Issue
  BY <1>1, <1>9, BaseIssue DEF Issued
<1>10. CASE Resume
  <2>1. /\ answer \in Reply /\ Fits(answer.op, answer.thread) /\ Told(answer)
        /\ GatewayStays /\ UNCHANGED turnThread
    BY <1>10, BaseResume DEF Resume
  <2>2. CASE ThreadCreated \/ SnapshotRead \/ CommandEnds \/ CommandFails
    BY <1>1, <2>1, <2>2 DEF ThreadCreated, SnapshotRead, CommandEnds, CommandFails
  <2>3. CASE ThreadEntered
    <3>1. /\ target \in threads
          /\ snapshot = NoTurn \/ turnThread[snapshot] = target
          /\ target # NoThread /\ current' = target /\ active' = snapshot
      BY <2>1, <2>3, SessionAssumption DEF ThreadEntered, Fits, BaseInv, SessionTypeOK
    <3> QED
      BY <2>1, <3>1 DEF ActiveInv, ActiveTurnIsOfThread
  <2>4. CASE TurnStarted
    <3>1. /\ turnThread[answer.turn] = current /\ current # NoThread /\ current' = current
          /\ active' \in {active, answer.turn}
      BY <2>1, <2>4 DEF TurnStarted, Fits, Told
    <3> QED
      BY <2>1, <3>1 DEF ActiveInv, ActiveTurnIsOfThread
  <2> QED
    BY <1>10, <2>2, <2>3, <2>4 DEF Resume
<1> QED
  BY <1>2, <1>3, <1>4, <1>5, <1>6, <1>7, <1>8, <1>9, <1>10 DEF Next, Handled

\* The client, the frames and the gateway keep their types, whatever replies and
\* events overtake each other.
THEOREM SessionTypeCorrect == Spec => []SessionTypeOK
<1>1. BaseInv => SessionTypeOK
  BY DEF BaseInv
<1> QED
  BY <1>1, BaseInit, BaseStep, PTL DEF Spec

\* A steer or an interrupt names a turn together with the thread it is in, in
\* whatever order replies and events reach the client.
THEOREM ActiveTurnCorrect == Spec => []ActiveTurnIsOfThread
<1>1. Init => BaseInv /\ ActiveInv
  BY BaseInit DEF Init, ActiveInv, ActiveTurnIsOfThread
<1>2. BaseInv /\ ActiveInv /\ [Next]_vars => BaseInv' /\ ActiveInv'
  BY BaseStep, ActiveStep
<1>3. ActiveInv => ActiveTurnIsOfThread
  BY DEF ActiveInv
<1> QED
  BY <1>1, <1>2, <1>3, PTL DEF Spec

-----------------------------------------------------------------------------
(* What a one-shot run waits for.                                          *)

\* A step of the gateway or of the frames: what it publishes is subscribed, and
\* a turn it starts is in a thread that others know or this client is in.
Elsewhere ==
    /\ UNCHANGED <<shared, target, current, own, command>>
    /\ \A t \in Turn :
          turnThread'[t] = turnThread[t] \/ turnThread'[t] \in shared \cup {current}

LEMMA FreshKept ==
    ASSUME Elsewhere, threads \subseteq threads', NEW th, Fresh(th) PROVE Fresh(th)'
BY DEF Elsewhere, Fresh

LEMMA FreshElsewhere ==
    ASSUME BaseInv, FreshInv, Elsewhere, GatewayStays,
           \A r \in Reply : Replied(r)' =>
              Replied(r) \/ r.op # "thread.create" \/ ~r.ok \/ Fresh(r.thread)'
    PROVE  FreshInv'
<1>1. \A th : Fresh(th) => Fresh(th)'
  BY FreshKept DEF GatewayStays
<1> QED
  BY <1>1 DEF FreshInv, Elsewhere

LEMMA FeedElsewhere ==
    ASSUME BaseInv, FeedInv, Elsewhere, GatewayStays,
           current = NoThread \/ command \in OneShots => subscribed' \subseteq {target},
           \A e \in Event : Pending(e)' => Pending(e) \/ turnThread'[e.turn] \in subscribed
    PROVE  FeedInv'
<1>1. ASSUME current = NoThread \/ command \in OneShots, NEW e \in Event, Pending(e)'
      PROVE  turnThread'[e.turn] = target
  <2>1. CASE Pending(e)
    <3>1. turnThread[e.turn] = target /\ turnThread[e.turn] # NoThread /\ e.turn \in Turn
      BY <1>1, <2>1 DEF FeedInv, BaseInv, EventsInv, Event
    <3> QED
      BY <3>1 DEF GatewayStays
  <2>2. CASE turnThread'[e.turn] \in subscribed
    BY <1>1, <2>2 DEF FeedInv
  <2> QED
    BY <1>1, <2>1, <2>2
<1> QED
  BY <1>1 DEF FeedInv, Elsewhere

LEMMA OneShotElsewhere ==
    ASSUME BaseInv, OneShotInv, Elsewhere, GatewayStays, RepliesKept, UNCHANGED request,
           \A t \in Turn : turnThread'[t] = turnThread[t] \/ turnThread'[t] \in shared
    PROVE  OneShotInv'
<1>1. OneShotSawItsTurn'
  <2>1. own \in Turn \cup {NoTurn}
    BY DEF BaseInv, SessionTypeOK
  <2> QED
    BY <2>1 DEF OneShotInv, OneShotSawItsTurn, Elsewhere, GatewayStays
<1>2. ASSUME command = "run_once", NEW r \in Reply, Replied(r)', r.op = "turn.start", r.ok
      PROVE  target \in shared \/ \A t \in Turn : turnThread'[t] = target => t = r.turn
  BY <1>2 DEF RepliesKept, OneShotInv
<1>3. command = "run_once" /\ request # Nothing /\ request.op = "turn.start" =>
          target \in shared \/ \A t \in Turn : turnThread'[t] # target
  BY DEF OneShotInv
<1>4. command = "waiting" =>
          target = current /\ (target \in shared \/ \A t \in Turn : turnThread'[t] = target => t = own)
  BY DEF OneShotInv
<1> QED
  BY <1>1, <1>2, <1>3, <1>4 DEF OneShotInv, Elsewhere

OwnInv == FreshInv /\ FeedInv /\ OneShotInv

\* Turns that others start, turns that end, and frames on their way.
LEMMA OwnKept ==
    ASSUME BaseInv, OwnInv, Elsewhere, GatewayStays, RepliesKept, UNCHANGED <<request, subscribed>>,
           \A t \in Turn : turnThread'[t] = turnThread[t] \/ turnThread'[t] \in shared,
           \A e \in Event : Pending(e)' => Pending(e) \/ turnThread'[e.turn] \in subscribed
    PROVE  OwnInv'
<1>1. FreshInv'
  BY FreshElsewhere DEF OwnInv, RepliesKept
<1>2. FeedInv'
  BY FeedElsewhere DEF OwnInv, FeedInv
<1>3. OneShotInv'
  BY OneShotElsewhere DEF OwnInv
<1> QED
  BY <1>1, <1>2, <1>3 DEF OwnInv

LEMMA OwnGateway ==
    ASSUME BaseInv, OwnInv,
           \/ \E th \in Thread, t \in Turn : OtherStarts(th, t)
           \/ \E t \in Turn : TurnEnds(t)
    PROVE  OwnInv'
<1> USE DEF task, view
<1>1. ASSUME NEW th \in Thread, NEW t \in Turn, OtherStarts(th, t) PROVE OwnInv'
  <2>1. /\ GatewayStays /\ RepliesKept
        /\ \A e \in Event : Pending(e)' =>
              Pending(e) \/ (th \in subscribed /\ e = [type |-> "turn.started", turn |-> t])
    BY <1>1, BaseOther
  <2>2. /\ turnThread'[t] = th /\ th \in shared
        /\ \A u \in Turn : turnThread'[u] = turnThread[u] \/ turnThread'[u] \in shared
    BY <1>1, Opened DEF OtherStarts, BaseInv
  <2>3. \A e \in Event : Pending(e)' => Pending(e) \/ turnThread'[e.turn] \in subscribed
    BY <2>1, <2>2
  <2>4. Elsewhere /\ UNCHANGED <<request, subscribed>>
    BY <1>1, <2>2 DEF OtherStarts, Elsewhere
  <2> QED
    BY <2>1, <2>2, <2>3, <2>4, OwnKept
<1>2. ASSUME NEW t \in Turn, TurnEnds(t) PROVE OwnInv'
  <2>1. /\ GatewayStays /\ RepliesKept /\ turnThread' = turnThread
        /\ \A e \in Event : Pending(e)' =>
              \/ Pending(e)
              \/ turnThread[t] \in subscribed /\ e = [type |-> "turn.ended", turn |-> t]
    BY <1>2, BaseEnds DEF TurnEnds
  <2>2. \A e \in Event : Pending(e)' => Pending(e) \/ turnThread'[e.turn] \in subscribed
    BY <2>1
  <2>3. Elsewhere /\ UNCHANGED <<request, subscribed>>
    BY <1>2, <2>1 DEF TurnEnds, Elsewhere
  <2> QED
    BY <2>1, <2>2, <2>3, OwnKept
<1> QED
  BY <1>1, <1>2

\* The event that ends a one-shot run is the end of its turn, if the thread is its own.
LEMMA OwnFrames ==
    ASSUME BaseInv, OwnInv,
           \/ \E th \in Thread : Forward(th)
           \/ Dispatch \/ HandleEvent
    PROVE  OwnInv'
<1> USE DEF gateway, feeds, task, view
<1>1. BaseInv' /\ GatewayStays /\ RepliesKept /\ NoNewEvents
  BY BaseFrames
<1>2. /\ UNCHANGED <<shared, turnThread, turnStatus, request, target, current, own, subscribed>>
      /\ command' = command \/ (command = "waiting" /\ command' = "exited" /\ HandleEvent)
  BY DEF Forward, Dispatch, HandleEvent, StopsAt
<1>3. CASE command' = command
  <2>1. Elsewhere
    BY <1>2, <1>3 DEF Elsewhere
  <2> QED
    BY <1>1, <1>2, <2>1, OwnKept DEF NoNewEvents
<1>4. CASE command = "waiting" /\ command' = "exited" /\ HandleEvent
  <2> DEFINE e == Head(notifications)
  <2>1. e \in Event /\ Pending(e)
    BY <1>4, TailFacts DEF HandleEvent, Pending, BaseInv, SessionTypeOK
  <2>2. e.type = "turn.ended"
    BY <1>4 DEF HandleEvent, StopsAt
  <2>3. turnStatus[e.turn] = "ended" /\ turnThread[e.turn] = target /\ e.turn \in Turn
    BY <1>4, <2>1, <2>2 DEF BaseInv, EventsInv, OwnInv, FeedInv, OneShots, Event
  <2>4. target = current /\ (target \in shared \/ \A t \in Turn : turnThread[t] = target => t = own)
    BY <1>4 DEF OwnInv, OneShotInv
  <2>5. OneShotInv'
    BY <1>2, <1>4, <2>3, <2>4 DEF OneShotInv, OneShotSawItsTurn
  <2>6. FreshInv'
    <3>1. \A r \in Reply : ~Replied(r)
      BY <1>4 DEF BaseInv, OneInFlight, NoReply, Resting, Replied
    <3> QED
      BY <1>1, <1>4, <3>1 DEF FreshInv, RepliesKept
  <2>7. FeedInv'
    BY <1>1, <1>2, <1>4 DEF OwnInv, FeedInv, NoNewEvents, OneShots, Entering
  <2> QED
    BY <2>5, <2>6, <2>7 DEF OwnInv
<1> QED
  BY <1>2, <1>3, <1>4

LEMMA OwnIssue ==
    ASSUME BaseInv, OwnInv, Issue PROVE OwnInv'
<1> USE DEF gateway, feeds, view
<1>1. /\ BaseInv' /\ GatewayStays /\ NoNewEvents /\ Issued
      /\ \A x \in Reply : ~Replied(x)'
  BY BaseIssue
<1>2. /\ command = "prompt" /\ command' \notin Resting
      /\ UNCHANGED <<threads, shared, turnThread, turnStatus, subscribed, own, current>>
  BY <1>1 DEF Issued, Resting
<1>3. FreshInv'
  BY <1>1, <1>2 DEF FreshInv, Issued
<1>4. FeedInv'
  <2>1. CASE current # NoThread
    <3>1. command' \notin OneShots
      BY <1>1, <1>2, <2>1 DEF Issued, OneShots, Resting
    <3> QED
      BY <1>2, <2>1, <3>1 DEF FeedInv, OneShots
  <2>2. CASE current = NoThread
    <3>1. target = NoThread /\ subscribed \subseteq {NoThread} /\ own = NoTurn
      BY <1>2, <2>2 DEF OwnInv, FeedInv, Entering
    <3>2. subscribed = {}
      BY <3>1, SessionAssumption DEF BaseInv, SessionTypeOK
    <3>3. \A e \in Event : ~Pending(e)
      BY <2>2, <3>1 DEF OwnInv, FeedInv, BaseInv, EventsInv
    <3>4. command' \in Entering
      BY <1>1, <2>2 DEF Issued, Entering
    <3> QED
      BY <1>1, <1>2, <2>2, <3>1, <3>2, <3>3, <3>4 DEF FeedInv, NoNewEvents
  <2> QED
    BY <2>1, <2>2
<1>5. OneShotInv'
  BY <1>1, <1>2 DEF OneShotInv, OneShotSawItsTurn, Issued, Resting
<1> QED
  BY <1>3, <1>4, <1>5 DEF OwnInv

LEMMA OwnServe ==
    ASSUME BaseInv, OwnInv, Handled PROVE OwnInv'
<1> USE DEF gateway, feeds, task, view
<1>1. PICK r \in Reply : ServedBy(r)
  BY ServeCases DEF BaseInv
<1>2. /\ BaseInv' /\ GatewayStays
      /\ \A x \in Reply : Replied(x)' => x = r
      /\ \A e \in Event : Pending(e)' =>
            \/ Pending(e)
            \/ /\ Started(r) /\ r.thread \in subscribed
               /\ e = [type |-> "turn.started", turn |-> r.turn]
  BY <1>1, BaseServe
<1>3. /\ request # Nothing /\ request' = Nothing /\ r.op = request.op /\ command \notin Resting
      /\ UNCHANGED <<shared, command, target, current, own>>
      /\ Fits(request.op, request.thread)
  BY <1>1 DEF ServedBy, ServedWith, BaseInv, CallsFit, OneInFlight
<1>4. CASE Started(r)
  <2>1. /\ r.op = "turn.start" /\ r.thread = request.thread /\ r.turn \in Turn
        /\ OpenTurn(r.thread, r.turn) /\ UNCHANGED subscribed
    BY <1>4 DEF Started
  <2>2. /\ r.thread = current /\ current # NoThread /\ current \in Thread
        /\ command = "run_once" => current = target
    BY <1>3, <2>1 DEF Fits, BaseInv, SessionTypeOK
  <2>3. /\ turnThread'[r.turn] = current
        /\ \A u \in Turn \ {r.turn} : turnThread'[u] = turnThread[u]
    BY <2>1, <2>2, Opened DEF BaseInv
  <2>4. Elsewhere
    BY <1>3, <2>3 DEF Elsewhere
  <2>5. FreshInv'
    BY <1>2, <2>1, <2>4, FreshElsewhere DEF OwnInv
  <2>6. FeedInv'
    BY <1>2, <2>1, <2>2, <2>3, <2>4, FeedElsewhere DEF OwnInv, FeedInv
  <2>7. OneShotInv'
    <3>1. command = "run_once" => target \in shared \/ \A t \in Turn : turnThread[t] # target
      BY <1>3, <2>1 DEF OwnInv, OneShotInv
    <3>2. command = "run_once" =>
              target \in shared \/ \A t \in Turn : turnThread'[t] = target => t = r.turn
      BY <2>3, <3>1
    <3> QED
      BY <1>2, <1>3, <3>2 DEF OneShotInv, OneShotSawItsTurn, Resting
  <2> QED
    BY <2>5, <2>6, <2>7 DEF OwnInv
<1>5. CASE ~Started(r)
  <2>1. UNCHANGED <<turnThread, turnStatus>>
    BY <1>1, <1>5 DEF ServedBy, Created, Looked, Resubscribed, Refused
  <2>2. Elsewhere
    BY <1>3, <2>1 DEF Elsewhere
  <2>3. r.op = "turn.start" => ~r.ok
    BY <1>1, <1>5 DEF ServedBy, Created, Looked, Resubscribed, Refused
  <2>4. r.op = "thread.create" /\ r.ok => Fresh(r.thread)'
    <3>1. r.op = "thread.create" /\ r.ok => Created(r)
      BY <1>1, <1>5 DEF ServedBy, Looked, Resubscribed, Refused
    <3> QED
      BY <1>3, <2>1, <3>1, SessionAssumption
      DEF Created, Fresh, BaseInv, SessionTypeOK, TurnsInv
  <2>5. FreshInv'
    BY <1>2, <2>2, <2>4, FreshElsewhere DEF OwnInv
  <2>6. current = NoThread \/ command \in OneShots => subscribed' \subseteq {target}
    <3>1. CASE Resubscribed(r)
      BY <1>3, <3>1 DEF Resubscribed, Fits, OwnInv, FeedInv, OneShots
    <3>2. CASE ~Resubscribed(r)
      BY <1>1, <1>5, <3>2 DEF ServedBy, Created, Looked, Refused, OwnInv, FeedInv
    <3> QED
      BY <3>1, <3>2
  <2>7. FeedInv'
    BY <1>2, <1>5, <2>2, <2>6, FeedElsewhere DEF OwnInv
  <2>8. OneShotInv'
    BY <1>2, <1>3, <2>3 DEF OneShotInv, OneShotSawItsTurn, Resting
  <2> QED
    BY <2>5, <2>7, <2>8 DEF OwnInv
<1> QED
  BY <1>4, <1>5

LEMMA OwnResume ==
    ASSUME BaseInv, OwnInv, Resume PROVE OwnInv'
<1> USE DEF gateway, feeds, view
<1>1. /\ BaseInv' /\ NoNewEvents /\ \A x \in Reply : ~Replied(x)'
      /\ answer \in Reply /\ Replied(answer) /\ request = Nothing
      /\ Fits(answer.op, answer.thread) /\ Told(answer) /\ command \notin Resting
  BY BaseResume
<1>2. UNCHANGED <<threads, turnThread, turnStatus, subscribed>>
  BY DEF Resume
<1>3. NoThread \notin threads /\ subscribed \subseteq threads
  BY SessionAssumption DEF BaseInv, SessionTypeOK
<1>4. \A e \in Event : Pending(e)' => Pending(e) /\ turnThread[e.turn] # NoThread
  BY <1>1 DEF NoNewEvents, BaseInv, EventsInv
<1>5. CASE ThreadCreated
  <2>1. /\ target = NoThread /\ command \in {"/new", "run_once"}
        /\ command = "run_once" => current = NoThread
        /\ target' = answer.thread /\ Fresh(answer.thread)
        /\ UNCHANGED <<command, own, current, shared>>
    BY <1>1, <1>5 DEF ThreadCreated, Fits, OwnInv, FreshInv
  <2>2. FreshInv'
    BY <1>1, <1>2, <2>1 DEF FreshInv, Fresh
  <2>3. FeedInv'
    <3>1. current = NoThread => own = NoTurn /\ subscribed = {} /\ \A e \in Event : ~Pending(e)'
      BY <1>3, <1>4, <2>1 DEF OwnInv, FeedInv
    <3> QED
      BY <1>2, <2>1, <3>1 DEF OwnInv, FeedInv, OneShots, Entering
  <2>4. OneShotInv'
    BY <1>1, <1>5, <2>1 DEF ThreadCreated, Send, OneShotInv, OneShotSawItsTurn
  <2> QED
    BY <2>2, <2>3, <2>4 DEF OwnInv
<1>6. CASE SnapshotRead
  <2>1. UNCHANGED <<command, own, current, shared, target>> /\ request'.op = "thread.subscribe"
    BY <1>6 DEF SnapshotRead, Send
  <2>2. FreshInv'
    BY <1>1, <1>2, <2>1 DEF OwnInv, FreshInv, Fresh
  <2>3. FeedInv'
    BY <1>2, <1>4, <2>1 DEF OwnInv, FeedInv
  <2>4. OneShotInv'
    BY <1>1, <2>1 DEF OneShotInv, OneShotSawItsTurn, Resting
  <2> QED
    BY <2>2, <2>3, <2>4 DEF OwnInv
<1>7. CASE ThreadEntered
  <2>1. /\ target \in threads /\ current' = target /\ target' = target /\ own' = own
        /\ target # NoThread
        /\ command = "run_once" => current = NoThread
        /\ \/ command = "run_once" /\ command' = command /\ shared' = shared
           \/ command # "run_once" /\ command' = "prompt"
    BY <1>1, <1>3, <1>7 DEF ThreadEntered, Fits, Finish
  <2>2. FreshInv'
    BY <1>1, <2>1 DEF FreshInv
  <2>3. FeedInv'
    BY <1>2, <1>4, <2>1 DEF OwnInv, FeedInv, OneShots
  <2>4. command = "run_once" => target \in shared \/ \A t \in Turn : turnThread[t] # target
    BY <2>1 DEF OwnInv, FreshInv, Fresh
  <2>5. OneShotInv'
    BY <1>1, <1>2, <2>1, <2>4 DEF OneShotInv, OneShotSawItsTurn
  <2> QED
    BY <2>2, <2>3, <2>5 DEF OwnInv
<1>8. CASE TurnStarted
  <2>1. /\ answer.op = "turn.start" /\ answer.ok /\ current # NoThread
        /\ command = "run_once" => current = target
        /\ own' = answer.turn /\ UNCHANGED <<current, target, shared, request>>
        /\ \/ command = "run_once" /\ command' = "waiting"
           \/ command # "run_once" /\ command' = "prompt"
    BY <1>1, <1>8 DEF TurnStarted, Fits
  <2>2. FreshInv'
    BY <1>1, <2>1 DEF FreshInv
  <2>3. FeedInv'
    BY <1>2, <1>4, <2>1 DEF OwnInv, FeedInv, OneShots
  <2>4. OneShotInv'
    BY <1>1, <1>2, <2>1 DEF OwnInv, OneShotInv, OneShotSawItsTurn
  <2> QED
    BY <2>2, <2>3, <2>4 DEF OwnInv
<1>9. CASE CommandEnds
  <2>1. /\ UNCHANGED <<current, target, shared, request, own>>
        /\ \/ command = "run_once" /\ command' = "exited" /\ current # NoThread
           \/ command \notin Entering /\ command' = "prompt"
    BY <1>1, <1>9 DEF CommandEnds, Fits, Finish, Entering
  <2>2. FreshInv'
    BY <1>1, <2>1 DEF FreshInv
  <2>3. FeedInv'
    BY <1>1, <1>2, <1>4, <2>1 DEF OwnInv, FeedInv, OneShots, Entering, Resting
  <2>4. OneShotInv'
    BY <1>1, <1>2, <2>1 DEF OwnInv, FeedInv, OneShotInv, OneShotSawItsTurn
  <2> QED
    BY <2>2, <2>3, <2>4 DEF OwnInv
<1>10. CASE CommandFails
  <2>1. /\ UNCHANGED <<current, target, shared, request, own>>
        /\ \/ command' = "exited" /\ own = NoTurn
           \/ command' = "prompt" /\ command # "run_once" /\ current # NoThread
    BY <1>10 DEF CommandFails, OwnInv, FeedInv
  <2>2. FreshInv'
    BY <1>1, <2>1 DEF FreshInv
  <2>3. FeedInv'
    <3>1. CASE command' = "exited"
      <4>1. current = NoThread \/ command \in OneShots
        BY <1>10, <3>1 DEF CommandFails, OneShots
      <4> QED
        BY <1>2, <1>4, <2>1, <3>1, <4>1 DEF OwnInv, FeedInv
    <3>2. CASE command' # "exited"
      BY <2>1, <3>2 DEF FeedInv, OneShots
    <3> QED
      BY <3>1, <3>2
  <2>4. OneShotInv'
    BY <1>1, <1>2, <2>1 DEF OneShotInv, OneShotSawItsTurn
  <2> QED
    BY <2>2, <2>3, <2>4 DEF OwnInv
<1> QED
  BY <1>5, <1>6, <1>7, <1>8, <1>9, <1>10 DEF Resume

LEMMA OwnStep == BaseInv /\ OwnInv /\ [Next]_vars => OwnInv'
<1>1. ASSUME BaseInv, OwnInv, UNCHANGED vars PROVE OwnInv'
  BY <1>1 DEF vars, gateway, feeds, task, view, OwnInv, FreshInv, FeedInv, OneShotInv,
     OneShotSawItsTurn, Replied, Pending, Fresh
<1> QED
  BY <1>1, OwnGateway, OwnFrames, OwnServe, OwnIssue, OwnResume DEF Next, Handled

\* run_once on a thread of its own does not return before its turn has ended, and
\* not because of an event of something else.
THEOREM OneShotCorrect == Spec => []OneShotSawItsTurn
<1>1. Init => BaseInv /\ OwnInv
  <2>1. Init => OwnInv
    BY DEF Init, OwnInv, FreshInv, FeedInv, OneShotInv, OneShotSawItsTurn, Replied, Pending,
       OneShots
  <2> QED
    BY <2>1, BaseInit
<1>2. BaseInv /\ OwnInv /\ [Next]_vars => BaseInv' /\ OwnInv'
  BY BaseStep, OwnStep
<1>3. OwnInv => OneShotSawItsTurn
  BY DEF OwnInv, OneShotInv
<1> QED
  BY <1>1, <1>2, <1>3, PTL DEF Spec

-----------------------------------------------------------------------------
(* The view of a client that follows a thread it has created.              *)

\* The queues of events, one move at a time.
LEMMA FollowsPublished ==
    ASSUME NEW S, NEW fwd \in Seq(S), NEW wir, NEW ntf, NEW mine, NEW runs, NEW act,
           NEW e \in S, Describes(e, runs)
    PROVE  FollowsUp(Append(fwd, e), wir, ntf, mine, runs, act)
BY AppendFacts DEF FollowsUp

LEMMA FollowsForwarded ==
    ASSUME NEW S, NEW mine \in SUBSET S, NEW fwd \in Seq(mine), fwd # <<>>, NEW wir \in Seq(S),
           NEW ntf, NEW runs, NEW act, FollowsUp(fwd, wir, ntf, mine, runs, act)
    PROVE  FollowsUp(Tail(fwd), Append(wir, Head(fwd)), ntf, mine, runs, act)
<1> DEFINE f == Tail(fwd)
           w == Append(wir, Head(fwd))
<1>1. /\ Head(fwd) \in mine /\ Head(fwd) \in S /\ Head(fwd) = fwd[1] /\ f \in Seq(mine)
      /\ Len(f) = Len(fwd) - 1 /\ Len(f) \in Nat /\ Len(fwd) \in Nat /\ 1 \in DOMAIN fwd
      /\ \A k \in DOMAIN f : k + 1 \in DOMAIN fwd /\ f[k] = fwd[k + 1]
  BY TailFacts
<1>2. /\ w \in Seq(S) /\ Len(wir) \in Nat /\ w[Len(wir) + 1] = fwd[1]
      /\ Len(w) = Len(wir) + 1 /\ Len(wir) + 1 \in DOMAIN w
      /\ \A k \in DOMAIN wir : k \in DOMAIN w /\ w[k] = wir[k] /\ k < Len(wir) + 1
      /\ \A k \in DOMAIN w : k \in DOMAIN wir \/ k = Len(wir) + 1
  BY <1>1, AppendFacts
<1> HIDE DEF f, w
<1>3. \A k \in DOMAIN f : k = Len(f) => Describes(f[k], runs)
  BY <1>1 DEF FollowsUp
<1>4. HasOf(w, mine) /\ \A k \in DOMAIN wir : LaterOf(w, k, mine)
  BY <1>1, <1>2 DEF HasOf, LaterOf
<1>5. ASSUME f = <<>> PROVE Describes(fwd[1], runs)
  <2>1. Len(fwd) = 1
    BY <1>1, <1>5
  <2> QED
    BY <1>1, <2>1 DEF FollowsUp
<1> QED
  BY <1>2, <1>3, <1>4, <1>5 DEF FollowsUp, f, w

LEMMA FollowsOtherFrame ==
    ASSUME NEW S, NEW fwd, NEW wir \in Seq(S), NEW x \in S, NEW ntf, NEW mine, x \notin mine,
           NEW runs, NEW act, FollowsUp(fwd, wir, ntf, mine, runs, act)
    PROVE  FollowsUp(fwd, Append(wir, x), ntf, mine, runs, act)
<1> DEFINE w == Append(wir, x)
<1>1. /\ \A k \in DOMAIN wir : k \in DOMAIN w /\ w[k] = wir[k]
      /\ \A k \in DOMAIN w : k \in DOMAIN wir \/ (w[k] = x /\ w[k] \notin mine)
  BY AppendFacts
<1> HIDE DEF w
<1>2. HasOf(w, mine) <=> HasOf(wir, mine)
  BY <1>1 DEF HasOf
<1>3. \A k \in DOMAIN wir : LaterOf(wir, k, mine) => LaterOf(w, k, mine)
  BY <1>1 DEF LaterOf
<1> QED
  BY <1>1, <1>2, <1>3 DEF FollowsUp, w

LEMMA FollowsReply ==
    ASSUME NEW S, NEW fwd, NEW wir \in Seq(S), wir # <<>>, NEW ntf, NEW mine,
           Head(wir) \notin mine, NEW runs, NEW act, FollowsUp(fwd, wir, ntf, mine, runs, act)
    PROVE  FollowsUp(fwd, Tail(wir), ntf, mine, runs, act)
<1> DEFINE w == Tail(wir)
<1>1. /\ wir[1] \notin mine /\ DOMAIN w \subseteq Nat /\ DOMAIN wir \subseteq Nat
      /\ \A k \in DOMAIN w : k + 1 \in DOMAIN wir /\ w[k] = wir[k + 1]
      /\ \A k \in DOMAIN wir : k = 1 \/ (k - 1 \in DOMAIN w /\ w[k - 1] = wir[k])
  BY TailFacts
<1> HIDE DEF w
<1>2. HasOf(w, mine) <=> HasOf(wir, mine)
  BY <1>1 DEF HasOf
<1>3. \A k \in DOMAIN w : LaterOf(wir, k + 1, mine) => LaterOf(w, k, mine)
  <2> SUFFICES ASSUME NEW k \in DOMAIN w, NEW m \in DOMAIN wir, m > k + 1, wir[m] \in mine
               PROVE  LaterOf(w, k, mine)
    BY DEF LaterOf
  <2>1. m - 1 \in DOMAIN w /\ w[m - 1] = wir[m] /\ m - 1 > k
    BY <1>1
  <2> QED
    BY <2>1 DEF LaterOf
<1> QED
  BY <1>1, <1>2, <1>3 DEF FollowsUp, w

LEMMA FollowsNotified ==
    ASSUME NEW S, NEW fwd, NEW wir \in Seq(S), wir # <<>>, NEW ntf \in Seq(S), NEW mine,
           NEW runs, NEW act, FollowsUp(fwd, wir, ntf, mine, runs, act)
    PROVE  FollowsUp(fwd, Tail(wir), Append(ntf, Head(wir)), mine, runs, act)
<1> DEFINE w == Tail(wir)
           n == Append(ntf, Head(wir))
<1>1. /\ DOMAIN w \subseteq Nat /\ DOMAIN wir \subseteq Nat /\ 1 \in DOMAIN wir
      /\ Head(wir) = wir[1] /\ wir[1] \in S
      /\ \A k \in DOMAIN w : k + 1 \in DOMAIN wir /\ w[k] = wir[k + 1]
      /\ \A k \in DOMAIN wir : k = 1 \/ (k - 1 \in DOMAIN w /\ w[k - 1] = wir[k] /\ k > 1)
  BY TailFacts
<1>2. /\ Len(ntf) + 1 \in DOMAIN n /\ n[Len(ntf) + 1] = wir[1]
      /\ \A k \in DOMAIN ntf : k \in DOMAIN n /\ n[k] = ntf[k] /\ Len(ntf) + 1 > k
      /\ \A k \in DOMAIN n : k \in DOMAIN ntf \/ k = Len(ntf) + 1
  BY <1>1, AppendFacts
<1> HIDE DEF w, n
<1>3. \A k \in DOMAIN w : LaterOf(wir, k + 1, mine) => LaterOf(w, k, mine)
  <2> SUFFICES ASSUME NEW k \in DOMAIN w, NEW m \in DOMAIN wir, m > k + 1, wir[m] \in mine
               PROVE  LaterOf(w, k, mine)
    BY DEF LaterOf
  <2>1. m - 1 \in DOMAIN w /\ w[m - 1] = wir[m] /\ m - 1 > k
    BY <1>1
  <2> QED
    BY <2>1 DEF LaterOf
<1>4. LaterOf(wir, 1, mine) => HasOf(w, mine)
  <2> SUFFICES ASSUME NEW m \in DOMAIN wir, m > 1, wir[m] \in mine PROVE HasOf(w, mine)
    BY DEF LaterOf
  <2>1. m - 1 \in DOMAIN w /\ w[m - 1] = wir[m]
    BY <1>1
  <2> QED
    BY <2>1 DEF HasOf
<1>5. /\ HasOf(wir, mine) => HasOf(w, mine) \/ wir[1] \in mine
      /\ HasOf(w, mine) => HasOf(wir, mine)
  BY <1>1 DEF HasOf
<1>6. /\ HasOf(n, mine) <=> HasOf(ntf, mine) \/ wir[1] \in mine
      /\ \A k \in DOMAIN ntf : LaterOf(ntf, k, mine) => LaterOf(n, k, mine)
      /\ wir[1] \in mine => \A k \in DOMAIN ntf : LaterOf(n, k, mine)
  BY <1>2 DEF HasOf, LaterOf
<1>7. \A k \in DOMAIN w : w[k] \in mine =>
          Describes(w[k], runs) \/ LaterOf(w, k, mine) \/ fwd # <<>>
  BY <1>1, <1>3 DEF FollowsUp
<1>8. \A k \in DOMAIN n : n[k] \in mine =>
          Describes(n[k], runs) \/ LaterOf(n, k, mine) \/ HasOf(w, mine) \/ fwd # <<>>
  <2> TAKE k \in DOMAIN n
  <2> HAVE n[k] \in mine
  <2>1. CASE k \in DOMAIN ntf
    BY <1>2, <1>5, <1>6, <2>1 DEF FollowsUp
  <2>2. CASE k = Len(ntf) + 1
    BY <1>1, <1>2, <1>4, <2>2 DEF FollowsUp
  <2> QED
    BY <1>2, <2>1, <2>2
<1> QED
  BY <1>5, <1>6, <1>7, <1>8 DEF FollowsUp, w, n

LEMMA FollowsHandled ==
    ASSUME NEW S, NEW fwd, NEW wir, NEW ntf \in Seq(S), ntf # <<>>, NEW mine,
           NEW runs, NEW act, NEW next, FollowsUp(fwd, wir, ntf, mine, runs, act),
           \/ Head(ntf) \notin mine /\ next = act
           \/ /\ Head(ntf) \in mine
              /\ Describes(Head(ntf), runs) => IF next = NoTurn THEN runs = {} ELSE next \in runs
    PROVE  FollowsUp(fwd, wir, Tail(ntf), mine, runs, next)
<1> DEFINE n == Tail(ntf)
<1>1. /\ DOMAIN n \subseteq Nat /\ DOMAIN ntf \subseteq Nat /\ Head(ntf) = ntf[1]
      /\ 1 \in DOMAIN ntf
      /\ \A k \in DOMAIN n : k + 1 \in DOMAIN ntf /\ n[k] = ntf[k + 1]
      /\ \A k \in DOMAIN ntf : k = 1 \/ (k - 1 \in DOMAIN n /\ n[k - 1] = ntf[k])
  BY TailFacts
<1> HIDE DEF n
<1>2. \A k \in DOMAIN n : LaterOf(ntf, k + 1, mine) => LaterOf(n, k, mine)
  <2> SUFFICES ASSUME NEW k \in DOMAIN n, NEW m \in DOMAIN ntf, m > k + 1, ntf[m] \in mine
               PROVE  LaterOf(n, k, mine)
    BY DEF LaterOf
  <2>1. m - 1 \in DOMAIN n /\ n[m - 1] = ntf[m] /\ m - 1 > k
    BY <1>1
  <2> QED
    BY <2>1 DEF LaterOf
<1>3. LaterOf(ntf, 1, mine) => HasOf(n, mine)
  <2> SUFFICES ASSUME NEW m \in DOMAIN ntf, m > 1, ntf[m] \in mine PROVE HasOf(n, mine)
    BY DEF LaterOf
  <2>1. m - 1 \in DOMAIN n /\ n[m - 1] = ntf[m]
    BY <1>1
  <2> QED
    BY <2>1 DEF HasOf
<1>4. HasOf(ntf, mine) => HasOf(n, mine) \/ ntf[1] \in mine
  BY <1>1 DEF HasOf
<1>5. \A k \in DOMAIN n : n[k] \in mine =>
          Describes(n[k], runs) \/ LaterOf(n, k, mine) \/ HasOf(wir, mine) \/ fwd # <<>>
  BY <1>1, <1>2 DEF FollowsUp
<1>6. fwd = <<>> /\ ~HasOf(wir, mine) /\ ~HasOf(n, mine) =>
          IF next = NoTurn THEN runs = {} ELSE next \in runs
  BY <1>1, <1>3, <1>4 DEF FollowsUp
<1> QED
  BY <1>5, <1>6 DEF FollowsUp, n

LEMMA FollowsSame ==
    ASSUME NEW fwd, NEW wir, NEW ntf, NEW mine, NEW others, NEW runs, NEW act,
           FollowsUp(fwd, wir, ntf, mine, runs, act),
           \A k \in DOMAIN wir : wir[k] \in mine <=> wir[k] \in others,
           \A k \in DOMAIN ntf : ntf[k] \in mine <=> ntf[k] \in others
    PROVE  FollowsUp(fwd, wir, ntf, others, runs, act)
<1>1. /\ HasOf(wir, mine) <=> HasOf(wir, others)
      /\ HasOf(ntf, mine) <=> HasOf(ntf, others)
  BY DEF HasOf
<1>2. /\ \A k \in DOMAIN wir : LaterOf(wir, k, mine) <=> LaterOf(wir, k, others)
      /\ \A k \in DOMAIN ntf : LaterOf(ntf, k, mine) <=> LaterOf(ntf, k, others)
  BY DEF LaterOf
<1> QED
  BY <1>1, <1>2 DEF FollowsUp

\* An event of the current thread that is pending is in one of the three queues.
LEMMA PendingIsQueued ==
    ASSUME BaseInv, NEW e \in Event, Pending(e), turnThread[e.turn] = current
    PROVE  forwarding[current] # <<>> \/ HasOf(wire, Mine) \/ HasOf(notifications, Mine)
<1>1. e \in Mine
  BY DEF Mine
<1>2. CASE \E th \in Thread : \E k \in DOMAIN forwarding[th] : forwarding[th][k] = e
  BY <1>2 DEF BaseInv, EventsInv
<1>3. CASE \E k \in DOMAIN wire : wire[k] = e
  BY <1>1, <1>3 DEF HasOf
<1>4. CASE \E k \in DOMAIN notifications : notifications[k] = e
  BY <1>1, <1>4 DEF HasOf
<1> QED
  BY <1>2, <1>3, <1>4 DEF Pending

\* The same turns are in the current thread, and run or have ended.
SameTurns ==
    \A t \in Turn : \A status \in {"running", "ended"} :
        turnThread'[t] = current /\ turnStatus'[t] = status
            <=> turnThread[t] = current /\ turnStatus[t] = status

\* No frame is an event that was not on its way before.
KnownFrames ==
    /\ \A k \in DOMAIN wire' : wire'[k] \in Event => Pending(wire'[k])
    /\ \A k \in DOMAIN notifications' : notifications'[k] \in Event => Pending(notifications'[k])

\* The end of a turn of the current thread is not lost on its way.
EndsKept ==
    \A e \in Event : Pending(e) /\ turnThread[e.turn] = current /\ e.type = "turn.ended" =>
        Pending(e)' \/ e.turn \in finished'

\* A step in which nothing is published for the current thread.
LEMMA ViewMoves ==
    ASSUME BaseInv, ViewInv, GatewayStays, SameTurns, KnownFrames,
           Follows' => Follows, current' = current, finished \subseteq finished',
           Follows => current \in subscribed' /\ EndsKept,
           Follows => FollowsUp(forwarding'[current], wire', notifications', Mine,
                                Running(current), active')
    PROVE  ViewInv'
<1> SUFFICES ASSUME Follows, Follows' PROVE current \in subscribed' /\ ViewFollows' /\ EndsAreKnown'
  BY DEF ViewInv
<1>1. current \in subscribed' /\ EndsKept /\ EndsAreKnown
  BY DEF ViewInv
<1>2. ASSUME NEW x, x \in Event => Pending(x) PROVE x \in Mine <=> x \in Mine'
  BY <1>2 DEF Mine, BaseInv, EventsInv, GatewayStays, Event, Follows
<1>3. Running(current)' = Running(current)
  BY DEF SameTurns, Running
<1>4. ViewFollows'
  <2>1. /\ \A k \in DOMAIN wire' : wire'[k] \in Mine <=> wire'[k] \in Mine'
        /\ \A k \in DOMAIN notifications' : notifications'[k] \in Mine <=> notifications'[k] \in Mine'
    BY <1>2 DEF KnownFrames
  <2>2. FollowsUp(forwarding'[current], wire', notifications', Mine', Running(current), active')
    BY <2>1, FollowsSame
  <2> QED
    BY <1>3, <2>2 DEF ViewFollows
<1>5. EndsAreKnown'
  <2> SUFFICES ASSUME NEW t \in Turn, turnThread'[t] = current, turnStatus'[t] = "ended"
               PROVE  t \in finished' \/ Pending([type |-> "turn.ended", turn |-> t])'
    BY DEF EndsAreKnown
  <2> DEFINE e == [type |-> "turn.ended", turn |-> t]
  <2>1. e \in Event /\ e.turn = t /\ e.type = "turn.ended"
    BY DEF Event
  <2>2. turnThread[t] = current /\ (t \in finished \/ Pending(e))
    BY <1>1 DEF SameTurns, EndsAreKnown
  <2> HIDE DEF e
  <2>3. t \in finished' \/ Pending(e)'
    BY <1>1, <2>1, <2>2 DEF EndsKept
  <2> QED
    BY <2>3 DEF e
<1> QED
  BY <1>1, <1>4, <1>5

\* A turn of the current thread starts or ends, and its event is queued.
LEMMA ViewPublished ==
    ASSUME BaseInv, ViewInv, Follows' => Follows, UNCHANGED <<current, subscribed, finished>>,
           NEW t \in Turn, NEW type \in {"turn.started", "turn.ended"},
           Publish(current, type, t), turnThread'[t] = current,
           \A k \in DOMAIN wire : k \in DOMAIN wire' /\ wire'[k] = wire[k],
           UNCHANGED notifications,
           \A u \in Turn \ {t} : turnThread'[u] = turnThread[u] /\ turnStatus'[u] = turnStatus[u],
           IF type = "turn.started" THEN turnStatus'[t] = "running"
                                    ELSE turnStatus'[t] = "ended" /\ Running(current)' = {}
    PROVE  ViewInv'
<1> SUFFICES ASSUME Follows, Follows' PROVE current \in subscribed' /\ ViewFollows' /\ EndsAreKnown'
  BY DEF ViewInv
<1> DEFINE new == [type |-> type, turn |-> t]
<1>1. current \in subscribed /\ EndsAreKnown /\ current \in Thread
  BY DEF ViewInv, Follows, BaseInv, SessionTypeOK
<1>2. /\ new \in Event /\ new.type = type /\ new.turn = t
      /\ forwarding'[current] = Append(forwarding[current], new)
      /\ \A x \in Thread \ {current} : forwarding'[x] = forwarding[x]
  <2>1. new \in Event /\ new.type = type /\ new.turn = t
    BY DEF Event
  <2>2. forwarding' = [forwarding EXCEPT ![current] = Append(@, new)]
    BY <1>1 DEF Publish
  <2> QED
    BY <1>1, <2>1, <2>2 DEF BaseInv, SessionTypeOK
<1> HIDE DEF new
<1>3. \A x \in Thread : forwarding[x] \in Seq(Event)
  BY DEF BaseInv, SessionTypeOK
<1>4. Describes(new, Running(current)')
  BY <1>2 DEF Describes, Running
<1>5. ViewFollows'
  <2>1. FollowsUp(Append(forwarding[current], new), wire', notifications', Mine',
                  Running(current)', active')
    BY <1>1, <1>2, <1>3, <1>4, FollowsPublished
  <2> QED
    BY <1>2, <2>1 DEF ViewFollows
<1>6. \A x \in Thread : \A k \in DOMAIN forwarding[x] :
          k \in DOMAIN forwarding'[x] /\ forwarding'[x][k] = forwarding[x][k]
  <2> TAKE x \in Thread
  <2>1. CASE x = current
    BY <1>2, <1>3, <2>1, AppendFacts
  <2>2. CASE x # current
    BY <1>2, <2>2
  <2> QED
    BY <2>1, <2>2
<1>7. \A e \in Event : Pending(e) => Pending(e)'
  BY <1>6 DEF Pending
<1>8. Pending(new)'
  <2>1. \E k \in DOMAIN forwarding'[current] : forwarding'[current][k] = new
    BY <1>1, <1>2, <1>3
  <2> QED
    BY <1>1, <2>1 DEF Pending
<1>9. EndsAreKnown'
  <2> SUFFICES ASSUME NEW u \in Turn, turnThread'[u] = current, turnStatus'[u] = "ended"
               PROVE  u \in finished \/ Pending([type |-> "turn.ended", turn |-> u])'
    BY DEF EndsAreKnown
  <2>1. CASE u = t
    BY <1>8, <2>1 DEF new
  <2>2. CASE u # t
    <3>1. u \in finished \/ Pending([type |-> "turn.ended", turn |-> u])
      BY <1>1, <2>2 DEF EndsAreKnown
    <3>2. [type |-> "turn.ended", turn |-> u] \in Event
      BY DEF Event
    <3> QED
      BY <1>7, <3>1, <3>2
  <2> QED
    BY <2>1, <2>2
<1> QED
  BY <1>1, <1>5, <1>9

\* Turns of other clients, and turns that end.
LEMMA ViewGateway ==
    ASSUME BaseInv, ViewInv,
           \/ \E th \in Thread, t \in Turn : OtherStarts(th, t)
           \/ \E t \in Turn : TurnEnds(t)
    PROVE  ViewInv'
<1> USE DEF task, view
<1>1. ASSUME UNCHANGED <<wire, notifications, finished, active, command, current, subscribed>>,
             UNCHANGED rejoined, GatewayStays, SameTurns,
             current \in Thread => forwarding'[current] = forwarding[current],
             \A e \in Event : Pending(e) => Pending(e)'
      PROVE  ViewInv'
  <2>1. KnownFrames
    BY <1>1 DEF KnownFrames, Pending
  <2>2. Follows' => Follows
    BY <1>1 DEF Follows
  <2>3. Follows => current \in subscribed' /\ EndsKept
    BY <1>1 DEF ViewInv, EndsKept
  <2>4. Follows => FollowsUp(forwarding'[current], wire', notifications', Mine,
                             Running(current), active')
    BY <1>1 DEF ViewInv, ViewFollows, Follows, BaseInv, SessionTypeOK
  <2> QED
    BY <1>1, <2>1, <2>2, <2>3, <2>4, ViewMoves
<1>2. ASSUME NEW th \in Thread \cup {NoThread}, NEW t \in Turn, NEW type \in {"turn.started", "turn.ended"},
             Publish(th, type, t), UNCHANGED <<wire, notifications>>
      PROVE  \A e \in Event : Pending(e) => Pending(e)'
  <2> DEFINE new == [type |-> type, turn |-> t]
  <2>1. /\ new \in Event
        /\ \A x \in Thread \ {th} : forwarding'[x] = forwarding[x]
        /\ th \in subscribed => forwarding'[th] = Append(forwarding[th], new)
        /\ th \notin subscribed => forwarding'[th] = forwarding[th]
    BY <1>2, Published DEF BaseInv
  <2> HIDE DEF new
  <2>2. \A x \in Thread : \A k \in DOMAIN forwarding[x] :
            k \in DOMAIN forwarding'[x] /\ forwarding'[x][k] = forwarding[x][k]
    <3> TAKE x \in Thread
    <3>1. forwarding[x] \in Seq(Event)
      BY DEF BaseInv, SessionTypeOK
    <3>2. CASE x = th /\ th \in subscribed
      BY <2>1, <3>1, <3>2, AppendFacts
    <3>3. CASE x # th \/ th \notin subscribed
      BY <2>1, <3>3
    <3> QED
      BY <3>2, <3>3
  <2> QED
    BY <1>2, <2>2 DEF Pending
<1>3. ASSUME NEW th \in Thread, NEW t \in Turn, OtherStarts(th, t) PROVE ViewInv'
  <2>1. /\ GatewayStays /\ OpenTurn(th, t)
        /\ UNCHANGED <<wire, notifications, finished, active, command, current, subscribed, rejoined>>
    BY <1>3, BaseOther DEF OtherStarts
  <2>2. /\ turnStatus[t] = "absent" /\ turnThread'[t] = th /\ turnStatus'[t] = "running"
        /\ \A u \in Turn \ {t} : turnThread'[u] = turnThread[u] /\ turnStatus'[u] = turnStatus[u]
        /\ Publish(th, "turn.started", t)
    BY <2>1, Opened DEF BaseInv
  <2>3. CASE th = current
    <3>1. Follows' => Follows
      BY <2>1 DEF Follows
    <3> QED
      BY <2>1, <2>2, <2>3, <3>1, ViewPublished
  <2>4. CASE th # current
    <3>1. SameTurns
      BY <2>2, <2>4 DEF SameTurns
    <3>2. current \in Thread => forwarding'[current] = forwarding[current]
      BY <2>2, <2>4 DEF Publish, BaseInv, SessionTypeOK
    <3>3. \A e \in Event : Pending(e) => Pending(e)'
      BY <1>2, <2>1, <2>2
    <3> QED
      BY <1>1, <2>1, <3>1, <3>2, <3>3
  <2> QED
    BY <2>3, <2>4
<1>4. ASSUME NEW t \in Turn, TurnEnds(t) PROVE ViewInv'
  <2> DEFINE th == turnThread[t]
  <2>1. /\ GatewayStays
        /\ UNCHANGED <<wire, notifications, finished, active, command, current, subscribed, rejoined>>
    BY <1>4, BaseEnds DEF TurnEnds
  <2>2. /\ turnStatus[t] = "running" /\ turnStatus'[t] = "ended" /\ turnThread' = turnThread
        /\ \A u \in Turn \ {t} : turnStatus'[u] = turnStatus[u]
        /\ Publish(th, "turn.ended", t) /\ th \in Thread
    BY <1>4, TurnsEnded DEF TurnEnds, BaseInv, SessionTypeOK
  <2>3. CASE th = current
    <3>1. Follows' => Follows
      BY <2>1 DEF Follows
    <3>2. Running(current)' = {}
      BY <2>1, <2>2, <2>3 DEF Running, BaseInv, TurnsInv
    <3> QED
      BY <2>1, <2>2, <2>3, <3>1, <3>2, ViewPublished
  <2>4. CASE th # current
    <3>1. SameTurns
      BY <2>2, <2>4 DEF SameTurns
    <3>2. current \in Thread => forwarding'[current] = forwarding[current]
      BY <2>2, <2>4 DEF Publish, BaseInv, SessionTypeOK
    <3>3. \A e \in Event : Pending(e) => Pending(e)'
      BY <1>2, <2>1, <2>2
    <3> QED
      BY <1>1, <2>1, <3>1, <3>2, <3>3
  <2> QED
    BY <2>3, <2>4
<1> QED
  BY <1>3, <1>4

LEMMA ViewForward ==
    ASSUME BaseInv, ViewInv, NEW th \in Thread, Forward(th) PROVE ViewInv'
<1> USE DEF gateway, task, view
<1> DEFINE e == Head(forwarding[th])
<1>1. /\ BaseInv' /\ GatewayStays /\ NoNewEvents
  BY BaseFrames
<1>2. /\ forwarding \in [Thread -> Seq(Event)] /\ wire \in Seq(Reply \cup Event)
      /\ forwarding[th] \in Seq(Event) /\ forwarding[th] # <<>>
      /\ wire' = Append(wire, e) /\ forwarding'[th] = Tail(forwarding[th])
      /\ \A x \in Thread \ {th} : forwarding'[x] = forwarding[x]
      /\ UNCHANGED <<turnThread, turnStatus, notifications, finished, active, command, current,
                     subscribed, rejoined>>
  BY DEF BaseInv, SessionTypeOK, Forward
<1>3. /\ e = forwarding[th][1] /\ 1 \in DOMAIN forwarding[th] /\ e \in Event
      /\ turnThread[e.turn] = th
      /\ \A k \in DOMAIN forwarding[th] :
            k = 1 \/ (k - 1 \in DOMAIN Tail(forwarding[th])
                      /\ Tail(forwarding[th])[k - 1] = forwarding[th][k])
  BY <1>2, TailFacts DEF BaseInv, EventsInv
<1> HIDE DEF e
<1>4. /\ \A k \in DOMAIN wire : k \in DOMAIN wire' /\ wire'[k] = wire[k]
      /\ \E k \in DOMAIN wire' : wire'[k] = e
  <2>1. Len(wire) + 1 \in DOMAIN Append(wire, e) /\ Append(wire, e)[Len(wire) + 1] = e
    BY <1>2, <1>3
  <2> QED
    BY <1>2, <1>3, <2>1, AppendFacts
<1>5. SameTurns /\ (Follows' => Follows)
  BY <1>2 DEF SameTurns, Follows
<1>6. KnownFrames
  BY <1>1 DEF KnownFrames, NoNewEvents, Pending
<1>7. EndsKept
  <2> SUFFICES ASSUME NEW x \in Event, Pending(x) PROVE Pending(x)'
    BY DEF EndsKept
  <2>1. CASE \E y \in Thread : \E k \in DOMAIN forwarding[y] : forwarding[y][k] = x
    <3>1. PICK y \in Thread : \E k \in DOMAIN forwarding[y] : forwarding[y][k] = x
      BY <2>1
    <3>2. CASE y # th
      BY <1>2, <3>1, <3>2 DEF Pending
    <3>3. CASE y = th
      <4>1. PICK k \in DOMAIN forwarding[th] : forwarding[th][k] = x
        BY <3>1, <3>3
      <4>2. CASE k = 1
        BY <1>3, <1>4, <4>1, <4>2 DEF Pending
      <4>3. CASE k # 1
        <5>1. k - 1 \in DOMAIN forwarding'[th] /\ forwarding'[th][k - 1] = x
          BY <1>2, <1>3, <4>1, <4>3
        <5> QED
          BY <5>1 DEF Pending
      <4> QED
        BY <4>2, <4>3
    <3> QED
      BY <3>2, <3>3
  <2>2. CASE \E k \in DOMAIN wire : wire[k] = x
    BY <1>4, <2>2 DEF Pending
  <2>3. CASE \E k \in DOMAIN notifications : notifications[k] = x
    BY <1>2, <2>3 DEF Pending
  <2> QED
    BY <2>1, <2>2, <2>3 DEF Pending
<1>8. ASSUME Follows PROVE FollowsUp(forwarding'[current], wire', notifications, Mine,
                                     Running(current), active)
  <2>1. /\ current \in Thread /\ wire \in Seq(Reply \cup Event) /\ e \in Reply \cup Event
        /\ FollowsUp(forwarding[current], wire, notifications, Mine, Running(current), active)
    BY <1>2, <1>3, <1>8 DEF ViewInv, ViewFollows, Follows, BaseInv, SessionTypeOK
  <2>2. CASE th = current
    <3>1. Mine \in SUBSET (Reply \cup Event)
      BY DEF Mine
    <3>2. \A k \in DOMAIN forwarding[current] : forwarding[current][k] \in Mine
      BY <1>2, <2>2 DEF Mine, BaseInv, EventsInv
    <3>3. forwarding[current] \in Seq(Mine)
      BY <1>2, <2>2, <3>2
    <3> QED
      BY <1>2, <2>1, <2>2, <3>1, <3>3, FollowsForwarded DEF e
  <2>3. CASE th # current
    <3>1. e \notin Mine
      BY <1>3, <2>3 DEF Mine
    <3> QED
      BY <1>2, <2>1, <2>3, <3>1, FollowsOtherFrame
  <2> QED
    BY <2>2, <2>3
<1> QED
  BY <1>1, <1>2, <1>5, <1>6, <1>7, <1>8, ViewMoves DEF ViewInv

LEMMA ViewDispatch ==
    ASSUME BaseInv, ViewInv, Dispatch PROVE ViewInv'
<1> USE DEF gateway, feeds, task, view
<1> DEFINE x == Head(wire)
<1>1. BaseInv' /\ GatewayStays /\ NoNewEvents
  BY BaseFrames
<1>2. /\ wire \in Seq(Reply \cup Event) /\ wire # <<>> /\ wire' = Tail(wire)
      /\ notifications \in Seq(Event)
      /\ UNCHANGED <<turnThread, turnStatus, forwarding, finished, active, command, current,
                     subscribed, rejoined>>
  BY DEF BaseInv, SessionTypeOK, Dispatch
<1>3. /\ x = wire[1] /\ x \in Reply \cup Event
      /\ \A k \in DOMAIN wire :
            k = 1 \/ (k - 1 \in DOMAIN wire' /\ wire'[k - 1] = wire[k])
  BY <1>2, TailFacts
<1>4. \/ x \in Event /\ notifications' = Append(notifications, x)
      \/ x \notin Event /\ notifications' = notifications
  BY <1>3, FrameKinds DEF Dispatch
<1> HIDE DEF x
<1>5. SameTurns /\ (Follows' => Follows)
  BY <1>2 DEF SameTurns, Follows
<1>6. KnownFrames
  BY <1>1 DEF KnownFrames, NoNewEvents, Pending
<1>7. \A k \in DOMAIN notifications : k \in DOMAIN notifications' /\ notifications'[k] = notifications[k]
  <2>1. CASE x \in Event
    <3>1. notifications' = Append(notifications, x)
      BY <1>4, <2>1
    <3> QED
      BY <1>2, <2>1, <3>1, AppendFacts
  <2>2. CASE x \notin Event
    BY <1>4, <2>2
  <2> QED
    BY <2>1, <2>2
<1>8. x \in Event => \E k \in DOMAIN notifications' : notifications'[k] = x
  <2>1. x \in Event => /\ Len(notifications) + 1 \in DOMAIN Append(notifications, x)
                       /\ Append(notifications, x)[Len(notifications) + 1] = x
    BY <1>2
  <2> QED
    BY <1>4, <2>1
<1>9. EndsKept
  <2> SUFFICES ASSUME NEW e \in Event, Pending(e) PROVE Pending(e)'
    BY DEF EndsKept
  <2>1. CASE \E th \in Thread : \E k \in DOMAIN forwarding[th] : forwarding[th][k] = e
    BY <1>2, <2>1 DEF Pending
  <2>2. CASE \E k \in DOMAIN wire : wire[k] = e
    <3>1. PICK k \in DOMAIN wire : wire[k] = e
      BY <2>2
    <3>2. CASE k = 1
      BY <1>3, <1>8, <3>1, <3>2 DEF Pending
    <3>3. CASE k # 1
      BY <1>3, <3>1, <3>3 DEF Pending
    <3> QED
      BY <3>2, <3>3
  <2>3. CASE \E k \in DOMAIN notifications : notifications[k] = e
    BY <1>7, <2>3 DEF Pending
  <2> QED
    BY <2>1, <2>2, <2>3 DEF Pending
<1>10. ASSUME Follows PROVE FollowsUp(forwarding[current], wire', notifications', Mine,
                                      Running(current), active)
  <2>1. FollowsUp(forwarding[current], wire, notifications, Mine, Running(current), active)
    BY <1>10 DEF ViewInv, ViewFollows
  <2>2. CASE x \in Event
    <3>1. notifications \in Seq(Reply \cup Event)
      BY <1>2
    <3> QED
      BY <1>2, <1>4, <2>1, <2>2, <3>1, FollowsNotified DEF x
  <2>3. CASE x \notin Event
    <3>1. x \notin Mine
      BY <2>3 DEF Mine
    <3> QED
      BY <1>2, <1>4, <2>1, <2>3, <3>1, FollowsReply DEF x
  <2> QED
    BY <2>2, <2>3
<1> QED
  BY <1>1, <1>2, <1>5, <1>6, <1>9, <1>10, ViewMoves DEF ViewInv

LEMMA ViewHandle ==
    ASSUME BaseInv, ViewInv, HandleEvent PROVE ViewInv'
<1> USE DEF gateway, feeds, task, view
<1> DEFINE e == Head(notifications)
<1>1. BaseInv' /\ GatewayStays /\ NoNewEvents
  BY BaseFrames
<1>2. /\ notifications \in Seq(Event) /\ notifications # <<>> /\ notifications' = Tail(notifications)
      /\ UNCHANGED <<turnThread, turnStatus, forwarding, wire, current, subscribed, rejoined>>
      /\ IF turnThread[e.turn] = current THEN TrackTurn(e) ELSE UNCHANGED <<active, finished>>
      /\ command' = command \/ command' = "exited"
  BY DEF BaseInv, SessionTypeOK, HandleEvent
<1>3. /\ e = notifications[1] /\ e \in Event /\ e.turn \in Turn
      /\ \A k \in DOMAIN notifications :
            k = 1 \/ (k - 1 \in DOMAIN notifications' /\ notifications'[k - 1] = notifications[k])
  <2>1. /\ e = notifications[1] /\ e \in Event
        /\ \A k \in DOMAIN notifications :
              k = 1 \/ (k - 1 \in DOMAIN Tail(notifications)
                        /\ Tail(notifications)[k - 1] = notifications[k])
    BY <1>2, TailFacts
  <2> HIDE DEF e
  <2>2. e.turn \in Turn
    BY <2>1 DEF Event
  <2> QED
    BY <1>2, <2>1, <2>2
<1> HIDE DEF e
<1>4. SameTurns /\ finished \subseteq finished'
  BY <1>2 DEF SameTurns, TrackTurn
<1>5. Follows' => Follows
  BY <1>2 DEF Follows, OneShots
<1>6. KnownFrames
  BY <1>1 DEF KnownFrames, NoNewEvents, Pending
<1>7. EndsKept
  <2> SUFFICES ASSUME NEW x \in Event, Pending(x), turnThread[x.turn] = current,
                      x.type = "turn.ended"
               PROVE  Pending(x)' \/ x.turn \in finished'
    BY DEF EndsKept
  <2>1. x = e \/ Pending(x)'
    <3>1. CASE \E k \in DOMAIN notifications : notifications[k] = x
      BY <1>3, <3>1 DEF Pending
    <3>2. CASE ~\E k \in DOMAIN notifications : notifications[k] = x
      BY <1>2, <3>2 DEF Pending
    <3> QED
      BY <3>1, <3>2
  <2>2. x = e => x.turn \in finished'
    BY <1>2 DEF TrackTurn
  <2> QED
    BY <2>1, <2>2
<1>8. ASSUME Follows PROVE FollowsUp(forwarding[current], wire, notifications', Mine,
                                     Running(current), active')
  <2>1. FollowsUp(forwarding[current], wire, notifications, Mine, Running(current), active)
    BY <1>8 DEF ViewInv, ViewFollows
  <2>2. CASE e \notin Mine
    <3>1. active' = active
      BY <1>2, <1>3, <2>2 DEF Mine
    <3> QED
      BY <1>2, <2>1, <2>2, <3>1, FollowsHandled DEF e
  <2>3. CASE e \in Mine
    <3>1. Describes(e, Running(current)) =>
              IF active' = NoTurn THEN Running(current) = {} ELSE active' \in Running(current)
      BY <1>2, <1>3, <2>3, SessionAssumption DEF Mine, TrackTurn, Describes
    <3> QED
      BY <1>2, <2>1, <2>3, <3>1, FollowsHandled DEF e
  <2> QED
    BY <2>2, <2>3
<1> QED
  BY <1>1, <1>2, <1>4, <1>5, <1>6, <1>7, <1>8, ViewMoves DEF ViewInv

LEMMA ViewServe ==
    ASSUME BaseInv, ViewInv, Handled PROVE ViewInv'
<1> USE DEF gateway, feeds, task, view
<1> SUFFICES ASSUME Follows' PROVE ViewInv'
  BY DEF ViewInv
<1>1. PICK r \in Reply : ServedBy(r)
  BY ServeCases DEF BaseInv
<1>2. /\ BaseInv' /\ GatewayStays
      /\ \A e \in Event : Pending(e)' =>
            \/ Pending(e)
            \/ /\ Started(r) /\ r.thread \in subscribed
               /\ e = [type |-> "turn.started", turn |-> r.turn]
  BY <1>1, BaseServe
<1>3. /\ request # Nothing /\ r.op = request.op /\ Fits(request.op, request.thread)
      /\ wire \in Seq(Reply \cup Event) /\ wire' = Append(wire, r)
      /\ UNCHANGED <<notifications, finished, active, command, current>>
      /\ rejoined' \in {rejoined, TRUE}
  BY <1>1 DEF ServedBy, ServedWith, BaseInv, CallsFit, SessionTypeOK
<1>4. Follows' => Follows
  BY <1>3 DEF Follows
<1>5. \A k \in DOMAIN wire : k \in DOMAIN wire' /\ wire'[k] = wire[k]
  BY <1>3, AppendFacts
<1>6. CASE Started(r)
  <2>1. /\ r.thread = current /\ current \in Thread \cup {NoThread}
        /\ r.turn \in Turn /\ OpenTurn(current, r.turn) /\ UNCHANGED subscribed
    BY <1>3, <1>6 DEF Started, Fits, BaseInv, SessionTypeOK
  <2>2. /\ turnThread'[r.turn] = current /\ turnStatus'[r.turn] = "running"
        /\ \A u \in Turn \ {r.turn} : turnThread'[u] = turnThread[u] /\ turnStatus'[u] = turnStatus[u]
        /\ Publish(current, "turn.started", r.turn)
    BY <2>1, Opened DEF BaseInv
  <2> QED
    BY <1>3, <1>4, <1>5, <2>1, <2>2, ViewPublished
<1>7. CASE ~Started(r)
  <2>1. UNCHANGED <<turnThread, turnStatus>>
    BY <1>1, <1>7 DEF ServedBy, Created, Looked, Resubscribed, Refused
  <2>2. SameTurns
    BY <2>1 DEF SameTurns
  <2>3. KnownFrames
    BY <1>2, <1>7 DEF KnownFrames, Pending
  <2>4. ASSUME Follows PROVE /\ current \in Thread /\ forwarding'[current] = forwarding[current]
                             /\ current \in subscribed'
    <3>1. current \in Thread /\ current \in subscribed
      BY <2>4 DEF ViewInv, Follows, BaseInv, SessionTypeOK
    <3>2. CASE ~Resubscribed(r)
      BY <1>1, <1>7, <3>1, <3>2 DEF ServedBy, Created, Looked, Refused
    <3>3. CASE Resubscribed(r)
      <4>1. r.thread # current
        BY <3>3 DEF Resubscribed, Follows
      <4> QED
        BY <3>1, <3>3, <4>1 DEF Resubscribed, BaseInv, SessionTypeOK
    <3> QED
      BY <3>2, <3>3
  <2>5. Follows => EndsKept
    <3> SUFFICES ASSUME Follows, NEW e \in Event, Pending(e), turnThread[e.turn] = current
                 PROVE  Pending(e)'
      BY DEF EndsKept
    <3>1. CASE \E th \in Thread : \E k \in DOMAIN forwarding[th] : forwarding[th][k] = e
      <4>1. \E k \in DOMAIN forwarding[current] : forwarding[current][k] = e
        BY <3>1 DEF BaseInv, EventsInv
      <4> QED
        BY <2>4, <4>1 DEF Pending
    <3>2. CASE \E k \in DOMAIN wire : wire[k] = e
      BY <1>5, <3>2 DEF Pending
    <3>3. CASE \E k \in DOMAIN notifications : notifications[k] = e
      BY <1>3, <3>3 DEF Pending
    <3> QED
      BY <3>1, <3>2, <3>3 DEF Pending
  <2>6. ASSUME Follows PROVE FollowsUp(forwarding'[current], wire', notifications, Mine,
                                       Running(current), active)
    <3>1. FollowsUp(forwarding[current], wire, notifications, Mine, Running(current), active)
      BY <2>6 DEF ViewInv, ViewFollows
    <3>2. r \notin Mine /\ r \in Reply \cup Event
      BY FrameKinds DEF Mine
    <3> QED
      BY <1>3, <2>4, <2>6, <3>1, <3>2, FollowsOtherFrame
  <2> QED
    BY <1>2, <1>3, <1>4, <2>2, <2>3, <2>4, <2>5, <2>6, ViewMoves
<1> QED
  BY <1>6, <1>7

\* The commands of the user, and how they go on with a reply.
LEMMA ViewIssue ==
    ASSUME BaseInv, ViewInv, Issue PROVE ViewInv'
<1> USE DEF gateway, feeds, view
<1>1. GatewayStays /\ Issued
  BY BaseIssue
<1>2. UNCHANGED <<turnThread, turnStatus, forwarding, wire, notifications, current, active, finished,
                  subscribed, rejoined>>
  BY <1>1 DEF Issued
<1>3. SameTurns /\ KnownFrames /\ EndsKept
  BY <1>2 DEF SameTurns, KnownFrames, EndsKept, Pending
<1>4. Follows' => Follows
  BY <1>1, <1>2 DEF Issued, Follows, OneShots
<1> QED
  BY <1>1, <1>2, <1>3, <1>4, ViewMoves DEF ViewInv, ViewFollows

\* A thread the client has created and now enters is quiet.
LEMMA ViewEntered ==
    ASSUME BaseInv, OwnInv, Resume, ThreadEntered, command = "/new" PROVE ViewInv'
<1> USE DEF feeds
<1>1. /\ BaseInv' /\ GatewayStays /\ NoNewEvents
      /\ Fits(answer.op, answer.thread) /\ Told(answer)
      /\ UNCHANGED <<turnThread, turnStatus, forwarding, wire, notifications, subscribed>>
  BY BaseResume DEF Resume
<1>2. /\ answer.thread = target /\ target \in threads /\ target \in subscribed
      /\ snapshot = NoTurn \/ turnThread[snapshot] = target
      /\ current' = target /\ active' = snapshot
  BY <1>1 DEF ThreadEntered, Fits, Told
<1>3. target \in Thread /\ \A t \in Turn : turnThread[t] # target
  BY <1>2, SessionAssumption DEF OwnInv, FreshInv, Fresh, BaseInv, SessionTypeOK
<1>4. active' = NoTurn
  BY <1>2, <1>3 DEF BaseInv, SessionTypeOK
<1>5. Mine' = {} /\ Running(current)' = {}
  BY <1>1, <1>2, <1>3 DEF Mine, Running, Event
<1>6. forwarding[target] = <<>>
  <2>1. forwarding[target] \in Seq(Event)
    BY <1>3 DEF BaseInv, SessionTypeOK
  <2>2. \A k \in DOMAIN forwarding[target] :
            forwarding[target][k] \in Event /\ turnThread[forwarding[target][k].turn] = target
    BY <1>3, <2>1 DEF BaseInv, EventsInv
  <2>3. \A e \in Event : e.turn \in Turn
    BY DEF Event
  <2>4. 1 \notin DOMAIN forwarding[target]
    BY <1>3, <2>2, <2>3
  <2> QED
    BY <2>1, <2>4, TailFacts
<1>7. ViewFollows'
  <2>1. FollowsUp(<<>>, wire, notifications, {}, {}, NoTurn)
    BY DEF FollowsUp, HasOf
  <2> QED
    BY <1>1, <1>2, <1>4, <1>5, <1>6, <2>1 DEF ViewFollows
<1>8. EndsAreKnown'
  BY <1>1, <1>2, <1>3 DEF EndsAreKnown
<1> QED
  BY <1>1, <1>2, <1>7, <1>8 DEF ViewInv

\* The reply to turn.start makes the turn active, unless it is known to have ended.
LEMMA ViewStarted ==
    ASSUME BaseInv, ViewInv, Resume, TurnStarted PROVE ViewInv'
<1> USE DEF feeds
<1>1. /\ GatewayStays /\ answer \in Reply /\ Fits(answer.op, answer.thread) /\ Told(answer)
      /\ UNCHANGED <<turnThread, turnStatus, forwarding, wire, notifications, subscribed>>
  BY BaseResume DEF Resume
<1>2. /\ answer.turn \in Turn /\ turnThread[answer.turn] = current
      /\ command \in {"/start", "text", "run_once"}
      /\ current # NoThread
      /\ UNCHANGED <<current, finished, rejoined>>
      /\ active' = IF answer.turn \in finished THEN active ELSE answer.turn
      /\ command = "run_once" => command' = "waiting"
  BY <1>1 DEF TurnStarted, Fits, Told
<1>3. Follows' => Follows
  BY <1>2 DEF Follows, OneShots
<1>4. SameTurns /\ KnownFrames /\ EndsKept
  BY <1>1, <1>2 DEF SameTurns, KnownFrames, EndsKept, Pending
<1>5. ASSUME Follows PROVE FollowsUp(forwarding[current], wire, notifications, Mine,
                                     Running(current), active')
  <2>1. /\ FollowsUp(forwarding[current], wire, notifications, Mine, Running(current), active)
        /\ EndsAreKnown
    BY <1>5 DEF ViewInv, ViewFollows
  <2>2. ASSUME answer.turn \notin finished, forwarding[current] = <<>>, ~HasOf(wire, Mine),
               ~HasOf(notifications, Mine)
        PROVE  answer.turn \in Running(current)
    <3> DEFINE e == [type |-> "turn.ended", turn |-> answer.turn]
    <3>1. e \in Event /\ e.turn = answer.turn
      BY <1>2 DEF Event
    <3>2. turnStatus[answer.turn] = "ended" => Pending(e)
      BY <1>2, <2>1, <2>2 DEF EndsAreKnown
    <3> HIDE DEF e
    <3>3. turnStatus[answer.turn] # "ended"
      BY <1>2, <2>2, <3>1, <3>2, PendingIsQueued
    <3>4. turnStatus[answer.turn] # "absent"
      BY <1>2 DEF BaseInv, TurnsInv
    <3> QED
      BY <1>2, <3>3, <3>4 DEF Running, BaseInv, SessionTypeOK
  <2> QED
    BY <1>2, <2>1, <2>2, SessionAssumption DEF FollowsUp
<1> QED
  BY <1>1, <1>2, <1>3, <1>4, <1>5, ViewMoves DEF ViewInv

LEMMA ViewResume ==
    ASSUME BaseInv, OwnInv, ViewInv, Resume PROVE ViewInv'
<1> USE DEF feeds, view
<1>1. /\ GatewayStays /\ command \notin Resting
      /\ UNCHANGED <<turnThread, turnStatus, forwarding, wire, notifications, subscribed>>
  BY BaseResume DEF Resume
<1>2. ASSUME UNCHANGED <<current, active, finished>>, Follows' => Follows PROVE ViewInv'
  <2>1. SameTurns /\ KnownFrames /\ EndsKept
    BY <1>1, <1>2 DEF SameTurns, KnownFrames, EndsKept, Pending
  <2> QED
    BY <1>1, <1>2, <2>1, ViewMoves DEF ViewInv, ViewFollows
<1>3. CASE ThreadCreated \/ SnapshotRead
  BY <1>2, <1>3 DEF ThreadCreated, SnapshotRead, Follows
<1>4. CASE ThreadEntered
  <2>1. CASE command = "/new"
    BY <1>4, <2>1, ViewEntered
  <2>2. CASE command # "/new"
    BY <1>4, <2>2 DEF ThreadEntered, ViewInv, Follows
  <2> QED
    BY <2>1, <2>2
<1>5. CASE TurnStarted
  BY <1>5, ViewStarted
<1>6. CASE CommandEnds \/ CommandFails
  <2>1. /\ command = "run_once" => command' = "exited"
        /\ command \notin Resting
        /\ UNCHANGED <<current, active, finished, rejoined>>
    BY <1>1, <1>6 DEF CommandEnds, CommandFails, Finish
  <2>2. Follows' => Follows
    BY <2>1 DEF Follows, OneShots, Resting
  <2> QED
    BY <1>2, <2>1, <2>2
<1> QED
  BY <1>3, <1>4, <1>5, <1>6 DEF Resume

LEMMA ViewStep == BaseInv /\ OwnInv /\ ViewInv /\ [Next]_vars => ViewInv'
<1>1. ASSUME BaseInv, ViewInv, UNCHANGED vars PROVE ViewInv'
  <2> USE DEF vars, gateway, feeds, task, view
  <2>1. Follows' = Follows /\ ViewFollows' = ViewFollows /\ EndsAreKnown' = EndsAreKnown
    BY <1>1 DEF Follows, ViewFollows, Mine, Running, EndsAreKnown, Pending
  <2> QED
    BY <1>1, <2>1 DEF ViewInv
<1> QED
  BY <1>1, ViewGateway, ViewForward, ViewDispatch, ViewHandle, ViewServe, ViewIssue, ViewResume
  DEF Next, Handled

\* A client in a thread it created, whose subscription it has not touched since,
\* takes for active the turn that runs once nothing is under way, in whatever order
\* the reply to turn.start and the events of the turn have reached it.
THEOREM OwnViewCorrect == Spec => []OwnViewIsRight
<1>1. Init => BaseInv /\ OwnInv /\ ViewInv
  <2>1. Init => OwnInv
    BY DEF Init, OwnInv, FreshInv, FeedInv, OneShotInv, OneShotSawItsTurn, Replied, Pending,
       OneShots
  <2>2. Init => ViewInv
    BY DEF Init, ViewInv, Follows
  <2> QED
    BY <2>1, <2>2, BaseInit
<1>2. BaseInv /\ OwnInv /\ ViewInv /\ [Next]_vars => BaseInv' /\ OwnInv' /\ ViewInv'
  BY BaseStep, OwnStep, ViewStep
<1>3. BaseInv /\ ViewInv => OwnViewIsRight
  <2> SUFFICES ASSUME BaseInv, ViewInv, ~rejoined, Quiet, command = "prompt", current # NoThread
               PROVE  active = RunningTurn(current)
    BY DEF OwnViewIsRight, SettledViewIsRight
  <2>1. forwarding[current] = <<>> /\ ~HasOf(wire, Mine) /\ ~HasOf(notifications, Mine)
    BY DEF Quiet, HasOf, BaseInv, SessionTypeOK
  <2>2. IF active = NoTurn THEN Running(current) = {} ELSE active \in Running(current)
    BY <2>1 DEF ViewInv, Follows, OneShots, ViewFollows, FollowsUp
  <2>3. \A t, u \in Running(current) : t = u
    BY DEF Running, BaseInv, TurnsInv
  <2> QED
    BY <2>2, <2>3, RunningTurnFacts DEF RunningTurn
<1> QED
  BY <1>1, <1>2, <1>3, PTL DEF Spec

=============================================================================
