----------------------- MODULE SubscriptionProperties -----------------------
(* What a client may rely on when it subscribes to a thread. *)
EXTENDS ThreadSubscriptions

IsEvent(frame) == "by" \in DOMAIN frame

\* The positions forwarder f has sent to its client, is sending, and has before it.
SentBy(f) ==
    LET frames == sent[forwarder[f].conn] IN
    {frames[j].event : j \in {j \in DOMAIN frames : IsEvent(frames[j]) /\ frames[j].by = f}}

InHand(f) == IF forwarder[f].at = "sending" THEN {forwarder[f].event} ELSE {}

Queued(f) == {queue[f][k] : k \in DOMAIN queue[f]}

Pushed(f) == SentBy(f) \cup InHand(f) \cup Queued(f)

\* The positions of its thread's feed that f has to push: those since its queue
\* was registered, the progress left out unless the mode is proactive.
Owed(f) ==
    LET th == forwarder[f].thread IN
    {k \in DOMAIN published[th] :
        /\ k > since[f]
        /\ published[th][k] # "turn.progress" \/ forwarder[f].mode = "proactive"}

\* test_methods.py:93, across any sequence of subscribe and unsubscribe: a
\* client gets an event of a thread at most once, and in the order of the feed.
EachEventOnceInOrder ==
    \A c \in Connection : \A j, k \in DOMAIN sent[c] :
        /\ j < k
        /\ IsEvent(sent[c][j]) /\ IsEvent(sent[c][k])
        /\ sent[c][j].thread = sent[c][k].thread
        => sent[c][j].event < sent[c][k].event

\* A subscription misses nothing from its registration on: what was sent, what
\* is being sent and what waits, in this order, are together exactly what it owes.
NothingIsMissed ==
    \A f \in subscribers : forwarder[f].at \in {"waiting", "sending"} =>
        /\ Pushed(f) = Owed(f)
        /\ \A e \in SentBy(f) : \A p \in InHand(f) \cup Queued(f) : e < p
        /\ \A p \in InHand(f) : \A q \in Queued(f) : p < q
        /\ \A j, k \in DOMAIN queue[f] : j < k => queue[f][j] < queue[f][k]

\* When a connection is back at receive, the answer it gave is true: the threads
\* it counts as subscribed have a registered forwarder at work, and no other
\* forwarder of the connection is still running (unsubscribe really stops).
AnsweredIsDone ==
    \A c \in Connection : handler[c].at = "receiving" =>
        /\ \A th \in Thread :
              LET f == subscriptions[c][th] IN
              f # NoForwarder /\ online[c] =>
                  f \in subscribers /\ forwarder[f].at \in {"waiting", "sending"}
        /\ \A f \in Forwarder :
              forwarder[f].at \in {"created", "waiting", "sending"} /\ forwarder[f].conn = c
                  => subscriptions[c][forwarder[f].thread] = f

\* README.md:113: a turn gets progress if any client has been answered that it
\* subscribed with progress, whatever the modes of the others.
ProgressIsAggregated ==
    [][ \A th \in Thread : TurnStarts(th) =>
          \A c \in Connection :
              LET f == subscriptions[c][th] IN
              /\ f # NoForwarder /\ online[c] /\ handler[c].at = "receiving"
              /\ forwarder[f].mode # "off"
              => progressEnabled'[th] ]_vars

\* README.md:118, "Subscription changes apply to the next turn": a connection that
\* only ever changes its progress mode keeps the turn it follows.  The end of a turn
\* whose start it was sent, once queued for it, was sent too, or waits with a
\* forwarder that is still at work.
ModeChangeKeepsEvents ==
    \A c \in Connection, th \in Thread :
        LET mine   == {f \in Forwarder : /\ forwarder[f] # Unused
                                         /\ forwarder[f].conn = c
                                         /\ forwarder[f].thread = th}
            got    == UNION {SentBy(f) : f \in mine}
            coming == UNION {Pushed(f) : f \in {f \in mine : forwarder[f].at # "ended"}}
            feedOf == published[th]
        IN  /\ handler[c].at = "receiving" /\ online[c]
            /\ subscriptions[c][th] # NoForwarder
            /\ [reply |-> [op |-> "unsubscribe", thread |-> th]]
                   \notin {sent[c][k] : k \in DOMAIN sent[c]}
            => \A j, k \in DOMAIN feedOf :
                  /\ feedOf[j] = "turn.started" /\ j \in got
                  /\ feedOf[k] = "turn.ended" /\ j < k
                  /\ \A i \in j + 1 .. k - 1 : feedOf[i] = "turn.progress"
                  /\ \E f \in mine : k \in Pushed(f)
                  => k \in got \cup coming

-----------------------------------------------------------------------------
\* Every request that is taken up is answered or ends the connection.
RequestsAreAnswered ==
    \A c \in Connection :
        handler[c].at \in {"stopping", "ready", "replying", "failing"}
            ~> handler[c].at \in {"receiving", "closing", "closed"}

\* A client that has left holds no queue in the broker for good.
DisconnectReleasesQueues ==
    \A c \in Connection :
        ~online[c] ~> \A f \in subscribers : forwarder[f].conn # c
=============================================================================
