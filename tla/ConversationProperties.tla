----------------------- MODULE ConversationProperties -----------------------
(***************************************************************************)
(* What the conversation service promises: how the rows, the _running map, *)
(* the tasks and the published events relate.                              *)
(***************************************************************************)
EXTENDS AgentThreadService

TerminalEvents == {Ended(s, t) : s \in Terminal, t \in Turn}

\* _running, written by start_turn and _execute, against the turns table: an
\* entry is always a turn of that thread whose row is running.
RunningIsStored ==
    \A t \in Turn : running[t] # NoThread =>
        /\ turnStatus[t] = "running"
        /\ turnThread[t] = running[t]
        /\ task[t] \in Live \cup {"discarded"}

\* The converse, while the process serves: a running row is executed by a task
\* that can still finish it, so the thread is not blocked for good.  It needs
\* writes that succeed and callers that let a task take its first step.
NoTurnIsOrphaned ==
    process = "up" =>
        \A t \in Turn : turnStatus[t] = "running" => task[t] \in Live

\* README.md:5: the events of two turns of a thread never interleave, restarts
\* and interrupted turns included.
TurnsDoNotInterleave ==
    \A th \in Thread : \A i, j, k \in DOMAIN published[th] :
        /\ i < j /\ j < k
        /\ published[th][i].turn = published[th][k].turn
        => published[th][j].turn = published[th][i].turn

\* After the terminal event of a turn comes no other event of it, and the event
\* names the status that is stored: the handlers finish the row, then publish.
TerminalEventIsLast ==
    \A th \in Thread : \A j \in DOMAIN published[th] :
        published[th][j] \in TerminalEvents =>
            /\ \A k \in DOMAIN published[th] :
                  k > j => published[th][k].turn # published[th][j].turn
            /\ turnStatus[published[th][j].turn] \in Terminal
            /\ published[th][j] = Ended(turnStatus[published[th][j].turn],
                                        published[th][j].turn)

\* A task that ran to its end stored a terminal status and announced it.
EndedTurnsAreAnnounced ==
    \A t \in Turn : task[t] = "done" =>
        /\ turnStatus[t] \in Terminal
        /\ \E j \in DOMAIN published[turnThread[t]] :
              published[turnThread[t]][j] = Ended(turnStatus[t], t)

\* item.completed against the items table.  What is announced as completed is
\* stored in that turn and thread, and an item is in the thread of its turn,
\* whatever ids a request carries.  What is stored was announced as completed;
\* only a kill between the commit and the publication can cut that off, so it is
\* missing for at most one item of a turn, one that no process executes any more
\* and that is, or will be, interrupted by the recovery and ends without an event.
CompletedIsStored ==
    \A th \in Thread : \A j \in DOMAIN published[th] :
        LET e == published[th][j] IN
        e.type = "item.completed" => itemTurn[e.item] = e.turn /\ itemThread[e.item] = th

IsAnnounced(i) ==
    \E j \in DOMAIN published[itemThread[i]] :
        published[itemThread[i]][j] = ItemEvent("item.completed", itemTurn[i], i)

CutOffByKill(t) ==
    /\ task[t] = "none"
    /\ turnStatus[t] = "interrupted" \/ (turnStatus[t] = "running" /\ process = "down")
    /\ \A j \in DOMAIN published[turnThread[t]] :
          published[turnThread[t]][j] \in TerminalEvents =>
              published[turnThread[t]][j].turn # t

StoredIsCompleted ==
    \A i \in Item : itemTurn[i] # NoTurn =>
        /\ itemThread[i] = turnThread[itemTurn[i]]
        /\ \/ IsAnnounced(i)
           \/ /\ CutOffByKill(itemTurn[i])
              /\ \A k \in Item \ {i} : itemTurn[k] = itemTurn[i] => IsAnnounced(k)

AnnouncedIsStored == CompletedIsStored /\ StoredIsCompleted

\* README.md:87-91: the events of an item are item.started, then item.delta*, then
\* at most one item.completed, all of one turn.
ItemLifecycle ==
    \A th \in Thread : \A k \in DOMAIN published[th] :
        LET e       == published[th][k]
            Earlier == {j \in 1 .. k - 1 : published[th][j].item = e.item}
        IN  e.type \in ItemEvents =>
              /\ e.type = "item.started" <=> Earlier = {}
              /\ \A j \in Earlier : /\ published[th][j].turn = e.turn
                                    /\ published[th][j].type # "item.completed"

\* turn.progress.get answers with the progress of the thread's running turn or
\* with nothing; the finally clause of one turn must not leave it to the next.
ProgressIsOfRunningTurn ==
    \A th \in Thread : latestProgress[th] # NoTurn => running[latestProgress[th]] = th

-----------------------------------------------------------------------------
(* The inductive invariant behind the properties above.                    *)

DownIsEmpty      == process = "down" => \A t \in Turn : running[t] = NoThread
TasksAreTracked  == \A t \in Turn : task[t] \in Live \cup {"discarded"} => running[t] # NoThread
RowsHaveThreads  == \A t \in Turn : turnStatus[t] # "absent" => turnThread[t] \in threads

StateInv ==
    /\ TypeOK
    /\ DownIsEmpty
    /\ RunningIsStored
    /\ TasksAreTracked
    /\ RowsHaveThreads
    /\ ProgressIsOfRunningTurn

FeedIsOfItsThread ==
    \A th \in Thread : \A j \in DOMAIN published[th] :
        /\ turnStatus[published[th][j].turn] # "absent"
        /\ turnThread[published[th][j].turn] = th

\* A turn that other events of its thread have followed is over.
SupersededHasEnded ==
    \A th \in Thread : \A j, k \in DOMAIN published[th] :
        j < k /\ published[th][j].turn # published[th][k].turn
            => turnStatus[published[th][j].turn] # "running"

FeedInv ==
    /\ FeedIsOfItsThread
    /\ TerminalEventIsLast
    /\ SupersededHasEnded
    /\ TurnsDoNotInterleave

\* All of it, as one invariant that every step of the service preserves.
ServiceInv == StateInv /\ OneRunningTurnPerThread /\ FeedInv

-----------------------------------------------------------------------------
(* The refinement of TurnLedger.                                           *)

RunningOf(th) == {t \in Turn : turnThread[t] = th /\ turnStatus[t] = "running"}
OpenTurn(th)  == IF RunningOf(th) = {} THEN NoTurn ELSE CHOOSE t \in RunningOf(th) : TRUE

Ledger == INSTANCE TurnLedger WITH
    open    <- [th \in Thread |-> OpenTurn(th)],
    outcome <- [t \in Turn |-> IF turnStatus[t] \in Terminal THEN turnStatus[t] ELSE "none"],
    entries <- [t \in Turn |-> {i \in Item : itemTurn[i] = t}]

\* The service with its tasks, crashes, storage faults and misbehaving runners
\* keeps the ledger: every step changes it as one ledger step, or not at all.
KeepsLedger == Ledger!LedgerSpec

-----------------------------------------------------------------------------
\* Once cancel() is requested the turn ends, by _execute or by the recovery of
\* the next start.
InterruptEndsTurn ==
    \A t \in Turn : task[t] = "cancelling" ~> turnStatus[t] \in Terminal

\* A turn whose process is gone is not left running: the restart recovers it.
RestartEndsTurns ==
    \A t \in Turn : (process = "down" /\ turnStatus[t] = "running")
                        ~> turnStatus[t] = "interrupted"
=============================================================================
