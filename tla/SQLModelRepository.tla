------------------------- MODULE SQLModelRepository -------------------------
(***************************************************************************)
(* The durable state of the gateway: the tables threads, turns and items   *)
(* of one SQLite file, and the writes of SQLModelRepository.  A write runs *)
(* in one Session under the repository's lock and never suspends, so it is *)
(* one step; it commits or rolls back as a whole.                          *)
(*                                                                         *)
(* Timestamps and payloads are left out: no guard of a write reads them.   *)
(***************************************************************************)
EXTENDS FiniteSets

CONSTANTS
    Thread,         \* ids of threads (uuid4)
    Turn,           \* ids of turns
    Item,           \* ids of items
    NoThread,       \* no thread: the column of a row that does not exist
    NoTurn,         \* no turn
    LegacySchema    \* TRUE: the file was created before the partial unique index

ASSUME RepoAssumption ==
    /\ NoThread \notin Thread
    /\ NoTurn \notin Turn
    /\ LegacySchema \in BOOLEAN

VARIABLES
    threads,        \* primary keys of table threads
    turnThread,     \* turns.thread_id, by primary key
    turnStatus,     \* turns.status, "absent" when there is no such row
    itemThread,     \* items.thread_id, by primary key
    itemTurn        \* items.turn_id, NoTurn when there is no such row

repoVars == <<threads, turnThread, turnStatus, itemThread, itemTurn>>

Terminal   == {"completed", "interrupted", "failed"}
TurnStatus == {"running"} \cup Terminal

RepoTypeOK ==
    /\ threads \subseteq Thread
    /\ turnThread \in [Turn -> Thread \cup {NoThread}]
    /\ turnStatus \in [Turn -> TurnStatus \cup {"absent"}]
    /\ itemThread \in [Item -> Thread \cup {NoThread}]
    /\ itemTurn \in [Item -> Turn \cup {NoTurn}]

\* create_all on a new file.
RepoInit ==
    /\ threads = {}
    /\ turnThread = [t \in Turn |-> NoThread]
    /\ turnStatus = [t \in Turn |-> "absent"]
    /\ itemThread = [i \in Item |-> NoThread]
    /\ itemTurn = [i \in Item |-> NoTurn]

-----------------------------------------------------------------------------
\* Faulty variant: initialize() only creates tables.
RecoverNothing == UNCHANGED repoVars

\* initialize(): the turns a previous process left running are interrupted.
RecoverRunningTurns ==
    /\ turnStatus' = [t \in Turn |-> IF turnStatus[t] = "running"
                                       THEN "interrupted" ELSE turnStatus[t]]
    /\ UNCHANGED <<threads, turnThread, itemThread, itemTurn>>

CreateThread(th) ==
    /\ th \notin threads
    /\ threads' = threads \cup {th}
    /\ UNCHANGED <<turnThread, turnStatus, itemThread, itemTurn>>

\* Faulty variant: no partial unique index.
IndexAdmitsAll(th) == th \in Thread

\* The index on thread_id WHERE status = 'running' admits a running row.
IndexAdmits(th) ==
    LegacySchema \/ \A t \in Turn : ~(turnThread[t] = th /\ turnStatus[t] = "running")

\* Faulty variant: the turn is committed before its message is inserted.
CreateTurnThenItem(t, th, i) ==
    /\ th \in threads
    /\ turnStatus[t] = "absent"
    /\ IndexAdmits(th)
    /\ turnThread' = [turnThread EXCEPT ![t] = th]
    /\ turnStatus' = [turnStatus EXCEPT ![t] = "running"]
    /\ IF itemTurn[i] = NoTurn
         THEN /\ itemThread' = [itemThread EXCEPT ![i] = th]
              /\ itemTurn' = [itemTurn EXCEPT ![i] = t]
         ELSE UNCHANGED <<itemThread, itemTurn>>
    /\ UNCHANGED threads

\* create_turn(): the running row and the user's message, both or neither.
CreateTurn(t, th, i) ==
    /\ th \in threads
    /\ turnStatus[t] = "absent"
    /\ IndexAdmits(th)
    /\ itemTurn[i] = NoTurn
    /\ turnThread' = [turnThread EXCEPT ![t] = th]
    /\ turnStatus' = [turnStatus EXCEPT ![t] = "running"]
    /\ itemThread' = [itemThread EXCEPT ![i] = th]
    /\ itemTurn' = [itemTurn EXCEPT ![i] = t]
    /\ UNCHANGED threads

\* add_item(): only the primary key and the two foreign keys are checked.
AddItem(i, th, t) ==
    /\ itemTurn[i] = NoTurn
    /\ th \in threads
    /\ turnStatus[t] # "absent"
    /\ itemThread' = [itemThread EXCEPT ![i] = th]
    /\ itemTurn' = [itemTurn EXCEPT ![i] = t]
    /\ UNCHANGED <<threads, turnThread, turnStatus>>

\* Faulty variant: the row is updated whatever its status.
FinishAnyTurn(t, status) ==
    /\ turnStatus[t] # "absent"
    /\ turnStatus' = [turnStatus EXCEPT ![t] = status]
    /\ UNCHANGED <<threads, turnThread, itemThread, itemTurn>>

FinishTurn(t, status) ==
    /\ status # "running"
    /\ turnStatus[t] = "running"
    /\ turnStatus' = [turnStatus EXCEPT ![t] = status]
    /\ UNCHANGED <<threads, turnThread, itemThread, itemTurn>>

-----------------------------------------------------------------------------
(* The repository on its own, under callers that pass any ids.  A call that *)
(* raises changes nothing and is a stuttering step.                         *)
RepoNext ==
    \/ RecoverRunningTurns
    \/ \E th \in Thread : CreateThread(th)
    \/ \E t \in Turn, th \in Thread, i \in Item : CreateTurn(t, th, i)
    \/ \E i \in Item, th \in Thread, t \in Turn : AddItem(i, th, t)
    \/ \E t \in Turn, s \in Terminal : FinishTurn(t, s)

RepoSpec == RepoInit /\ [][RepoNext]_repoVars

-----------------------------------------------------------------------------
\* README.md:5, the index of TurnRow: at most one turn of a thread is running.
OneRunningTurnPerThread ==
    \A t, u \in Turn :
        /\ turnStatus[t] = "running" /\ turnStatus[u] = "running"
        /\ turnThread[t] = turnThread[u]
        => t = u

\* PRAGMA foreign_keys and the rollback of create_turn: no row refers to a
\* missing one, and a stored turn has at least its user's message.
RowsAreConnected ==
    /\ \A t \in Turn : turnStatus[t] # "absent" =>
          /\ turnThread[t] \in threads
          /\ \E i \in Item : itemTurn[i] = t
    /\ \A i \in Item : itemTurn[i] # NoTurn =>
          /\ itemThread[i] \in threads
          /\ turnStatus[itemTurn[i]] # "absent"

\* A terminal status is final, and rows are neither moved nor deleted.
HistoryIsFinal ==
    [][ /\ \A t \in Turn : turnStatus[t] # "absent" =>
              /\ turnThread'[t] = turnThread[t]
              /\ turnStatus'[t] = turnStatus[t] \/ turnStatus[t] = "running"
        /\ \A i \in Item : itemTurn[i] # NoTurn =>
              /\ itemTurn'[i] = itemTurn[i]
              /\ itemThread'[i] = itemThread[i] ]_repoVars
=============================================================================
