-------------------------- MODULE RepositoryProofs --------------------------
(***************************************************************************)
(* Theorems about the tables, for any ids and under any sequence of calls. *)
(***************************************************************************)
EXTENDS SQLModelRepository, TLAPS

\* A call of the repository writes only what the columns can hold.
LEMMA RepoTypeStep == RepoTypeOK /\ [RepoNext]_repoVars => RepoTypeOK'
<1> SUFFICES ASSUME RepoTypeOK, [RepoNext]_repoVars PROVE RepoTypeOK'
  OBVIOUS
<1> USE DEF RepoTypeOK, TurnStatus, Terminal
<1>1. CASE UNCHANGED repoVars
  BY <1>1 DEF repoVars
<1>2. CASE RecoverRunningTurns
  BY <1>2 DEF RecoverRunningTurns
<1>3. ASSUME NEW th \in Thread, CreateThread(th) PROVE RepoTypeOK'
  BY <1>3 DEF CreateThread
<1>4. ASSUME NEW t \in Turn, NEW th \in Thread, NEW i \in Item, CreateTurn(t, th, i)
      PROVE  RepoTypeOK'
  BY <1>4 DEF CreateTurn
<1>5. ASSUME NEW i \in Item, NEW th \in Thread, NEW t \in Turn, AddItem(i, th, t)
      PROVE  RepoTypeOK'
  BY <1>5 DEF AddItem
<1>6. ASSUME NEW t \in Turn, NEW s \in Terminal, FinishTurn(t, s)
      PROVE  RepoTypeOK'
  BY <1>6 DEF FinishTurn, Terminal
<1> QED
  BY <1>1, <1>2, <1>3, <1>4, <1>5, <1>6 DEF RepoNext

\* database.py and sqlmodel.py write only what the columns can hold.
THEOREM TablesTypeCorrect == RepoSpec => []RepoTypeOK
<1>1. RepoInit => RepoTypeOK
  BY DEF RepoInit, RepoTypeOK, TurnStatus, Terminal
<1> QED
  BY <1>1, RepoTypeStep, PTL DEF RepoSpec

\* sqlmodel.py:81-101 with the foreign keys: no sequence of calls leaves a row
\* without its parents or a turn without its user's message.
THEOREM RowsConnectedCorrect == RepoSpec => []RowsAreConnected
<1>1. RepoInit => RowsAreConnected
  BY DEF RepoInit, RowsAreConnected
<1>2. RepoTypeOK /\ RowsAreConnected /\ [RepoNext]_repoVars => RowsAreConnected'
  <2> SUFFICES ASSUME RepoTypeOK, RowsAreConnected, [RepoNext]_repoVars
               PROVE  RowsAreConnected'
    OBVIOUS
  <2> USE DEF RepoTypeOK, RowsAreConnected
  <2>1. CASE UNCHANGED repoVars
    BY <2>1 DEF repoVars
  <2>2. CASE RecoverRunningTurns
    BY <2>2 DEF RecoverRunningTurns
  <2>3. ASSUME NEW th \in Thread, CreateThread(th) PROVE RowsAreConnected'
    BY <2>3 DEF CreateThread
  <2>4. ASSUME NEW t \in Turn, NEW th \in Thread, NEW i \in Item, CreateTurn(t, th, i)
        PROVE  RowsAreConnected'
    <3>1. \A u \in Turn : turnStatus'[u] # "absent" =>
            /\ turnThread'[u] \in threads
            /\ \E j \in Item : itemTurn'[j] = u
      <4>1. ASSUME NEW u \in Turn, u # t, turnStatus[u] # "absent"
            PROVE  \E j \in Item : itemTurn'[j] = u
        <5>1. PICK j \in Item : itemTurn[j] = u
          BY <4>1
        <5>2. j # i
          BY <2>4, <4>1, <5>1, RepoAssumption DEF CreateTurn
        <5> QED
          BY <2>4, <5>1, <5>2 DEF CreateTurn
      <4> QED
        BY <2>4, <4>1 DEF CreateTurn
    <3>2. \A j \in Item : itemTurn'[j] # NoTurn =>
            /\ itemThread'[j] \in threads
            /\ turnStatus'[itemTurn'[j]] # "absent"
      BY <2>4 DEF CreateTurn
    <3> QED
      BY <2>4, <3>1, <3>2 DEF CreateTurn
  <2>5. ASSUME NEW i \in Item, NEW th \in Thread, NEW t \in Turn, AddItem(i, th, t)
        PROVE  RowsAreConnected'
    <3>1. ASSUME NEW u \in Turn, turnStatus[u] # "absent"
          PROVE  \E j \in Item : itemTurn'[j] = u
      <4>1. PICK j \in Item : itemTurn[j] = u
        BY <3>1
      <4>2. j # i
        BY <2>5, <4>1, RepoAssumption DEF AddItem
      <4> QED
        BY <2>5, <4>1, <4>2 DEF AddItem
    <3> QED
      BY <2>5, <3>1 DEF AddItem
  <2>6. ASSUME NEW t \in Turn, NEW s \in Terminal, FinishTurn(t, s)
        PROVE  RowsAreConnected'
    BY <2>6 DEF FinishTurn, Terminal
  <2> QED
    BY <2>1, <2>2, <2>3, <2>4, <2>5, <2>6 DEF RepoNext
<1> QED
  BY <1>1, <1>2, TablesTypeCorrect, PTL DEF RepoSpec

\* sqlmodel.py:41-116: a terminal status is final, rows are neither moved nor
\* deleted, whatever calls come, recovery included.
THEOREM HistoryFinalCorrect == RepoSpec => HistoryIsFinal
<1> DEFINE Final ==
      /\ \A t \in Turn : turnStatus[t] # "absent" =>
            /\ turnThread'[t] = turnThread[t]
            /\ turnStatus'[t] = turnStatus[t] \/ turnStatus[t] = "running"
      /\ \A i \in Item : itemTurn[i] # NoTurn =>
            /\ itemTurn'[i] = itemTurn[i]
            /\ itemThread'[i] = itemThread[i]
<1>1. RepoTypeOK /\ [RepoNext]_repoVars => [Final]_repoVars
  <2> SUFFICES ASSUME RepoTypeOK, RepoNext PROVE Final
    OBVIOUS
  <2> USE DEF RepoTypeOK
  <2>1. CASE RecoverRunningTurns
    BY <2>1 DEF RecoverRunningTurns
  <2>2. ASSUME NEW th \in Thread, CreateThread(th) PROVE Final
    BY <2>2 DEF CreateThread
  <2>3. ASSUME NEW t \in Turn, NEW th \in Thread, NEW i \in Item, CreateTurn(t, th, i)
        PROVE  Final
    BY <2>3 DEF CreateTurn
  <2>4. ASSUME NEW i \in Item, NEW th \in Thread, NEW t \in Turn, AddItem(i, th, t)
        PROVE  Final
    BY <2>4 DEF AddItem
  <2>5. ASSUME NEW t \in Turn, NEW s \in Terminal, FinishTurn(t, s)
        PROVE  Final
    BY <2>5 DEF FinishTurn
  <2> QED
    BY <2>1, <2>2, <2>3, <2>4, <2>5 DEF RepoNext
<1> QED
  BY <1>1, TablesTypeCorrect, PTL DEF RepoSpec, HistoryIsFinal

\* database.py:19-26: on a file with the partial unique index no sequence of
\* calls makes two turns of a thread run at once.
THEOREM OneRunningInTables ==
    ASSUME ~LegacySchema
    PROVE  RepoSpec => []OneRunningTurnPerThread
<1>1. RepoInit => OneRunningTurnPerThread
  BY DEF RepoInit, OneRunningTurnPerThread
<1>2. RepoTypeOK /\ OneRunningTurnPerThread /\ [RepoNext]_repoVars => OneRunningTurnPerThread'
  <2> SUFFICES ASSUME RepoTypeOK, OneRunningTurnPerThread, [RepoNext]_repoVars
               PROVE  OneRunningTurnPerThread'
    OBVIOUS
  <2> USE DEF RepoTypeOK, OneRunningTurnPerThread
  <2>1. CASE UNCHANGED repoVars
    BY <2>1 DEF repoVars
  <2>2. CASE RecoverRunningTurns
    BY <2>2 DEF RecoverRunningTurns
  <2>3. ASSUME NEW th \in Thread, CreateThread(th) PROVE OneRunningTurnPerThread'
    BY <2>3 DEF CreateThread
  <2>4. ASSUME NEW t \in Turn, NEW th \in Thread, NEW i \in Item, CreateTurn(t, th, i)
        PROVE  OneRunningTurnPerThread'
    <3>1. \A u \in Turn : ~(turnThread[u] = th /\ turnStatus[u] = "running")
      BY <2>4 DEF CreateTurn, IndexAdmits
    <3> QED
      BY <2>4, <3>1 DEF CreateTurn
  <2>5. ASSUME NEW i \in Item, NEW th \in Thread, NEW t \in Turn, AddItem(i, th, t)
        PROVE  OneRunningTurnPerThread'
    BY <2>5 DEF AddItem
  <2>6. ASSUME NEW t \in Turn, NEW s \in Terminal, FinishTurn(t, s)
        PROVE  OneRunningTurnPerThread'
    BY <2>6 DEF FinishTurn
  <2> QED
    BY <2>1, <2>2, <2>3, <2>4, <2>5, <2>6 DEF RepoNext
<1> QED
  BY <1>1, <1>2, TablesTypeCorrect, PTL DEF RepoSpec
=============================================================================
