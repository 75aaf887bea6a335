--------------------------- MODULE ThreadHistory ---------------------------
(***************************************************************************)
(* What get_thread reads back: the turns and items of a thread ordered by  *)
(* created_at, ties by id.  The service stamps a row with the wall clock   *)
(* in the step that commits it; ids are random and the clock may stand     *)
(* still or step back between two commits.  completed_at is left out: no   *)
(* query orders by it.                                                     *)
(***************************************************************************)
EXTENDS SQLModelRepository, Integers, SequencesExt

CONSTANTS
    MaxClock        \* bound on the wall clock

\* Ids are compared as strings: any total order of theirs will do.
ASSUME HistoryAssumption == Turn \cup Item \subseteq Int /\ MaxClock \in Nat

VARIABLES
    clock,          \* datetime.now(UTC)
    turnAt, itemAt, \* created_at of the stored rows
    committed,      \* history: the items of each thread as they were committed
    steady          \* history: the clock moved on between any two commits

stampVars   == <<turnAt, itemAt, committed, steady>>
historyVars == <<repoVars, clock, stampVars>>

Never == -1

HistoryTypeOK ==
    /\ RepoTypeOK
    /\ clock \in 0..MaxClock
    /\ turnAt \in [Turn -> Never..MaxClock]
    /\ itemAt \in [Item -> Never..MaxClock]
    /\ committed \in [Thread -> Seq(Item)]
    /\ steady \in BOOLEAN

HistoryInit ==
    /\ RepoInit
    /\ clock \in 0..MaxClock
    /\ turnAt = [t \in Turn |-> Never] /\ itemAt = [i \in Item |-> Never]
    /\ committed = [th \in Thread |-> <<>>]
    /\ steady = TRUE

\* The rows a write has added.
NewTurns == {t \in Turn : turnStatus[t] = "absent" /\ turnStatus'[t] # "absent"}
NewItems == {i \in Item : itemTurn[i] = NoTurn /\ itemTurn'[i] # NoTurn}

\* Faulty variant: a turn that ends is stamped as if it were new.
StampEndedAsNew(at, new) ==
    LET ended == {t \in Turn : turnStatus[t] = "running" /\ turnStatus'[t] # "running"}
    IN  [x \in DOMAIN at |-> IF x \in new \cup (ended \cap DOMAIN at) THEN clock ELSE at[x]]

\* Rows that are there keep their stamps.
StampNew(at, new) == [x \in DOMAIN at |-> IF x \in new THEN clock ELSE at[x]]

\* Every row a write adds gets the time of its step.
Stamp ==
    /\ turnAt' = StampNew(turnAt, NewTurns)
    /\ itemAt' = StampNew(itemAt, NewItems)
    /\ committed' = [th \in Thread |-> committed[th] \o
                        SetToSeq({i \in NewItems : itemThread'[i] = th})]
    /\ steady' = (steady /\ (NewItems # {} => \A i \in Item : itemAt[i] < clock))
    /\ UNCHANGED clock

Write == RepoNext /\ Stamp

\* Time passes, or the clock of the machine is set.
ClockMoves ==
    /\ clock' \in (0..MaxClock) \ {clock}
    /\ UNCHANGED <<repoVars, stampVars>>

HistoryNext == Write \/ ClockMoves

HistorySpec == HistoryInit /\ [][HistoryNext]_historyVars

-----------------------------------------------------------------------------
\* Faulty variant: rows come back by their primary keys.
ById(at, rows) == SetToSortSeq(rows, LAMBDA a, b : a < b)

\* A row comes before another one of its table.
Older(at, a, b) == at[a] < at[b] \/ (at[a] = at[b] /\ a < b)

\* ORDER BY created_at, id: the n-th row has n - 1 older ones.
ByCreation(at, rows) ==
    [n \in 1..Cardinality(rows) |->
        CHOOSE a \in rows : Cardinality({b \in rows : Older(at, b, a)}) = n - 1]

\* The two queries of get_thread.
TurnsRead(th) == ByCreation(turnAt, {t \in Turn : turnThread[t] = th})
ItemsRead(th) == ByCreation(itemAt, {i \in Item : itemThread[i] = th})

\* sqlmodel.py:60-79, agents/context.py:13: while the clock moves on between
\* commits, a snapshot, and the prompt built from it, is in the order of commits.
ReadsFollowCommits == steady => \A th \in Thread : ItemsRead(th) = committed[th]

\* The rows of one read are in a later one, in the same order.
IsWithin(before, after) ==
    \A i, j \in DOMAIN before : \E k, l \in DOMAIN after :
        after[k] = before[i] /\ after[l] = before[j] /\ (k < l <=> i < j)

\* sqlmodel.py:60-79: whatever the clock does, what one read returned in some
\* order comes back in that order, with new rows between.
ReadsAreStable ==
    [][ \A th \in Thread :
          /\ \A read \in {TurnsRead(th)}, again \in {TurnsRead(th)'} : IsWithin(read, again)
          /\ \A read \in {ItemsRead(th)}, again \in {ItemsRead(th)'} : IsWithin(read, again)
      ]_historyVars
=============================================================================
