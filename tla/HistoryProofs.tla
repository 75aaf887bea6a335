--------------------------- MODULE HistoryProofs ---------------------------
(***************************************************************************)
(* What get_thread returns, for any rows and any behaviour of the clock.   *)
(***************************************************************************)
EXTENDS ThreadHistory, RepositoryProofs, FiniteSetTheorems, SequenceTheorems

-----------------------------------------------------------------------------
(* The order of the rows.                                                  *)

\* A table that can be sorted: finitely many rows, with stamps and ids.
IsTable(at, rows) ==
    /\ IsFiniteSet(rows) /\ rows \subseteq Int
    /\ \A a \in rows : at[a] \in Int

\* The rows that come before a row.
Elders(at, rows, a) == {b \in rows : Older(at, b, a)}

\* created_at and id order the rows of a table totally.
LEMMA OlderIsTotal ==
    ASSUME NEW at, NEW rows, IsTable(at, rows)
    PROVE  /\ \A a \in rows : ~Older(at, a, a)
           /\ \A a, b \in rows : a # b => Older(at, a, b) \/ Older(at, b, a)
           /\ \A a, b \in rows : ~(Older(at, a, b) /\ Older(at, b, a))
           /\ \A a, b, c \in rows : Older(at, a, b) /\ Older(at, b, c) => Older(at, a, c)
BY DEF IsTable, Older

\* An older row has fewer elders.
LEMMA OlderHasFewer ==
    ASSUME NEW at, NEW rows, IsTable(at, rows),
           NEW a \in rows, NEW b \in rows, Older(at, a, b)
    PROVE  /\ Cardinality(Elders(at, rows, a)) \in Nat
           /\ Cardinality(Elders(at, rows, b)) \in Nat
           /\ Cardinality(Elders(at, rows, a)) < Cardinality(Elders(at, rows, b))
<1>1. Elders(at, rows, a) \subseteq Elders(at, rows, b)
  BY OlderIsTotal DEF Elders
<1>2. a \in Elders(at, rows, b) /\ a \notin Elders(at, rows, a)
  BY OlderIsTotal DEF Elders
<1>3. IsFiniteSet(Elders(at, rows, b))
  BY FS_Subset DEF Elders, IsTable
<1>4. /\ IsFiniteSet(Elders(at, rows, a))
      /\ Cardinality(Elders(at, rows, a)) <= Cardinality(Elders(at, rows, b))
      /\ Cardinality(Elders(at, rows, a)) # Cardinality(Elders(at, rows, b))
  BY <1>1, <1>2, <1>3, FS_Subset
<1>5. Cardinality(Elders(at, rows, a)) \in Nat /\ Cardinality(Elders(at, rows, b)) \in Nat
  BY <1>3, <1>4, FS_CardinalityType
<1> QED
  BY <1>4, <1>5

\* Each number below that of the rows is the number of elders of one row.
LEMMA EachPlaceIsTaken ==
    ASSUME NEW at, NEW rows, IsTable(at, rows)
    PROVE  /\ Cardinality(rows) \in Nat
           /\ \A a \in rows : Cardinality(Elders(at, rows, a)) \in 0..(Cardinality(rows) - 1)
           /\ \A n \in 1..Cardinality(rows) : \E a \in rows :
                 Cardinality(Elders(at, rows, a)) = n - 1
           /\ \A a, b \in rows :
                 Cardinality(Elders(at, rows, a)) = Cardinality(Elders(at, rows, b)) => a = b
<1>1. Cardinality(rows) \in Nat
  BY FS_CardinalityType DEF IsTable
<1>2. ASSUME NEW a \in rows
      PROVE  Cardinality(Elders(at, rows, a)) \in 0..(Cardinality(rows) - 1)
  <2>1. Elders(at, rows, a) \subseteq rows /\ a \notin Elders(at, rows, a)
    BY OlderIsTotal DEF Elders
  <2>2. /\ IsFiniteSet(Elders(at, rows, a))
        /\ Cardinality(Elders(at, rows, a)) <= Cardinality(rows)
        /\ Cardinality(Elders(at, rows, a)) # Cardinality(rows)
    BY <2>1, FS_Subset DEF IsTable
  <2>3. Cardinality(Elders(at, rows, a)) \in Nat
    BY <2>2, FS_CardinalityType
  <2> QED
    BY <1>1, <2>2, <2>3
<1>3. ASSUME NEW a \in rows, NEW b \in rows, a # b
      PROVE  Cardinality(Elders(at, rows, a)) # Cardinality(Elders(at, rows, b))
  <2>1. CASE Older(at, a, b)
    BY <2>1, OlderHasFewer
  <2>2. CASE Older(at, b, a)
    BY <2>2, OlderHasFewer
  <2> QED
    BY <1>3, <2>1, <2>2, OlderIsTotal
<1> DEFINE n     == Cardinality(rows)
           place == [a \in rows |-> Cardinality(Elders(at, rows, a)) + 1]
<1>4. place \in [rows -> 1..n]
  BY <1>1, <1>2
<1>5. place \in Injection(rows, 1..n)
  <2>1. ASSUME NEW a \in rows, NEW b \in rows, place[a] = place[b] PROVE a = b
    <3>1. Cardinality(Elders(at, rows, a)) + 1 = Cardinality(Elders(at, rows, b)) + 1
      BY <2>1
    <3>2. Cardinality(Elders(at, rows, a)) \in Int /\ Cardinality(Elders(at, rows, b)) \in Int
      BY <1>1, <1>2
    <3>3. Cardinality(Elders(at, rows, a)) = Cardinality(Elders(at, rows, b))
      BY <3>1, <3>2
    <3> QED
      BY <3>3, <1>3
  <2> HIDE DEF place
  <2> QED
    BY <1>4, <2>1 DEF Injection, IsInjective
<1>6. IsFiniteSet(1..n) /\ Cardinality(1..n) = n
  BY <1>1, FS_Interval
<1>7. place \in Surjection(rows, 1..n)
  <2> HIDE DEF place
  <2> QED
    BY <1>5, <1>6, FS_Injection
<1>8. ASSUME NEW m \in 1..n PROVE \E a \in rows : Cardinality(Elders(at, rows, a)) = m - 1
  <2>1. PICK a \in rows : place[a] = m
    <3> HIDE DEF place
    <3> QED
      BY <1>7 DEF Surjection
  <2>2. Cardinality(Elders(at, rows, a)) \in Int
    BY <1>1, <1>2
  <2> QED
    BY <2>1, <2>2, <1>1
<1> QED
  BY <1>1, <1>2, <1>3, <1>8

\* A read returns each row of a table once, in the place its elders leave it.
LEMMA ByCreationCorrect ==
    ASSUME NEW at, NEW rows, IsTable(at, rows),
           NEW read, read = ByCreation(at, rows)
    PROVE  /\ Cardinality(rows) \in Nat
           /\ read \in [1..Cardinality(rows) -> rows]
           /\ \A n \in 1..Cardinality(rows) : Cardinality(Elders(at, rows, read[n])) = n - 1
           /\ \A a \in rows : \E n \in 1..Cardinality(rows) : read[n] = a
           /\ \A m, n \in 1..Cardinality(rows) : m < n <=> Older(at, read[m], read[n])
<1> DEFINE last  == Cardinality(rows)
           At(n) == CHOOSE a \in rows : Cardinality(Elders(at, rows, a)) = n - 1
<1>1. last \in Nat
  BY EachPlaceIsTaken
<1>2. read = [n \in 1..last |-> At(n)]
  BY DEF ByCreation, Elders
<1>3. \A n \in 1..last : At(n) \in rows /\ Cardinality(Elders(at, rows, At(n))) = n - 1
  BY EachPlaceIsTaken
<1>4. \A n \in 1..last : read[n] = At(n)
  BY <1>2
<1>5. read \in [1..last -> rows]
  BY <1>2, <1>3
<1>6. \A n \in 1..last : read[n] \in rows /\ Cardinality(Elders(at, rows, read[n])) = n - 1
  BY <1>3, <1>4
<1> HIDE DEF At
<1>7. ASSUME NEW a \in rows PROVE \E n \in 1..last : read[n] = a
  <2>1. Cardinality(Elders(at, rows, a)) \in 0..(last - 1)
    BY EachPlaceIsTaken
  <2> DEFINE n == Cardinality(Elders(at, rows, a)) + 1
  <2>2. n \in 1..last /\ n - 1 = Cardinality(Elders(at, rows, a))
    BY <1>1, <2>1
  <2>3. read[n] \in rows /\ Cardinality(Elders(at, rows, read[n])) = n - 1
    BY <1>6, <2>2
  <2>4. read[n] = a
    BY <2>2, <2>3, EachPlaceIsTaken
  <2> QED
    BY <2>2, <2>4
<1>8. ASSUME NEW m \in 1..last, NEW n \in 1..last
      PROVE  m < n <=> Older(at, read[m], read[n])
  <2>1. m - 1 < n - 1 <=> m < n
    BY <1>1
  <2>2. ASSUME Older(at, read[m], read[n]) PROVE m < n
    BY <1>6, <2>1, <2>2, OlderHasFewer
  <2>3. ASSUME m < n PROVE Older(at, read[m], read[n])
    <3>1. read[m] # read[n]
      BY <1>1, <1>6, <2>3
    <3>2. CASE Older(at, read[n], read[m])
      <4>1. n - 1 < m - 1
        BY <1>6, <3>2, OlderHasFewer
      <4> QED
        BY <1>1, <2>3, <4>1
    <3> QED
      BY <1>6, <3>1, <3>2, OlderIsTotal
  <2> QED
    BY <2>2, <2>3
<1> QED
  BY <1>1, <1>5, <1>6, <1>7, <1>8

\* There is one sequence of all rows in their order, and a read returns it.
LEMMA OrderIsUnique ==
    ASSUME NEW at, NEW rows, IsTable(at, rows), NEW seq \in Seq(rows),
           \A a \in rows : \E n \in 1..Len(seq) : seq[n] = a,
           \A m, n \in 1..Len(seq) : m < n => Older(at, seq[m], seq[n])
    PROVE  ByCreation(at, rows) = seq
<1> DEFINE last == Len(seq)
           read == ByCreation(at, rows)
<1>1. last \in Nat /\ seq \in [1..last -> rows]
  OBVIOUS
<1>2. \A m, n \in 1..last : seq[m] = seq[n] => m = n
  BY <1>1, OlderIsTotal
<1>3. seq \in Bijection(1..last, rows)
  BY <1>1, <1>2 DEF Bijection, Injection, Surjection, IsInjective
<1>4. Cardinality(rows) = last
  BY <1>1, <1>3, FS_CountingElements DEF ExistsBijection
<1>5. ASSUME NEW n \in 1..last PROVE Cardinality(Elders(at, rows, seq[n])) = n - 1
  <2> DEFINE elders == Elders(at, rows, seq[n])
             part   == [m \in 1..(n - 1) |-> seq[m]]
  <2>1. n - 1 \in Nat /\ \A m \in 1..(n - 1) : m \in 1..last /\ m < n
    BY <1>1
  <2>2. \A m \in 1..(n - 1) : seq[m] \in elders
    BY <1>1, <2>1 DEF Elders
  <2>3. ASSUME NEW a \in elders PROVE \E m \in 1..(n - 1) : seq[m] = a
    <3>1. a \in rows /\ Older(at, a, seq[n])
      BY DEF Elders
    <3>2. PICK m \in 1..last : seq[m] = a
      BY <3>1
    <3>3. m # n /\ ~(n < m)
      BY <1>1, <3>1, <3>2, OlderIsTotal
    <3>4. m \in 1..(n - 1)
      BY <1>1, <3>3
    <3> QED
      BY <3>2, <3>4
  <2> HIDE DEF elders
  <2>4. part \in [1..(n - 1) -> elders] /\ \A m \in 1..(n - 1) : part[m] = seq[m]
    BY <2>2
  <2> HIDE DEF part
  <2>5. part \in Bijection(1..(n - 1), elders)
    BY <1>2, <2>1, <2>3, <2>4 DEF Bijection, Injection, Surjection, IsInjective
  <2> QED
    BY <2>1, <2>5, FS_CountingElements DEF ExistsBijection, elders
<1>6. /\ read \in [1..last -> rows]
      /\ \A n \in 1..last : Cardinality(Elders(at, rows, read[n])) = n - 1
  BY <1>4, ByCreationCorrect
<1> HIDE DEF read
<1>7. ASSUME NEW n \in 1..last PROVE read[n] = seq[n]
  <2>1. read[n] \in rows /\ seq[n] \in rows
    BY <1>1, <1>6
  <2>2. Cardinality(Elders(at, rows, read[n])) = Cardinality(Elders(at, rows, seq[n]))
    BY <1>5, <1>6
  <2>3. \A a, b \in rows :
           Cardinality(Elders(at, rows, a)) = Cardinality(Elders(at, rows, b)) => a = b
    BY EachPlaceIsTaken
  <2> QED
    BY <2>1, <2>2, <2>3
<1>8. read = seq
  BY <1>1, <1>6, <1>7
<1> QED
  BY <1>8 DEF read

\* More rows, and the old ones where they were: a read keeps their order.
LEMMA GrowthKeepsOrder ==
    ASSUME NEW at, NEW rows, IsTable(at, rows),
           NEW at2, NEW rows2, IsTable(at2, rows2),
           rows \subseteq rows2, \A a \in rows : at2[a] = at[a]
    PROVE  IsWithin(ByCreation(at, rows), ByCreation(at2, rows2))
<1> DEFINE last   == Cardinality(rows)
           last2  == Cardinality(rows2)
           before == ByCreation(at, rows)
           after  == ByCreation(at2, rows2)
<1>1. /\ last \in Nat
      /\ before \in [1..last -> rows]
      /\ \A m, n \in 1..last : m < n <=> Older(at, before[m], before[n])
  BY ByCreationCorrect
<1>2. /\ last2 \in Nat
      /\ after \in [1..last2 -> rows2]
      /\ \A a \in rows2 : \E n \in 1..last2 : after[n] = a
      /\ \A m, n \in 1..last2 : m < n <=> Older(at2, after[m], after[n])
  BY ByCreationCorrect
<1> HIDE DEF before, after, last, last2
<1>3. \A a, b \in rows : Older(at2, a, b) <=> Older(at, a, b)
  BY DEF Older
<1>4. ASSUME NEW i \in 1..last, NEW j \in 1..last
      PROVE  \E k, l \in 1..last2 :
                after[k] = before[i] /\ after[l] = before[j] /\ (k < l <=> i < j)
  <2>1. before[i] \in rows /\ before[j] \in rows
    BY <1>1
  <2>2. PICK k \in 1..last2 : after[k] = before[i]
    BY <1>2, <2>1
  <2>3. PICK l \in 1..last2 : after[l] = before[j]
    BY <1>2, <2>1
  <2>4. k < l <=> i < j
    BY <1>1, <1>2, <1>3, <2>1, <2>2, <2>3
  <2> QED
    BY <2>2, <2>3, <2>4
<1>5. IsWithin(before, after)
  BY <1>1, <1>2, <1>4 DEF IsWithin
<1> QED
  BY <1>5 DEF before, after

\* The sequence of no row, and of one.
LEMMA ShortSequences ==
    /\ SetToSeq({}) = <<>>
    /\ \A x : SetToSeq({x}) = <<x>>
<1>1. SetToSeq({}) = <<>>
  <2>1. Cardinality({}) = 0
    BY FS_EmptySet
  <2>2. [n \in 1..0 |-> n] \in [1..0 -> {}] /\ IsInjective([n \in 1..0 |-> n])
    BY DEF IsInjective
  <2>3. SetToSeq({}) \in [1..0 -> {}]
    BY <2>1, <2>2 DEF SetToSeq
  <2>4. SetToSeq({}) \in Seq({}) /\ Len(SetToSeq({})) = 0
    BY <2>3, SeqDef
  <2> QED
    BY <2>4, EmptySeq
<1>2. ASSUME NEW x PROVE SetToSeq({x}) = <<x>>
  <2>1. Cardinality({x}) = 1
    BY FS_Singleton
  <2> DEFINE only == [n \in 1..1 |-> x]
  <2>2. only \in [1..1 -> {x}] /\ IsInjective(only)
    BY DEF IsInjective
  <2>3. SetToSeq({x}) \in [1..1 -> {x}]
    BY <2>1, <2>2 DEF SetToSeq
  <2>4. SetToSeq({x}) \in Seq({x}) /\ Len(SetToSeq({x})) = 1 /\ SetToSeq({x})[1] = x
    <3> HIDE DEF only
    <3>1. SetToSeq({x}) \in Seq({x})
      BY <2>3, SeqDef
    <3>2. Len(SetToSeq({x})) \in Nat /\ 1..Len(SetToSeq({x})) = 1..1
      BY <2>3, <3>1, LenProperties
    <3>3. ASSUME NEW n \in Nat, 1..n = 1..1 PROVE n = 1
      <4>1. 1 \in 1..n /\ (n >= 1 => n \in 1..1)
        BY <3>3
      <4> QED
        BY <4>1
    <3> QED
      BY <2>3, <3>1, <3>2, <3>3
  <2>5. <<x>> \in Seq({x}) /\ Len(<<x>>) = 1 /\ <<x>>[1] = x
    OBVIOUS
  <2> QED
    BY <2>4, <2>5, SeqEqual
<1> QED
  BY <1>1, <1>2

\* Appending adds one member.
LEMMA AppendMembers ==
    ASSUME NEW S, NEW seq \in Seq(S), NEW x \in S, NEW y
    PROVE  (\E n \in 1..Len(Append(seq, x)) : Append(seq, x)[n] = y)
             <=> (y = x \/ \E n \in 1..Len(seq) : seq[n] = y)
BY AppendProperties

-----------------------------------------------------------------------------
(* The rows of the tables and their stamps.                                *)

TurnsOf(th) == {t \in Turn : turnThread[t] = th}
ItemsOf(th) == {i \in Item : itemThread[i] = th}

\* A row that belongs to a thread is stored, and a table holds finitely many.
RowsInv ==
    /\ HistoryTypeOK
    /\ \A t \in Turn : turnThread[t] \in Thread => turnStatus[t] # "absent"
    /\ \A i \in Item : itemThread[i] \in Thread => itemTurn[i] # NoTurn
    /\ \A th \in Thread : IsFiniteSet(TurnsOf(th)) /\ IsFiniteSet(ItemsOf(th))

\* A write adds at most one turn and one item.
AddsTurn(t, th) ==
    /\ turnStatus[t] = "absent" /\ turnStatus'[t] # "absent"
    /\ \A u \in Turn : u # t => (turnStatus'[u] = "absent" <=> turnStatus[u] = "absent")
    /\ turnThread' = [turnThread EXCEPT ![t] = th]

AddsNoTurn ==
    /\ UNCHANGED turnThread
    /\ \A u \in Turn : turnStatus'[u] = "absent" <=> turnStatus[u] = "absent"

AddsItem(i, th) ==
    /\ itemTurn[i] = NoTurn
    /\ \E t \in Turn : itemTurn' = [itemTurn EXCEPT ![i] = t]
    /\ itemThread' = [itemThread EXCEPT ![i] = th]

AddsNoItem == UNCHANGED <<itemThread, itemTurn>>

LEMMA WritesAdd ==
    ASSUME RepoTypeOK, RepoNext
    PROVE  /\ AddsNoTurn \/ \E t \in Turn, th \in Thread : AddsTurn(t, th)
           /\ AddsNoItem \/ \E i \in Item, th \in Thread : AddsItem(i, th)
<1> DEFINE Goal == /\ AddsNoTurn \/ \E t \in Turn, th \in Thread : AddsTurn(t, th)
                   /\ AddsNoItem \/ \E i \in Item, th \in Thread : AddsItem(i, th)
<1> SUFFICES Goal
  OBVIOUS
<1>1. CASE RecoverRunningTurns
  BY <1>1 DEF RecoverRunningTurns, AddsNoTurn, AddsNoItem, RepoTypeOK
<1>2. ASSUME NEW th \in Thread, CreateThread(th) PROVE Goal
  BY <1>2 DEF CreateThread, AddsNoTurn, AddsNoItem
<1>3. ASSUME NEW t \in Turn, NEW th \in Thread, NEW i \in Item, CreateTurn(t, th, i)
      PROVE  Goal
  <2>1. AddsTurn(t, th)
    BY <1>3 DEF CreateTurn, AddsTurn, RepoTypeOK
  <2>2. AddsItem(i, th)
    BY <1>3 DEF CreateTurn, AddsItem
  <2> QED
    BY <2>1, <2>2
<1>4. ASSUME NEW i \in Item, NEW th \in Thread, NEW t \in Turn, AddItem(i, th, t) PROVE Goal
  <2>1. AddsItem(i, th)
    BY <1>4 DEF AddItem, AddsItem
  <2>2. AddsNoTurn
    BY <1>4 DEF AddItem, AddsNoTurn
  <2> QED
    BY <2>1, <2>2
<1>5. ASSUME NEW t \in Turn, NEW s \in Terminal, FinishTurn(t, s) PROVE Goal
  BY <1>5 DEF FinishTurn, Terminal, AddsNoTurn, AddsNoItem, RepoTypeOK
<1> QED
  BY <1>1, <1>2, <1>3, <1>4, <1>5 DEF RepoNext

\* The rows of a thread after a write: those it had, and the new one.
LEMMA RowsGrow ==
    ASSUME RowsInv, RepoNext, NEW th \in Thread
    PROVE  /\ TurnsOf(th) \subseteq TurnsOf(th)' /\ IsFiniteSet(TurnsOf(th)')
           /\ ItemsOf(th) \subseteq ItemsOf(th)' /\ IsFiniteSet(ItemsOf(th)')
           /\ \A t \in TurnsOf(th) : t \notin NewTurns
           /\ \A i \in ItemsOf(th) : i \notin NewItems
<1> USE DEF RowsInv, HistoryTypeOK, RepoTypeOK
<1>1. /\ TurnsOf(th) \subseteq TurnsOf(th)' /\ IsFiniteSet(TurnsOf(th)')
      /\ \A t \in TurnsOf(th) : t \notin NewTurns
  <2>1. CASE AddsNoTurn
    BY <2>1 DEF AddsNoTurn, TurnsOf, NewTurns
  <2>2. ASSUME NEW t \in Turn, NEW to \in Thread, AddsTurn(t, to)
        PROVE  /\ TurnsOf(th) \subseteq TurnsOf(th)' /\ IsFiniteSet(TurnsOf(th)')
               /\ \A u \in TurnsOf(th) : u \notin NewTurns
    <3>1. TurnsOf(th) \subseteq TurnsOf(th)' /\ TurnsOf(th)' \subseteq TurnsOf(th) \cup {t}
      BY <2>2 DEF AddsTurn, TurnsOf
    <3>2. IsFiniteSet(TurnsOf(th) \cup {t})
      BY FS_AddElement
    <3>3. IsFiniteSet(TurnsOf(th)')
      BY <3>1, <3>2, FS_Subset
    <3> QED
      BY <3>1, <3>3 DEF NewTurns, TurnsOf
  <2> QED
    BY <2>1, <2>2, WritesAdd
<1>2. /\ ItemsOf(th) \subseteq ItemsOf(th)' /\ IsFiniteSet(ItemsOf(th)')
      /\ \A i \in ItemsOf(th) : i \notin NewItems
  <2>1. CASE AddsNoItem
    BY <2>1 DEF AddsNoItem, ItemsOf, NewItems
  <2>2. ASSUME NEW i \in Item, NEW to \in Thread, AddsItem(i, to)
        PROVE  /\ ItemsOf(th) \subseteq ItemsOf(th)' /\ IsFiniteSet(ItemsOf(th)')
               /\ \A k \in ItemsOf(th) : k \notin NewItems
    <3>1. ItemsOf(th) \subseteq ItemsOf(th)' /\ ItemsOf(th)' \subseteq ItemsOf(th) \cup {i}
      BY <2>2 DEF AddsItem, ItemsOf
    <3>2. IsFiniteSet(ItemsOf(th) \cup {i})
      BY FS_AddElement
    <3>3. IsFiniteSet(ItemsOf(th)')
      BY <3>1, <3>2, FS_Subset
    <3> QED
      BY <3>1, <3>3 DEF NewItems, ItemsOf
  <2> QED
    BY <2>1, <2>2, WritesAdd
<1> QED
  BY <1>1, <1>2

\* Stamps are readings of the clock, whatever is new.
LEMMA StampType ==
    ASSUME NEW X, NEW at \in [X -> Never..MaxClock], clock \in 0..MaxClock, NEW new
    PROVE  /\ StampNew(at, new) \in [X -> Never..MaxClock]
           /\ \A x \in X : StampNew(at, new)[x] = IF x \in new THEN clock ELSE at[x]
BY HistoryAssumption DEF StampNew, Never

\* A write adds to the history of a thread the row it adds to its items.
LEMMA HistoryGrows ==
    ASSUME RowsInv, RepoNext, Stamp, NEW th \in Thread
    PROVE  \/ committed'[th] = committed[th] /\ ItemsOf(th)' = ItemsOf(th)
           \/ \E i \in Item : /\ NewItems = {i}
                             /\ ItemsOf(th)' = ItemsOf(th) \cup {i}
                             /\ committed'[th] = Append(committed[th], i)
<1> USE DEF RowsInv, HistoryTypeOK, RepoTypeOK
<1> DEFINE Same   == committed'[th] = committed[th] /\ ItemsOf(th)' = ItemsOf(th)
           Adds(i) == /\ NewItems = {i}
                      /\ ItemsOf(th)' = ItemsOf(th) \cup {i}
                      /\ committed'[th] = Append(committed[th], i)
<1>1. CASE AddsNoItem
  <2>1. {i \in NewItems : itemThread'[i] = th} = {}
    BY <1>1 DEF AddsNoItem, NewItems
  <2>2. committed'[th] = committed[th] \o <<>>
    BY <2>1, ShortSequences DEF Stamp
  <2>3. committed'[th] = committed[th]
    BY <2>2, ConcatEmptySeq
  <2> QED
    BY <2>3, <1>1 DEF AddsNoItem, ItemsOf
<1>2. ASSUME NEW i \in Item, NEW to \in Thread, AddsItem(i, to)
      PROVE  Same \/ Adds(i)
  <2>1. NewItems = {i} /\ itemThread'[i] = to
    BY <1>2, RepoAssumption DEF AddsItem, NewItems
  <2>2. CASE to = th
    <3>1. {k \in NewItems : itemThread'[k] = th} = {i}
      BY <2>1, <2>2
    <3>2. committed'[th] = committed[th] \o <<i>>
      BY <3>1, ShortSequences DEF Stamp
    <3>3. committed'[th] = Append(committed[th], i)
      BY <3>2
    <3>4. ItemsOf(th)' = ItemsOf(th) \cup {i}
      BY <1>2, <2>2 DEF AddsItem, ItemsOf
    <3> QED
      BY <2>1, <3>3, <3>4
  <2>3. CASE to # th
    <3>1. {k \in NewItems : itemThread'[k] = th} = {}
      BY <2>1, <2>3
    <3>2. committed'[th] = committed[th] \o <<>>
      BY <3>1, ShortSequences DEF Stamp
    <3>3. committed'[th] = committed[th]
      BY <3>2, ConcatEmptySeq
    <3>4. ItemsOf(th)' = ItemsOf(th)
      BY <1>2, <2>3 DEF AddsItem, ItemsOf
    <3> QED
      BY <3>3, <3>4
  <2> QED
    BY <2>2, <2>3
<1> QED
  BY <1>1, <1>2, WritesAdd

\* The history of a thread holds its items, in the order of their stamps
\* while the clock moves on.
CommittedInv ==
    /\ \A th \in Thread, i \in Item :
          i \in ItemsOf(th) <=> \E n \in 1..Len(committed[th]) : committed[th][n] = i
    /\ steady => \A th \in Thread : \A m, n \in 1..Len(committed[th]) :
          m < n => itemAt[committed[th][m]] < itemAt[committed[th][n]]

HistoryInv == RowsInv /\ CommittedInv

LEMMA InitHistoryInv == HistoryInit => HistoryInv
<1> SUFFICES ASSUME HistoryInit PROVE HistoryInv
  OBVIOUS
<1> USE DEF HistoryInit, RepoInit
<1>1. RepoTypeOK
  BY DEF RepoTypeOK, TurnStatus, Terminal
<1>2. Never \in Never..MaxClock
  BY HistoryAssumption DEF Never
<1>3. committed \in [Thread -> Seq(Item)]
  <2>1. <<>> \in Seq(Item)
    BY EmptySeq
  <2> QED
    BY <2>1
<1>4. HistoryTypeOK
  BY <1>1, <1>2, <1>3 DEF HistoryTypeOK
<1>5. \A th \in Thread : TurnsOf(th) = {} /\ ItemsOf(th) = {}
  BY RepoAssumption DEF TurnsOf, ItemsOf
<1>6. RowsInv
  BY <1>4, <1>5, RepoAssumption, FS_EmptySet DEF RowsInv
<1>7. \A th \in Thread : 1..Len(committed[th]) = {}
  BY EmptySeq
<1>8. CommittedInv
  BY <1>5, <1>7 DEF CommittedInv
<1> QED
  BY <1>6, <1>8 DEF HistoryInv

\* The time of day does not matter to the rows.
LEMMA SameRows ==
    ASSUME HistoryInv, UNCHANGED <<repoVars, stampVars>>, clock' \in 0..MaxClock
    PROVE  HistoryInv'
<1>1. /\ UNCHANGED <<threads, turnThread, turnStatus, itemThread, itemTurn>>
      /\ UNCHANGED <<turnAt, itemAt, committed, steady>>
  BY DEF repoVars, stampVars
<1>2. HistoryTypeOK'
  BY <1>1 DEF HistoryInv, RowsInv, HistoryTypeOK, RepoTypeOK
<1>3. \A th \in Thread : TurnsOf(th)' = TurnsOf(th) /\ ItemsOf(th)' = ItemsOf(th)
  BY <1>1 DEF TurnsOf, ItemsOf
<1>4. RowsInv'
  BY <1>1, <1>2, <1>3 DEF HistoryInv, RowsInv
<1>5. CommittedInv'
  BY <1>1, <1>3 DEF HistoryInv, CommittedInv
<1> QED
  BY <1>4, <1>5 DEF HistoryInv

LEMMA NextHistoryInv == HistoryInv /\ [HistoryNext]_historyVars => HistoryInv'
<1> SUFFICES ASSUME HistoryInv, [HistoryNext]_historyVars PROVE HistoryInv'
  OBVIOUS
<1>1. CASE UNCHANGED historyVars
  BY <1>1, SameRows DEF historyVars, HistoryInv, RowsInv, HistoryTypeOK
<1>2. CASE ClockMoves
  BY <1>2, SameRows DEF ClockMoves
<1>3. CASE Write
  <2>1. RepoNext /\ Stamp /\ RowsInv /\ HistoryTypeOK /\ RepoTypeOK
    BY <1>3 DEF Write, HistoryInv, RowsInv, HistoryTypeOK
  <2>2. \A th \in Thread :
           \/ committed'[th] = committed[th] /\ ItemsOf(th)' = ItemsOf(th)
           \/ \E i \in Item : /\ NewItems = {i}
                             /\ ItemsOf(th)' = ItemsOf(th) \cup {i}
                             /\ committed'[th] = Append(committed[th], i)
    BY <2>1, HistoryGrows
  <2>3. HistoryTypeOK'
    <3>1. RepoTypeOK'
      BY <2>1, RepoTypeStep
    <3>2. turnAt' \in [Turn -> Never..MaxClock] /\ itemAt' \in [Item -> Never..MaxClock]
      BY <2>1, StampType DEF Stamp, HistoryTypeOK
    <3>3. committed' \in [Thread -> Seq(Item)]
      <4>1. DOMAIN committed' = Thread /\ committed' = [th \in Thread |-> committed'[th]]
        BY <2>1 DEF Stamp
      <4>2. ASSUME NEW th \in Thread PROVE committed'[th] \in Seq(Item)
        <5>1. committed[th] \in Seq(Item)
          BY <2>1 DEF HistoryTypeOK
        <5>2. \A i \in Item : Append(committed[th], i) \in Seq(Item)
          BY <5>1, AppendProperties
        <5> QED
          BY <2>2, <5>1, <5>2
      <4> QED
        BY <4>1, <4>2
    <3>4. clock' \in 0..MaxClock /\ steady' \in BOOLEAN
      BY <2>1 DEF Stamp, HistoryTypeOK
    <3> QED
      BY <3>1, <3>2, <3>3, <3>4 DEF HistoryTypeOK
  <2>4. RowsInv'
    <3>1. \A t \in Turn : turnThread'[t] \in Thread => turnStatus'[t] # "absent"
      <4>1. CASE AddsNoTurn
        BY <2>1, <4>1 DEF AddsNoTurn, RowsInv
      <4>2. ASSUME NEW t \in Turn, NEW th \in Thread, AddsTurn(t, th)
            PROVE  \A u \in Turn : turnThread'[u] \in Thread => turnStatus'[u] # "absent"
        BY <2>1, <4>2 DEF AddsTurn, RowsInv, RepoTypeOK
      <4> QED
        BY <2>1, <4>1, <4>2, WritesAdd
    <3>2. \A i \in Item : itemThread'[i] \in Thread => itemTurn'[i] # NoTurn
      <4>1. CASE AddsNoItem
        BY <2>1, <4>1 DEF AddsNoItem, RowsInv
      <4>2. ASSUME NEW i \in Item, NEW th \in Thread, AddsItem(i, th)
            PROVE  \A k \in Item : itemThread'[k] \in Thread => itemTurn'[k] # NoTurn
        BY <2>1, <4>2, RepoAssumption DEF AddsItem, RowsInv, RepoTypeOK
      <4> QED
        BY <2>1, <4>1, <4>2, WritesAdd
    <3>3. \A th \in Thread : IsFiniteSet(TurnsOf(th)') /\ IsFiniteSet(ItemsOf(th)')
      BY <2>1, RowsGrow
    <3> QED
      BY <2>3, <3>1, <3>2, <3>3 DEF RowsInv
  <2>5. CommittedInv'
    <3>1. \A i \in Item : itemAt'[i] = IF i \in NewItems THEN clock ELSE itemAt[i]
      BY <2>1, StampType DEF Stamp, HistoryTypeOK
    <3>2. clock \in Int /\ \A i \in Item : itemAt[i] \in Int
      BY <2>1, HistoryAssumption DEF HistoryTypeOK, Never
    <3>3. ASSUME NEW th \in Thread, NEW i \in Item
          PROVE  i \in ItemsOf(th)' <=> \E n \in 1..Len(committed'[th]) : committed'[th][n] = i
      <4>1. i \in ItemsOf(th) <=> \E n \in 1..Len(committed[th]) : committed[th][n] = i
        BY DEF HistoryInv, CommittedInv
      <4>2. CASE committed'[th] = committed[th] /\ ItemsOf(th)' = ItemsOf(th)
        BY <4>1, <4>2
      <4>3. ASSUME NEW k \in Item, ItemsOf(th)' = ItemsOf(th) \cup {k},
                   committed'[th] = Append(committed[th], k)
            PROVE  i \in ItemsOf(th)' <=> \E n \in 1..Len(committed'[th]) : committed'[th][n] = i
        <5>1. committed[th] \in Seq(Item)
          BY <2>1 DEF HistoryTypeOK
        <5> QED
          BY <4>1, <4>3, <5>1, AppendMembers
      <4> QED
        BY <2>2, <4>2, <4>3
    <3>4. ASSUME steady', NEW th \in Thread,
                 NEW m \in 1..Len(committed'[th]), NEW n \in 1..Len(committed'[th]), m < n
          PROVE  itemAt'[committed'[th][m]] < itemAt'[committed'[th][n]]
      <4>1. steady /\ (NewItems # {} => \A i \in Item : itemAt[i] < clock)
        BY <2>1, <3>4 DEF Stamp
      <4> DEFINE old == committed[th]
      <4>2. /\ old \in Seq(Item)
            /\ \A i \in 1..Len(old) : old[i] \in Item /\ old[i] \in ItemsOf(th) /\ old[i] \notin NewItems
        <5>1. old \in Seq(Item) /\ \A i \in 1..Len(old) : old[i] \in Item
          BY <2>1 DEF HistoryTypeOK
        <5> QED
          BY <2>1, <5>1, RowsGrow DEF HistoryInv, CommittedInv
      <4>3. \A i, j \in 1..Len(old) : i < j => itemAt'[old[i]] < itemAt'[old[j]]
        BY <3>1, <4>1, <4>2 DEF HistoryInv, CommittedInv
      <4>4. CASE committed'[th] = old
        BY <3>4, <4>3, <4>4
      <4>5. ASSUME NEW k \in Item, NewItems = {k}, committed'[th] = Append(old, k)
            PROVE  itemAt'[committed'[th][m]] < itemAt'[committed'[th][n]]
        <5>1. /\ Len(old) \in Nat /\ Len(Append(old, k)) = Len(old) + 1
              /\ \A i \in 1..Len(old) : Append(old, k)[i] = old[i]
              /\ Append(old, k)[Len(old) + 1] = k
          BY <4>2, AppendProperties
        <5>2. m \in 1..Len(old) /\ committed'[th][m] = old[m]
          BY <3>4, <4>5, <5>1
        <5>3. CASE n = Len(old) + 1
          <6>1. committed'[th][n] = k /\ itemAt'[k] = clock
            BY <3>1, <4>5, <5>1, <5>3
          <6>2. itemAt'[old[m]] = itemAt[old[m]] /\ itemAt[old[m]] < clock
            BY <3>1, <4>1, <4>2, <4>5, <5>2
          <6> QED
            BY <5>2, <6>1, <6>2
        <5>4. CASE n \in 1..Len(old)
          BY <3>4, <4>3, <4>5, <5>1, <5>2, <5>4
        <5> QED
          BY <3>4, <4>5, <5>1, <5>3, <5>4
      <4> QED
        BY <2>2, <4>4, <4>5
    <3> QED
      BY <3>3, <3>4 DEF CommittedInv
  <2> QED
    BY <2>4, <2>5 DEF HistoryInv
<1> QED
  BY <1>1, <1>2, <1>3 DEF HistoryNext

LEMMA HistoryInvCorrect == HistorySpec => []HistoryInv
BY InitHistoryInv, NextHistoryInv, PTL DEF HistorySpec

\* The stamps of all rows and the clock are numbers in their range.
THEOREM HistoryTypeCorrect == HistorySpec => []HistoryTypeOK
<1>1. HistoryInv => HistoryTypeOK
  BY DEF HistoryInv, RowsInv
<1> QED
  BY <1>1, HistoryInvCorrect, PTL

\* The stamped tables are the tables of RepoSpec: what is proved of those, of
\* rows connected and final, holds of what is read here.
THEOREM HistoryUsesRepository == HistorySpec => RepoSpec
<1>1. HistoryInit => RepoInit
  BY DEF HistoryInit
<1>2. [HistoryNext]_historyVars => [RepoNext]_repoVars
  BY DEF HistoryNext, Write, ClockMoves, historyVars
<1> QED
  BY <1>1, <1>2, PTL DEF HistorySpec, RepoSpec

-----------------------------------------------------------------------------
(* What is read.                                                           *)

\* Finitely many rows with readings of the clock can be sorted.
LEMMA StampedIsTable ==
    ASSUME NEW X, X \subseteq Turn \cup Item, NEW at \in [X -> Never..MaxClock],
           NEW rows, rows \subseteq X, IsFiniteSet(rows)
    PROVE  IsTable(at, rows)
<1>1. \A a \in rows : a \in Int
  BY HistoryAssumption
<1>2. \A a \in rows : at[a] \in Int
  BY HistoryAssumption DEF Never
<1> QED
  BY <1>1, <1>2 DEF IsTable

\* The turns and the items of a thread can be sorted.
LEMMA RowsAreTables ==
    ASSUME RowsInv, NEW th \in Thread
    PROVE  IsTable(turnAt, TurnsOf(th)) /\ IsTable(itemAt, ItemsOf(th))
<1>1. /\ turnAt \in [Turn -> Never..MaxClock] /\ TurnsOf(th) \subseteq Turn
      /\ itemAt \in [Item -> Never..MaxClock] /\ ItemsOf(th) \subseteq Item
      /\ IsFiniteSet(TurnsOf(th)) /\ IsFiniteSet(ItemsOf(th))
  BY DEF RowsInv, HistoryTypeOK, TurnsOf, ItemsOf
<1> QED
  BY <1>1, StampedIsTable

\* sqlmodel.py:60-79, agents/context.py:13: as long as each commit finds a later
\* time on the clock than the one before, get_thread returns the items of a
\* thread in the order in which they were committed, however ids fall.
THEOREM ReadsFollowCorrect == HistorySpec => []ReadsFollowCommits
<1>1. HistoryInv => ReadsFollowCommits
  <2> SUFFICES ASSUME HistoryInv, steady, NEW th \in Thread
               PROVE  ItemsRead(th) = committed[th]
    BY DEF ReadsFollowCommits
  <2> DEFINE seq == committed[th]
  <2>1. IsTable(itemAt, ItemsOf(th))
    BY RowsAreTables DEF HistoryInv
  <2>2. seq \in Seq(Item)
    BY DEF HistoryInv, RowsInv, HistoryTypeOK
  <2>3. \A n \in 1..Len(seq) : seq[n] \in ItemsOf(th)
    BY <2>2 DEF HistoryInv, CommittedInv
  <2>4. seq \in Seq(ItemsOf(th))
    BY <2>2, <2>3
  <2>5. \A i \in ItemsOf(th) : \E n \in 1..Len(seq) : seq[n] = i
    BY DEF HistoryInv, CommittedInv, ItemsOf
  <2>6. \A m, n \in 1..Len(seq) : m < n => Older(itemAt, seq[m], seq[n])
    BY DEF HistoryInv, CommittedInv, Older
  <2>7. ByCreation(itemAt, ItemsOf(th)) = seq
    BY <2>1, <2>4, <2>5, <2>6, OrderIsUnique
  <2> QED
    BY <2>7 DEF ItemsRead, ItemsOf
<1> QED
  BY <1>1, HistoryInvCorrect, PTL

\* sqlmodel.py:60-79: the clock may stand still or step back and the ids fall
\* as they will, yet a later read has the rows of an earlier one in its order:
\* a row is stamped once, and no write moves it.
THEOREM ReadsStableCorrect == HistorySpec => ReadsAreStable
<1> DEFINE Stable == \A th \in Thread :
             /\ IsWithin(TurnsRead(th), TurnsRead(th)')
             /\ IsWithin(ItemsRead(th), ItemsRead(th)')
<1>1. HistoryInv /\ HistoryInv' /\ [HistoryNext]_historyVars => Stable
  <2> SUFFICES ASSUME HistoryInv, HistoryInv', [HistoryNext]_historyVars, NEW th \in Thread
               PROVE  /\ IsWithin(TurnsRead(th), TurnsRead(th)')
                      /\ IsWithin(ItemsRead(th), ItemsRead(th)')
    OBVIOUS
  <2>1. /\ TurnsOf(th) \subseteq TurnsOf(th)'
        /\ \A t \in TurnsOf(th) : turnAt'[t] = turnAt[t]
        /\ ItemsOf(th) \subseteq ItemsOf(th)'
        /\ \A i \in ItemsOf(th) : itemAt'[i] = itemAt[i]
    <3>1. CASE UNCHANGED <<repoVars, stampVars>>
      BY <3>1 DEF repoVars, stampVars, TurnsOf, ItemsOf
    <3>2. CASE Write
      <4>1. RowsInv /\ RepoNext /\ Stamp
        BY <3>2 DEF Write, HistoryInv
      <4>2. /\ \A t \in Turn : turnAt'[t] = IF t \in NewTurns THEN clock ELSE turnAt[t]
            /\ \A i \in Item : itemAt'[i] = IF i \in NewItems THEN clock ELSE itemAt[i]
        <5>1. /\ clock \in 0..MaxClock
              /\ turnAt \in [Turn -> Never..MaxClock] /\ itemAt \in [Item -> Never..MaxClock]
          BY <4>1 DEF RowsInv, HistoryTypeOK
        <5>2. turnAt' = StampNew(turnAt, NewTurns) /\ itemAt' = StampNew(itemAt, NewItems)
          BY <4>1 DEF Stamp
        <5>3. /\ \A t \in Turn : StampNew(turnAt, NewTurns)[t] =
                                     IF t \in NewTurns THEN clock ELSE turnAt[t]
              /\ \A i \in Item : StampNew(itemAt, NewItems)[i] =
                                     IF i \in NewItems THEN clock ELSE itemAt[i]
          BY <5>1, StampType
        <5> QED
          BY <5>2, <5>3
      <4>3. /\ TurnsOf(th) \subseteq TurnsOf(th)' /\ ItemsOf(th) \subseteq ItemsOf(th)'
            /\ \A t \in TurnsOf(th) : t \notin NewTurns
            /\ \A i \in ItemsOf(th) : i \notin NewItems
        BY <4>1, RowsGrow
      <4> QED
        BY <4>2, <4>3 DEF TurnsOf, ItemsOf
    <3> QED
      BY <3>1, <3>2 DEF HistoryNext, ClockMoves, historyVars
  <2>2. IsTable(turnAt, TurnsOf(th)) /\ IsTable(itemAt, ItemsOf(th))
    BY RowsAreTables DEF HistoryInv
  <2>3. IsTable(turnAt', TurnsOf(th)') /\ IsTable(itemAt', ItemsOf(th)')
    <3>1. /\ turnAt' \in [Turn -> Never..MaxClock] /\ TurnsOf(th)' \subseteq Turn
          /\ itemAt' \in [Item -> Never..MaxClock] /\ ItemsOf(th)' \subseteq Item
          /\ IsFiniteSet(TurnsOf(th)') /\ IsFiniteSet(ItemsOf(th)')
      BY DEF HistoryInv, RowsInv, HistoryTypeOK, TurnsOf, ItemsOf
    <3> QED
      BY <3>1, StampedIsTable
  <2>4. IsWithin(ByCreation(turnAt, TurnsOf(th)), ByCreation(turnAt', TurnsOf(th)'))
    BY <2>1, <2>2, <2>3, GrowthKeepsOrder
  <2>5. IsWithin(ByCreation(itemAt, ItemsOf(th)), ByCreation(itemAt', ItemsOf(th)'))
    BY <2>1, <2>2, <2>3, GrowthKeepsOrder
  <2> QED
    BY <2>4, <2>5 DEF TurnsRead, ItemsRead, TurnsOf, ItemsOf
<1>2. Stable <=> \A th \in Thread :
          /\ \A read \in {TurnsRead(th)}, again \in {TurnsRead(th)'} : IsWithin(read, again)
          /\ \A read \in {ItemsRead(th)}, again \in {ItemsRead(th)'} : IsWithin(read, again)
  OBVIOUS
<1> HIDE DEF Stable
<1> QED
  BY <1>1, <1>2, HistoryInvCorrect, PTL DEF HistorySpec, ReadsAreStable
=============================================================================
