----------------------------- MODULE TurnLedger -----------------------------
(***************************************************************************)
(* What the gateway promises about the history of threads, without         *)
(* processes, tasks or tables: a thread has at most one open turn; an item *)
(* only ever joins the open turn of its thread; a closed turn keeps its    *)
(* outcome and its items; a restart closes whatever is open.               *)
(***************************************************************************)
CONSTANTS Thread, Turn, Item, NoTurn

VARIABLES
    open,       \* the open turn of each thread, or NoTurn
    outcome,    \* how each turn ended, "none" until then
    entries     \* the items of each turn

ledger == <<open, outcome, entries>>

Outcome == {"completed", "interrupted", "failed"}

LedgerInit ==
    /\ open = [th \in Thread |-> NoTurn]
    /\ outcome = [t \in Turn |-> "none"]
    /\ entries = [t \in Turn |-> {}]

Fresh(i) == \A t \in Turn : i \notin entries[t]

Open(th, t, i) ==
    /\ open[th] = NoTurn
    /\ outcome[t] = "none" /\ entries[t] = {}
    /\ Fresh(i)
    /\ open' = [open EXCEPT ![th] = t]
    /\ entries' = [entries EXCEPT ![t] = {i}]
    /\ UNCHANGED outcome

Record(th, i) ==
    /\ open[th] # NoTurn
    /\ Fresh(i)
    /\ entries' = [entries EXCEPT ![open[th]] = @ \cup {i}]
    /\ UNCHANGED <<open, outcome>>

Close(th, result) ==
    /\ open[th] # NoTurn
    /\ open' = [open EXCEPT ![th] = NoTurn]
    /\ outcome' = [outcome EXCEPT ![open[th]] = result]
    /\ UNCHANGED entries

CloseAll ==
    /\ open' = [th \in Thread |-> NoTurn]
    /\ outcome' = [t \in Turn |-> IF \E th \in Thread : open[th] = t
                                    THEN "interrupted" ELSE outcome[t]]
    /\ UNCHANGED entries

LedgerNext ==
    \/ \E th \in Thread, t \in Turn, i \in Item : Open(th, t, i)
    \/ \E th \in Thread, i \in Item : Record(th, i)
    \/ \E th \in Thread, result \in Outcome : Close(th, result)
    \/ CloseAll

LedgerSpec == LedgerInit /\ [][LedgerNext]_ledger
=============================================================================
