---------------------------- MODULE RemoteCalls ----------------------------
(***************************************************************************)
(* What JsonRpcClient.request promises its callers, without frames, ids or *)
(* sockets: the gateway serves a call at most once, a call that returns    *)
(* returns what the gateway made of that very call, and a call that fails  *)
(* or is abandoned says nothing of whether it was served.                  *)
(***************************************************************************)
CONSTANTS
    Call,       \* the calls a client makes
    Code,       \* what the gateway can make of a call
    Nothing     \* no code

VARIABLES
    stage,      \* of each call, as its caller sees it
    effect,     \* what the gateway made of the call, Nothing before
    outcome     \* what the call returned or raised, Nothing before

remoteVars == <<stage, effect, outcome>>

Init ==
    /\ stage = [c \in Call |-> "unmade"]
    /\ effect = [c \in Call |-> Nothing]
    /\ outcome = [c \in Call |-> Nothing]

Make(c) ==
    /\ stage[c] = "unmade"
    /\ stage' = [stage EXCEPT ![c] = "waiting"]
    /\ UNCHANGED <<effect, outcome>>

\* The socket is closed: the call fails and nothing is sent.
Refuse(c) ==
    /\ stage[c] = "unmade"
    /\ stage' = [stage EXCEPT ![c] = "refused"]
    /\ UNCHANGED <<effect, outcome>>

\* The gateway may come to a call after its caller has gone.
Serve(c) ==
    /\ stage[c] \notin {"unmade", "refused"}
    /\ effect[c] = Nothing
    /\ \E x \in Code : effect' = [effect EXCEPT ![c] = x]
    /\ UNCHANGED <<stage, outcome>>

Return(c) ==
    /\ stage[c] = "waiting"
    /\ effect[c] # Nothing
    /\ stage' = [stage EXCEPT ![c] = "returned"]
    /\ outcome' = [outcome EXCEPT ![c] = effect[c]]
    /\ UNCHANGED effect

\* The connection ends: every waiting call fails with it.
FailAll ==
    /\ stage' = [c \in Call |-> IF stage[c] = "waiting" THEN "failed" ELSE stage[c]]
    /\ UNCHANGED <<effect, outcome>>

\* The caller is cancelled.
Abandon(c) ==
    /\ stage[c] = "waiting"
    /\ stage' = [stage EXCEPT ![c] = "abandoned"]
    /\ UNCHANGED <<effect, outcome>>

Next ==
    \/ \E c \in Call : Make(c) \/ Refuse(c) \/ Serve(c) \/ Return(c) \/ Abandon(c)
    \/ FailAll

Spec == Init /\ [][Next]_remoteVars
=============================================================================
