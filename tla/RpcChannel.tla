----------------------------- MODULE RpcChannel -----------------------------
(***************************************************************************)
(* One WebSocket between a JsonRpcClient and a JsonRpcConnection: requests *)
(* get ids, frames go into two streams, the gateway handles one frame at a *)
(* time and answers it, the client's receiver task settles the future that *)
(* the id of an answer names.  Either end may close, the connection may be *)
(* lost with whatever is in flight, and callers may be cancelled.          *)
(*                                                                         *)
(* A frame is its id and what the gateway can make of its body.  Frames of *)
(* programs other than JsonRpcClient have no id or a null one here: an id  *)
(* in use by a call would be answered to that call.                        *)
(***************************************************************************)
EXTENDS Integers, SequencesExt

CONSTANTS
    MaxCalls,       \* bound on the requests made
    MaxForeign,     \* bound on the frames JsonRpcClient does not send
    MaxPushed,      \* bound on the frames to the client that answer nothing
    Raised,         \* the exceptions the methods of the gateway raise
    Nothing,        \* nothing served, or returned, yet
    Null,           \* the id null
    Absent          \* a frame without an id

Call == 1..MaxCalls

\* RpcErrorCode, and OK for a result.
Code == {"OK", "PARSE_ERROR", "INVALID_REQUEST", "METHOD_NOT_FOUND", "INVALID_PARAMS",
         "INTERNAL_ERROR", "RESOURCE_NOT_FOUND", "TURN_ALREADY_RUNNING"}

\* _rpc_error, for what service and repository raise.
ErrorOf == [ThreadNotFoundError |-> "RESOURCE_NOT_FOUND",
            TurnNotFoundError |-> "RESOURCE_NOT_FOUND",
            TurnAlreadyRunningError |-> "TURN_ALREADY_RUNNING",
            ValueError |-> "INVALID_PARAMS",
            OtherError |-> "INTERNAL_ERROR"]

\* What _parse_request makes of a body it refuses.
RefusalOf == [unknown_method |-> "METHOD_NOT_FOUND",
              bad_params |-> "INVALID_PARAMS",
              invalid |-> "INVALID_REQUEST",
              not_json |-> "PARSE_ERROR"]

ASSUME ChannelAssumption ==
    /\ {MaxCalls, MaxForeign, MaxPushed} \subseteq Nat
    /\ Raised \subseteq DOMAIN ErrorOf
    /\ Nothing \notin Code
    /\ Null # Absent /\ {Null, Absent} \cap Call = {}

RequestBody == {"valid", "unknown_method", "bad_params"}
Body        == RequestBody \cup {"invalid", "not_json", "binary"}
Frame       == [id : Call \cup {Null, Absent}, body : Body]
Answer      == [id : Call \cup {Null}, code : Code]

\* Among them [1], whose id is no id, and {"id": [1]}, whose id is not a scalar.
ForeignFrames == [id : {Null, Absent}, body : {"valid", "invalid"}]
                   \cup [id : {Absent}, body : {"not_json", "binary"}]

\* Nothing in hand.
NoFrame  == [id |-> Absent, body |-> "invalid"]
NoAnswer == [id |-> Null, code |-> "OK"]

\* Notifications, and what json.loads or _dispatch chokes on.
Event  == [id |-> Null, code |-> "event"]
Broken == [id |-> Null, code |-> "broken"]

VARIABLES
    nextId,         \* JsonRpcClient._next_id
    call,           \* of each request, as its caller sees it
    outcome,        \* what its future was given
    receiver,       \* the receiver task: reading or ended
    link,           \* the WebSocket: open or lost
    up, down,       \* frames in flight to the gateway and to the client
    at,             \* what JsonRpcConnection.run is doing
    frame,          \* the frame it handles, the answer it sends
    answer,
    effect,         \* history: what the gateway made of each call
    taken, sent,    \* histories: the frames handled, the ids of the answers sent
    used            \* how much of each bound was used

client   == <<nextId, call, outcome, receiver>>
streams  == <<link, up, down>>
gateway  == <<at, frame, answer>>
record   == <<effect, taken, sent>>
chanVars == <<client, streams, gateway, record, used>>

RpcTypeOK ==
    /\ nextId \in 1..(MaxCalls + 1)
    /\ call \in [Call -> {"unmade", "waiting", "returned", "failed", "abandoned", "refused"}]
    /\ outcome \in [Call -> Code \cup {Nothing}]
    /\ receiver \in {"reading", "ended"} /\ link \in {"open", "lost"}
    /\ up \in Seq(Frame) /\ down \in Seq(Answer \cup {Event, Broken})
    /\ at \in {"receiving", "executing", "answering", "closed"}
    /\ frame \in Frame /\ answer \in Answer
    /\ effect \in [Call -> Code \cup {Nothing}]
    /\ taken \in Seq([id : Call \cup {Null, Absent}, ok : BOOLEAN])
    /\ sent \in Seq(Call \cup {Null})
    /\ used \in [{"foreign", "pushed"} -> Nat]

Init ==
    /\ nextId = 1
    /\ call = [c \in Call |-> "unmade"]
    /\ outcome = [c \in Call |-> Nothing]
    /\ receiver = "reading"
    /\ link = "open"
    /\ up = <<>> /\ down = <<>>
    /\ at = "receiving"
    /\ frame = NoFrame /\ answer = NoAnswer
    /\ effect = [c \in Call |-> Nothing]
    /\ taken = <<>> /\ sent = <<>>
    /\ used = [b \in {"foreign", "pushed"} |-> 0]

Use(bound, max) ==
    /\ used[bound] < max
    /\ used' = [used EXCEPT ![bound] = @ + 1]

-----------------------------------------------------------------------------
(* The client.                                                             *)

\* request(): once the socket is closed, send raises and nobody waits.
Request(body) ==
    /\ nextId \in Call
    /\ nextId' = nextId + 1
    /\ call' = [call EXCEPT ![nextId] = IF link = "open" THEN "waiting" ELSE "refused"]
    /\ up' = IF link = "open" THEN Append(up, [id |-> nextId, body |-> body]) ELSE up
    /\ UNCHANGED <<outcome, receiver, link, down, gateway, record, used>>

\* The caller is cancelled; the finally clause forgets its future.
Abandon(c) ==
    /\ call[c] = "waiting"
    /\ call' = [call EXCEPT ![c] = "abandoned"]
    /\ UNCHANGED <<nextId, outcome, receiver, streams, gateway, record, used>>

FailPending == [c \in Call |-> IF call[c] = "waiting" THEN "failed" ELSE call[c]]

\* Faulty variant: the receiver ends without failing what waits.
ReceiverLeavesPending ==
    /\ receiver' = "ended"
    /\ UNCHANGED <<nextId, call, outcome>>

ReceiverEnds ==
    /\ receiver' = "ended"
    /\ call' = FailPending
    /\ UNCHANGED <<nextId, outcome>>

\* Faulty variant: an answer settles the oldest call that waits.
AnsweredOldest(id) ==
    {c \in Call : /\ id \in Call /\ call[c] = "waiting"
                  /\ \A d \in Call : call[d] = "waiting" => c <= d}

\* The future that _pending holds under the id of an answer.
Answered(id) == {c \in Call : c = id /\ call[c] = "waiting"}

\* _dispatch(): events go to the listener; answers to null or to a caller
\* that has gone are dropped.
Dispatch ==
    /\ receiver = "reading"
    /\ down # <<>>
    /\ down' = Tail(down)
    /\ IF Head(down) = Broken
         THEN ReceiverEnds
         ELSE LET got == Answered(Head(down).id) IN
              /\ call' = [c \in Call |-> IF c \in got THEN "returned" ELSE call[c]]
              /\ outcome' = [c \in Call |-> IF c \in got THEN Head(down).code ELSE outcome[c]]
              /\ UNCHANGED <<nextId, receiver>>
    /\ UNCHANGED <<link, up, gateway, record, used>>

\* The async for over the socket ends once everything that arrived is read.
StreamEnds ==
    /\ receiver = "reading"
    /\ link = "lost" /\ down = <<>>
    /\ ReceiverEnds
    /\ UNCHANGED <<streams, gateway, record, used>>

\* close(): the socket, then the receiver, unless it had ended before.
Close ==
    /\ link' = "lost"
    /\ up' \in Prefixes(up)
    /\ down' = <<>>
    /\ IF receiver = "reading" THEN ReceiverEnds ELSE UNCHANGED client
    /\ UNCHANGED <<gateway, record, used>>

-----------------------------------------------------------------------------
(* The gateway.                                                            *)

\* Faulty variant: every frame is handled in a task of its own.
ReceiveAny ==
    /\ at = "receiving"
    /\ \E i \in {j \in 1..Len(up) : up[j].body # "binary"} :
          /\ up' = SubSeq(up, 1, i - 1) \o SubSeq(up, i + 1, Len(up))
          /\ frame' = up[i]
    /\ at' = "executing"
    /\ UNCHANGED <<client, link, down, answer, record, used>>

\* receive_json(); a binary frame raises what run does not catch.
Receive ==
    /\ at = "receiving"
    /\ up # <<>>
    /\ up' = Tail(up)
    /\ IF Head(up).body = "binary"
         THEN at' = "closed" /\ link' = "lost" /\ UNCHANGED frame
         ELSE at' = "executing" /\ frame' = Head(up) /\ UNCHANGED link
    /\ UNCHANGED <<client, down, answer, record, used>>

ReceiveDisconnect ==
    /\ at = "receiving"
    /\ up = <<>> /\ link = "lost"
    /\ at' = "closed"
    /\ UNCHANGED <<client, streams, frame, answer, record, used>>

\* _request_id
RequestId(f) == IF f.id \in Call THEN f.id ELSE Null

\* Faulty variant: an id that is null is taken for none.
ExpectsResponseById(f, code) == code = "OK" => f.id \in Call

\* expects_response is asked only when the method has returned.
ExpectsResponse(f, code) == code = "OK" => f.id # Absent

\* What parsing, then execute, can come to.
Codes(body) ==
    IF body = "valid" THEN {"OK"} \cup {ErrorOf[e] : e \in Raised} ELSE {RefusalOf[body]}

\* _handle(), or the handler of a frame that is no JSON.
Handle ==
    /\ at = "executing"
    /\ \E code \in Codes(frame.body) :
          /\ taken' = Append(taken, [id |-> frame.id, ok |-> code = "OK"])
          /\ effect' = [c \in Call |-> IF c = frame.id THEN code ELSE effect[c]]
          /\ IF ExpectsResponse(frame, code)
               THEN /\ at' = "answering"
                    /\ answer' = [id |-> RequestId(frame), code |-> code]
               ELSE at' = "receiving" /\ UNCHANGED answer
    /\ frame' = NoFrame
    /\ UNCHANGED <<client, streams, sent, used>>

Send ==
    /\ at = "answering"
    /\ link = "open"
    /\ down' = Append(down, answer)
    /\ sent' = Append(sent, answer.id)
    /\ answer' = NoAnswer
    /\ at' = "receiving"
    /\ UNCHANGED <<client, link, up, frame, effect, taken, used>>

\* send_json raises WebSocketDisconnect, and run ends.
SendFails ==
    /\ at = "answering"
    /\ link = "lost"
    /\ at' = "closed"
    /\ answer' = NoAnswer
    /\ UNCHANGED <<client, streams, frame, record, used>>

-----------------------------------------------------------------------------
(* Everything else.                                                        *)

\* A forwarder gets the send lock between two answers, or a peer that is not
\* this gateway sends what the client cannot read.
Push ==
    /\ link = "open" /\ at # "closed"
    /\ Use("pushed", MaxPushed)
    /\ \E f \in {Event, Broken} : down' = Append(down, f)
    /\ UNCHANGED <<client, link, up, gateway, record>>

ForeignFrame ==
    /\ link = "open"
    /\ Use("foreign", MaxForeign)
    /\ \E f \in ForeignFrames : up' = Append(up, f)
    /\ UNCHANGED <<client, link, down, gateway, record>>

\* The network or the client's process goes, with frames in flight.
Lose ==
    /\ link = "open"
    /\ link' = "lost"
    /\ up' \in Prefixes(up) /\ down' \in Prefixes(down)
    /\ UNCHANGED <<client, gateway, record, used>>

\* The gateway's process goes, in the middle of whatever it does.
Crash ==
    /\ at # "closed"
    /\ at' = "closed"
    /\ link' = "lost"
    /\ up' = <<>> /\ down' \in Prefixes(down)
    /\ frame' = NoFrame /\ answer' = NoAnswer
    /\ UNCHANGED <<client, record, used>>

GatewayStep == Receive \/ ReceiveDisconnect \/ Handle \/ Send \/ SendFails
ReceiverStep == Dispatch \/ StreamEnds

Next ==
    \/ \E body \in RequestBody : Request(body)
    \/ \E c \in Call : Abandon(c)
    \/ Close
    \/ ReceiverStep
    \/ GatewayStep
    \/ Push \/ ForeignFrame
    \/ Lose \/ Crash

Spec == Init /\ [][Next]_chanVars

\* Both event loops run what is ready, and the methods of the gateway return.
Fairness == WF_chanVars(ReceiverStep) /\ WF_chanVars(GatewayStep)

FairSpec == Spec /\ Fairness

-----------------------------------------------------------------------------
\* connection.py:56-67 with rpc.py:31-88: a caller gets what the gateway made
\* of its own call, served at most once, whatever is lost, late or abandoned.
RC == INSTANCE RemoteCalls WITH stage <- call
ImplementsRemoteCalls == RC!Spec

\* The frames that get an answer: all but those without id whose method succeeds.
Due == {k \in DOMAIN taken : ~taken[k].ok \/ taken[k].id # Absent}

\* connection.py:39-67: each answer sent is to one of the frames read, in their
\* order, no frame is answered twice, and all that are due have their answer but
\* for the last one, while it is being answered or when the connection ended then.
AnswersAreDue ==
    \E of \in [DOMAIN sent -> Due] :
        /\ \A j, k \in DOMAIN sent : j < k => of[j] < of[k]
        /\ \A j \in DOMAIN sent : sent[j] = RequestId(taken[of[j]])
        /\ \A k \in Due : \/ \E j \in DOMAIN sent : of[j] = k
                          \/ k = Len(taken) /\ at \in {"answering", "closed"}

\* One connection is served in order: nobody waits while a later call returned.
CallsReturnInOrder ==
    \A c, d \in Call : c < d /\ call[d] = "returned" => call[c] # "waiting"

\* rpc.py:59-68: while the receiver reads, a call that waits comes to an end,
\* with its answer or with the connection.
CallsEnd ==
    \A c \in Call :
        (call[c] = "waiting" /\ receiver = "reading") ~> call[c] # "waiting"
=============================================================================
