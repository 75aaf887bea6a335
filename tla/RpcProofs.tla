----------------------------- MODULE RpcProofs -----------------------------
(***************************************************************************)
(* Theorems about one connection, for any number of calls, foreign frames  *)
(* and notifications, and any set of exceptions: it implements RemoteCalls,*)
(* calls return in their order, and each frame gets the answer it is due.  *)
(***************************************************************************)
EXTENDS RpcChannel, SequenceTheorems, TLAPS

-----------------------------------------------------------------------------
(* Streams lose frames at their ends only.                                 *)

\* t is a part of s without holes.
Part(t, s) ==
    \E k \in Nat : /\ Len(t) + k <= Len(s)
                   /\ \A i \in 1..Len(t) : t[i] = s[i + k]

\* What is left of a stream is a part of it.
LEMMA PrefixIsPart ==
    ASSUME NEW S, NEW s \in Seq(S), NEW t \in Prefixes(s)
    PROVE  t \in Seq(S) /\ Part(t, s)
<1>1. PICK n \in 0..Len(s) : t = SubSeq(s, 1, n)
  BY DEF Prefixes
<1>2. /\ t \in Seq(S)
      /\ Len(t) = n
      /\ \A i \in 1..n : t[i] = s[i]
  <2>1. Len(s) \in Nat /\ n \in Nat /\ \A i \in 1..n : s[i] \in S
    OBVIOUS
  <2>2. Len(SubSeq(s, 1, n)) = n /\ \A i \in 1..n : SubSeq(s, 1, n)[i] = s[i]
    BY <2>1
  <2>3. SubSeq(s, 1, n) \in Seq(S)
    BY <2>1, SubSeqProperties
  <2> QED
    BY <1>1, <2>2, <2>3
<1>3. 0 \in Nat /\ Len(t) + 0 <= Len(s) /\ \A i \in 1..Len(t) : t[i] = s[i + 0]
  BY <1>2
<1> QED
  BY <1>2, <1>3 DEF Part

\* It is the beginning of the stream.
LEMMA PrefixKeeps ==
    ASSUME NEW S, NEW s \in Seq(S), NEW t \in Prefixes(s)
    PROVE  \A i \in 1..Len(t) : i \in 1..Len(s) /\ t[i] = s[i]
<1>1. PICK n \in 0..Len(s) : t = SubSeq(s, 1, n)
  BY DEF Prefixes
<1>2. Len(s) \in Nat /\ n \in Nat /\ n <= Len(s)
  OBVIOUS
<1>3. Len(SubSeq(s, 1, n)) = n /\ \A i \in 1..n : SubSeq(s, 1, n)[i] = s[i]
  BY <1>2
<1> QED
  BY <1>1, <1>2, <1>3

\* Reading takes the first frame and leaves a part.
LEMMA TailIsPart ==
    ASSUME NEW S, NEW s \in Seq(S), s # <<>>
    PROVE  /\ Head(s) \in S /\ Head(s) = s[1]
           /\ 1 \in 1..Len(s)
           /\ Tail(s) \in Seq(S)
           /\ Len(Tail(s)) = Len(s) - 1
           /\ \A i \in 1..Len(Tail(s)) : Tail(s)[i] = s[i + 1]
           /\ Part(Tail(s), s)
<1>1. Len(s) \in Nat \ {0}
  BY EmptySeq
<1>2. /\ Head(s) \in S /\ Tail(s) \in Seq(S)
      /\ Len(Tail(s)) = Len(s) - 1
      /\ \A i \in 1..Len(Tail(s)) : Tail(s)[i] = s[i + 1]
      /\ Head(s) = s[1]
  BY <1>1
<1> QED
  BY <1>1, <1>2 DEF Part

\* Appending leaves what was there.
LEMMA AppendKeeps ==
    ASSUME NEW S, NEW s \in Seq(S), NEW e \in S
    PROVE  /\ Append(s, e) \in Seq(S)
           /\ Len(Append(s, e)) = Len(s) + 1
           /\ \A i \in 1..Len(s) : Append(s, e)[i] = s[i]
           /\ Append(s, e)[Len(s) + 1] = e
OBVIOUS

-----------------------------------------------------------------------------
(* The invariant: a call is in one place, and what comes back for it is    *)
(* what the gateway made of it.                                            *)

\* The calls that were sent and that the gateway has not served.
Unserved == {c \in Call : call[c] \notin {"unmade", "refused"} /\ effect[c] = Nothing}

\* Ids are given in order.
Numbered == \A c \in Call : call[c] = "unmade" <=> c >= nextId

\* What was not sent is not served.
EffectsAreOfSent == \A c \in Call : call[c] \in {"unmade", "refused"} => effect[c] = Nothing

\* Requests on their way are unserved and have ids of their own.
UpInv ==
    /\ \A i \in 1..Len(up) : up[i].id \in Call => up[i].id \in Unserved
    /\ \A i, j \in 1..Len(up) : up[i].id \in Call /\ up[i].id = up[j].id => i = j

\* The frame in hand is none that run cannot read.
HandReadable == frame.body # "binary"

\* The request in hand is unserved and no longer on its way.
HandInv ==
    frame.id \in Call => /\ frame.id \in Unserved
                         /\ \A i \in 1..Len(up) : up[i].id # frame.id

\* Answers carry what the gateway made of their call.
AnswerInv == answer.id \in Call => effect[answer.id] = answer.code
DownInv == \A i \in 1..Len(down) : down[i].id \in Call => effect[down[i].id] = down[i].code

ChanInv == Numbered /\ EffectsAreOfSent /\ UpInv /\ HandReadable /\ HandInv /\ AnswerInv /\ DownInv

-----------------------------------------------------------------------------
(* Types.                                                                  *)

\* What may be on its way to the client.
Pushed == Answer \cup {Event, Broken}

\* The end of the receiver keeps the types of the client.
LEMMA ReceiverEndsType ==
    ASSUME RpcTypeOK, ReceiverEnds
    PROVE  /\ nextId' \in 1..(MaxCalls + 1) /\ receiver' = "ended"
           /\ call' \in [Call -> {"unmade", "waiting", "returned", "failed", "abandoned", "refused"}]
           /\ outcome' \in [Call -> Code \cup {Nothing}]
BY DEF RpcTypeOK, ReceiverEnds, FailPending

\* What the gateway makes of a body is a code.
LEMMA CodesAreCodes ==
    ASSUME NEW body \in Body \ {"binary"}
    PROVE  Codes(body) \subseteq Code
<1>1. CASE body = "valid"
  <2>1. \A e \in Raised : ErrorOf[e] \in Code
    BY ChannelAssumption DEF ErrorOf, Code
  <2> QED
    BY <1>1, <2>1 DEF Codes, Code
<1>2. CASE body # "valid"
  <2>1. RefusalOf[body] \in Code
    BY <1>2 DEF RefusalOf, Body, RequestBody, Code
  <2> QED
    BY <1>2, <2>1 DEF Codes
<1> QED
  BY <1>1, <1>2

\* Every step of the connection keeps the types.
LEMMA TypeStep ==
    ASSUME RpcTypeOK, HandReadable, [Next]_chanVars
    PROVE  RpcTypeOK'
<1> USE DEF client, streams, gateway, record
<1> DEFINE
      ClientOK ==
        /\ nextId \in 1..(MaxCalls + 1)
        /\ call \in [Call -> {"unmade", "waiting", "returned", "failed", "abandoned", "refused"}]
        /\ outcome \in [Call -> Code \cup {Nothing}]
        /\ receiver \in {"reading", "ended"}
      StreamsOK == link \in {"open", "lost"} /\ up \in Seq(Frame) /\ down \in Seq(Pushed)
      GatewayOK ==
        /\ at \in {"receiving", "executing", "answering", "closed"}
        /\ frame \in Frame /\ answer \in Answer
      RecordOK ==
        /\ effect \in [Call -> Code \cup {Nothing}]
        /\ taken \in Seq([id : Call \cup {Null, Absent}, ok : BOOLEAN])
        /\ sent \in Seq(Call \cup {Null})
      UsedOK == used \in [{"foreign", "pushed"} -> Nat]
<1>1. /\ ClientOK /\ StreamsOK /\ GatewayOK /\ RecordOK /\ UsedOK
      /\ ClientOK' /\ StreamsOK' /\ GatewayOK' /\ RecordOK' /\ UsedOK' => RpcTypeOK'
  BY DEF RpcTypeOK, Pushed
<1>2. /\ UNCHANGED client => ClientOK'
      /\ UNCHANGED streams => StreamsOK'
      /\ UNCHANGED gateway => GatewayOK'
      /\ UNCHANGED record => RecordOK'
      /\ UNCHANGED used => UsedOK'
  BY <1>1
<1>3. NoFrame \in Frame /\ NoAnswer \in Answer /\ Event \in Pushed /\ Broken \in Pushed
  BY DEF NoFrame, NoAnswer, Frame, Answer, Body, Code, Pushed
<1>4. \A q \in Prefixes(up) : q \in Seq(Frame)
  BY <1>1, PrefixIsPart
<1>5. \A q \in Prefixes(down) : q \in Seq(Pushed)
  BY <1>1, PrefixIsPart
<1>6. ReceiverEnds => ClientOK'
  BY ReceiverEndsType
<1>7. \A bound \in {"foreign", "pushed"} : \A max : Use(bound, max) => UsedOK'
  BY <1>1 DEF Use
<1>8. CASE UNCHANGED chanVars
  BY <1>1, <1>8 DEF chanVars
<1>9. ASSUME NEW body \in RequestBody, Request(body)
      PROVE  RpcTypeOK'
  <2>1. [id |-> nextId, body |-> body] \in Frame
    BY <1>9 DEF Request, Frame, Body
  <2>2. StreamsOK'
    BY <1>1, <1>9, <2>1, AppendKeeps DEF Request
  <2>3. ClientOK'
    BY <1>1, <1>9, ChannelAssumption DEF Request, Call
  <2> QED
    BY <1>1, <1>2, <1>9, <2>2, <2>3 DEF Request
<1>10. ASSUME NEW c \in Call, Abandon(c)
       PROVE  RpcTypeOK'
  <2>1. ClientOK'
    BY <1>1, <1>10 DEF Abandon
  <2> QED
    BY <1>1, <1>2, <1>10, <2>1 DEF Abandon
<1>11. CASE Close
  <2>1. ClientOK' /\ StreamsOK'
    BY <1>1, <1>2, <1>4, <1>6, <1>11 DEF Close
  <2> QED
    BY <1>1, <1>2, <1>11, <2>1 DEF Close
<1>12. CASE Dispatch
  <2>1. StreamsOK' /\ Head(down) \in Pushed
    BY <1>1, <1>12, TailIsPart DEF Dispatch
  <2>2. ClientOK'
    <3>1. CASE Head(down) = Broken
      BY <1>6, <1>12, <3>1 DEF Dispatch
    <3>2. CASE Head(down) # Broken
      <4>1. \A c \in Answered(Head(down).id) : Head(down).code \in Code
        BY <2>1, ChannelAssumption DEF Answered, Pushed, Answer, Event, Broken
      <4> QED
        BY <1>1, <1>12, <3>2, <4>1 DEF Dispatch
    <3> QED
      BY <3>1, <3>2
  <2> QED
    BY <1>1, <1>2, <1>12, <2>1, <2>2 DEF Dispatch
<1>13. CASE StreamEnds
  BY <1>1, <1>2, <1>6, <1>13 DEF StreamEnds
<1>14. CASE Receive
  <2>1. StreamsOK' /\ GatewayOK'
    BY <1>1, <1>14, TailIsPart DEF Receive
  <2> QED
    BY <1>1, <1>2, <1>14, <2>1 DEF Receive
<1>15. CASE ReceiveDisconnect
  BY <1>1, <1>2, <1>15 DEF ReceiveDisconnect
<1>16. CASE Handle
  <2>1. PICK code \in Codes(frame.body) :
          /\ taken' = Append(taken, [id |-> frame.id, ok |-> code = "OK"])
          /\ effect' = [c \in Call |-> IF c = frame.id THEN code ELSE effect[c]]
          /\ IF ExpectsResponse(frame, code)
               THEN /\ at' = "answering"
                    /\ answer' = [id |-> RequestId(frame), code |-> code]
               ELSE at' = "receiving" /\ UNCHANGED answer
    BY <1>16 DEF Handle
  <2>2. code \in Code /\ frame.id \in Call \cup {Null, Absent}
    BY <1>1, CodesAreCodes DEF HandReadable, Frame
  <2>3. GatewayOK'
    BY <1>1, <1>3, <1>16, <2>1, <2>2 DEF Handle, RequestId, Answer
  <2>4. RecordOK'
    <3>1. [id |-> frame.id, ok |-> code = "OK"] \in [id : Call \cup {Null, Absent}, ok : BOOLEAN]
      BY <2>2
    <3>2. taken' \in Seq([id : Call \cup {Null, Absent}, ok : BOOLEAN])
      BY <1>1, <2>1, <3>1, AppendKeeps
    <3> QED
      BY <1>1, <1>16, <2>1, <2>2, <3>2 DEF Handle
  <2> QED
    BY <1>1, <1>2, <1>16, <2>3, <2>4 DEF Handle
<1>17. CASE Send
  <2>1. StreamsOK' /\ RecordOK'
    BY <1>1, <1>17, AppendKeeps DEF Send, Pushed, Answer
  <2> QED
    BY <1>1, <1>2, <1>3, <1>17, <2>1 DEF Send
<1>18. CASE SendFails
  BY <1>1, <1>2, <1>3, <1>18 DEF SendFails
<1>19. CASE Push
  <2>1. StreamsOK'
    BY <1>1, <1>3, <1>19, AppendKeeps DEF Push
  <2> QED
    BY <1>1, <1>2, <1>7, <1>19, <2>1 DEF Push
<1>20. CASE ForeignFrame
  <2>1. ForeignFrames \subseteq Frame
    BY DEF ForeignFrames, Frame, Body, RequestBody
  <2>2. StreamsOK'
    BY <1>1, <1>20, <2>1, AppendKeeps DEF ForeignFrame
  <2> QED
    BY <1>1, <1>2, <1>7, <1>20, <2>2 DEF ForeignFrame
<1>21. CASE Lose
  BY <1>1, <1>2, <1>4, <1>5, <1>21 DEF Lose
<1>22. CASE Crash
  BY <1>1, <1>2, <1>3, <1>5, <1>22 DEF Crash
<1> QED
  BY <1>8, <1>9, <1>10, <1>11, <1>12, <1>13, <1>14, <1>15, <1>16, <1>17, <1>18, <1>19,
     <1>20, <1>21, <1>22 DEF Next, GatewayStep, ReceiverStep

-----------------------------------------------------------------------------
(* The invariant is inductive.                                             *)

\* A step that neither makes calls nor serves them, and only takes frames off
\* the streams or adds ones without id, keeps the invariant.
LEMMA QuietStep ==
    ASSUME RpcTypeOK, RpcTypeOK', ChanInv,
           nextId' = nextId, effect' = effect,
           \A c \in Call :
             \/ call'[c] = call[c]
             \/ call[c] = "waiting" /\ call'[c] \notin {"unmade", "refused"},
           frame' = frame \/ frame' = NoFrame,
           answer' = answer \/ answer' = NoAnswer,
           Part(up', up), Part(down', down)
    PROVE  ChanInv'
<1>1. Numbered' /\ EffectsAreOfSent'
  BY DEF RpcTypeOK, ChanInv, Numbered, EffectsAreOfSent
<1>2. Unserved \subseteq Unserved'
  BY DEF RpcTypeOK, Unserved
<1>3. PICK k \in Nat : \A i \in 1..Len(up') : i + k \in 1..Len(up) /\ up'[i] = up[i + k]
  <2>1. Len(up) \in Nat /\ Len(up') \in Nat
    BY DEF RpcTypeOK
  <2>2. PICK j \in Nat : /\ Len(up') + j <= Len(up)
                         /\ \A i \in 1..Len(up') : up'[i] = up[i + j]
    BY DEF Part
  <2>3. \A i \in 1..Len(up') : i + j \in 1..Len(up) /\ up'[i] = up[i + j]
    BY <2>1, <2>2
  <2> QED
    BY <2>3
<1>4. PICK m \in Nat : \A i \in 1..Len(down') :
        i + m \in 1..Len(down) /\ down'[i] = down[i + m]
  <2>1. Len(down) \in Nat /\ Len(down') \in Nat
    BY DEF RpcTypeOK
  <2>2. PICK j \in Nat : /\ Len(down') + j <= Len(down)
                         /\ \A i \in 1..Len(down') : down'[i] = down[i + j]
    BY DEF Part
  <2>3. \A i \in 1..Len(down') : i + j \in 1..Len(down) /\ down'[i] = down[i + j]
    BY <2>1, <2>2
  <2> QED
    BY <2>3
<1>5. UpInv'
  <2>1. \A i \in 1..Len(up') : up'[i].id \in Call => up'[i].id \in Unserved
    BY <1>3 DEF ChanInv, UpInv
  <2>2. \A i, j \in 1..Len(up') :
          up'[i].id \in Call /\ up'[i].id = up'[j].id => i + k = j + k
    <3>1. \A a, b \in 1..Len(up) : up[a].id \in Call /\ up[a].id = up[b].id => a = b
      BY DEF ChanInv, UpInv
    <3>2. ASSUME NEW i \in 1..Len(up'), NEW j \in 1..Len(up'),
                 up'[i].id \in Call, up'[i].id = up'[j].id
          PROVE  i + k = j + k
      <4>1. /\ i + k \in 1..Len(up) /\ up'[i] = up[i + k]
            /\ j + k \in 1..Len(up) /\ up'[j] = up[j + k]
        BY <1>3
      <4> QED
        BY <3>1, <3>2, <4>1
    <3> QED
      BY <3>2
  <2>3. \A i, j \in Nat : i + k = j + k => i = j
    OBVIOUS
  <2>4. 1..Len(up') \subseteq Nat
    BY DEF RpcTypeOK
  <2>5. \A i, j \in 1..Len(up') : up'[i].id \in Call /\ up'[i].id = up'[j].id => i = j
    BY <2>2, <2>3, <2>4
  <2> QED
    BY <1>2, <2>1, <2>5 DEF UpInv
<1>6. HandReadable' /\ HandInv'
  <2>1. NoFrame.id \notin Call /\ NoFrame.body # "binary"
    BY ChannelAssumption DEF NoFrame
  <2> QED
    BY <2>1, <1>2, <1>3 DEF ChanInv, HandInv, HandReadable
<1>7. AnswerInv'
  BY ChannelAssumption DEF ChanInv, AnswerInv, NoAnswer
<1>8. DownInv'
  BY <1>4 DEF ChanInv, DownInv
<1> QED
  BY <1>1, <1>5, <1>6, <1>7, <1>8 DEF ChanInv

\* A stream is a part of itself, and so is the empty one.
LEMMA PartOfItself ==
    ASSUME NEW S, NEW s \in Seq(S)
    PROVE  Part(s, s) /\ Part(<<>>, s)
<1>1. /\ 0 \in Nat /\ Len(s) + 0 <= Len(s) /\ \A i \in 1..Len(s) : s[i] = s[i + 0]
      /\ Len(<<>>) + 0 <= Len(s) /\ \A i \in 1..Len(<<>>) : <<>>[i] = s[i + 0]
  OBVIOUS
<1> QED
  BY <1>1 DEF Part

\* Ids are given in order, and a request is unserved when it is sent.
LEMMA RequestStep ==
    ASSUME RpcTypeOK, ChanInv, NEW body \in RequestBody, Request(body)
    PROVE  ChanInv'
<1> USE DEF RpcTypeOK, client, streams, gateway, record
<1> DEFINE f == [id |-> nextId, body |-> body]
<1>1. /\ nextId \in Call /\ nextId' = nextId + 1
      /\ call' = [call EXCEPT ![nextId] = IF link = "open" THEN "waiting" ELSE "refused"]
      /\ UNCHANGED <<outcome, receiver, link, down, at, frame, answer, effect>>
  BY DEF Request
<1>2. call[nextId] = "unmade" /\ effect[nextId] = Nothing
  BY <1>1 DEF ChanInv, Numbered, EffectsAreOfSent, Call
<1>3. Numbered' /\ EffectsAreOfSent'
  BY <1>1, <1>2, ChannelAssumption DEF ChanInv, Numbered, EffectsAreOfSent, Call
<1>4. \A c \in Unserved : c \in Unserved' /\ c # nextId
  BY <1>1, <1>2 DEF Unserved
<1>5. CASE link = "open"
  <2>1. f \in Frame /\ up' = Append(up, f)
    BY <1>1, <1>5 DEF Request, Frame, Body
  <2>2. /\ Len(up') = Len(up) + 1 /\ Len(up) \in Nat
        /\ \A i \in 1..Len(up) : up'[i] = up[i]
        /\ up'[Len(up) + 1] = f
    BY <2>1, AppendKeeps
  <2>3. nextId \in Unserved'
    BY <1>1, <1>2, <1>5 DEF Unserved
  <2>4. UpInv'
    <3>1. \A i \in 1..Len(up') : i \in 1..Len(up) \/ i = Len(up) + 1
      BY <2>2
    <3>2. \A i \in 1..Len(up) : up[i].id # nextId
      BY <1>1, <1>4 DEF ChanInv, UpInv
    <3>3. up'[Len(up) + 1].id = nextId
      BY <2>2
    <3> QED
      BY <1>4, <2>2, <2>3, <3>1, <3>2, <3>3 DEF ChanInv, UpInv
  <2>5. HandInv'
    <3>1. \A i \in 1..Len(up') : i \in 1..Len(up) \/ i = Len(up) + 1
      BY <2>2
    <3>2. up'[Len(up) + 1].id = nextId
      BY <2>2
    <3> QED
      BY <1>1, <1>4, <2>2, <3>1, <3>2 DEF ChanInv, HandInv
  <2> QED
    BY <1>1, <1>3, <2>4, <2>5 DEF ChanInv, HandReadable, AnswerInv, DownInv
<1>6. CASE link # "open"
  <2>1. up' = up
    BY <1>6 DEF Request
  <2>2. UpInv' /\ HandInv'
    BY <1>1, <1>4, <2>1 DEF ChanInv, UpInv, HandInv
  <2> QED
    BY <1>1, <1>3, <2>2 DEF ChanInv, HandReadable, AnswerInv, DownInv
<1> QED
  BY <1>5, <1>6

\* The frame taken is in hand and no longer on its way.
LEMMA ReceiveStep ==
    ASSUME RpcTypeOK, RpcTypeOK', ChanInv, Receive
    PROVE  ChanInv'
<1> USE DEF client, streams, gateway, record
<1>1. /\ Head(up) = up[1] /\ 1 \in 1..Len(up) /\ Len(up) \in Nat
      /\ Len(up') = Len(up) - 1
      /\ \A i \in 1..Len(up') : up'[i] = up[i + 1]
      /\ Part(up', up)
  BY TailIsPart DEF RpcTypeOK, Receive
<1>2. Part(down, down)
  BY PartOfItself DEF RpcTypeOK
<1>3. CASE Head(up).body = "binary"
  BY <1>1, <1>2, <1>3, QuietStep DEF Receive
<1>4. CASE Head(up).body # "binary"
  <2>1. /\ frame' = up[1] /\ up[1].body # "binary"
        /\ UNCHANGED <<nextId, call, effect, answer, down>>
    BY <1>1, <1>4 DEF Receive
  <2>2. \A i \in 1..Len(up') : i + 1 \in 1..Len(up) /\ i + 1 # 1
    BY <1>1
  <2>3. UpInv'
    <3>1. \A i, j \in 1..Len(up') :
            up'[i].id \in Call /\ up'[i].id = up'[j].id => i + 1 = j + 1
      BY <1>1, <2>2 DEF ChanInv, UpInv
    <3>2. \A i, j \in 1..Len(up') : i + 1 = j + 1 => i = j
      BY <1>1
    <3> QED
      BY <1>1, <2>1, <2>2, <3>1, <3>2 DEF ChanInv, UpInv, Unserved
  <2>4. HandInv'
    BY <1>1, <2>1, <2>2 DEF ChanInv, UpInv, HandInv, Unserved
  <2> QED
    BY <2>1, <2>3, <2>4
       DEF ChanInv, Numbered, EffectsAreOfSent, HandReadable, AnswerInv, DownInv
<1> QED
  BY <1>3, <1>4

\* A call is served once, while no other frame or answer has its id.
LEMMA HandleStep ==
    ASSUME RpcTypeOK, RpcTypeOK', ChanInv, Handle
    PROVE  ChanInv'
<1> USE DEF client, streams, gateway, record
<1>1. PICK code \in Codes(frame.body) :
        /\ effect' = [c \in Call |-> IF c = frame.id THEN code ELSE effect[c]]
        /\ \/ answer' = [id |-> RequestId(frame), code |-> code]
           \/ answer' = answer
  BY DEF Handle
<1>2. frame' = NoFrame /\ UNCHANGED <<nextId, call, up, down>>
  BY DEF Handle
<1>3. NoFrame.id \notin Call /\ NoFrame.body # "binary" /\ Null \notin Call
  BY ChannelAssumption DEF NoFrame
<1>4. code # Nothing
  BY CodesAreCodes, ChannelAssumption DEF RpcTypeOK, Frame, ChanInv, HandReadable
<1>5. \A c \in Call : effect[c] # Nothing => effect'[c] = effect[c]
  BY <1>1 DEF ChanInv, HandInv, Unserved
<1>6. Numbered' /\ EffectsAreOfSent' /\ HandReadable' /\ HandInv'
  BY <1>1, <1>2, <1>3
     DEF ChanInv, Numbered, EffectsAreOfSent, HandReadable, HandInv, Unserved
<1>7. UpInv'
  <2>1. \A c \in Unserved : c # frame.id => c \in Unserved'
    BY <1>1, <1>2 DEF Unserved
  <2>2. \A i \in 1..Len(up) : up[i].id \in Call => up[i].id # frame.id
    BY DEF ChanInv, HandInv
  <2> QED
    BY <1>2, <2>1, <2>2 DEF ChanInv, UpInv
<1>8. \A c \in Call, x \in Code : effect[c] = x => effect'[c] = x
  BY <1>5, ChannelAssumption
<1>9. AnswerInv'
  <2>1. answer.code \in Code
    BY DEF RpcTypeOK, Answer
  <2> QED
    BY <1>1, <1>3, <1>8, <2>1 DEF ChanInv, AnswerInv, RequestId
<1>10. DownInv'
  <2>1. \A a \in Pushed : a.id \in Call => a.code \in Code
    BY <1>3 DEF Pushed, Answer, Event, Broken
  <2>2. \A i \in 1..Len(down) : down[i] \in Pushed
    BY DEF RpcTypeOK, Pushed
  <2> QED
    BY <1>2, <1>8, <2>1, <2>2 DEF ChanInv, DownInv
<1> QED
  BY <1>6, <1>7, <1>9, <1>10 DEF ChanInv

\* A frame added to a stream that answers and asks nothing, or answers truly.
LEMMA AddStep ==
    ASSUME RpcTypeOK, ChanInv,
           UNCHANGED <<nextId, call, effect, frame>>,
           answer' = answer \/ answer' = NoAnswer,
           \/ up' = up
           \/ \E f \in Frame : up' = Append(up, f) /\ f.id \notin Call,
           \/ down' = down
           \/ \E a \in Pushed :
                /\ down' = Append(down, a)
                /\ a.id \in Call => effect[a.id] = a.code
    PROVE  ChanInv'
<1>1. UpInv' /\ HandInv'
  <2>1. CASE up' = up
    BY <2>1 DEF ChanInv, UpInv, HandInv, Unserved
  <2>2. ASSUME NEW f \in Frame, up' = Append(up, f), f.id \notin Call
        PROVE  UpInv' /\ HandInv'
    <3>1. /\ Len(up') = Len(up) + 1 /\ Len(up) \in Nat
          /\ \A i \in 1..Len(up) : up'[i] = up[i]
          /\ up'[Len(up) + 1] = f
      BY <2>2, AppendKeeps DEF RpcTypeOK
    <3>2. \A i \in 1..Len(up') : up'[i].id \in Call => i \in 1..Len(up)
      BY <2>2, <3>1
    <3>3. UpInv'
      BY <3>1, <3>2 DEF ChanInv, UpInv, Unserved
    <3>4. HandInv'
      BY <3>1, <3>2 DEF ChanInv, HandInv, Unserved
    <3> QED
      BY <3>3, <3>4
  <2> QED
    BY <2>1, <2>2
<1>2. DownInv'
  <2>1. CASE down' = down
    BY <2>1 DEF ChanInv, DownInv
  <2>2. ASSUME NEW a \in Pushed, down' = Append(down, a),
               a.id \in Call => effect[a.id] = a.code
        PROVE  DownInv'
    <3>1. /\ Len(down') = Len(down) + 1 /\ Len(down) \in Nat
          /\ \A i \in 1..Len(down) : down'[i] = down[i]
          /\ down'[Len(down) + 1] = a
      BY <2>2, AppendKeeps DEF RpcTypeOK, Pushed
    <3>2. \A i \in 1..Len(down') : i \in 1..Len(down) \/ i = Len(down) + 1
      BY <3>1
    <3> QED
      BY <2>2, <3>1, <3>2 DEF ChanInv, DownInv
  <2> QED
    BY <2>1, <2>2
<1>3. AnswerInv'
  BY ChannelAssumption DEF ChanInv, AnswerInv, NoAnswer
<1> QED
  BY <1>1, <1>2, <1>3 DEF ChanInv, Numbered, EffectsAreOfSent, HandReadable

\* Every step of the connection keeps the invariant.
LEMMA InvStep ==
    ASSUME RpcTypeOK, RpcTypeOK', ChanInv, [Next]_chanVars
    PROVE  ChanInv'
<1> USE DEF client, streams, gateway, record
<1>1. Part(up, up) /\ Part(down, down) /\ Part(<<>>, up) /\ Part(<<>>, down)
  BY PartOfItself DEF RpcTypeOK
<1>2. (\A q \in Prefixes(up) : Part(q, up)) /\ \A q \in Prefixes(down) : Part(q, down)
  BY PrefixIsPart DEF RpcTypeOK
<1>3. ReceiverEnds => /\ nextId' = nextId
                      /\ \A c \in Call : call'[c] = call[c] \/ (call[c] = "waiting" /\ call'[c] = "failed")
  BY DEF RpcTypeOK, ReceiverEnds, FailPending
<1>4. CASE UNCHANGED chanVars
  BY <1>1, <1>4, QuietStep DEF chanVars
<1>5. ASSUME NEW body \in RequestBody, Request(body)
      PROVE  ChanInv'
  BY <1>5, RequestStep
<1>6. ASSUME NEW c \in Call, Abandon(c)
      PROVE  ChanInv'
  <2>1. \A d \in Call : call'[d] = call[d] \/ (call[d] = "waiting" /\ call'[d] = "abandoned")
    BY <1>6 DEF Abandon, RpcTypeOK
  <2> QED
    BY <1>1, <1>6, <2>1, QuietStep DEF Abandon
<1>7. CASE Close
  BY <1>1, <1>2, <1>3, <1>7, QuietStep DEF Close
<1>8. CASE Dispatch
  <2>1. Part(down', down) /\ UNCHANGED <<up, effect, frame, answer>>
    BY <1>8, TailIsPart DEF Dispatch, RpcTypeOK
  <2>2. /\ nextId' = nextId
        /\ \A c \in Call :
             \/ call'[c] = call[c]
             \/ call[c] = "waiting" /\ call'[c] \in {"failed", "returned"}
    BY <1>3, <1>8 DEF Dispatch, Answered
  <2> QED
    BY <1>1, <2>1, <2>2, QuietStep
<1>9. CASE StreamEnds
  BY <1>1, <1>3, <1>9, QuietStep DEF StreamEnds
<1>10. CASE Receive
  BY <1>10, ReceiveStep
<1>11. CASE ReceiveDisconnect
  BY <1>1, <1>11, QuietStep DEF ReceiveDisconnect
<1>12. CASE Handle
  BY <1>12, HandleStep
<1>13. CASE Send
  <2>1. answer \in Pushed /\ (answer.id \in Call => effect[answer.id] = answer.code)
    BY DEF RpcTypeOK, Pushed, ChanInv, AnswerInv
  <2> QED
    BY <1>13, <2>1, AddStep DEF Send
<1>14. CASE SendFails
  BY <1>1, <1>14, QuietStep DEF SendFails
<1>15. CASE Push
  <2>1. \A a \in {Event, Broken} : a \in Pushed /\ a.id \notin Call
    BY ChannelAssumption DEF Event, Broken, Pushed
  <2> QED
    BY <1>15, <2>1, AddStep DEF Push
<1>16. CASE ForeignFrame
  <2>1. \A f \in ForeignFrames : f \in Frame /\ f.id \notin Call
    BY ChannelAssumption DEF ForeignFrames, Frame, Body, RequestBody
  <2> QED
    BY <1>16, <2>1, AddStep DEF ForeignFrame
<1>17. CASE Lose
  BY <1>2, <1>17, QuietStep DEF Lose
<1>18. CASE Crash
  BY <1>1, <1>2, <1>18, QuietStep DEF Crash
<1> QED
  BY <1>4, <1>5, <1>6, <1>7, <1>8, <1>9, <1>10, <1>11, <1>12, <1>13, <1>14, <1>15,
     <1>16, <1>17, <1>18 DEF Next, GatewayStep, ReceiverStep

-----------------------------------------------------------------------------
(* The theorems.                                                           *)

\* Types and the invariant hold together: a frame's types need HandReadable.
LEMMA ChannelInvariant == Spec => [](RpcTypeOK /\ ChanInv)
<1>1. Init => RpcTypeOK /\ ChanInv
  <2> SUFFICES ASSUME Init PROVE RpcTypeOK /\ ChanInv
    OBVIOUS
  <2>1. /\ NoFrame \in Frame /\ NoFrame.id \notin Call /\ NoFrame.body # "binary"
        /\ NoAnswer \in Answer /\ NoAnswer.id \notin Call
    BY ChannelAssumption DEF NoFrame, NoAnswer, Frame, Answer, Body, Code
  <2>2. RpcTypeOK
    BY <2>1, ChannelAssumption DEF Init, RpcTypeOK, Call
  <2>3. ChanInv
    BY <2>1 DEF Init, ChanInv, Numbered, EffectsAreOfSent, UpInv, HandReadable, HandInv,
                AnswerInv, DownInv, Call
  <2> QED
    BY <2>2, <2>3
<1>2. RpcTypeOK /\ ChanInv /\ [Next]_chanVars => RpcTypeOK' /\ ChanInv'
  <2> SUFFICES ASSUME RpcTypeOK, ChanInv, [Next]_chanVars PROVE RpcTypeOK' /\ ChanInv'
    OBVIOUS
  <2>1. RpcTypeOK'
    BY TypeStep DEF ChanInv
  <2> QED
    BY <2>1, InvStep
<1> QED
  BY <1>1, <1>2, PTL DEF Spec

\* connection.py and rpc.py keep every frame, future and id well typed.
THEOREM ChannelTypeCorrect == Spec => []RpcTypeOK
BY ChannelInvariant, PTL

\* The receiver's end is a failure of every waiting call.
LEMMA ReceiverEndsIsFailAll ==
    ASSUME ReceiverEnds, effect' = effect
    PROVE  RC!FailAll
BY DEF ReceiverEnds, FailPending, RC!FailAll

\* Every step of the connection is a step of RemoteCalls, or none.
LEMMA RefinementStep ==
    ASSUME RpcTypeOK, ChanInv, [Next]_chanVars
    PROVE  [RC!Next]_(RC!remoteVars)
<1> USE DEF client, streams, gateway, record
<1>1. UNCHANGED <<call, effect, outcome>> => [RC!Next]_(RC!remoteVars)
  BY DEF RC!remoteVars
<1>2. ReceiverEnds /\ effect' = effect => RC!Next
  BY ReceiverEndsIsFailAll DEF RC!Next
<1>3. CASE UNCHANGED chanVars
  BY <1>1, <1>3 DEF chanVars
<1>4. ASSUME NEW body \in RequestBody, Request(body)
      PROVE  RC!Next
  <2>1. nextId \in Call /\ call[nextId] = "unmade" /\ UNCHANGED <<effect, outcome>>
    BY <1>4 DEF Request, ChanInv, Numbered, RpcTypeOK, Call
  <2>2. CASE link = "open"
    <3>1. RC!Make(nextId)
      BY <1>4, <2>1, <2>2 DEF Request, RC!Make
    <3> QED
      BY <2>1, <3>1 DEF RC!Next
  <2>3. CASE link # "open"
    <3>1. RC!Refuse(nextId)
      BY <1>4, <2>1, <2>3 DEF Request, RC!Refuse
    <3> QED
      BY <2>1, <3>1 DEF RC!Next
  <2> QED
    BY <2>2, <2>3
<1>5. ASSUME NEW c \in Call, Abandon(c)
      PROVE  RC!Next
  <2>1. RC!Abandon(c)
    BY <1>5 DEF Abandon, RC!Abandon
  <2> QED
    BY <2>1 DEF RC!Next
<1>6. CASE Close
  BY <1>1, <1>2, <1>6 DEF Close
<1>7. CASE Dispatch
  <2> DEFINE a == Head(down)
  <2>1. CASE a = Broken
    BY <1>2, <1>7, <2>1 DEF Dispatch
  <2>2. CASE a # Broken
    <3>1. /\ call' = [c \in Call |-> IF c \in Answered(a.id) THEN "returned" ELSE call[c]]
          /\ outcome' = [c \in Call |-> IF c \in Answered(a.id) THEN a.code ELSE outcome[c]]
          /\ effect' = effect
      BY <1>7, <2>2 DEF Dispatch
    <3>2. call \in [Call -> {"unmade", "waiting", "returned", "failed", "abandoned", "refused"}]
          /\ outcome \in [Call -> Code \cup {Nothing}]
      BY DEF RpcTypeOK
    <3>3. CASE Answered(a.id) = {}
      BY <1>1, <3>1, <3>2, <3>3
    <3>4. CASE Answered(a.id) # {}
      <4>1. a.id \in Call /\ call[a.id] = "waiting" /\ Answered(a.id) = {a.id}
        BY <3>4 DEF Answered
      <4>2. a \in Pushed /\ a = down[1] /\ 1 \in 1..Len(down)
        BY <1>7, TailIsPart DEF Dispatch, RpcTypeOK, Pushed
      <4>3. effect[a.id] = a.code /\ a.code \in Code
        BY <4>1, <4>2, ChannelAssumption
           DEF ChanInv, DownInv, Pushed, Answer, Event, Broken
      <4>4. RC!Return(a.id)
        BY <3>1, <3>2, <4>1, <4>3, ChannelAssumption DEF RC!Return
      <4> QED
        BY <4>1, <4>4 DEF RC!Next
    <3> QED
      BY <3>3, <3>4
  <2> QED
    BY <2>1, <2>2
<1>8. CASE StreamEnds
  BY <1>2, <1>8 DEF StreamEnds
<1>9. CASE Handle
  <2>1. PICK code \in Codes(frame.body) :
          effect' = [c \in Call |-> IF c = frame.id THEN code ELSE effect[c]]
    BY <1>9 DEF Handle
  <2>2. UNCHANGED <<call, outcome>>
    BY <1>9 DEF Handle
  <2>3. CASE frame.id \in Call
    <3>1. code \in Code
      BY CodesAreCodes DEF RpcTypeOK, Frame, ChanInv, HandReadable
    <3>2. /\ call[frame.id] \notin {"unmade", "refused"} /\ effect[frame.id] = Nothing
          /\ effect' = [effect EXCEPT ![frame.id] = code]
      BY <2>1, <2>3 DEF ChanInv, HandInv, Unserved, RpcTypeOK
    <3>3. RC!Serve(frame.id)
      BY <2>2, <3>1, <3>2 DEF RC!Serve
    <3> QED
      BY <2>3, <3>3 DEF RC!Next
  <2>4. CASE frame.id \notin Call
    <3>1. effect' = effect
      BY <2>1, <2>4 DEF RpcTypeOK
    <3> QED
      BY <1>1, <2>2, <3>1
  <2> QED
    BY <2>3, <2>4
<1>10. CASE Receive \/ ReceiveDisconnect \/ Send \/ SendFails \/ Push \/ ForeignFrame \/ Lose \/ Crash
  BY <1>1, <1>10
     DEF Receive, ReceiveDisconnect, Send, SendFails, Push, ForeignFrame, Lose, Crash
<1> QED
  BY <1>3, <1>4, <1>5, <1>6, <1>7, <1>8, <1>9, <1>10 DEF Next, GatewayStep, ReceiverStep

\* connection.py:39-67 with rpc.py:31-88: whatever is lost, late, abandoned or
\* closed, a caller gets what the gateway made of its own call, which it
\* executed at most once.
THEOREM ChannelImplementsRemoteCalls == Spec => ImplementsRemoteCalls
<1>1. Init => RC!Init
  BY DEF Init, RC!Init
<1>2. RpcTypeOK /\ ChanInv /\ [Next]_chanVars => [RC!Next]_(RC!remoteVars)
  BY RefinementStep
<1> QED
  BY <1>1, <1>2, ChannelInvariant, PTL DEF Spec, ImplementsRemoteCalls, RC!Spec

-----------------------------------------------------------------------------
(* Calls return in their order.                                            *)

\* Ids grow from the request in hand to the latest on its way.
InOrder ==
    \A i, j \in 1..Len(up) :
        i < j /\ up[i].id \in Call /\ up[j].id \in Call => up[i].id < up[j].id

HandFirst ==
    \A i \in 1..Len(up) : up[i].id \in Call =>
        /\ frame.id \in Call => frame.id < up[i].id
        /\ answer.id \in Call => answer.id < up[i].id

\* The gateway handles a request or has its answer, never both.
OneInHand ==
    /\ frame.id \in Call => at = "executing"
    /\ answer.id \in Call => at = "answering"

\* While the connection is open a call that waits is on its way there or back.
OnItsWay(c) ==
    \/ \E i \in 1..Len(down) : down[i].id = c
    \/ answer.id = c
    \/ frame.id = c
    \/ \E i \in 1..Len(up) : up[i].id = c

NoneIsLost == link = "open" => \A c \in Call : call[c] = "waiting" => OnItsWay(c)

\* Before an answer come those to all earlier calls that still wait.
DownInOrder ==
    \A j \in 1..Len(down), c \in Call :
        down[j].id \in Call /\ c < down[j].id /\ call[c] = "waiting"
            => \E i \in 1..Len(down) : i < j /\ down[i].id = c

PipeInv == InOrder /\ HandFirst /\ OneInHand /\ NoneIsLost /\ DownInOrder /\ CallsReturnInOrder

\* The place of a part in the whole.
Starts(t, s, k) == \A i \in 1..Len(t) : i + k \in 1..Len(s) /\ t[i] = s[i + k]

LEMMA PartAt ==
    ASSUME NEW S, NEW s \in Seq(S), NEW t \in Seq(S), Part(t, s)
    PROVE  \E k \in Nat : Starts(t, s, k)
<1>1. Len(s) \in Nat /\ Len(t) \in Nat
  OBVIOUS
<1>2. PICK k \in Nat : Len(t) + k <= Len(s) /\ \A i \in 1..Len(t) : t[i] = s[i + k]
  BY DEF Part
<1>3. \A i \in 1..Len(t) : i + k \in 1..Len(s)
  BY <1>1, <1>2
<1> QED
  BY <1>2, <1>3 DEF Starts

\* A part of the stream is in order, behind what is in hand.
LEMMA PartInOrder ==
    ASSUME RpcTypeOK, RpcTypeOK', InOrder, HandFirst, Part(up', up),
           frame' = frame \/ frame' = NoFrame,
           answer' = answer \/ answer' = NoAnswer
    PROVE  InOrder' /\ HandFirst'
<1>0. up \in Seq(Frame) /\ up' \in Seq(Frame)
  BY DEF RpcTypeOK
<1>1. PICK k \in Nat : Starts(up', up, k)
  BY <1>0, PartAt
<1>2. ASSUME NEW i \in 1..Len(up'), NEW j \in 1..Len(up'), i < j,
             up'[i].id \in Call, up'[j].id \in Call
      PROVE  up'[i].id < up'[j].id
  <2>1. i + k < j + k
    BY <1>2
  <2>2. /\ i + k \in 1..Len(up) /\ up'[i] = up[i + k]
        /\ j + k \in 1..Len(up) /\ up'[j] = up[j + k]
    BY <1>1 DEF Starts
  <2> QED
    BY <1>2, <2>1, <2>2 DEF InOrder
<1>3. NoFrame.id \notin Call /\ NoAnswer.id \notin Call
  BY ChannelAssumption DEF NoFrame, NoAnswer
<1>4. HandFirst'
  BY <1>1, <1>3 DEF HandFirst, Starts
<1> QED
  BY <1>2, <1>4 DEF InOrder

\* A step that makes no call wait or return, and takes frames off the streams
\* only when the connection is lost.
LEMMA QuietOrder ==
    ASSUME RpcTypeOK, RpcTypeOK', PipeInv, OneInHand',
           \A c \in Call : /\ call'[c] = "waiting" => call[c] = "waiting"
                           /\ call'[c] = "returned" => call[c] = "returned",
           frame' = frame \/ frame' = NoFrame,
           answer' = answer \/ answer' = NoAnswer,
           Part(up', up),
           \A i \in 1..Len(down') : i \in 1..Len(down) /\ down'[i] = down[i],
           link' = "open" => UNCHANGED <<link, up, down, frame, answer>>
    PROVE  PipeInv'
<1>1. InOrder' /\ HandFirst'
  BY PartInOrder DEF PipeInv
<1>2. NoneIsLost'
  <2> SUFFICES ASSUME link' = "open", NEW c \in Call, call'[c] = "waiting"
               PROVE  OnItsWay(c)'
    BY DEF NoneIsLost
  <2>1. OnItsWay(c)
    BY DEF PipeInv, NoneIsLost
  <2> QED
    BY <2>1 DEF OnItsWay
<1>3. DownInOrder'
  <2> SUFFICES ASSUME NEW j \in 1..Len(down'), NEW c \in Call, down'[j].id \in Call,
                      c < down'[j].id, call'[c] = "waiting"
               PROVE  \E i \in 1..Len(down') : i < j /\ down'[i].id = c
    BY DEF DownInOrder
  <2>1. PICK i \in 1..Len(down) : i < j /\ down[i].id = c
    BY DEF PipeInv, DownInOrder
  <2>2. i \in 1..Len(down')
    <3>1. Len(down) \in Nat /\ Len(down') \in Nat
      <4>1. down \in Seq(Pushed) /\ down' \in Seq(Pushed)
        BY DEF RpcTypeOK, Pushed
      <4> QED
        BY ONLY <4>1
    <3>2. i \in Nat /\ j \in Nat /\ 1 <= i /\ j <= Len(down')
      BY <3>1
    <3> QED
      BY <2>1, <3>1, <3>2
  <2> QED
    BY <2>1, <2>2
<1>4. CallsReturnInOrder'
  BY DEF PipeInv, CallsReturnInOrder
<1> QED
  BY <1>1, <1>2, <1>3, <1>4 DEF PipeInv

\* What the gateway has in hand, step by step.
LEMMA HandStep ==
    ASSUME RpcTypeOK, OneInHand, [Next]_chanVars
    PROVE  OneInHand'
<1>1. NoFrame.id \notin Call /\ NoAnswer.id \notin Call
  BY ChannelAssumption DEF NoFrame, NoAnswer
<1>2. CASE UNCHANGED gateway
  BY <1>2 DEF OneInHand, gateway
<1>3. CASE Receive \/ ReceiveDisconnect
  BY <1>3 DEF Receive, ReceiveDisconnect, OneInHand
<1>4. CASE Handle
  BY <1>1, <1>4 DEF Handle, OneInHand
<1>5. CASE Send \/ SendFails
  BY <1>1, <1>5 DEF Send, SendFails, OneInHand
<1>6. CASE Crash
  BY <1>1, <1>6 DEF Crash, OneInHand
<1> QED
  BY <1>2, <1>3, <1>4, <1>5, <1>6
     DEF Next, chanVars, Request, Abandon, Close, ReceiverStep, Dispatch, StreamEnds,
         GatewayStep, Push, ForeignFrame, Lose


\* A request gets the largest id so far, and goes last.
LEMMA RequestOrder ==
    ASSUME RpcTypeOK, RpcTypeOK', ChanInv, PipeInv, OneInHand',
           NEW body \in RequestBody, Request(body)
    PROVE  PipeInv'
<1> DEFINE f == [id |-> nextId, body |-> body]
<1>1. /\ nextId \in Call
      /\ call' = [call EXCEPT ![nextId] = IF link = "open" THEN "waiting" ELSE "refused"]
      /\ UNCHANGED <<link, down, frame, answer, effect>>
  BY DEF Request, gateway, record
<1>2. /\ \A c \in Call : c # nextId => call'[c] = call[c]
      /\ call'[nextId] = IF link = "open" THEN "waiting" ELSE "refused"
  BY <1>1 DEF RpcTypeOK
<1>3. \A c \in Call : call[c] # "unmade" => c < nextId
  BY <1>1 DEF ChanInv, Numbered, Call
<1>4. CASE link # "open"
  <2>1. up' = up
    BY <1>4 DEF Request
  <2>2. Part(up', up)
    BY <2>1, PartOfItself DEF RpcTypeOK
  <2>3. \A c \in Call : /\ call'[c] = "waiting" => call[c] = "waiting"
                        /\ call'[c] = "returned" => call[c] = "returned"
    BY <1>2, <1>4
  <2> QED
    BY <1>1, <1>4, <2>2, <2>3, QuietOrder
<1>5. CASE link = "open"
  <2>1. up' = Append(up, f) /\ f \in Frame /\ up \in Seq(Frame)
    BY <1>1, <1>5 DEF Request, Frame, Body, RpcTypeOK
  <2>2. /\ Len(up') = Len(up) + 1 /\ Len(up) \in Nat
        /\ \A i \in 1..Len(up) : up'[i] = up[i]
        /\ up'[Len(up) + 1].id = nextId
    BY <2>1, AppendKeeps
  <2>3. \A i \in 1..Len(up') : i \in 1..Len(up) \/ i = Len(up) + 1
    BY <2>2
  <2>4. /\ \A i \in 1..Len(up) : up[i].id \in Call => up[i].id < nextId
        /\ frame.id \in Call => frame.id < nextId
    BY <1>3 DEF ChanInv, UpInv, HandInv, Unserved
  <2>5. /\ answer.id \in Call => answer.id < nextId
        /\ \A i \in 1..Len(down) : down[i].id \in Call => down[i].id < nextId
    <3>1. \A c \in Call : effect[c] # Nothing => c < nextId
      BY <1>3 DEF ChanInv, EffectsAreOfSent
    <3>2. answer.code \in Code /\ \A i \in 1..Len(down) : down[i].id \in Call => down[i].code \in Code
      <4>1. \A a \in Pushed : a.id \in Call => a.code \in Code
        BY ChannelAssumption DEF Pushed, Answer, Event, Broken
      <4>2. answer \in Answer /\ \A i \in 1..Len(down) : down[i] \in Pushed
        BY DEF RpcTypeOK, Pushed
      <4> QED
        BY <4>1, <4>2 DEF Answer
    <3> QED
      BY <3>1, <3>2, ChannelAssumption DEF ChanInv, AnswerInv, DownInv
  <2>6. InOrder'
    <3> SUFFICES ASSUME NEW i \in 1..Len(up'), NEW j \in 1..Len(up'), i < j,
                        up'[i].id \in Call, up'[j].id \in Call
                 PROVE  up'[i].id < up'[j].id
      BY DEF InOrder
    <3>1. i \in 1..Len(up)
      BY <2>2
    <3>2. CASE j \in 1..Len(up)
      BY <2>2, <3>1, <3>2 DEF PipeInv, InOrder
    <3>3. CASE j = Len(up) + 1
      BY <2>2, <2>4, <3>1, <3>3
    <3> QED
      BY <2>3, <3>2, <3>3
  <2>7. HandFirst'
    BY <1>1, <2>2, <2>3, <2>4, <2>5 DEF PipeInv, HandFirst
  <2>8. NoneIsLost'
    <3> SUFFICES ASSUME NEW c \in Call, call'[c] = "waiting" PROVE OnItsWay(c)'
      BY DEF NoneIsLost
    <3>1. Len(up) + 1 \in 1..Len(up') /\ \A i \in 1..Len(up) : i \in 1..Len(up')
      BY <2>2
    <3>2. CASE c = nextId
      BY <2>2, <3>1, <3>2 DEF OnItsWay
    <3>3. CASE c # nextId
      <4>1. OnItsWay(c)
        BY <1>2, <1>5, <3>3 DEF PipeInv, NoneIsLost
      <4> QED
        BY <1>1, <2>2, <3>1, <4>1 DEF OnItsWay
    <3> QED
      BY <3>2, <3>3
  <2>9. DownInOrder'
    <3> SUFFICES ASSUME NEW j \in 1..Len(down), NEW c \in Call, down[j].id \in Call,
                        c < down[j].id, call'[c] = "waiting"
                 PROVE  \E i \in 1..Len(down) : i < j /\ down[i].id = c
      BY <1>1 DEF DownInOrder
    <3>1. c # nextId
      BY <1>1, <2>5 DEF Call
    <3> QED
      BY <1>2, <3>1 DEF PipeInv, DownInOrder
  <2>10. CallsReturnInOrder'
    <3> SUFFICES ASSUME NEW c \in Call, NEW d \in Call, c < d, call'[d] = "returned"
                 PROVE  call'[c] # "waiting"
      BY DEF CallsReturnInOrder
    <3>1. d # nextId /\ call[d] = "returned"
      BY <1>2, <1>5
    <3>2. d < nextId
      BY <1>3, <3>1
    <3>3. c # nextId
      BY <1>1, <3>2 DEF Call
    <3> QED
      BY <1>2, <3>1, <3>3 DEF PipeInv, CallsReturnInOrder
  <2> QED
    BY <2>6, <2>7, <2>8, <2>9, <2>10 DEF PipeInv
<1> QED
  BY <1>4, <1>5

\* The gateway takes the first request.
LEMMA ReceiveOrder ==
    ASSUME RpcTypeOK, RpcTypeOK', PipeInv, OneInHand', Receive
    PROVE  PipeInv'
<1>1. /\ up # <<>> /\ Head(up) = up[1] /\ 1 \in 1..Len(up)
      /\ Len(up') = Len(up) - 1 /\ Len(up) \in Nat
      /\ \A i \in 1..Len(up') : up'[i] = up[i + 1]
      /\ Part(up', up)
  BY TailIsPart DEF RpcTypeOK, Receive
<1>2. UNCHANGED <<nextId, call, down, answer>>
  BY DEF Receive, client, record
<1>3. CASE Head(up).body = "binary"
  BY <1>1, <1>2, <1>3, QuietOrder DEF Receive
<1>4. CASE Head(up).body # "binary"
  <2>1. frame' = up[1] /\ link' = link
    BY <1>1, <1>4 DEF Receive
  <2>2. frame.id \notin Call /\ answer.id \notin Call
    BY DEF Receive, PipeInv, OneInHand
  <2>3. InOrder'
    <3>1. \A i, j \in 1..Len(up') : i + 1 \in 1..Len(up) /\ (i < j => i + 1 < j + 1)
      BY <1>1
    <3> QED
      BY <1>1, <3>1 DEF PipeInv, InOrder
  <2>4. HandFirst'
    <3>1. \A i \in 1..Len(up') : i + 1 \in 1..Len(up) /\ 1 < i + 1
      BY <1>1
    <3> QED
      BY <1>1, <1>2, <2>1, <2>2, <3>1 DEF PipeInv, InOrder, HandFirst
  <2>5. NoneIsLost'
    <3> SUFFICES ASSUME link = "open", NEW c \in Call, call[c] = "waiting" PROVE OnItsWay(c)'
      BY <1>2, <2>1 DEF NoneIsLost
    <3>1. OnItsWay(c)
      BY DEF PipeInv, NoneIsLost
    <3>2. ASSUME NEW i \in 1..Len(up), up[i].id = c PROVE OnItsWay(c)'
      <4>1. CASE i = 1
        BY <2>1, <3>2, <4>1 DEF OnItsWay
      <4>2. CASE i # 1
        <5>1. i - 1 \in 1..Len(up') /\ up'[i - 1] = up[(i - 1) + 1] /\ (i - 1) + 1 = i
          BY <1>1, <4>2
        <5> QED
          BY <3>2, <5>1 DEF OnItsWay
      <4> QED
        BY <4>1, <4>2
    <3> QED
      BY <1>2, <2>2, <3>1, <3>2 DEF OnItsWay
  <2>6. DownInOrder' /\ CallsReturnInOrder'
    BY <1>2 DEF PipeInv, DownInOrder, CallsReturnInOrder
  <2> QED
    BY <2>3, <2>4, <2>5, <2>6 DEF PipeInv
<1> QED
  BY <1>3, <1>4

\* A request that has an id is always answered.
LEMMA HandleOrder ==
    ASSUME RpcTypeOK, PipeInv, OneInHand', Handle
    PROVE  PipeInv'
<1>1. UNCHANGED <<link, call, up, down>> /\ frame' = NoFrame /\ at = "executing"
  BY DEF Handle, client, streams
<1>2. NoFrame.id \notin Call /\ answer.id \notin Call
  BY <1>1, ChannelAssumption DEF NoFrame, PipeInv, OneInHand
<1>3. /\ answer'.id \in Call => answer'.id = frame.id
      /\ frame.id \in Call => answer'.id = frame.id
  <2>1. PICK code \in Codes(frame.body) :
          IF ExpectsResponse(frame, code)
            THEN answer' = [id |-> RequestId(frame), code |-> code]
            ELSE answer' = answer
    BY DEF Handle
  <2>2. frame.id \in Call => ExpectsResponse(frame, code)
    BY ChannelAssumption DEF ExpectsResponse
  <2> QED
    BY <1>2, <2>1, <2>2, ChannelAssumption DEF RequestId
<1>4. InOrder' /\ DownInOrder' /\ CallsReturnInOrder'
  BY <1>1 DEF PipeInv, InOrder, DownInOrder, CallsReturnInOrder
<1>5. HandFirst'
  BY <1>1, <1>2, <1>3 DEF PipeInv, HandFirst
<1>6. NoneIsLost'
  BY <1>1, <1>2, <1>3 DEF PipeInv, NoneIsLost, OnItsWay
<1> QED
  BY <1>4, <1>5, <1>6 DEF PipeInv


\* A frame to the client goes behind the answers to all calls before it.
LEMMA PushOrder ==
    ASSUME RpcTypeOK, PipeInv, OneInHand', NEW a \in Pushed, down' = Append(down, a),
           link = "open", UNCHANGED <<link, call, up, frame>>,
           \/ answer' = answer /\ a.id \notin Call
           \/ answer' = NoAnswer /\ a = answer
    PROVE  PipeInv'
<1>1. /\ Len(down') = Len(down) + 1 /\ Len(down) \in Nat
      /\ \A i \in 1..Len(down) : down'[i] = down[i]
      /\ down'[Len(down) + 1] = a
  BY AppendKeeps DEF RpcTypeOK, Pushed
<1>2. /\ \A i \in 1..Len(down) : i \in 1..Len(down') /\ i < Len(down) + 1
      /\ \A i \in 1..Len(down') : i \in 1..Len(down) \/ i = Len(down) + 1
      /\ Len(down) + 1 \in 1..Len(down')
  BY <1>1
<1>3. NoAnswer.id \notin Call
  BY ChannelAssumption DEF NoAnswer
<1>4. InOrder' /\ HandFirst'
  BY <1>3 DEF PipeInv, InOrder, HandFirst
<1>5. NoneIsLost'
  <2> SUFFICES ASSUME NEW c \in Call, call[c] = "waiting" PROVE OnItsWay(c)'
    BY DEF NoneIsLost
  <2>1. OnItsWay(c)
    BY DEF PipeInv, NoneIsLost
  <2>2. CASE answer.id = c
    <3>1. a.id = c \/ answer'.id = c
      BY <2>2
    <3> QED
      BY <1>1, <1>2, <3>1 DEF OnItsWay
  <2>3. CASE \E i \in 1..Len(down) : down[i].id = c
    BY <1>1, <1>2, <2>3 DEF OnItsWay
  <2> QED
    BY <2>1, <2>2, <2>3 DEF OnItsWay
<1>6. DownInOrder'
  <2> SUFFICES ASSUME NEW j \in 1..Len(down'), NEW c \in Call, down'[j].id \in Call,
                      c < down'[j].id, call[c] = "waiting"
               PROVE  \E i \in 1..Len(down') : i < j /\ down'[i].id = c
    BY DEF DownInOrder
  <2>1. CASE j \in 1..Len(down)
    <3>1. PICK i \in 1..Len(down) : i < j /\ down[i].id = c
      BY <1>1, <2>1 DEF PipeInv, DownInOrder
    <3> QED
      BY <1>1, <1>2, <3>1
  <2>2. CASE j = Len(down) + 1
    <3>1. answer.id \in Call /\ c < answer.id
      BY <1>1, <2>2
    <3>2. frame.id # c /\ answer.id # c
      BY <3>1 DEF PipeInv, OneInHand, Call
    <3>3. \A i \in 1..Len(up) : up[i].id # c
      BY <3>1 DEF PipeInv, HandFirst, Call
    <3>4. PICK i \in 1..Len(down) : down[i].id = c
      BY <3>2, <3>3 DEF PipeInv, NoneIsLost, OnItsWay
    <3> QED
      BY <1>1, <1>2, <2>2, <3>4
  <2> QED
    BY <1>2, <2>1, <2>2
<1>7. CallsReturnInOrder'
  BY DEF PipeInv, CallsReturnInOrder
<1> QED
  BY <1>4, <1>5, <1>6, <1>7 DEF PipeInv

\* A frame of another program overtakes nothing.
LEMMA ForeignOrder ==
    ASSUME RpcTypeOK, PipeInv, OneInHand', ForeignFrame
    PROVE  PipeInv'
<1>1. PICK f \in ForeignFrames : up' = Append(up, f)
  BY DEF ForeignFrame
<1>2. f \in Frame /\ f.id \notin Call
  BY ChannelAssumption DEF ForeignFrames, Frame, Body, RequestBody
<1>3. UNCHANGED <<link, call, down, frame, answer>>
  BY DEF ForeignFrame, client, gateway
<1>4. /\ Len(up') = Len(up) + 1 /\ Len(up) \in Nat
      /\ \A i \in 1..Len(up) : up'[i] = up[i]
      /\ up'[Len(up) + 1] = f
  BY <1>1, <1>2, AppendKeeps DEF RpcTypeOK
<1>5. /\ \A i \in 1..Len(up) : i \in 1..Len(up')
      /\ \A i \in 1..Len(up') : up'[i].id \in Call => i \in 1..Len(up)
  BY <1>2, <1>4
<1>6. InOrder' /\ HandFirst'
  BY <1>3, <1>4, <1>5 DEF PipeInv, InOrder, HandFirst
<1>7. NoneIsLost'
  <2> SUFFICES ASSUME link = "open", NEW c \in Call, call[c] = "waiting" PROVE OnItsWay(c)'
    BY <1>3 DEF NoneIsLost
  <2>1. OnItsWay(c)
    BY DEF PipeInv, NoneIsLost
  <2> QED
    BY <1>3, <1>4, <1>5, <2>1 DEF OnItsWay
<1>8. DownInOrder' /\ CallsReturnInOrder'
  BY <1>3 DEF PipeInv, DownInOrder, CallsReturnInOrder
<1> QED
  BY <1>6, <1>7, <1>8 DEF PipeInv

\* The answer at the head is to the earliest call that waits, or to none.
LEMMA DispatchOrder ==
    ASSUME RpcTypeOK, PipeInv, OneInHand', Dispatch
    PROVE  PipeInv'
<1> DEFINE id == down[1].id
<1>1. /\ down # <<>> /\ Head(down) = down[1] /\ 1 \in 1..Len(down)
      /\ Len(down') = Len(down) - 1 /\ Len(down) \in Nat
      /\ \A i \in 1..Len(down') : down'[i] = down[i + 1]
  BY TailIsPart DEF RpcTypeOK, Dispatch
<1>2. UNCHANGED <<link, up, frame, answer>>
  BY DEF Dispatch, gateway
<1>3. InOrder' /\ HandFirst'
  BY <1>2 DEF PipeInv, InOrder, HandFirst
<1>4. CASE Head(down) = Broken
  <2>1. \A c \in Call : /\ call'[c] # "waiting"
                        /\ call'[c] = "returned" => call[c] = "returned"
    BY <1>4 DEF Dispatch, ReceiverEnds, FailPending
  <2> QED
    BY <1>3, <2>1 DEF PipeInv, NoneIsLost, DownInOrder, CallsReturnInOrder
<1>5. CASE Head(down) # Broken
  <2>1. \A c \in Call : call'[c] = IF c = id /\ call[c] = "waiting" THEN "returned" ELSE call[c]
    BY <1>1, <1>5 DEF Dispatch, Answered
  <2>2. \A c \in Call : call'[c] = "waiting" => call[c] = "waiting" /\ c # id
    BY <2>1
  <2>3. \A i \in 1..Len(down) : down[i].id # id =>
            /\ i - 1 \in 1..Len(down')
            /\ down'[i - 1] = down[i]
    <3> SUFFICES ASSUME NEW i \in 1..Len(down), i # 1
                 PROVE  i - 1 \in 1..Len(down') /\ down'[i - 1] = down[i]
      OBVIOUS
    <3>1. i - 1 \in 1..Len(down') /\ (i - 1) + 1 = i
      BY <1>1
    <3> QED
      BY <1>1, <3>1
  <2> HIDE DEF id
  <2>4. NoneIsLost'
    <3> SUFFICES ASSUME link = "open", NEW c \in Call, call'[c] = "waiting" PROVE OnItsWay(c)'
      BY <1>2 DEF NoneIsLost
    <3>1. OnItsWay(c)
      BY <2>2 DEF PipeInv, NoneIsLost
    <3> QED
      BY <1>2, <2>2, <2>3, <3>1 DEF OnItsWay
  <2>5. DownInOrder'
    <3> SUFFICES ASSUME NEW j \in 1..Len(down'), NEW c \in Call, down'[j].id \in Call,
                        c < down'[j].id, call'[c] = "waiting"
                 PROVE  \E i \in 1..Len(down') : i < j /\ down'[i].id = c
      BY DEF DownInOrder
    <3>1. j + 1 \in 1..Len(down) /\ down'[j] = down[j + 1]
      BY <1>1
    <3>2. PICK i \in 1..Len(down) : i < j + 1 /\ down[i].id = c
      BY <2>2, <3>1 DEF PipeInv, DownInOrder
    <3>3. i - 1 \in 1..Len(down') /\ down'[i - 1].id = c
      BY <2>2, <2>3, <3>2
    <3>4. i - 1 < j
      BY <3>2
    <3> QED
      BY <3>3, <3>4
  <2>6. CallsReturnInOrder'
    <3> SUFFICES ASSUME NEW c \in Call, NEW d \in Call, c < d, call'[d] = "returned",
                        call[c] = "waiting"
                 PROVE  call'[c] # "waiting"
      BY <2>2 DEF CallsReturnInOrder
    <3>1. call[d] # "returned"
      BY DEF PipeInv, CallsReturnInOrder
    <3>2. d = down[1].id
      BY <2>1, <3>1 DEF id
    <3>3. PICK i \in 1..Len(down) : i < 1
      BY <1>1, <3>2 DEF PipeInv, DownInOrder
    <3> QED
      BY <3>3
  <2> QED
    BY <1>3, <2>4, <2>5, <2>6 DEF PipeInv
<1> QED
  BY <1>4, <1>5

\* Every step keeps the calls in their order.
LEMMA PipeStep ==
    ASSUME RpcTypeOK, RpcTypeOK', ChanInv, PipeInv, [Next]_chanVars
    PROVE  PipeInv'
<1> USE DEF client, streams, gateway, record
<1>1. OneInHand'
  BY HandStep DEF PipeInv
<1>2. Part(up, up) /\ Part(<<>>, up) /\ \A q \in Prefixes(up) : Part(q, up)
  BY PartOfItself, PrefixIsPart DEF RpcTypeOK
<1>3. \A q \in Prefixes(down) : \A i \in 1..Len(q) : i \in 1..Len(down) /\ q[i] = down[i]
  <2> SUFFICES ASSUME NEW q \in Prefixes(down)
               PROVE  \A i \in 1..Len(q) : i \in 1..Len(down) /\ q[i] = down[i]
    OBVIOUS
  <2>1. down \in Seq(Pushed)
    BY DEF RpcTypeOK, Pushed
  <2> QED
    BY <2>1, PrefixKeeps
<1>4. ReceiverEnds => \A c \in Call : /\ call'[c] # "waiting"
                                      /\ call'[c] = "returned" => call[c] = "returned"
  BY DEF ReceiverEnds, FailPending
<1>5. CASE UNCHANGED chanVars
  BY <1>1, <1>2, <1>5, QuietOrder DEF chanVars
<1>6. ASSUME NEW body \in RequestBody, Request(body)
      PROVE  PipeInv'
  BY <1>1, <1>6, RequestOrder
<1>7. ASSUME NEW c \in Call, Abandon(c)
      PROVE  PipeInv'
  <2>1. \A d \in Call : /\ call'[d] = "waiting" => call[d] = "waiting"
                        /\ call'[d] = "returned" => call[d] = "returned"
    BY <1>7 DEF Abandon, RpcTypeOK
  <2> QED
    BY <1>1, <1>2, <1>7, <2>1, QuietOrder DEF Abandon
<1>8. CASE Close
  BY <1>1, <1>2, <1>4, <1>8, QuietOrder DEF Close
<1>9. CASE Dispatch
  BY <1>1, <1>9, DispatchOrder
<1>10. CASE StreamEnds
  BY <1>1, <1>2, <1>4, <1>10, QuietOrder DEF StreamEnds
<1>11. CASE Receive
  BY <1>1, <1>11, ReceiveOrder
<1>12. CASE ReceiveDisconnect
  BY <1>1, <1>2, <1>12, QuietOrder DEF ReceiveDisconnect
<1>13. CASE Handle
  BY <1>1, <1>13, HandleOrder
<1>14. CASE Send
  <2>1. answer \in Pushed
    BY DEF RpcTypeOK, Pushed
  <2> QED
    BY <1>1, <1>14, <2>1, PushOrder DEF Send
<1>15. CASE SendFails
  BY <1>1, <1>2, <1>15, QuietOrder DEF SendFails
<1>16. CASE Push
  <2>1. \A a \in {Event, Broken} : a \in Pushed /\ a.id \notin Call
    BY ChannelAssumption DEF Event, Broken, Pushed
  <2> QED
    BY <1>1, <1>16, <2>1, PushOrder DEF Push
<1>17. CASE ForeignFrame
  BY <1>1, <1>17, ForeignOrder
<1>18. CASE Lose
  BY <1>1, <1>2, <1>3, <1>18, QuietOrder DEF Lose
<1>19. CASE Crash
  BY <1>1, <1>2, <1>3, <1>19, QuietOrder DEF Crash
<1> QED
  BY <1>5, <1>6, <1>7, <1>8, <1>9, <1>10, <1>11, <1>12, <1>13, <1>14, <1>15, <1>16,
     <1>17, <1>18, <1>19 DEF Next, GatewayStep, ReceiverStep

\* connection.py:39-67: requests are served in their order, so no call waits
\* while a later one has returned, also when the connection is lost.
THEOREM ReturnOrderCorrect == Spec => []CallsReturnInOrder
<1>1. Init => PipeInv
  BY ChannelAssumption
     DEF Init, PipeInv, InOrder, HandFirst, OneInHand, NoneIsLost, DownInOrder,
         CallsReturnInOrder, NoFrame, NoAnswer
<1>2. RpcTypeOK /\ RpcTypeOK' /\ ChanInv /\ PipeInv /\ [Next]_chanVars => PipeInv'
  BY PipeStep
<1>3. PipeInv => CallsReturnInOrder
  BY DEF PipeInv
<1> QED
  BY <1>1, <1>2, <1>3, ChannelInvariant, PTL DEF Spec


-----------------------------------------------------------------------------
(* Every frame that is due an answer gets one.                             *)

\* The frames that the answers sent are to; the one in hand is to the last frame.
Assigns(of) ==
    /\ of \in [DOMAIN sent -> Due]
    /\ \A j, k \in DOMAIN sent : j < k => of[j] < of[k]
    /\ \A j \in DOMAIN sent : sent[j] = RequestId(taken[of[j]])
    /\ \A k \in Due : \/ \E j \in DOMAIN sent : of[j] = k
                      \/ k = Len(taken) /\ at \in {"answering", "closed"}
    /\ at = "answering" =>
          /\ Len(taken) \in Due
          /\ \A j \in DOMAIN sent : of[j] # Len(taken)
          /\ answer.id = RequestId(taken[Len(taken)])

DueInv == \E of : Assigns(of)

\* Steps that handle and answer nothing.
LEMMA DueKept ==
    ASSUME DueInv, UNCHANGED <<taken, sent>>,
           at' = "answering" => at = "answering" /\ answer' = answer,
           at \in {"answering", "closed"} => at' \in {"answering", "closed"}
    PROVE  DueInv'
<1>1. PICK of : Assigns(of)
  BY DEF DueInv
<1>2. Due' = Due
  BY DEF Due
<1>3. Assigns(of)'
  BY <1>1, <1>2 DEF Assigns
<1> QED
  BY <1>3 DEF DueInv

\* A frame is handled: it is due an answer, and that is in hand, or it is not.
LEMMA DueHandled ==
    ASSUME RpcTypeOK, RpcTypeOK', DueInv, Handle
    PROVE  DueInv'
<1>1. PICK of : Assigns(of)
  BY DEF DueInv
<1>2. PICK code \in Codes(frame.body) :
        /\ taken' = Append(taken, [id |-> frame.id, ok |-> code = "OK"])
        /\ IF ExpectsResponse(frame, code)
             THEN /\ at' = "answering"
                  /\ answer' = [id |-> RequestId(frame), code |-> code]
             ELSE at' = "receiving" /\ UNCHANGED answer
  BY DEF Handle
<1> DEFINE n == Len(taken) + 1
           new == [id |-> frame.id, ok |-> code = "OK"]
<1>3. at = "executing" /\ sent' = sent
  BY DEF Handle
<1>4. /\ new \in [id : Call \cup {Null, Absent}, ok : BOOLEAN]
      /\ taken \in Seq([id : Call \cup {Null, Absent}, ok : BOOLEAN])
  BY DEF RpcTypeOK, Frame
<1>5. /\ Len(taken') = n /\ Len(taken) \in Nat
      /\ \A k \in 1..Len(taken) : taken'[k] = taken[k]
      /\ taken'[n] = new
  <2>1. taken' = Append(taken, new)
    BY <1>2
  <2> HIDE DEF new
  <2> QED
    BY <1>4, <2>1, AppendKeeps
<1>6. /\ DOMAIN taken = 1..Len(taken) /\ DOMAIN taken' = DOMAIN taken \cup {n}
      /\ n \notin DOMAIN taken
  <2>1. taken' \in Seq([id : Call \cup {Null, Absent}, ok : BOOLEAN])
    BY DEF RpcTypeOK
  <2>2. DOMAIN taken = 1..Len(taken) /\ DOMAIN taken' = 1..Len(taken')
    BY ONLY <1>4, <2>1
  <2>3. \A m \in Nat : 1..(m + 1) = (1..m) \cup {m + 1} /\ m + 1 \notin 1..m
    OBVIOUS
  <2> QED
    BY <1>5, <2>2, <2>3
<1>7. n \in Due' <=> ExpectsResponse(frame, code)
  <2>1. new.id = frame.id /\ (new.ok <=> code = "OK")
    OBVIOUS
  <2> HIDE DEF n, new
  <2>2. n \in Due' <=> ~new.ok \/ new.id # Absent
    BY <1>5, <1>6 DEF Due
  <2> QED
    BY <2>1, <2>2 DEF ExpectsResponse
<1>8. \A k : k # n => (k \in Due' <=> k \in Due)
  BY <1>5, <1>6 DEF Due
<1>9. Due \subseteq DOMAIN taken
  BY DEF Due
<1>10. RequestId(new) = RequestId(frame)
  BY DEF RequestId
<1> HIDE DEF n, new
<1>11. of \in [DOMAIN sent' -> Due']
  BY <1>1, <1>3, <1>6, <1>8, <1>9 DEF Assigns
<1>12. \A j \in DOMAIN sent : of[j] \in DOMAIN taken /\ of[j] # n
  BY <1>1, <1>6, <1>9 DEF Assigns
<1>13. \A j \in DOMAIN sent : sent[j] = RequestId(taken'[of[j]])
  BY <1>1, <1>5, <1>6, <1>12 DEF Assigns
<1>14. \A k \in Due' : \/ \E j \in DOMAIN sent : of[j] = k
                       \/ k = n /\ at' = "answering"
  BY <1>1, <1>2, <1>3, <1>7, <1>8 DEF Assigns
<1>15. at' = "answering" => n \in Due' /\ answer'.id = RequestId(taken'[n])
  BY <1>2, <1>5, <1>7, <1>10
<1>16. \A j, k \in DOMAIN sent : j < k => of[j] < of[k]
  BY <1>1 DEF Assigns
<1>17. Assigns(of)'
  BY <1>3, <1>5, <1>11, <1>12, <1>13, <1>14, <1>15, <1>16 DEF Assigns
<1> QED
  BY <1>17 DEF DueInv

\* The answer in hand is sent.
LEMMA DueAnswered ==
    ASSUME RpcTypeOK, RpcTypeOK', DueInv, Send
    PROVE  DueInv'
<1>1. PICK of : Assigns(of)
  BY DEF DueInv
<1> DEFINE n == Len(sent) + 1
<1>0. PICK more : more = [j \in 1..n |-> IF j = n THEN Len(taken) ELSE of[j]]
  OBVIOUS
<1>2. at = "answering" /\ at' = "receiving" /\ taken' = taken /\ sent' = Append(sent, answer.id)
  BY DEF Send
<1>3. /\ Len(sent') = n /\ Len(sent) \in Nat
      /\ \A j \in 1..Len(sent) : sent'[j] = sent[j]
      /\ sent'[n] = answer.id
      /\ DOMAIN sent = 1..Len(sent) /\ DOMAIN sent' = 1..n
  <2>1. answer.id \in Call \cup {Null} /\ sent \in Seq(Call \cup {Null})
    BY DEF RpcTypeOK, Answer
  <2> QED
    BY <1>2, <2>1, AppendKeeps
<1>4. /\ DOMAIN sent' = DOMAIN sent \cup {n} /\ n \notin DOMAIN sent
      /\ \A j \in DOMAIN sent : j < n /\ ~(n < j)
  BY <1>3
<1>5. Due' = Due /\ Due \subseteq 1..Len(taken) /\ Len(taken) \in Nat
  BY <1>2 DEF Due, RpcTypeOK
<1>6. /\ Len(taken) \in Due
      /\ \A j \in DOMAIN sent : of[j] \in Due /\ of[j] < Len(taken)
  <2>1. /\ Len(taken) \in Due
        /\ \A j \in DOMAIN sent : of[j] \in Due /\ of[j] # Len(taken)
    BY <1>1, <1>2 DEF Assigns
  <2>2. \A k \in Due : k # Len(taken) => k < Len(taken)
    BY <1>5
  <2> QED
    BY <2>1, <2>2
<1> HIDE DEF n
<1>7. /\ more[n] = Len(taken)
      /\ \A j \in DOMAIN sent : more[j] = of[j]
  BY <1>0, <1>3, <1>4
<1>8. more \in [DOMAIN sent' -> Due']
  <2>1. \A j \in 1..n : (IF j = n THEN Len(taken) ELSE of[j]) \in Due
    BY <1>3, <1>4, <1>6
  <2> QED
    BY <1>0, <1>3, <1>5, <2>1
<1>9. ASSUME NEW j \in DOMAIN sent', NEW k \in DOMAIN sent', j < k
      PROVE  more[j] < more[k]
  <2>1. j \in DOMAIN sent
    <3>1. j \in 1..n /\ k \in 1..n /\ n = Len(sent) + 1 /\ Len(sent) \in Nat
      BY <1>3, <1>9 DEF n
    <3>2. j # n
      BY <1>9, <3>1
    <3> QED
      BY <1>4, <1>9, <3>2
  <2>2. CASE k = n
    BY <1>6, <1>7, <2>1, <2>2
  <2>3. CASE k \in DOMAIN sent
    BY <1>1, <1>7, <1>9, <2>1, <2>3 DEF Assigns
  <2> QED
    BY <1>4, <2>2, <2>3
<1>10. \A j \in DOMAIN sent' : sent'[j] = RequestId(taken[more[j]])
  BY <1>1, <1>2, <1>3, <1>4, <1>7 DEF Assigns
<1>11. \A k \in Due : \E j \in DOMAIN sent' : more[j] = k
  BY <1>1, <1>4, <1>7 DEF Assigns
<1>12. Assigns(more)'
  BY <1>2, <1>5, <1>8, <1>9, <1>10, <1>11 DEF Assigns
<1> QED
  BY <1>12 DEF DueInv

\* connection.py:39-67 with _dispatch: the answers are those due, in the order of
\* the frames, whatever frames come and however the connection ends.
THEOREM DueCorrect == Spec => []AnswersAreDue
<1>1. Init => DueInv
  <2> SUFFICES ASSUME Init PROVE DueInv
    OBVIOUS
  <2> DEFINE of == [j \in {} |-> 0]
  <2>1. DOMAIN sent = {} /\ Due = {} /\ at = "receiving"
    BY DEF Init, Due
  <2>2. Assigns(of)
    BY <2>1 DEF Assigns
  <2> QED
    BY <2>2 DEF DueInv
<1>2. RpcTypeOK /\ RpcTypeOK' /\ DueInv /\ [Next]_chanVars => DueInv'
  <2> SUFFICES ASSUME RpcTypeOK, RpcTypeOK', DueInv, [Next]_chanVars PROVE DueInv'
    OBVIOUS
  <2>1. CASE UNCHANGED <<gateway, record>>
    BY <2>1, DueKept DEF gateway, record
  <2>2. CASE Receive \/ ReceiveDisconnect \/ SendFails \/ Crash
    BY <2>2, DueKept DEF Receive, ReceiveDisconnect, SendFails, Crash, record
  <2> QED
    BY <2>1, <2>2, DueHandled, DueAnswered
       DEF Next, chanVars, Request, Abandon, Close, ReceiverStep, Dispatch, StreamEnds,
           GatewayStep, Push, ForeignFrame, Lose
<1>3. DueInv => AnswersAreDue
  BY DEF DueInv, Assigns, AnswersAreDue
<1> QED
  BY <1>1, <1>2, <1>3, ChannelInvariant, PTL DEF Spec

=============================================================================
