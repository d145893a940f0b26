-------------------------- MODULE RpcDeliveryProofs --------------------------
(***************************************************************************)
(* Proofs about what RpcServer sends to the clients: the payloads of a     *)
(* stream's type, in order, once and without loss, and that the streams,   *)
(* their handlers and the event loop implement PayloadBus.                 *)
(***************************************************************************)
EXTENDS RpcServerProofs, SequenceTheorems

\* A stream holds a payload only while it is sending it.
SendingFits ==
    \A s \in Callers : IF sub[s] = "send" THEN Len(sending[s]) = 1
                                          ELSE sending[s] = <<>>

\* Nothing has arrived for the stream.
Unused(s) ==
    /\ sent[s] = <<>> /\ sending[s] = <<>> /\ incoming[s] = <<>>
    /\ expected[s] = {}

\* Nothing arrives before the handler is registered.
FreshStreams ==
    /\ \A s \in Callers :
          \/ sub[s] \in {"idle", "ready"}
          \/ sub[s] = "register" /\ call[s].resp # "ok"
          => Unused(s)
    /\ loopPc = "register" /\ req.op = "register" => Unused(req.from)

\* What arrived for a stream are numbers of messages that have arrived.
ExpectedSeen == \A s \in Callers : \A n \in expected[s] : n <= seen

\* The payloads that the loop has still to hand off are of different types, and
\* the stream that one of them is for has not been given the message yet.
CurrentMessage ==
    /\ loopPc \in {"process", "dispatch"} => Ascending(rest)
    /\ loopPc = "dispatch"
       \/ (loopPc = "process" /\ packet = "exit" /\ router = "up")
          => \A i \in DOMAIN rest, s \in Callers :
                handlers[rest[i]] = s =>
                    /\ seen \in expected[s]
                    /\ \A j \in DOMAIN Delivered(s) : Delivered(s)[j] < seen

\* The loop has a payload for the stream among those that are left.
Pending(s) ==
    /\ loopPc \in {"process", "dispatch"} /\ packet = "exit"
    /\ \E i \in DOMAIN rest : handlers[rest[i]] = s

\* Of a stream that goes on, a message is lost only with the error of another
\* stream's handler; the router fails no message before the server's quit.
NothingLost ==
    \A s \in Callers :
        /\ sub[s] \in {"register", "recv", "send"}
        /\ ~ctxDone[s] /\ ~srvQuit
        => \A n \in expected[s] :
              n \in aborted \/ n \in Got(s) \/ (n = seen /\ Pending(s))

\* The inductive invariant of the delivery.
DeliveryInv ==
    /\ SendingFits
    /\ FreshStreams
    /\ ExpectedSeen
    /\ InOrder
    /\ CurrentMessage
    /\ NothingLost

-----------------------------------------------------------------------------
(***************************************************************************)
(* The sequences that steps make.                                          *)
(***************************************************************************)

\* Receiving a payload from the channel leaves the whole as it was.
LEMMA WholeReceived ==
    ASSUME NEW S, NEW a \in Seq(S), NEW c \in Seq(S), c # <<>>
    PROVE  (a \o <<>>) \o c = (a \o <<Head(c)>>) \o Tail(c)
<1>1. Head(c) \in S /\ Tail(c) \in Seq(S) /\ <<Head(c)>> \in Seq(S)
  BY HeadTailProperties
<1>2. c = <<Head(c)>> \o Tail(c)
  <2>1. Len(<<Head(c)>> \o Tail(c)) = Len(c)
    BY <1>1
  <2>2. \A i \in 1..Len(c) : c[i] = (<<Head(c)>> \o Tail(c))[i]
    BY <1>1
  <2>3. <<Head(c)>> \o Tail(c) \in Seq(S)
    BY <1>1
  <2> QED BY <2>1, <2>2, <2>3, SeqEqual
<1>3. a \o <<>> = a
  BY ConcatEmptySeq
<1>4. (a \o <<Head(c)>>) \o Tail(c) = a \o (<<Head(c)>> \o Tail(c))
  BY <1>1, ConcatAssociative
<1> QED BY <1>2, <1>3, <1>4

\* So does having sent it.
LEMMA WholeSent ==
    ASSUME NEW S, NEW a \in Seq(S), NEW b \in Seq(S), NEW c \in Seq(S)
    PROVE  ((a \o b) \o <<>>) \o c = (a \o b) \o c
<1>1. a \o b \in Seq(S)
  BY ConcatProperties
<1> QED BY <1>1, ConcatEmptySeq

\* A payload that enters the channel is the last of the whole.
LEMMA WholeAppended ==
    ASSUME NEW S, NEW a \in Seq(S), NEW b \in Seq(S), NEW c \in Seq(S),
           NEW e \in S
    PROVE  (a \o b) \o Append(c, e) = Append((a \o b) \o c, e)
<1>1. a \o b \in Seq(S) /\ <<e>> \in Seq(S)
  BY ConcatProperties
<1>2. Append(c, e) = c \o <<e>>
  BY AppendIsConcat
<1>3. (a \o b) \o c \in Seq(S)
  BY <1>1, ConcatProperties
<1>4. Append((a \o b) \o c, e) = ((a \o b) \o c) \o <<e>>
  BY <1>3, AppendIsConcat
<1> QED BY <1>1, <1>2, <1>4, ConcatAssociative

\* Sequence d is what is left of e when some of its elements are dropped.
ThinnedOut(d, e) ==
    \E f \in [DOMAIN d -> DOMAIN e] :
        /\ \A i, j \in DOMAIN d : i < j => f[i] < f[j]
        /\ \A i \in DOMAIN d : d[i] = e[f[i]]

\* Losing the payload in the middle keeps the order of the others.
LEMMA WholeLost ==
    ASSUME NEW S, NEW a \in Seq(S), NEW b \in Seq(S), NEW c \in Seq(S),
           Len(b) = 1
    PROVE  ThinnedOut((a \o <<>>) \o c, (a \o b) \o c)
<1> DEFINE F == [i \in 1..(Len(a) + Len(c)) |->
                    IF i <= Len(a) THEN i ELSE i + 1]
<1>1. a \o <<>> = a
  BY ConcatEmptySeq
<1>2. /\ a \o c \in Seq(S) /\ Len(a \o c) = Len(a) + Len(c)
      /\ DOMAIN (a \o c) = 1..(Len(a) + Len(c))
      /\ \A i \in 1..(Len(a) + Len(c)) :
            (a \o c)[i] = IF i <= Len(a) THEN a[i] ELSE c[i - Len(a)]
  BY ConcatProperties, LenProperties
<1>3. /\ a \o b \in Seq(S) /\ Len(a \o b) = Len(a) + 1
      /\ \A i \in 1..Len(a) : (a \o b)[i] = a[i]
  <2>1. Len(a) \in Nat
    BY LenProperties
  <2>2. /\ a \o b \in Seq(S) /\ Len(a \o b) = Len(a) + Len(b)
        /\ \A i \in 1..(Len(a) + Len(b)) :
              (a \o b)[i] = IF i <= Len(a) THEN a[i] ELSE b[i - Len(a)]
    BY ConcatProperties
  <2>3. \A i \in 1..Len(a) : i \in 1..(Len(a) + 1) /\ i <= Len(a)
    BY <2>1
  <2> QED BY <2>2, <2>3
<1>4. /\ (a \o b) \o c \in Seq(S)
      /\ DOMAIN ((a \o b) \o c) = 1..(Len(a) + 1 + Len(c))
      /\ \A i \in 1..(Len(a) + 1 + Len(c)) :
            ((a \o b) \o c)[i] = IF i <= Len(a) + 1 THEN (a \o b)[i]
                                 ELSE c[i - (Len(a) + 1)]
  <2> DEFINE ab == a \o b
  <2>1. ab \in Seq(S) /\ Len(ab) = Len(a) + 1
    BY <1>3
  <2> HIDE DEF ab
  <2>2. /\ ab \o c \in Seq(S) /\ Len(ab \o c) = Len(ab) + Len(c)
        /\ \A i \in 1..(Len(ab) + Len(c)) :
              (ab \o c)[i] = IF i <= Len(ab) THEN ab[i] ELSE c[i - Len(ab)]
    BY <2>1, ConcatProperties
  <2>3. DOMAIN (ab \o c) = 1..(Len(a) + 1 + Len(c))
    BY <2>1, <2>2, LenProperties
  <2> QED BY <2>1, <2>2, <2>3 DEF ab
<1>5. Len(a) \in Nat /\ Len(c) \in Nat
  BY LenProperties
<1>6. F \in [DOMAIN (a \o c) -> DOMAIN ((a \o b) \o c)]
  BY <1>2, <1>4, <1>5
<1>7. \A i, j \in DOMAIN (a \o c) : i < j => F[i] < F[j]
  BY <1>2, <1>5
<1>8. ASSUME NEW i \in DOMAIN (a \o c)
      PROVE  (a \o c)[i] = ((a \o b) \o c)[F[i]]
  <2>1. CASE i <= Len(a)
    <3>1. i \in 1..Len(a) /\ i <= Len(a) + 1
          /\ i \in 1..(Len(a) + 1 + Len(c)) /\ F[i] = i
      BY <1>2, <1>5, <2>1
    <3> HIDE DEF F
    <3> QED BY <1>2, <1>3, <1>4, <2>1, <3>1
  <2>2. CASE i > Len(a)
    <3>1. F[i] = i + 1 /\ i + 1 \in 1..(Len(a) + 1 + Len(c))
      BY <1>2, <1>5, <2>2
    <3>2. (i + 1) - (Len(a) + 1) = i - Len(a) /\ ~(i + 1 <= Len(a) + 1)
      BY <1>2, <1>5, <2>2
    <3>3. ~(i <= Len(a))
      BY <1>2, <1>5, <2>2
    <3> HIDE DEF F
    <3>4. (a \o c)[i] = c[i - Len(a)]
      BY <1>2, <3>3
    <3>5. ((a \o b) \o c)[i + 1] = c[(i + 1) - (Len(a) + 1)]
      BY <1>4, <3>1, <3>2
    <3> QED BY <3>1, <3>2, <3>4, <3>5
  <2>3. i <= Len(a) \/ i > Len(a)
    BY <1>2, <1>5
  <2> HIDE DEF F
  <2> QED BY <2>1, <2>2, <2>3
<1> HIDE DEF F
<1> QED BY <1>1, <1>6, <1>7, <1>8 DEF ThinnedOut

\* The payloads after the first are other types, in ascending order.
LEMMA AscendingTail ==
    ASSUME NEW q \in Seq(Nat), q # <<>>, Ascending(q)
    PROVE  /\ Ascending(Tail(q))
           /\ \A i \in DOMAIN Tail(q) :
                 Tail(q)[i] # Head(q) /\ \E k \in DOMAIN q : q[k] = Tail(q)[i]
           /\ \A k \in DOMAIN q :
                 q[k] = Head(q) \/ \E i \in DOMAIN Tail(q) : Tail(q)[i] = q[k]
<1>1. /\ Tail(q) \in Seq(Nat) /\ Len(Tail(q)) = Len(q) - 1
      /\ \A i \in 1..Len(Tail(q)) : Tail(q)[i] = q[i + 1]
      /\ DOMAIN Tail(q) = 1..(Len(q) - 1)
      /\ DOMAIN q = 1..Len(q) /\ Len(q) \in Nat \ {0}
      /\ Head(q) = q[1] /\ \A k \in 1..Len(q) : q[k] \in Nat
  BY HeadTailProperties, LenProperties, EmptySeq, ElementOfSeq
<1>2. Ascending(Tail(q))
  BY <1>1 DEF Ascending
<1>3. ASSUME NEW i \in DOMAIN Tail(q)
      PROVE  Tail(q)[i] # Head(q) /\ \E k \in DOMAIN q : q[k] = Tail(q)[i]
  <2>1. Tail(q)[i] = q[i + 1] /\ i + 1 \in DOMAIN q /\ 1 \in DOMAIN q /\ 1 < i + 1
    BY <1>1
  <2>2. q[1] < q[i + 1]
    BY <2>1 DEF Ascending
  <2> QED BY <1>1, <2>1, <2>2
<1>4. ASSUME NEW k \in DOMAIN q, q[k] # Head(q)
      PROVE  \E i \in DOMAIN Tail(q) : Tail(q)[i] = q[k]
  <2>1. k - 1 \in DOMAIN Tail(q) /\ (k - 1) + 1 = k
    BY <1>1, <1>4
  <2>2. Tail(q)[k - 1] = q[k]
    BY <1>1, <2>1
  <2> QED BY <2>1, <2>2
<1> QED BY <1>2, <1>3, <1>4

\* Appending a number above all others keeps the order, and adds just it.
LEMMA AscendingAppend ==
    ASSUME NEW q \in Seq(Nat), Ascending(q), NEW e \in Nat,
           \A i \in DOMAIN q : q[i] < e
    PROVE  /\ Ascending(Append(q, e))
           /\ \A i \in DOMAIN Append(q, e) :
                 \/ i \in DOMAIN q /\ Append(q, e)[i] = q[i]
                 \/ Append(q, e)[i] = e
           /\ \A i \in DOMAIN q :
                 i \in DOMAIN Append(q, e) /\ Append(q, e)[i] = q[i]
           /\ \E i \in DOMAIN Append(q, e) : Append(q, e)[i] = e
<1>1. /\ DOMAIN q = 1..Len(q) /\ Len(q) \in Nat
      /\ DOMAIN Append(q, e) = 1..(Len(q) + 1)
      /\ \A i \in 1..Len(q) : Append(q, e)[i] = q[i] /\ q[i] \in Nat
      /\ Append(q, e)[Len(q) + 1] = e
  BY AppendProperties, LenProperties, ElementOfSeq
<1>2. Ascending(Append(q, e))
  BY <1>1 DEF Ascending
<1>3. ASSUME NEW i \in DOMAIN Append(q, e), i \notin DOMAIN q
      PROVE  i = Len(q) + 1
  BY <1>1, <1>3
<1>4. Len(q) + 1 \in DOMAIN Append(q, e)
  BY <1>1
<1> QED BY <1>1, <1>2, <1>3, <1>4

-----------------------------------------------------------------------------
(***************************************************************************)
(* The inductive invariant.                                                *)
(***************************************************************************)

\* A step of the server or of the loop that has nothing to do with a message
\* preserves it.
LEMMA QuietStep ==
    ASSUME DeliveryInv,
           UNCHANGED <<sub, call, handlers, incoming, sending, sent, seen,
                       expected, aborted>>,
           srvQuit => srvQuit', \A s \in Callers : ctxDone[s] => ctxDone'[s],
           \/ /\ UNCHANGED <<loopPc, req, packet, rest>>
              /\ loopPc = "process" /\ router' = "up" => router = "up"
           \/ /\ loopPc \notin {"process", "dispatch"}
              /\ loopPc' \notin {"register", "process", "dispatch"}
    PROVE  DeliveryInv'
<1>1. SendingFits' /\ ExpectedSeen'
  BY DEF DeliveryInv, SendingFits, ExpectedSeen
<1>2. FreshStreams'
  BY DEF DeliveryInv, FreshStreams, Unused
<1>3. \A s \in Callers : Delivered(s)' = Delivered(s) /\ Got(s)' = Got(s)
  BY DEF Delivered, Got
<1>4. InOrder'
  BY <1>3 DEF DeliveryInv, InOrder
<1>5. CurrentMessage'
  BY <1>3 DEF DeliveryInv, CurrentMessage
<1>6. NothingLost'
  BY <1>3 DEF DeliveryInv, NothingLost, Pending
<1> QED BY <1>1, <1>2, <1>4, <1>5, <1>6 DEF DeliveryInv

\* So does a step of a stream that touches no payload: it enters the range of
\* states that payloads arrive in with none.
LEMMA StreamMoves ==
    ASSUME DeliveryInv, NEW s \in Callers,
           sub \in [Callers -> SubStates], call \in [Callers -> CallRecords],
           UNCHANGED <<loopPc, req, packet, rest, router, handlers, incoming,
                       sending, sent, seen, expected, aborted, srvQuit>>,
           sub' = [sub EXCEPT ![s] = sub'[s]],
           call' = [call EXCEPT ![s] = call'[s]],
           \A r \in Callers : ctxDone[r] => ctxDone'[r],
           sub[s] # "send", sub'[s] # "send",
           \/ sub'[s] \in {"idle", "ready"}
           \/ sub'[s] = "register" /\ call'[s].resp # "ok"
           => Unused(s),
           sub'[s] \in {"register", "recv"} =>
               sub[s] = "register" \/ expected[s] = {}
    PROVE  DeliveryInv'
<1>1. SendingFits' /\ ExpectedSeen'
  BY DEF DeliveryInv, SendingFits, ExpectedSeen
<1>2. FreshStreams'
  <2>1. ASSUME NEW r \in Callers
        PROVE  \/ sub'[r] \in {"idle", "ready"}
               \/ sub'[r] = "register" /\ call'[r].resp # "ok"
               => Unused(r)
    BY DEF DeliveryInv, FreshStreams
  <2>2. \A r : Unused(r)' <=> Unused(r)
    BY DEF Unused
  <2> QED BY <2>1, <2>2 DEF DeliveryInv, FreshStreams
<1>3. \A r \in Callers : /\ Delivered(r)' = Delivered(r) /\ Got(r)' = Got(r)
                         /\ Pending(r)' <=> Pending(r)
  BY DEF Delivered, Got, Pending
<1>4. InOrder'
  BY <1>3 DEF DeliveryInv, InOrder
<1>5. CurrentMessage'
  BY <1>3 DEF DeliveryInv, CurrentMessage
<1>6. NothingLost'
  BY <1>3 DEF DeliveryInv, NothingLost
<1> QED BY <1>1, <1>2, <1>4, <1>5, <1>6 DEF DeliveryInv

\* A stream that receives or sends a payload, or fails to send it, keeps the
\* order; it loses a payload only when it fails and leaves.
LEMMA PayloadMoves ==
    ASSUME RpcInv, DeliveryInv, NEW s \in Callers,
           StreamReceive(s) \/ StreamSend(s) \/ StreamSendFails(s)
    PROVE  DeliveryInv'
<1> USE DEF server, streams, history, startStop, loop, vars
<1>a. /\ sub \in [Callers -> SubStates] /\ ctxDone \in [Callers -> BOOLEAN]
      /\ incoming \in [Callers -> Seq(MessageNumbers)]
      /\ sending \in [Callers -> Seq(MessageNumbers)]
      /\ sent \in [Callers -> Seq(MessageNumbers)]
  BY DEF RpcInv, RpcTypeOK
<1>b. /\ sub[s] \in {"recv", "send"}
      /\ \E to \in {"recv", "send", "deregister"} :
            sub' = [sub EXCEPT ![s] = to]
      /\ UNCHANGED <<loopPc, req, packet, rest, router, handlers, seen,
                     expected, aborted, srvQuit>>
      /\ \A r \in Callers \ {s} :
            /\ UNCHANGED <<sub[r], call[r], incoming[r], sending[r], sent[r]>>
            /\ ctxDone[r] => ctxDone'[r]
  <2>1. CASE StreamReceive(s)
    BY <1>a, <2>1 DEF StreamReceive
  <2>2. CASE StreamSend(s)
    BY <1>a, <2>2 DEF StreamSend
  <2>3. CASE StreamSendFails(s)
    <3>1. call \in [Callers -> CallRecords]
      BY DEF RpcInv, RpcTypeOK, TypeOK, CallRecords
    <3> QED BY <1>a, <2>3, <3>1 DEF StreamSendFails, StreamLeaves, Call
  <2> QED BY <2>1, <2>2, <2>3
<1>1. ExpectedSeen'
  BY <1>b DEF DeliveryInv, ExpectedSeen
<1>2. SendingFits'
  <2>1. CASE StreamReceive(s)
    <3>1. sending'[s] = <<Head(incoming[s])>> /\ sub'[s] = "send"
      BY <1>a, <2>1 DEF StreamReceive
    <3>2. Len(sending'[s]) = 1
      BY <3>1
    <3> QED BY <1>b, <3>1, <3>2 DEF DeliveryInv, SendingFits
  <2>2. CASE StreamSend(s) \/ StreamSendFails(s)
    <3>1. sending'[s] = <<>> /\ sub'[s] # "send"
      BY <1>a, <2>2 DEF StreamSend, StreamSendFails, StreamLeaves
    <3> QED BY <1>b, <3>1 DEF DeliveryInv, SendingFits
  <2> QED BY <2>1, <2>2
<1>3. FreshStreams'
  <2>1. \A r \in Callers \ {s} : Unused(r)' <=> Unused(r)
    BY <1>b DEF Unused
  <2>2. sub'[s] \in {"recv", "send", "deregister"}
    BY <1>a, <1>b
  <2>3. loopPc = "register" /\ req.op = "register" =>
            req.from \in Callers \ {s}
    BY <1>b DEF RpcInv, RequestOfStream, IndInv, LoopLocals
  <2> QED BY <1>b, <2>1, <2>2, <2>3 DEF DeliveryInv, FreshStreams
<1>4. \A r \in Callers \ {s} : /\ Delivered(r)' = Delivered(r)
                               /\ Got(r)' = Got(r)
  <2>1. \A r \in Callers \ {s} : Delivered(r)' = Delivered(r)
    BY <1>b DEF Delivered
  <2> QED BY <2>1 DEF Got
<1>5. \A r \in Callers : Pending(r)' <=> Pending(r)
  BY <1>b DEF Pending
<1>6. CASE StreamReceive(s) \/ StreamSend(s)
  <2>1. Delivered(s)' = Delivered(s)
    <3>1. CASE StreamReceive(s)
      <4>1. /\ sent'[s] = sent[s] /\ sending'[s] = <<Head(incoming[s])>>
            /\ incoming'[s] = Tail(incoming[s]) /\ incoming[s] # <<>>
        BY <1>a, <3>1 DEF StreamReceive
      <4>2. sending[s] = <<>>
        BY <3>1 DEF StreamReceive, DeliveryInv, SendingFits
      <4> QED BY <1>a, <4>1, <4>2, WholeReceived DEF Delivered
    <3>2. CASE StreamSend(s)
      <4>1. /\ sent'[s] = sent[s] \o sending[s] /\ sending'[s] = <<>>
            /\ incoming'[s] = incoming[s]
        BY <1>a, <3>2 DEF StreamSend
      <4> QED BY <1>a, <4>1, WholeSent DEF Delivered
    <3> QED BY <1>6, <3>1, <3>2
  <2>2. \A r \in Callers : Delivered(r)' = Delivered(r) /\ Got(r)' = Got(r)
    BY <1>4, <2>1 DEF Got
  <2>3. InOrder'
    BY <1>b, <2>2 DEF DeliveryInv, InOrder
  <2>4. CurrentMessage'
    BY <1>b, <2>2 DEF DeliveryInv, CurrentMessage
  <2>5. ctxDone' = ctxDone
    BY <1>6 DEF StreamReceive, StreamSend
  <2>6. NothingLost'
    BY <1>a, <1>b, <1>5, <2>2, <2>5 DEF DeliveryInv, NothingLost
  <2> QED BY <1>1, <1>2, <1>3, <2>3, <2>4, <2>6 DEF DeliveryInv
<1>7. CASE StreamSendFails(s)
  <2>1. /\ sent'[s] = sent[s] /\ sending'[s] = <<>>
        /\ incoming'[s] = incoming[s] /\ sub'[s] = "deregister"
        /\ Len(sending[s]) = 1
    BY <1>a, <1>7
    DEF StreamSendFails, StreamLeaves, DeliveryInv, SendingFits
  <2>2. PICK f \in [DOMAIN Delivered(s)' -> DOMAIN Delivered(s)] :
           /\ \A i, j \in DOMAIN Delivered(s)' : i < j => f[i] < f[j]
           /\ \A i \in DOMAIN Delivered(s)' :
                 Delivered(s)'[i] = Delivered(s)[f[i]]
    <3>1. /\ Delivered(s) = (sent[s] \o sending[s]) \o incoming[s]
          /\ Delivered(s)' = (sent[s] \o <<>>) \o incoming[s]
      BY <2>1 DEF Delivered
    <3>2. ThinnedOut((sent[s] \o <<>>) \o incoming[s],
                     (sent[s] \o sending[s]) \o incoming[s])
      BY <1>a, <2>1, WholeLost
    <3>3. ThinnedOut(Delivered(s)', Delivered(s))
      BY <3>1, <3>2
    <3> QED BY <3>3 DEF ThinnedOut
  <2>3. InOrder'
    <3>1. ASSUME NEW i \in DOMAIN Delivered(s)', NEW j \in DOMAIN Delivered(s)',
                 i < j
          PROVE  Delivered(s)'[i] < Delivered(s)'[j]
      BY <2>2, <3>1 DEF DeliveryInv, InOrder
    <3>2. \A i \in DOMAIN Delivered(s)' : Delivered(s)'[i] \in expected[s]
      BY <2>2 DEF DeliveryInv, InOrder
    <3> QED BY <1>b, <1>4, <3>1, <3>2 DEF DeliveryInv, InOrder
  <2>4. CurrentMessage'
    <3>1. (\A j \in DOMAIN Delivered(s) : Delivered(s)[j] < seen)
             => \A j \in DOMAIN Delivered(s)' : Delivered(s)'[j] < seen
      BY <2>2
    <3> QED BY <1>b, <1>4, <3>1 DEF DeliveryInv, CurrentMessage
  <2>5. NothingLost'
    BY <1>b, <1>4, <1>5, <2>1 DEF DeliveryInv, NothingLost
  <2> QED BY <1>1, <1>2, <1>3, <2>3, <2>4, <2>5 DEF DeliveryInv
<1> QED BY <1>6, <1>7

\* A message that arrives is expected by the streams it has a payload for, and
\* pending for them.
LEMMA MessageKept ==
    ASSUME RpcInv, DeliveryInv, NEW m \in Messages, LoopMessageArrives(m)
    PROVE  DeliveryInv'
<1> USE DEF server, streams, history, startStop, loop
<1>a. /\ seen \in Nat /\ seen' = seen + 1 /\ loopPc = "select"
      /\ UNCHANGED <<sub, call, handlers, incoming, sending, sent, aborted,
                     srvQuit, ctxDone, router>>
      /\ expected' = [s \in Callers |->
                         expected[s] \cup (IF Addressed(m, s) /\ router = "up"
                                           THEN {seen + 1} ELSE {})]
      /\ loopPc' \in {"select", "process"}
  BY RpcAssumption
  DEF LoopMessageArrives, LoopMessage, RpcInv, RpcTypeOK
<1>b. /\ m.payloads \in Seq(TlvTypes) /\ Ascending(m.payloads)
      /\ \A i \in DOMAIN m.payloads : m.payloads[i] \in TlvTypes
  BY ConstantsAssumption DEF MessageType
<1>c. loopPc' = "process" =>
          m.msgType = "onion" /\ packet' = m.packet /\ rest' = m.payloads
  BY <1>a DEF LoopMessageArrives, LoopMessage
<1>d. m.msgType = "onion" => loopPc' = "process"
  BY DEF LoopMessageArrives, LoopMessage
<1>e. \A s \in Callers : expected[s] \subseteq MessageNumbers
  BY DEF RpcInv, RpcTypeOK
<1>1. SendingFits'
  BY <1>a DEF DeliveryInv, SendingFits
<1>2. FreshStreams'
  <2>1. ASSUME NEW s \in Callers, Addressed(m, s)
        PROVE  /\ sub[s] \notin {"idle", "ready"}
               /\ sub[s] = "register" => call[s].resp = "ok"
    BY <1>b, <2>1 DEF Addressed, RpcInv, HandlersOwned
  <2>2. \A s \in Callers : Unused(s) /\ ~Addressed(m, s) => Unused(s)'
    BY <1>a DEF Unused
  <2> QED BY <1>a, <2>1, <2>2 DEF DeliveryInv, FreshStreams
<1>3. ExpectedSeen'
  BY <1>a, <1>e DEF DeliveryInv, ExpectedSeen, MessageNumbers
<1>4. \A s \in Callers : Delivered(s)' = Delivered(s)
  BY <1>a DEF Delivered
<1>5. \A s \in Callers : Got(s)' = Got(s)
  BY <1>4 DEF Got
<1>6. InOrder'
  BY <1>a, <1>4 DEF DeliveryInv, InOrder
<1>7. CurrentMessage'
  <2>1. ASSUME NEW s \in Callers, NEW j \in DOMAIN Delivered(s)
        PROVE  Delivered(s)[j] < seen'
    BY <1>a, <1>e DEF DeliveryInv, InOrder, ExpectedSeen, MessageNumbers
  <2>2. ASSUME loopPc' = "process", packet' = "exit", router' = "up",
               NEW i \in DOMAIN rest', NEW s \in Callers,
               handlers'[rest'[i]] = s
        PROVE  seen' \in expected'[s]
    BY <1>a, <1>c, <2>2 DEF Addressed
  <2>3. (loopPc' \in {"process", "dispatch"}) => Ascending(rest')
    BY <1>a, <1>b, <1>c
  <2>4. Ascending(rest)' <=> Ascending(rest')
    BY DEF Ascending
  <2> QED BY <1>a, <1>4, <2>1, <2>2, <2>3, <2>4 DEF CurrentMessage
<1>8. NothingLost'
  <2> SUFFICES ASSUME NEW s \in Callers, NEW n \in expected'[s],
                      sub[s] \in {"register", "recv", "send"},
                      ~ctxDone[s], ~srvQuit
               PROVE  \/ n \in aborted \/ n \in Got(s)
                      \/ n = seen' /\ Pending(s)'
    BY <1>a, <1>5 DEF NothingLost
  <2>1. CASE n \in expected[s]
    BY <1>a, <2>1 DEF DeliveryInv, NothingLost, Pending
  <2>2. CASE n \notin expected[s]
    <3>1. Addressed(m, s) /\ n = seen'
      BY <1>a, <2>2
    <3>2. Pending(s)'
      BY <1>a, <1>c, <1>d, <3>1 DEF Addressed, Pending
    <3> QED BY <3>1, <3>2
  <2> QED BY <2>1, <2>2
<1> QED BY <1>1, <1>2, <1>3, <1>6, <1>7, <1>8 DEF DeliveryInv

\* The loop hands the message to the owner of its next payload, which has not
\* had it yet; the payloads that are left are for other streams.
LEMMA AcceptKept ==
    ASSUME RpcInv, DeliveryInv, HandlerAccepts
    PROVE  DeliveryInv'
<1> USE DEF server, streams, history, startStop, loop
<1>a. /\ loopPc = "dispatch" /\ rest # <<>> /\ handlers[Head(rest)] # NoHandler
      /\ rest \in Seq(TlvTypes) /\ rest \in Seq(Nat)
      /\ handlers \in [TlvTypes -> Callers \cup {NoHandler}]
  <2>1. rest \in Seq(TlvTypes)
    BY DEF RpcInv, IndInv, TypeOK
  <2>2. rest \in Seq(Nat)
    BY <2>1, ConstantsAssumption, SeqMonotonic
  <2> QED BY <2>1, <2>2
          DEF HandlerAccepts, HandlerReturns, RpcInv, IndInv, LoopLocals, TypeOK
<1>b. /\ 1 \in DOMAIN rest /\ Head(rest) = rest[1] /\ Head(rest) \in TlvTypes
  BY <1>a
<1>c. PICK o \in Callers : handlers[Head(rest)] = o
  BY <1>a, <1>b
<1>d. /\ incoming \in [Callers -> Seq(MessageNumbers)]
      /\ sending \in [Callers -> Seq(MessageNumbers)]
      /\ sent \in [Callers -> Seq(MessageNumbers)]
      /\ \A s \in Callers : expected[s] \subseteq MessageNumbers
  BY DEF RpcInv, RpcTypeOK
<1>e. /\ incoming' = [incoming EXCEPT ![o] = Append(incoming[o], seen)]
      /\ UNCHANGED <<sub, call, handlers, sending, sent, seen, expected,
                     aborted, srvQuit, ctxDone, router, req>>
      /\ loopPc' \in {"select", "dispatch"}
      /\ loopPc' = "dispatch" => rest' = Tail(rest) /\ packet' = packet
      /\ Tail(rest) # <<>> => loopPc' = "dispatch"
  BY <1>a, <1>c
  DEF Owner, HandlerAccepts, HandlerReturns, NextPayload, MessageDone
<1>f. seen \in expected[o] /\ \A j \in DOMAIN Delivered(o) : Delivered(o)[j] < seen
  BY <1>a, <1>b, <1>c DEF DeliveryInv, CurrentMessage
<1>g. seen \in MessageNumbers /\ seen \in Nat
  BY <1>c, <1>d, <1>f DEF MessageNumbers
<1>h. Ascending(rest)
  BY <1>a DEF DeliveryInv, CurrentMessage
<1>i. Delivered(o)' = Append(Delivered(o), seen)
  BY <1>c, <1>d, <1>e, <1>g, WholeAppended DEF Delivered
<1>j. Delivered(o) \in Seq(MessageNumbers) /\ Delivered(o) \in Seq(Nat)
      /\ Ascending(Delivered(o))
  <2>1. Delivered(o) \in Seq(MessageNumbers)
    BY <1>c, <1>d DEF Delivered
  <2>2. Delivered(o) \in Seq(Nat)
    <3>1. MessageNumbers \subseteq Nat
      BY DEF MessageNumbers
    <3> QED BY <2>1, <3>1, SeqMonotonic
  <2> QED BY <1>c, <2>1, <2>2 DEF DeliveryInv, InOrder, Ascending
<1>k. /\ Ascending(Delivered(o)')
      /\ \A i \in DOMAIN Delivered(o)' :
            \/ i \in DOMAIN Delivered(o) /\ Delivered(o)'[i] = Delivered(o)[i]
            \/ Delivered(o)'[i] = seen
      /\ \A i \in DOMAIN Delivered(o) :
            i \in DOMAIN Delivered(o)' /\ Delivered(o)'[i] = Delivered(o)[i]
      /\ \E i \in DOMAIN Delivered(o)' : Delivered(o)'[i] = seen
  <2>1. PICK d : d = Delivered(o)
    OBVIOUS
  <2>2. PICK e : e = Append(d, seen)
    OBVIOUS
  <2>3. d \in Seq(Nat) /\ Ascending(d) /\ \A j \in DOMAIN d : d[j] < seen
    BY <1>f, <1>j, <2>1
  <2>4. /\ Ascending(e)
        /\ \A i \in DOMAIN e : (i \in DOMAIN d /\ e[i] = d[i]) \/ e[i] = seen
        /\ \A i \in DOMAIN d : i \in DOMAIN e /\ e[i] = d[i]
        /\ \E i \in DOMAIN e : e[i] = seen
    BY <1>g, <2>2, <2>3, AscendingAppend
  <2>5. Delivered(o)' = e /\ Delivered(o) = d
    BY <1>i, <2>1, <2>2
  <2> QED BY <2>4, <2>5
<1>l. \A s \in Callers \ {o} : Delivered(s)' = Delivered(s)
  BY <1>c, <1>d, <1>e DEF Delivered
<1>m. \A s \in Callers \ {o} : Got(s)' = Got(s)
  BY <1>l DEF Got
<1>n. \A n \in Got(o) \cup {seen} : n \in Got(o)'
  BY <1>k DEF Got
<1>1. SendingFits' /\ ExpectedSeen'
  BY <1>e DEF DeliveryInv, SendingFits, ExpectedSeen
<1>2. FreshStreams'
  <2>1. /\ sub[o] \notin {"idle", "ready"}
        /\ sub[o] = "register" => call[o].resp = "ok"
    BY <1>b, <1>c DEF RpcInv, HandlersOwned
  <2>2. \A s \in Callers \ {o} : Unused(s) => Unused(s)'
    BY <1>d, <1>e DEF Unused
  <2> QED BY <1>e, <2>1, <2>2 DEF DeliveryInv, FreshStreams
<1>3. InOrder'
  <2>1. \A i, j \in DOMAIN Delivered(o)' :
           i < j => Delivered(o)'[i] < Delivered(o)'[j]
    BY <1>k DEF Ascending
  <2>2. \A i \in DOMAIN Delivered(o)' : Delivered(o)'[i] \in expected[o]
    BY <1>c, <1>f, <1>k DEF DeliveryInv, InOrder
  <2> QED BY <1>e, <1>l, <2>1, <2>2 DEF DeliveryInv, InOrder
<1>4. /\ Ascending(Tail(rest))
      /\ \A i \in DOMAIN Tail(rest) :
            /\ Tail(rest)[i] # Head(rest)
            /\ \E k \in DOMAIN rest : rest[k] = Tail(rest)[i]
      /\ \A k \in DOMAIN rest :
            \/ rest[k] = Head(rest)
            \/ \E i \in DOMAIN Tail(rest) : Tail(rest)[i] = rest[k]
  BY <1>a, <1>h, AscendingTail
<1>5. CurrentMessage'
  <2>1. ASSUME loopPc' = "dispatch", NEW i \in DOMAIN rest', NEW s \in Callers,
               handlers'[rest'[i]] = s
        PROVE  /\ seen' \in expected'[s]
               /\ \A j \in DOMAIN Delivered(s)' : Delivered(s)'[j] < seen'
    <3>1. PICK k \in DOMAIN rest : rest[k] = Tail(rest)[i]
      BY <1>e, <1>4, <2>1
    <3>2. handlers[rest[k]] = s /\ rest[k] # Head(rest) /\ rest[k] \in TlvTypes
      BY <1>a, <1>e, <1>4, <2>1, <3>1
    <3>3. s # o
      BY <1>b, <1>c, <3>2 DEF RpcInv, HandlersOwned
    <3>4. seen \in expected[s] /\ \A j \in DOMAIN Delivered(s) : Delivered(s)[j] < seen
      BY <1>a, <3>2 DEF DeliveryInv, CurrentMessage
    <3> QED BY <1>e, <1>l, <3>3, <3>4
  <2>2. loopPc' = "dispatch" => Ascending(rest')
    BY <1>e, <1>4
  <2>3. Ascending(rest)' <=> Ascending(rest')
    BY DEF Ascending
  <2> QED BY <1>e, <2>1, <2>2, <2>3 DEF CurrentMessage
<1>6. NothingLost'
  <2> SUFFICES ASSUME NEW s \in Callers, NEW n \in expected[s],
                      sub[s] \in {"register", "recv", "send"},
                      ~ctxDone[s], ~srvQuit
               PROVE  \/ n \in aborted \/ n \in Got(s)'
                      \/ n = seen /\ Pending(s)'
    BY <1>e DEF NothingLost
  <2>1. n \in aborted \/ n \in Got(s) \/ (n = seen /\ Pending(s))
    BY DEF DeliveryInv, NothingLost
  <2>2. CASE s = o
    BY <1>n, <2>1, <2>2
  <2>3. CASE s # o
    <3>1. ASSUME Pending(s) PROVE Pending(s)'
      <4>1. PICK k \in DOMAIN rest : handlers[rest[k]] = s
        BY <3>1 DEF Pending
      <4>2. PICK i \in DOMAIN Tail(rest) : Tail(rest)[i] = rest[k]
        BY <1>c, <1>4, <2>3, <4>1
      <4>3. Tail(rest) # <<>>
        BY <4>2
      <4> QED BY <1>e, <3>1, <4>1, <4>2, <4>3 DEF Pending
    <3> QED BY <1>m, <2>1, <2>3, <3>1
  <2> QED BY <2>2, <2>3
<1> QED BY <1>1, <1>2, <1>3, <1>5, <1>6 DEF DeliveryInv

\* The other steps of the loop on a message: those that end it give up only what
\* they report, or what a router that was stopped would have failed.
LEMMA LoopKept ==
    ASSUME RpcInv, DeliveryInv,
           \/ HandlerFails
           \/ (ProcessPacket \/ PayloadUnhandled)
              /\ UNCHANGED <<server, streams, history>>
    PROVE  DeliveryInv'
<1> USE DEF server, streams, history, startStop, loop
<1>a. /\ UNCHANGED <<sub, call, handlers, incoming, sending, sent, seen,
                     expected, srvQuit, ctxDone, router>>
      /\ loopPc \in {"process", "dispatch"}
      /\ loopPc' \in {"select", "dispatch", "forward"}
      /\ aborted \subseteq aborted'
  BY DEF HandlerFails, HandlerReturns, ProcessPacket, PayloadUnhandled,
     NextPayload, MessageDone
<1>b. rest \in Seq(TlvTypes) /\ rest \in Seq(Nat)
  <2>1. rest \in Seq(TlvTypes)
    BY DEF RpcInv, IndInv, TypeOK
  <2>2. rest \in Seq(Nat)
    BY <2>1, ConstantsAssumption, SeqMonotonic
  <2> QED BY <2>1, <2>2
<1>c. loopPc = "dispatch" => rest # <<>>
  BY DEF RpcInv, IndInv, LoopLocals
<1>d. loopPc' = "dispatch" =>
          /\ packet' = packet
          /\ \/ /\ loopPc = "process" /\ packet = "exit" /\ router = "up"
                /\ rest' = rest
             \/ loopPc = "dispatch" /\ rest' = Tail(rest)
  BY DEF HandlerFails, HandlerReturns, ProcessPacket, PayloadUnhandled,
     NextPayload, MessageDone
<1>e. /\ Ascending(rest)
      /\ rest # <<>> =>
            /\ Ascending(Tail(rest))
            /\ \A i \in DOMAIN Tail(rest) :
                  \E k \in DOMAIN rest : rest[k] = Tail(rest)[i]
            /\ \A k \in DOMAIN rest :
                  \/ rest[k] = Head(rest)
                  \/ \E i \in DOMAIN Tail(rest) : Tail(rest)[i] = rest[k]
  BY <1>a, <1>b, AscendingTail DEF DeliveryInv, CurrentMessage
<1>1. SendingFits' /\ ExpectedSeen'
  BY <1>a DEF DeliveryInv, SendingFits, ExpectedSeen
<1>2. FreshStreams'
  BY <1>a DEF DeliveryInv, FreshStreams, Unused
<1>3. \A s \in Callers : Delivered(s)' = Delivered(s)
  BY <1>a DEF Delivered
<1>4. \A s \in Callers : Got(s)' = Got(s)
  BY <1>3 DEF Got
<1>5. InOrder'
  BY <1>a, <1>3 DEF DeliveryInv, InOrder
<1>6. CurrentMessage'
  <2>1. ASSUME loopPc' = "dispatch" PROVE
            Ascending(rest') /\ \A i \in DOMAIN rest' :
                                   \E k \in DOMAIN rest : rest[k] = rest'[i]
    BY <1>c, <1>d, <1>e, <2>1
  <2>2. ASSUME loopPc' = "dispatch", NEW i \in DOMAIN rest', NEW s \in Callers,
               handlers[rest'[i]] = s
        PROVE  /\ seen \in expected[s]
               /\ \A j \in DOMAIN Delivered(s) : Delivered(s)[j] < seen
    <3>1. PICK k \in DOMAIN rest : rest[k] = rest'[i]
      BY <2>1, <2>2
    <3> QED BY <1>d, <2>2, <3>1 DEF DeliveryInv, CurrentMessage
  <2>3. Ascending(rest)' <=> Ascending(rest')
    BY DEF Ascending
  <2> QED BY <1>a, <1>3, <2>1, <2>2, <2>3 DEF CurrentMessage
<1>7. NothingLost'
  <2> SUFFICES ASSUME NEW s \in Callers, NEW n \in expected[s],
                      sub[s] \in {"register", "recv", "send"},
                      ~ctxDone[s], ~srvQuit
               PROVE  \/ n \in aborted' \/ n \in Got(s)'
                      \/ n = seen /\ Pending(s)'
    BY <1>a DEF NothingLost
  <2>1. n \in aborted \/ n \in Got(s) \/ (n = seen /\ Pending(s))
    BY DEF DeliveryInv, NothingLost
  <2>2. ASSUME n = seen, Pending(s) PROVE seen \in aborted' \/ Pending(s)'
    <3>1. PICK k \in DOMAIN rest : handlers[rest[k]] = s
      BY <2>2 DEF Pending
    <3>2. CASE HandlerFails
      BY <3>2 DEF HandlerFails
    <3>3. CASE ProcessPacket
      <4>1. router = "up"
        <5>1. router # "new"
          BY <1>a DEF RpcInv, IndInv, LoopCounted, LoopLive, RouterOrder
        <5>2. router # "down"
          BY DEF RpcInv, IndInv, TypeOK, RouterOrder, RpcTypeOK, SrvStopOrder
        <5> QED BY <5>1, <5>2 DEF RpcInv, IndInv, TypeOK
      <4>2. packet = "exit" /\ rest # <<>>
        BY <2>2, <3>1 DEF Pending
      <4>3. loopPc' = "dispatch" /\ packet' = packet /\ rest' = rest
        BY <3>3, <4>1, <4>2 DEF ProcessPacket, MessageDone
      <4> QED BY <1>a, <3>1, <4>2, <4>3 DEF Pending
    <3>4. CASE PayloadUnhandled
      <4>1. rest # <<>> /\ handlers[Head(rest)] # s
        BY <1>c, <3>4, ConstantsAssumption DEF PayloadUnhandled
      <4>2. PICK i \in DOMAIN Tail(rest) : Tail(rest)[i] = rest[k]
        BY <1>e, <3>1, <4>1
      <4>3. Tail(rest) # <<>>
        BY <4>2
      <4>4. loopPc' = "dispatch" /\ packet' = packet /\ rest' = Tail(rest)
        BY <3>4, <4>3 DEF PayloadUnhandled, NextPayload
      <4> QED BY <1>a, <2>2, <3>1, <4>2, <4>4 DEF Pending
    <3> QED BY <3>2, <3>3, <3>4
  <2> QED BY <1>a, <1>4, <2>1, <2>2
<1> QED BY <1>1, <1>2, <1>5, <1>6, <1>7 DEF DeliveryInv

\* The steps that make and serve a request: a handler is put in place for a stream
\* that nothing has arrived for.
LEMMA RequestKept ==
    ASSUME RpcInv, DeliveryInv,
           \/ \E s \in Callers : LoopReceives(s)
           \/ LoopRegister /\ UNCHANGED <<server, streams, history>>
    PROVE  DeliveryInv'
<1> USE DEF server, streams, history, startStop, loop
<1>a. /\ UNCHANGED <<sub, incoming, sending, sent, seen, expected, aborted,
                     srvQuit, ctxDone, router>>
      /\ loopPc \in {"select", "register"} /\ loopPc' \in {"select", "register"}
      /\ call \in [Callers -> CallRecords]
  BY DEF LoopReceives, LoopReceive, LoopRegister, LoopGoto, RpcInv, RpcTypeOK,
     TypeOK, CallRecords
<1>1. SendingFits' /\ ExpectedSeen'
  BY <1>a DEF DeliveryInv, SendingFits, ExpectedSeen
<1>2. \A s : Unused(s)' <=> Unused(s)
  BY <1>a DEF Unused
<1>3. FreshStreams'
  <2>1. CASE \E s \in Callers : LoopReceives(s)
    <3>1. PICK s \in Callers : LoopReceives(s)
      BY <2>1
    <3>2. /\ \A r \in Callers : call'[r].resp = call[r].resp
          /\ req'.from = s /\ req'.op = call[s].op /\ call[s].st = "deliver"
      BY <1>a, <3>1 DEF LoopReceives, LoopReceive, CallRecords
    <3>3. call[s].op = "register" => sub[s] = "register" /\ call[s].resp # "ok"
      <4>1. call[s].resp = "none"
        BY <3>2 DEF RpcInv, IndInv, RequestsFormed
      <4>2. sub[s] \in SubStates
        BY DEF RpcInv, RpcTypeOK
      <4> QED BY <3>2, <4>1, <4>2 DEF RpcInv, CallOfStream, SubStates
    <3> QED BY <1>a, <1>2, <3>2, <3>3 DEF DeliveryInv, FreshStreams
  <2>2. CASE LoopRegister
    <3>1. loopPc = "register" /\ loopPc' = "select" /\ req.from \in Callers
      BY <2>2 DEF LoopRegister, LoopGoto, RpcInv, IndInv, LoopLocals
    <3>2. ASSUME NEW r \in Callers, sub[r] = "register", call'[r].resp # "ok"
          PROVE  call[r].resp # "ok"
      <4>1. CASE r = req.from
        BY <3>1, <3>2, <4>1 DEF RpcInv, RequestOfStream
      <4>2. CASE r # req.from
        BY <1>a, <2>2, <3>1, <3>2, <4>2 DEF LoopRegister
      <4> QED BY <4>1, <4>2
    <3> QED BY <1>a, <1>2, <3>1, <3>2 DEF DeliveryInv, FreshStreams
  <2> QED BY <2>1, <2>2
<1>4. \A s \in Callers : Delivered(s)' = Delivered(s)
  BY <1>a DEF Delivered
<1>5. \A s \in Callers : Got(s)' = Got(s)
  BY <1>4 DEF Got
<1>6. InOrder'
  BY <1>a, <1>4 DEF DeliveryInv, InOrder
<1>7. CurrentMessage'
  BY <1>a DEF CurrentMessage
<1>8. NothingLost'
  BY <1>a, <1>5 DEF DeliveryInv, NothingLost, Pending
<1> QED BY <1>1, <1>3, <1>6, <1>7, <1>8 DEF DeliveryInv

\* Every step preserves the inductive invariant of the delivery.
LEMMA DeliveryKept ==
    RpcInv /\ DeliveryInv /\ [RpcNext]_rpcVars => DeliveryInv'
<1> SUFFICES ASSUME RpcInv, DeliveryInv, [RpcNext]_rpcVars PROVE DeliveryInv'
  OBVIOUS
<1> USE DEF server, streams, history, startStop, loop, vars
<1>a. /\ sub \in [Callers -> SubStates] /\ ctxDone \in [Callers -> BOOLEAN]
      /\ call \in [Callers -> CallRecords]
  BY DEF RpcInv, RpcTypeOK, TypeOK, CallRecords
<1>b. RpcTypeOK /\ StreamTyped /\ CallOfStream /\ HandlersOwned
  BY DEF RpcInv
<1>1. ASSUME NEW p \in Starters,
             SrvStartBegin(p) \/ SrvStartSetup(p) \/ SrvStartReturns(p)
      PROVE  DeliveryInv'
  BY <1>1, QuietStep DEF SrvStartBegin, SrvStartSetup, SrvStartReturns
<1>2. ASSUME NEW p \in Starters, SrvStartMessenger(p) PROVE DeliveryInv'
  <2>1. CASE StartBegin(p)
    BY <1>2, <2>1, QuietStep DEF SrvStartMessenger, StartBegin
  <2>2. CASE StartRouter(p) \/ StartSpawn(p)
    <3>1. startPc[p] \in {"router", "spawn"}
      BY <2>2 DEF StartRouter, StartSpawn
    <3>2. loopPc = "off"
      BY <3>1 DEF RpcInv, IndInv, OneStart, Running, LoopCounted
    <3>3. loopPc' \in {"off", "subscribe"}
      BY <2>2, <3>2 DEF StartRouter, StartSpawn
    <3> QED BY <1>2, <2>2, <3>2, <3>3, QuietStep
            DEF SrvStartMessenger, StartRouter, StartSpawn
  <2> QED BY <1>2, <2>1, <2>2 DEF SrvStartMessenger
<1>3. ASSUME NEW p \in Stoppers,
             SrvStopBegin(p) \/ SrvStopCheck(p) \/ SrvStopMessenger(p)
      PROVE  DeliveryInv'
  <2>1. /\ UNCHANGED <<sub, call, handlers, incoming, sending, sent, seen,
                       expected, aborted, ctxDone, loopPc, req, packet, rest>>
        /\ srvQuit => srvQuit'
        /\ router' = "up" => router = "up"
    BY <1>3 DEF SrvStopBegin, SrvStopCheck, SrvStopMessenger, StopBegin,
       StopWait, StopRouter
  <2> QED BY <2>1, QuietStep
<1>4. ASSUME NEW s \in Callers, ClientCancels(s) PROVE DeliveryInv'
  BY <1>a, <1>4, QuietStep DEF ClientCancels
<1>5. ASSUME NEW s \in Callers, NEW t \in TlvTypes, Subscribe(s, t)
      PROVE  DeliveryInv'
  <2>1. Unused(s)
    BY <1>5 DEF Subscribe, DeliveryInv, FreshStreams
  <2>2. sub[s] = "idle" /\ sub'[s] = "ready"
    BY <1>a, <1>5 DEF Subscribe
  <2> QED BY <1>a, <1>5, <2>1, <2>2, StreamMoves DEF Subscribe
<1>6. ASSUME NEW s \in Callers, StreamRejected(s) PROVE DeliveryInv'
  <2>1. sub[s] = "ready" /\ sub'[s] = "closed"
        /\ \A r \in Callers : ctxDone[r] => ctxDone'[r]
    BY <1>a, <1>6 DEF StreamRejected, StreamReturns
  <2> QED BY <1>a, <1>6, <2>1, StreamMoves DEF StreamRejected, StreamReturns
<1>7. ASSUME NEW s \in Callers, StreamRegister(s) PROVE DeliveryInv'
  <2>1. Unused(s) /\ expected[s] = {}
    BY <1>7 DEF StreamRegister, DeliveryInv, FreshStreams, Unused
  <2>2. sub[s] = "ready" /\ sub'[s] = "register"
        /\ call' = [call EXCEPT ![s] = call'[s]]
    BY <1>a, <1>7 DEF StreamRegister, Call
  <2> QED BY <1>a, <1>7, <2>1, <2>2, StreamMoves DEF StreamRegister, Call
<1>8. ASSUME NEW s \in Callers, StreamRegistered(s) PROVE DeliveryInv'
  <2>1. /\ call' = [call EXCEPT ![s] = call'[s]]
        /\ UNCHANGED <<startStop, wg, loop, handlers>>
    BY <1>a, <1>8, CallEnded DEF StreamRegistered
  <2>2. sub[s] = "register" /\ sub'[s] \in {"recv", "closed"}
        /\ sub' = [sub EXCEPT ![s] = sub'[s]]
        /\ \A r \in Callers : ctxDone[r] => ctxDone'[r]
    BY <1>a, <1>8 DEF StreamRegistered, StreamReturns
  <2> QED BY <1>a, <1>8, <2>1, <2>2, StreamMoves DEF StreamRegistered
<1>9. ASSUME NEW s \in Callers, StreamStops(s) PROVE DeliveryInv'
  <2>1. sub[s] = "recv" /\ sub'[s] = "deregister"
        /\ call' = [call EXCEPT ![s] = call'[s]]
    BY <1>a, <1>9 DEF StreamStops, StreamLeaves, Call
  <2> QED BY <1>a, <1>9, <2>1, StreamMoves DEF StreamStops, StreamLeaves, Call
<1>10. ASSUME NEW s \in Callers, StreamDeregistered(s) PROVE DeliveryInv'
  <2>1. /\ call' = [call EXCEPT ![s] = call'[s]]
        /\ UNCHANGED <<startStop, wg, loop, handlers>>
    BY <1>a, <1>10, CallEnded DEF StreamDeregistered
  <2>2. sub[s] = "deregister" /\ sub'[s] = "closed"
        /\ sub' = [sub EXCEPT ![s] = sub'[s]]
        /\ \A r \in Callers : ctxDone[r] => ctxDone'[r]
    BY <1>a, <1>10 DEF StreamDeregistered, StreamReturns
  <2> QED BY <1>a, <1>10, <2>1, <2>2, StreamMoves DEF StreamDeregistered
<1>11. ASSUME NEW s \in Callers,
              StreamReceive(s) \/ StreamSend(s) \/ StreamSendFails(s)
       PROVE  DeliveryInv'
  BY <1>11, PayloadMoves
<1>12. ASSUME NEW s \in Callers, LoopReceives(s) PROVE DeliveryInv'
  BY <1>12, RequestKept
<1>13. ASSUME NEW m \in Messages, LoopMessageArrives(m) PROVE DeliveryInv'
  BY <1>13, MessageKept
<1>14. CASE HandlerAccepts
  BY <1>14, AcceptKept
<1>15. CASE HandlerFails
  BY <1>15, LoopKept
<1>16. CASE LoopInternal
  <2>1. CASE LoopRegister
    BY <1>16, <2>1, RequestKept DEF LoopInternal
  <2>2. CASE ProcessPacket \/ PayloadUnhandled
    BY <1>16, <2>2, LoopKept DEF LoopInternal
  <2>3. CASE LoopSubscribe \/ ForwardReturns \/ LoopEnd
    <3>1. /\ UNCHANGED <<sub, call, handlers, incoming, sending, sent, seen,
                         expected, aborted, srvQuit, ctxDone>>
          /\ loopPc \notin {"process", "dispatch"}
          /\ loopPc' \notin {"register", "process", "dispatch"}
      BY <1>16, <2>3 DEF LoopInternal, LoopSubscribe, ForwardReturns, LoopEnd,
         LoopGoto, MessageDone
    <3> QED BY <3>1, QuietStep
  <2> QED BY <1>16, <2>1, <2>2, <2>3 DEF LoopInternal
<1>17. CASE LoopQuits \/ LoopLosesLnd
  <2>1. /\ UNCHANGED <<sub, call, handlers, incoming, sending, sent, seen,
                       expected, aborted, srvQuit, ctxDone>>
        /\ loopPc = "select" /\ loopPc' = "exit"
    BY <1>17 DEF LoopQuits, LoopLosesLnd, LoopQuit, LoopStreamEnds, LoopGoto
  <2> QED BY <2>1, QuietStep
<1>18. CASE UNCHANGED rpcVars
  BY <1>18, QuietStep DEF rpcVars
<1> QED
  BY <1>1, <1>2, <1>3, <1>4, <1>5, <1>6, <1>7, <1>8, <1>9, <1>10, <1>11,
     <1>12, <1>13, <1>14, <1>15, <1>16, <1>17, <1>18 DEF RpcNext, StreamStep

\* The inductive invariant of the delivery holds in every reachable state.
THEOREM DeliveryInvariance == RpcSpec => []DeliveryInv
<1>1. RpcInit => DeliveryInv
  <2> SUFFICES ASSUME RpcInit PROVE DeliveryInv
    OBVIOUS
  <2>1. \A s \in Callers : Delivered(s) = <<>>
    <3>1. <<>> \in Seq(MessageNumbers)
      OBVIOUS
    <3> QED BY <3>1, ConcatEmptySeq DEF RpcInit, Delivered
  <2>2. DOMAIN <<>> = {}
    OBVIOUS
  <2>3. InOrder
    BY <2>1, <2>2 DEF InOrder
  <2>4. SendingFits /\ FreshStreams /\ ExpectedSeen
    BY DEF RpcInit, Init, SendingFits, FreshStreams, Unused, ExpectedSeen
  <2>5. CurrentMessage /\ NothingLost
    BY DEF RpcInit, Init, CurrentMessage, NothingLost
  <2> QED BY <2>3, <2>4, <2>5 DEF DeliveryInv
<1> QED
  BY <1>1, DeliveryKept, RpcInvariance, PTL DEF RpcSpec

\* A client is sent the payloads of its type in the order of their arrival, none
\* twice, and none that arrived while it was not registered.
THEOREM DeliveredInOrder == RpcSpec => []InOrder
<1>1. DeliveryInv => InOrder
  BY DEF DeliveryInv
<1> QED
  BY <1>1, DeliveryInvariance, PTL

\* No payload is lost on the way to a stream that goes on, unless the handler
\* of another stream ended its message with an error.
THEOREM NothingIsLost == RpcSpec => []NoLoss
<1>1. DeliveryInv => NoLoss
  <2> SUFFICES ASSUME DeliveryInv, NEW s \in Callers, Undisturbed(s),
                      NEW n \in expected[s], n \notin aborted \cup InFlight
               PROVE  n \in Got(s)
    BY DEF NoLoss
  <2>1. n \in aborted \/ n \in Got(s) \/ (n = seen /\ Pending(s))
    BY DEF DeliveryInv, NothingLost, Undisturbed, Subscribed
  <2> QED BY <2>1 DEF Pending, InFlight
<1> QED
  BY <1>1, DeliveryInvariance, PTL

-----------------------------------------------------------------------------
(***************************************************************************)
(* The refinement of PayloadBus.                                           *)
(***************************************************************************)


\* The payload being sent is the first that waits, and the channel the rest.
LEMMA WaitingSteps ==
    ASSUME NEW S, NEW c \in Seq(S), NEW b \in Seq(S)
    PROVE  /\ <<>> \o c = c
           /\ c # <<>> => <<Head(c)>> \o Tail(c) = c
           /\ Len(b) = 1 => /\ b \o c # <<>> /\ Tail(b \o c) = c
                            /\ \A a \in Seq(S) : a \o b = Append(a, Head(b \o c))
<1>1. <<>> \o c = c
  BY ConcatEmptySeq
<1>2. ASSUME c # <<>> PROVE <<Head(c)>> \o Tail(c) = c
  <2>1. /\ Head(c) \in S /\ Tail(c) \in Seq(S) /\ <<Head(c)>> \in Seq(S)
        /\ Len(Tail(c)) = Len(c) - 1 /\ Len(<<Head(c)>>) = 1
    BY <1>2, HeadTailProperties
  <2>2. Len(<<Head(c)>> \o Tail(c)) = Len(c)
    BY <2>1
  <2>3. \A i \in 1..Len(c) : c[i] = (<<Head(c)>> \o Tail(c))[i]
    BY <1>2, <2>1
  <2>4. <<Head(c)>> \o Tail(c) \in Seq(S)
    BY <2>1
  <2> QED BY <2>2, <2>3, <2>4, SeqEqual
<1>3. ASSUME Len(b) = 1
      PROVE  /\ b \o c # <<>> /\ Tail(b \o c) = c
             /\ \A a \in Seq(S) : a \o b = Append(a, Head(b \o c))
  <2>1. /\ b \o c \in Seq(S) /\ Len(b \o c) = 1 + Len(c) /\ Len(c) \in Nat
        /\ \A i \in 1..(1 + Len(c)) :
              (b \o c)[i] = IF i <= 1 THEN b[i] ELSE c[i - 1]
    <3>1. /\ b \o c \in Seq(S) /\ Len(b \o c) = Len(b) + Len(c)
          /\ \A i \in 1..(Len(b) + Len(c)) :
                (b \o c)[i] = IF i <= Len(b) THEN b[i] ELSE c[i - Len(b)]
      BY ConcatProperties
    <3> QED BY <1>3, <3>1, LenProperties
  <2>2. b \o c # <<>>
    BY <2>1, EmptySeq
  <2>3. Tail(b \o c) = c
    <3> DEFINE d == b \o c
    <3>1. /\ d \in Seq(S) /\ d # <<>> /\ Len(d) = 1 + Len(c)
          /\ \A i \in 1..(1 + Len(c)) : d[i] = IF i <= 1 THEN b[i] ELSE c[i - 1]
      BY <2>1, <2>2
    <3> HIDE DEF d
    <3>2. /\ Tail(d) \in Seq(S) /\ Len(Tail(d)) = Len(c)
          /\ \A i \in 1..Len(c) : Tail(d)[i] = d[i + 1]
      BY <2>1, <3>1, HeadTailProperties
    <3>3. \A i \in 1..Len(c) : Tail(d)[i] = c[i]
      BY <2>1, <3>1, <3>2
    <3>4. Tail(d) = c
      BY <3>2, <3>3, SeqEqual
    <3> QED BY <3>4 DEF d
  <2>4. Head(b \o c) = b[1]
    BY <2>1, <2>2
  <2>5. ASSUME NEW a \in Seq(S) PROVE a \o b = Append(a, b[1])
    <3>1. b[1] \in S /\ b = <<b[1]>>
      <4>1. b[1] \in S
        <5>1. 1 \in 1..Len(b)
          BY <1>3
        <5> QED BY <5>1, ElementOfSeq
      <4>2. <<b[1]>> \in Seq(S) /\ Len(<<b[1]>>) = 1 /\ <<b[1]>>[1] = b[1]
        BY <4>1
      <4> QED BY <1>3, <4>1, <4>2, SeqEqual
    <3>2. Append(a, b[1]) = a \o <<b[1]>>
      BY <3>1, AppendIsConcat
    <3> QED BY <3>1, <3>2
  <2> QED BY <2>2, <2>3, <2>4, <2>5
<1> QED BY <1>1, <1>2, <1>3

\* A payload that enters the channel is the last that waits.
LEMMA WaitingAppended ==
    ASSUME NEW S, NEW b \in Seq(S), NEW c \in Seq(S), NEW e \in S
    PROVE  b \o Append(c, e) = Append(b \o c, e)
<1>1. Append(c, e) = c \o <<e>> /\ b \o c \in Seq(S) /\ <<e>> \in Seq(S)
  BY AppendIsConcat, ConcatProperties
<1>2. Append(b \o c, e) = (b \o c) \o <<e>>
  BY <1>1, AppendIsConcat
<1> QED BY <1>1, <1>2, ConcatAssociative

\* The same for the numbers of the messages, with what was sent before.
LEMMA NumbersAppended ==
    /\ \A b, c \in Seq(MessageNumbers), e \in MessageNumbers :
          b \o Append(c, e) = Append(b \o c, e)
    /\ \A a, b, c \in Seq(MessageNumbers) : (a \o b) \o c = a \o (b \o c)
<1>1. ASSUME NEW b \in Seq(MessageNumbers), NEW c \in Seq(MessageNumbers),
             NEW e \in MessageNumbers
      PROVE  b \o Append(c, e) = Append(b \o c, e)
  BY WaitingAppended
<1>2. ASSUME NEW a \in Seq(MessageNumbers), NEW b \in Seq(MessageNumbers),
             NEW c \in Seq(MessageNumbers)
      PROVE  (a \o b) \o c = a \o (b \o c)
  BY ConcatAssociative
<1> QED BY <1>1, <1>2

\* A channel with room leaves room on the bus, whether or not a payload is being
\* sent.
LEMMA RoomLeft ==
    ASSUME NEW a \in Nat, NEW b \in Nat, NEW i \in Nat, b < i, a <= 1
    PROVE  a + b < i + 1
  OBVIOUS

\* Every step of the server is a step of the bus, or none.
LEMMA BusStep ==
    RpcInv /\ DeliveryInv /\ [RpcNext]_rpcVars => [Bus!BusNext]_(Bus!busVars)
<1> SUFFICES ASSUME RpcInv, DeliveryInv, [RpcNext]_rpcVars
             PROVE  [Bus!BusNext]_(Bus!busVars)
  OBVIOUS
<1> USE DEF server, streams, history, startStop, loop, vars
<1> DEFINE W == [s \in Callers |-> sending[s] \o incoming[s]]
<1>a. /\ incoming \in [Callers -> Seq(MessageNumbers)]
      /\ sending \in [Callers -> Seq(MessageNumbers)]
      /\ sent \in [Callers -> Seq(MessageNumbers)]
      /\ handlers \in [TlvTypes -> Callers \cup {NoHandler}]
  BY DEF RpcInv, RpcTypeOK, TypeOK
<1>c. \A s \in Callers : W[s] = sending[s] \o incoming[s]
  OBVIOUS
<1>b. ASSUME UNCHANGED <<handlers, incoming, sending, sent, seen>>
      PROVE  [Bus!BusNext]_(Bus!busVars)
  BY <1>b DEF Bus!busVars
<1>1. ASSUME NEW p \in Starters,
             \/ SrvStartBegin(p) \/ SrvStartSetup(p)
             \/ SrvStartMessenger(p) \/ SrvStartReturns(p)
      PROVE  [Bus!BusNext]_(Bus!busVars)
  BY <1>b, <1>1 DEF SrvStartBegin, SrvStartSetup, SrvStartMessenger,
     SrvStartReturns, StartBegin, StartRouter, StartSpawn
<1>2. ASSUME NEW p \in Stoppers,
             SrvStopBegin(p) \/ SrvStopCheck(p) \/ SrvStopMessenger(p)
      PROVE  [Bus!BusNext]_(Bus!busVars)
  BY <1>b, <1>2 DEF SrvStopBegin, SrvStopCheck, SrvStopMessenger, StopBegin,
     StopWait, StopRouter
<1>3. ASSUME NEW s \in Callers,
             \/ \E t \in TlvTypes : Subscribe(s, t)
             \/ ClientCancels(s) \/ StreamRejected(s) \/ StreamRegister(s)
             \/ StreamRegistered(s) \/ StreamStops(s) \/ StreamDeregistered(s)
             \/ LoopReceives(s)
      PROVE  [Bus!BusNext]_(Bus!busVars)
  BY <1>b, <1>3 DEF Subscribe, ClientCancels, StreamRejected, StreamRegister,
     StreamRegistered, StreamStops, StreamDeregistered, StreamLeaves, Call,
     CallEnds, CallQuit, CallReturn, LoopReceives, LoopReceive
<1>4. ASSUME NEW s \in Callers, StreamReceive(s)
      PROVE  [Bus!BusNext]_(Bus!busVars)
  <2>1. /\ sending[s] = <<>> /\ incoming[s] # <<>>
        /\ sending' = [sending EXCEPT ![s] = <<Head(incoming[s])>>]
        /\ incoming' = [incoming EXCEPT ![s] = Tail(incoming[s])]
        /\ UNCHANGED <<handlers, sent, seen>>
    BY <1>4 DEF StreamReceive, DeliveryInv, SendingFits
  <2>2. sending'[s] \o incoming'[s] = sending[s] \o incoming[s]
    <3>1. incoming[s] \in Seq(MessageNumbers)
      BY <1>a
    <3>2. <<Head(incoming[s])>> \o Tail(incoming[s]) = incoming[s]
      BY <2>1, <3>1, WaitingSteps
    <3>3. <<>> \o incoming[s] = incoming[s]
      BY <3>1, ConcatEmptySeq
    <3> QED BY <1>a, <2>1, <3>2, <3>3
  <2>3. \A r \in Callers : sending'[r] \o incoming'[r] = sending[r] \o incoming[r]
    BY <1>a, <2>1, <2>2
  <2> QED BY <2>1, <2>3 DEF Bus!busVars
<1>5. ASSUME NEW s \in Callers, StreamSend(s) \/ StreamSendFails(s)
      PROVE  [Bus!BusNext]_(Bus!busVars)
  <2>1. /\ sending[s] \in Seq(MessageNumbers) /\ Len(sending[s]) = 1
        /\ incoming[s] \in Seq(MessageNumbers) /\ sent[s] \in Seq(MessageNumbers)
    BY <1>a, <1>5 DEF StreamSend, StreamSendFails, DeliveryInv, SendingFits
  <2>3. /\ W[s] # <<>> /\ Tail(W[s]) = incoming[s]
        /\ sent[s] \o sending[s] = Append(sent[s], Head(W[s]))
        /\ <<>> \o incoming[s] = incoming[s]
    <3> HIDE DEF W
    <3>1. /\ sending[s] \o incoming[s] # <<>>
          /\ Tail(sending[s] \o incoming[s]) = incoming[s]
          /\ \A a \in Seq(MessageNumbers) :
                a \o sending[s] = Append(a, Head(sending[s] \o incoming[s]))
          /\ <<>> \o incoming[s] = incoming[s]
      BY <2>1, WaitingSteps
    <3> QED BY <1>c, <2>1, <3>1
  <2>4. /\ sending' = [sending EXCEPT ![s] = <<>>]
        /\ UNCHANGED <<handlers, incoming, seen>>
    BY <1>5 DEF StreamSend, StreamSendFails, StreamLeaves, Call
  <2>5. W' = [W EXCEPT ![s] = Tail(W[s])]
    BY <1>a, <2>3, <2>4
  <2>6. CASE StreamSend(s)
    <3>1. sent' = [sent EXCEPT ![s] = Append(sent[s], Head(W[s]))]
      BY <2>3, <2>6 DEF StreamSend
    <3>2. Bus!Take(s)
      BY <2>3, <2>4, <2>5, <3>1 DEF Bus!Take
    <3> QED BY <3>2 DEF Bus!BusNext
  <2>7. CASE StreamSendFails(s)
    <3>1. sent' = sent
      BY <2>7 DEF StreamSendFails
    <3>2. Bus!Lose(s)
      BY <2>3, <2>4, <2>5, <3>1 DEF Bus!Lose
    <3> QED BY <3>2 DEF Bus!BusNext
  <2> QED BY <1>5, <2>6, <2>7
<1>6. ASSUME NEW m \in Messages, LoopMessageArrives(m)
      PROVE  [Bus!BusNext]_(Bus!busVars)
  <2>1. Bus!Arrive
    BY <1>6 DEF LoopMessageArrives, LoopMessage, Bus!Arrive
  <2> QED BY <2>1 DEF Bus!BusNext
<1>7. CASE HandlerAccepts
  <2>1. /\ rest \in Seq(TlvTypes) /\ rest # <<>> /\ loopPc = "dispatch"
        /\ handlers[Head(rest)] # NoHandler
    BY <1>7 DEF HandlerAccepts, HandlerReturns, RpcInv, IndInv, LoopLocals,
       TypeOK
  <2>2. 1 \in DOMAIN rest /\ Head(rest) = rest[1] /\ Head(rest) \in TlvTypes
    BY <2>1
  <2>3. PICK o \in Callers : handlers[Head(rest)] = o
    BY <1>a, <2>1, <2>2
  <2>4. /\ incoming' = [incoming EXCEPT ![o] = Append(incoming[o], seen)]
        /\ Len(incoming[o]) < IncomingSize
        /\ UNCHANGED <<handlers, sending, sent, seen>>
    BY <1>7, <2>3 DEF HandlerAccepts, HandlerReturns, Owner
  <2>5. seen \in expected[o]
        /\ \A j \in DOMAIN Delivered(o) : Delivered(o)[j] < seen
    BY <2>1, <2>2, <2>3 DEF DeliveryInv, CurrentMessage
  <2>6. seen \in MessageNumbers
    BY <2>5 DEF RpcInv, RpcTypeOK
  <2>7. /\ sending[o] \in Seq(MessageNumbers) /\ incoming[o] \in Seq(MessageNumbers)
        /\ sent[o] \in Seq(MessageNumbers) /\ Len(sending[o]) <= 1
    BY <1>a DEF RpcInv, RpcTypeOK
  <2>8. /\ sending[o] \o Append(incoming[o], seen) = Append(W[o], seen)
        /\ Len(W[o]) = Len(sending[o]) + Len(incoming[o])
    <3> HIDE DEF W
    <3>1. sending[o] \o Append(incoming[o], seen)
             = Append(sending[o] \o incoming[o], seen)
      BY <2>6, <2>7, NumbersAppended, Zenon
    <3>2. Len(sending[o] \o incoming[o]) = Len(sending[o]) + Len(incoming[o])
      BY <2>7, ConcatProperties, Zenon
    <3> QED BY <1>c, <3>1, <3>2, Zenon
  <2>9. W' = [W EXCEPT ![o] = Append(W[o], seen)]
    BY <1>a, <2>4, <2>8
  <2>10. Len(W[o]) < IncomingSize + 1
    <3>1. /\ Len(sending[o]) \in Nat /\ Len(incoming[o]) \in Nat
          /\ IncomingSize \in Nat
      BY <2>7, RpcAssumption
    <3>2. Len(incoming[o]) < IncomingSize /\ Len(sending[o]) <= 1
      BY <2>4, <2>7
    <3>3. Len(sending[o]) + Len(incoming[o]) < IncomingSize + 1
      BY <3>1, <3>2, RoomLeft, Zenon
    <3> HIDE DEF W
    <3> QED BY <2>8, <3>3, Zenon
  <2>11. sent[o] \o W[o] = Delivered(o)
    <3> HIDE DEF W
    <3>1. (sent[o] \o sending[o]) \o incoming[o]
             = sent[o] \o (sending[o] \o incoming[o])
      BY <2>7, NumbersAppended, Zenon
    <3> QED BY <1>c, <3>1, Zenon DEF Delivered
  <2>12. Bus!Owns(o)
    BY <2>2, <2>3 DEF Bus!Owns
  <2>13. Bus!Put(o)
    BY <2>4, <2>5, <2>9, <2>10, <2>11, <2>12 DEF Bus!Put
  <2> QED BY <2>13 DEF Bus!BusNext
<1>8. CASE HandlerFails
  BY <1>b, <1>8 DEF HandlerFails, HandlerReturns
<1>9. CASE LoopInternal /\ LoopRegister
  <2>1. PICK resp \in Responses : registerHandler(req, resp)
    BY <1>9 DEF LoopRegister
  <2>2. /\ UNCHANGED <<incoming, sending, sent, seen>> /\ loopPc = "register"
        /\ req.from \in Callers /\ req.tlv \in TlvTypes
    BY <1>9 DEF LoopInternal, LoopRegister, LoopGoto, RpcInv, IndInv, LoopLocals
  <2>3. PICK t \in TlvTypes : t = req.tlv
    BY <2>2
  <2>4. PICK s \in Callers : s = req.from
    BY <2>2
  <2>5. CASE handlers' = handlers
    BY <1>b, <2>2, <2>5
  <2>6. CASE /\ handlers[t] # NoHandler
             /\ handlers' = [handlers EXCEPT ![t] = NoHandler]
    <3>1. Bus!Close(t)
      BY <2>2, <2>6 DEF Bus!Close
    <3> QED BY <3>1 DEF Bus!BusNext
  <2>7. CASE /\ req.op = "register" /\ handlers[t] = NoHandler
             /\ handlers' = [handlers EXCEPT ![t] = s]
    <3>1. sent[s] = <<>> /\ sending[s] = <<>> /\ incoming[s] = <<>>
      BY <2>2, <2>4, <2>7 DEF DeliveryInv, FreshStreams, Unused
    <3>2. W[s] = <<>>
      <4>1. <<>> \in Seq(MessageNumbers)
        OBVIOUS
      <4> QED BY <3>1, <4>1, ConcatEmptySeq
    <3>3. ~Bus!Owns(s)
      BY <2>2, <2>3, <2>4, <2>7, ConstantsAssumption
      DEF Bus!Owns, RpcInv, HandlersOwned, RequestOfStream
    <3>4. Bus!Open(s, t)
      BY <2>2, <2>7, <3>1, <3>2, <3>3 DEF Bus!Open
    <3> QED BY <3>4 DEF Bus!BusNext
  <2> QED BY <2>1, <2>3, <2>4, <2>5, <2>6, <2>7 DEF registerHandler
<1>10. CASE (LoopInternal /\ ~LoopRegister) \/ LoopQuits \/ LoopLosesLnd
  BY <1>b, <1>10 DEF LoopInternal, LoopQuits, LoopLosesLnd, LoopSubscribe,
     ProcessPacket, PayloadUnhandled, ForwardReturns, LoopEnd, LoopQuit,
     LoopStreamEnds
<1>11. CASE UNCHANGED rpcVars
  BY <1>b, <1>11 DEF rpcVars
<1> QED
  BY <1>1, <1>2, <1>3, <1>4, <1>5, <1>6, <1>7, <1>8, <1>9, <1>10, <1>11
  DEF RpcNext, StreamStep

\* The streams, their handlers and the event loop implement PayloadBus, for every
\* number of streams and messages and every size of the channel.
THEOREM ServerImplementsBus == RpcSpec => ImplementsBus
<1>1. RpcInit => Bus!BusInit
  <2> SUFFICES ASSUME RpcInit PROVE Bus!BusInit
    OBVIOUS
  <2>1. <<>> \o <<>> = <<>>
    <3>1. <<>> \in Seq(MessageNumbers)
      OBVIOUS
    <3> QED BY <3>1, ConcatEmptySeq
  <2>2. [s \in Callers |-> sending[s] \o incoming[s]] = [s \in Callers |-> <<>>]
    BY <2>1 DEF RpcInit
  <2> QED BY <2>2 DEF RpcInit, Init, Bus!BusInit
<1> QED
  BY <1>1, BusStep, RpcInvariance, DeliveryInvariance, PTL
  DEF RpcSpec, ImplementsBus, Bus!BusSpec
=============================================================================
