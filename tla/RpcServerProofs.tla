--------------------------- MODULE RpcServerProofs ---------------------------
(***************************************************************************)
(* Proofs about RpcServer, for any number of streams, calls, types and     *)
(* messages: what the streams and the messenger know of each other. What   *)
(* the streams are sent is in RpcDeliveryProofs.                           *)
(***************************************************************************)
EXTENDS RpcServer, MessengerProofs

\* A stream has a type that the messenger will accept once it has passed the
\* checks of the rpc, and passes them only while there is a messenger.
StreamTyped ==
    /\ ready => started = 1
    /\ loopPc \in {"process", "dispatch"} => seen >= 1
    /\ \A s \in Callers :
          /\ sub[s] # "idle" => subTlv[s] \in TlvTypes
          /\ sub[s] \in {"register", "recv", "send", "deregister"} =>
                ready /\ ValidateFinalPayload(subTlv[s])

\* A stream has a call under way exactly while it is registering or
\* deregistering, and the call is about its type.
CallOfStream ==
    \A s \in Callers :
        /\ sub[s] \in {"idle", "ready"} => call[s].st = "idle"
        /\ sub[s] \in {"recv", "send", "closed"} =>
              call[s].st \in {"idle", "returned"}
        /\ sub[s] \in {"register", "deregister"} =>
              /\ call[s].st \in {"deliver", "wait"}
              /\ call[s].op = sub[s] /\ call[s].tlv = subTlv[s]

\* A handler is one of a stream of its type. A registering stream owns the type
\* from the moment the loop says so, and owns it until the loop has answered
\* its deregistration: no other stream can clear it.
HandlersOwned ==
    \A s \in Callers :
        /\ \A t \in TlvTypes : handlers[t] = s =>
              /\ subTlv[s] = t /\ sub[s] \notin {"idle", "ready"}
              /\ sub[s] = "closed" => quit
        /\ sub[s] = "register" =>
              (call[s].resp = "ok" <=> handlers[subTlv[s]] = s)
        /\ sub[s] \in {"recv", "send"} => handlers[subTlv[s]] = s
        /\ sub[s] = "deregister" =>
              (call[s].resp = "none" <=> handlers[subTlv[s]] = s)

\* The request the loop is serving comes from a stream that waits for it, or
\* that has gone because of the shutdown; it clears only its own handler.
RequestOfStream ==
    loopPc = "register" =>
        /\ req.tlv = subTlv[req.from]
        /\ \/ /\ sub[req.from] = req.op
              /\ call[req.from].st = "wait" /\ call[req.from].resp = "none"
           \/ sub[req.from] = "closed" /\ quit
        /\ req.op = "deregister" <=> handlers[req.tlv] = req.from

\* Server.Stop has closed its quit before it calls Messenger.Stop, and has
\* called it or not at all when it returns.
SrvStopOrder ==
    \A p \in Stoppers :
        /\ srvStop[p] # "idle" => srvQuit
        /\ srvStop[p] \in {"idle", "check", "rejected"} => stopPc[p] = "idle"
        /\ srvStop[p] = "done" => stopPc[p] \in {"idle", "done"}

\* The inductive invariant: the messenger's own, and what ties a stream to its
\* call, its request and its handler.
RpcInv ==
    /\ IndInv
    /\ RpcTypeOK
    /\ StreamTyped
    /\ CallOfStream
    /\ HandlersOwned
    /\ RequestOfStream
    /\ SrvStopOrder

-----------------------------------------------------------------------------

\* Every step of the server and its streams is a step of the messenger or leaves
\* it alone: the calls they make are calls the messenger allows.
LEMMA MessengerStep ==
    StreamTyped /\ [RpcNext]_rpcVars => [Next]_vars
<1> SUFFICES ASSUME StreamTyped, [RpcNext]_rpcVars PROVE [Next]_vars
  OBVIOUS
<1> USE DEF server, streams, history
<1>1. ASSUME NEW p \in Starters,
             \/ SrvStartBegin(p) \/ SrvStartSetup(p)
             \/ SrvStartMessenger(p) \/ SrvStartReturns(p)
      PROVE  [Next]_vars
  BY <1>1 DEF SrvStartBegin, SrvStartSetup, SrvStartMessenger,
     SrvStartReturns, Next
<1>2. ASSUME NEW p \in Stoppers,
             SrvStopBegin(p) \/ SrvStopCheck(p) \/ SrvStopMessenger(p)
      PROVE  [Next]_vars
  BY <1>2 DEF SrvStopBegin, SrvStopCheck, SrvStopMessenger, Next
<1>3. ASSUME NEW s \in Callers,
             \/ \E t \in TlvTypes : Subscribe(s, t)
             \/ ClientCancels(s) \/ StreamRejected(s) \/ StreamReceive(s)
             \/ StreamSend(s)
      PROVE  [Next]_vars
  BY <1>3 DEF Subscribe, ClientCancels, StreamRejected, StreamReceive,
     StreamSend
<1>4. ASSUME NEW s \in Callers,
             StreamRegister(s) \/ StreamStops(s) \/ StreamSendFails(s)
      PROVE  [Next]_vars
  <2>1. subTlv[s] \in TlvTypes
    BY <1>4 DEF StreamTyped, StreamRegister, StreamStops, StreamSendFails
  <2>2. Call(s, "register", subTlv[s]) \/ Call(s, "deregister", subTlv[s])
    BY <1>4 DEF StreamRegister, StreamStops, StreamSendFails, StreamLeaves
  <2>3. {"register", "deregister"} \subseteq Ops
    BY DEF Ops
  <2> QED BY <2>1, <2>2, <2>3 DEF Next
<1>5. ASSUME NEW s \in Callers, StreamRegistered(s) \/ StreamDeregistered(s)
      PROVE  [Next]_vars
  BY <1>5 DEF StreamRegistered, StreamDeregistered, CallEnds, Next
<1>6. ASSUME NEW s \in Callers, LoopReceives(s) PROVE [Next]_vars
  BY <1>6 DEF LoopReceives, Next, LoopStep
<1>7. ASSUME NEW m \in Messages, LoopMessageArrives(m) PROVE [Next]_vars
  BY <1>7 DEF LoopMessageArrives, Next, LoopStep
<1>8. CASE HandlerAccepts \/ HandlerFails
  BY <1>8 DEF HandlerAccepts, HandlerFails, Next, LoopStep
<1>9. CASE LoopInternal \/ LoopQuits \/ LoopLosesLnd
  BY <1>9 DEF LoopInternal, LoopQuits, LoopLosesLnd, Next, LoopStep
<1>10. CASE UNCHANGED rpcVars
  BY <1>10 DEF rpcVars
<1> QED
  BY <1>1, <1>2, <1>3, <1>4, <1>5, <1>6, <1>7, <1>8, <1>9, <1>10
  DEF RpcNext, StreamStep

\* The sequences that steps make of sequences of message numbers.
LEMMA SeqTypes ==
    ASSUME NEW S, NEW q \in Seq(S)
    PROVE  /\ <<>> \in Seq(S) /\ Len(<<>>) = 0
           /\ q # <<>> => /\ Tail(q) \in Seq(S) /\ Len(Tail(q)) <= Len(q)
                          /\ <<Head(q)>> \in Seq(S) /\ Len(<<Head(q)>>) = 1
           /\ \A r \in Seq(S) : q \o r \in Seq(S)
           /\ \A e \in S : /\ Append(q, e) \in Seq(S)
                           /\ Len(Append(q, e)) = Len(q) + 1
  OBVIOUS

\* The server and the streams keep their types while the messenger does.
LEMMA RpcTypesKept ==
    RpcInv /\ [RpcNext]_rpcVars /\ TypeOK' => RpcTypeOK'
<1> SUFFICES ASSUME RpcInv, [RpcNext]_rpcVars, TypeOK' PROVE RpcTypeOK'
  OBVIOUS
<1> USE DEF server, streams, history
<1>a. RpcTypeOK /\ StreamTyped
  BY DEF RpcInv
<1>1. ASSUME NEW p \in Starters,
             SrvStartBegin(p) \/ SrvStartSetup(p) \/ SrvStartReturns(p)
      PROVE  RpcTypeOK'
  BY <1>a, <1>1 DEF SrvStartBegin, SrvStartSetup, SrvStartReturns, RpcTypeOK
<1>2. ASSUME NEW p \in Starters, SrvStartMessenger(p) PROVE RpcTypeOK'
  BY <1>a, <1>2 DEF SrvStartMessenger, RpcTypeOK
<1>3. ASSUME NEW p \in Stoppers,
             SrvStopBegin(p) \/ SrvStopCheck(p) \/ SrvStopMessenger(p)
      PROVE  RpcTypeOK'
  BY <1>a, <1>3 DEF SrvStopBegin, SrvStopCheck, SrvStopMessenger, RpcTypeOK
<1>4. ASSUME NEW s \in Callers, NEW t \in TlvTypes, Subscribe(s, t)
      PROVE  RpcTypeOK'
  BY <1>a, <1>4 DEF Subscribe, RpcTypeOK, SubStates
<1>5. ASSUME NEW s \in Callers, ClientCancels(s) PROVE RpcTypeOK'
  BY <1>a, <1>5 DEF ClientCancels, RpcTypeOK
<1>6. ASSUME NEW s \in Callers,
             \/ StreamRejected(s) \/ StreamRegister(s) \/ StreamRegistered(s)
             \/ StreamStops(s) \/ StreamDeregistered(s)
      PROVE  RpcTypeOK'
  BY <1>a, <1>6 DEF StreamRejected, StreamRegister, StreamRegistered,
     StreamStops, StreamLeaves, StreamDeregistered, StreamReturns, RpcTypeOK,
     SubStates
<1>7. ASSUME NEW s \in Callers, StreamReceive(s) PROVE RpcTypeOK'
  <2>1. /\ sending' \in [Callers -> Seq(MessageNumbers)]
        /\ incoming' \in [Callers -> Seq(MessageNumbers)]
        /\ sub' \in [Callers -> SubStates]
    BY <1>a, <1>7, SeqTypes DEF StreamReceive, RpcTypeOK, SubStates
  <2>2. ASSUME NEW r \in Callers
        PROVE  Len(incoming'[r]) <= IncomingSize /\ Len(sending'[r]) <= 1
    <3>1. IncomingSize \in Nat /\ Len(incoming[r]) \in Nat
      BY <1>a, RpcAssumption DEF RpcTypeOK
    <3>2. CASE r = s
      BY <1>a, <1>7, <3>1, <3>2 DEF StreamReceive, RpcTypeOK
    <3>3. CASE r # s
      BY <1>a, <1>7, <3>3 DEF StreamReceive, RpcTypeOK
    <3> QED BY <3>2, <3>3
  <2> QED BY <1>a, <1>7, <2>1, <2>2 DEF StreamReceive, RpcTypeOK
<1>8. ASSUME NEW s \in Callers, StreamSend(s) PROVE RpcTypeOK'
  <2>1. /\ sending' \in [Callers -> Seq(MessageNumbers)]
        /\ sent' \in [Callers -> Seq(MessageNumbers)]
        /\ sub' \in [Callers -> SubStates]
    BY <1>a, <1>8 DEF StreamSend, RpcTypeOK, SubStates
  <2> QED BY <1>a, <1>8, <2>1 DEF StreamSend, RpcTypeOK
<1>9. ASSUME NEW s \in Callers, StreamSendFails(s) PROVE RpcTypeOK'
  BY <1>a, <1>9 DEF StreamSendFails, StreamLeaves, RpcTypeOK, SubStates
<1>10. ASSUME NEW s \in Callers, LoopReceives(s) PROVE RpcTypeOK'
  BY <1>a, <1>10 DEF LoopReceives, RpcTypeOK
<1>11. ASSUME NEW m \in Messages, LoopMessageArrives(m) PROVE RpcTypeOK'
  <2>1. seen \in Nat /\ seen + 1 \in 1..MaxMessages
    BY <1>a, <1>11, RpcAssumption DEF LoopMessageArrives, RpcTypeOK
  <2>2. seen' \in 0..MaxMessages
    BY <1>11, <2>1 DEF LoopMessageArrives
  <2>3. expected' \in [Callers -> SUBSET MessageNumbers]
    BY <1>a, <1>11, <2>1 DEF LoopMessageArrives, RpcTypeOK, MessageNumbers
  <2> QED BY <1>a, <1>11, <2>2, <2>3 DEF LoopMessageArrives, RpcTypeOK
<1>12. CASE HandlerAccepts
  <2>1. Owner \in Callers /\ seen \in MessageNumbers
    <3>1. loopPc = "dispatch" /\ rest # <<>> /\ handlers[Head(rest)] # NoHandler
      BY <1>12 DEF HandlerAccepts, HandlerReturns, RpcInv, IndInv, LoopLocals
    <3>2. Head(rest) \in TlvTypes
      BY <3>1, TailOfTypes DEF RpcInv, IndInv, TypeOK
    <3> QED BY <1>a, <3>1, <3>2
            DEF Owner, StreamTyped, RpcTypeOK, MessageNumbers, RpcInv, IndInv,
                TypeOK
  <2>2. /\ Append(incoming[Owner], seen) \in Seq(MessageNumbers)
        /\ Len(Append(incoming[Owner], seen)) = Len(incoming[Owner]) + 1
    BY <1>a, <2>1, SeqTypes DEF RpcTypeOK
  <2>3. incoming' = [incoming EXCEPT ![Owner] = Append(incoming[Owner], seen)]
    BY <1>12 DEF HandlerAccepts
  <2>4. incoming' \in [Callers -> Seq(MessageNumbers)]
    BY <1>a, <2>1, <2>2, <2>3 DEF RpcTypeOK
  <2>5. ASSUME NEW r \in Callers PROVE Len(incoming'[r]) <= IncomingSize
    <3>1. IncomingSize \in Nat /\ Len(incoming[Owner]) \in Nat
      BY <1>a, <2>1, RpcAssumption DEF RpcTypeOK
    <3>2. Len(incoming[Owner]) < IncomingSize
      BY <1>12 DEF HandlerAccepts
    <3> QED BY <1>a, <2>1, <2>2, <2>3, <3>1, <3>2 DEF RpcTypeOK
  <2> QED BY <1>a, <1>12, <2>4, <2>5 DEF HandlerAccepts, RpcTypeOK
<1>13. CASE HandlerFails
  <2>1. seen \in MessageNumbers
    BY <1>a, <1>13
    DEF HandlerFails, HandlerReturns, StreamTyped, RpcTypeOK, MessageNumbers
  <2> QED BY <1>a, <1>13, <2>1 DEF HandlerFails, RpcTypeOK
<1>14. CASE LoopInternal \/ LoopQuits \/ LoopLosesLnd
  BY <1>a, <1>14 DEF LoopInternal, LoopQuits, LoopLosesLnd, RpcTypeOK
<1>15. CASE UNCHANGED rpcVars
  BY <1>a, <1>15 DEF rpcVars, RpcTypeOK
<1> QED
  BY <1>1, <1>2, <1>3, <1>4, <1>5, <1>6, <1>7, <1>8, <1>9, <1>10, <1>11,
     <1>12, <1>13, <1>14, <1>15 DEF RpcNext, StreamStep

\* What ties the streams to the messenger.
Ties ==
    /\ StreamTyped
    /\ CallOfStream
    /\ HandlersOwned
    /\ RequestOfStream
    /\ SrvStopOrder

\* A call that ends returns its response, or the error of the shutdown.
LEMMA CallEnded ==
    ASSUME NEW s \in Callers, CallEnds(s),
           call \in [Callers -> CallRecords]
    PROVE  /\ call' = [call EXCEPT ![s] = call'[s]]
           /\ call'[s].st = "returned"
           /\ call'[s].op = call[s].op /\ call'[s].tlv = call[s].tlv
           /\ \/ quit /\ call'[s].resp = "shutdown"
              \/ call'[s].resp = call[s].resp /\ call[s].resp # "none"
           /\ UNCHANGED <<startStop, wg, loop, handlers>>
<1>1. call[s] \in CallRecords
  OBVIOUS
<1>2. CASE CallQuit(s)
  BY <1>1, <1>2 DEF CallQuit, CallRecords
<1>3. CASE CallReturn(s)
  BY <1>1, <1>3 DEF CallReturn, CallRecords
<1> QED BY <1>2, <1>3 DEF CallEnds

\* A call of a stream that has passed the checks of the rpc passes those of
\* handleRegistration, so that it is offered to the loop.
LEMMA CallBegun ==
    ASSUME NEW s \in Callers, NEW op \in Ops,
           Call(s, op, subTlv[s]), ValidateFinalPayload(subTlv[s]),
           started = 1, call \in [Callers -> CallRecords]
    PROVE  /\ call' = [call EXCEPT ![s] =
                          [st |-> "deliver", op |-> op, tlv |-> subTlv[s],
                           resp |-> "none"]]
           /\ UNCHANGED <<startStop, wg, loop, handlers>>
  BY DEF Call, CallOutcome

\* Every step of the server, the streams and the messenger keeps them tied.
LEMMA TiesKept ==
    RpcInv /\ [RpcNext]_rpcVars /\ IndInv' => Ties'
<1> SUFFICES ASSUME RpcInv, [RpcNext]_rpcVars, IndInv' PROVE Ties'
  OBVIOUS
<1> USE DEF server, streams, history, startStop, loop, vars, Ties
<1>a. /\ sub \in [Callers -> SubStates]
      /\ subTlv \in [Callers -> TlvTypes \cup {0}]
      /\ call \in [Callers -> CallRecords]
      /\ handlers \in [TlvTypes -> Callers \cup {NoHandler}]
      /\ srvStop \in [Stoppers -> {"idle", "check", "messenger", "done",
                                   "rejected"}]
      /\ stopPc \in [Stoppers -> {"idle", "wait", "router", "done",
                                  "rejected"}]
  BY DEF RpcInv, RpcTypeOK, TypeOK, CallRecords
<1>b. Ties /\ IndInv
  BY DEF RpcInv
<1>1. ASSUME NEW p \in Starters, SrvStartBegin(p) \/ SrvStartSetup(p)
      PROVE  Ties'
  BY <1>b, <1>1 DEF SrvStartBegin, SrvStartSetup, StreamTyped, CallOfStream,
     HandlersOwned, RequestOfStream, SrvStopOrder
<1>2. ASSUME NEW p \in Starters, SrvStartMessenger(p) PROVE Ties'
  <2>1. /\ UNCHANGED <<sub, subTlv, call, handlers, quit, req, srvStop,
                       stopPc, srvQuit, ready, seen>>
        /\ started' \in {1, started} /\ loopPc' \in {loopPc, "subscribe"}
    BY <1>2 DEF SrvStartMessenger, StartBegin, StartRouter, StartSpawn
  <2> QED BY <1>b, <2>1 DEF StreamTyped, CallOfStream, HandlersOwned,
             RequestOfStream, SrvStopOrder
<1>3. ASSUME NEW p \in Starters, SrvStartReturns(p) PROVE Ties'
  <2>1. ready' => started' = 1
    BY <1>b, <1>3 DEF SrvStartReturns, StreamTyped, IndInv, OneStart, TypeOK
  <2> QED BY <1>b, <1>3, <2>1 DEF SrvStartReturns, StreamTyped, CallOfStream,
             HandlersOwned, RequestOfStream, SrvStopOrder
<1>4. ASSUME NEW p \in Stoppers, SrvStopBegin(p) \/ SrvStopCheck(p)
      PROVE  Ties'
  <2>1. SrvStopOrder'
    BY <1>a, <1>b, <1>4 DEF SrvStopBegin, SrvStopCheck, SrvStopOrder
  <2> QED BY <1>b, <1>4, <2>1 DEF SrvStopBegin, SrvStopCheck, StreamTyped,
             CallOfStream, HandlersOwned, RequestOfStream
<1>5. ASSUME NEW p \in Stoppers, SrvStopMessenger(p) PROVE Ties'
  <2>1. /\ UNCHANGED <<sub, subTlv, call, handlers, req, srvQuit, ready, seen,
                       started, loopPc>>
        /\ quit => quit'
    BY <1>5 DEF SrvStopMessenger, StopBegin, StopWait, StopRouter
  <2>2. SrvStopOrder'
    BY <1>a, <1>b, <1>5
    DEF SrvStopMessenger, StopBegin, StopWait, StopRouter, SrvStopOrder
  <2> QED BY <1>b, <2>1, <2>2 DEF StreamTyped, CallOfStream, HandlersOwned,
             RequestOfStream
<1>6. ASSUME NEW s \in Callers, NEW t \in TlvTypes, Subscribe(s, t)
      PROVE  Ties'
  <2> USE DEF Subscribe
  <2>1. StreamTyped'
    BY <1>a, <1>b, <1>6 DEF StreamTyped
  <2>2. CallOfStream'
    BY <1>a, <1>b, <1>6 DEF CallOfStream
  <2>3. HandlersOwned'
    BY <1>a, <1>b, <1>6 DEF HandlersOwned
  <2>4. RequestOfStream'
    BY <1>a, <1>b, <1>6 DEF RequestOfStream, IndInv, LoopLocals, Ops
  <2> QED BY <1>b, <1>6, <2>1, <2>2, <2>3, <2>4 DEF SrvStopOrder
<1>7. ASSUME NEW s \in Callers, ClientCancels(s) PROVE Ties'
  BY <1>b, <1>7 DEF ClientCancels, StreamTyped, CallOfStream, HandlersOwned,
     RequestOfStream, SrvStopOrder
<1>8. ASSUME NEW s \in Callers, StreamRejected(s) PROVE Ties'
  <2> USE DEF StreamRejected, StreamReturns
  <2>1. StreamTyped'
    BY <1>a, <1>b, <1>8 DEF StreamTyped
  <2>2. CallOfStream'
    BY <1>a, <1>b, <1>8 DEF CallOfStream
  <2>3. HandlersOwned'
    BY <1>a, <1>b, <1>8 DEF HandlersOwned
  <2>4. RequestOfStream'
    BY <1>a, <1>b, <1>8 DEF RequestOfStream, IndInv, LoopLocals, Ops
  <2> QED BY <1>b, <1>8, <2>1, <2>2, <2>3, <2>4 DEF SrvStopOrder
<1>9. ASSUME NEW s \in Callers, StreamRegister(s) PROVE Ties'
  <2>1. /\ call' = [call EXCEPT ![s] =
                       [st |-> "deliver", op |-> "register", tlv |-> subTlv[s],
                        resp |-> "none"]]
        /\ UNCHANGED <<startStop, wg, loop, handlers>>
    BY <1>a, <1>b, <1>9, CallBegun DEF StreamRegister, StreamTyped, Ops
  <2> USE DEF StreamRegister
  <2>2. StreamTyped'
    BY <1>a, <1>b, <1>9, <2>1 DEF StreamTyped
  <2>3. CallOfStream'
    BY <1>a, <1>b, <1>9, <2>1 DEF CallOfStream
  <2>4. HandlersOwned'
    BY <1>a, <1>b, <1>9, <2>1 DEF HandlersOwned, StreamTyped
  <2>5. RequestOfStream'
    BY <1>a, <1>b, <1>9, <2>1 DEF RequestOfStream, IndInv, LoopLocals, Ops
  <2> QED BY <1>b, <1>9, <2>1, <2>2, <2>3, <2>4, <2>5 DEF SrvStopOrder
<1>10. ASSUME NEW s \in Callers, StreamRegistered(s) PROVE Ties'
  <2>1. /\ call' = [call EXCEPT ![s] = call'[s]]
        /\ call'[s].st = "returned"
        /\ \/ quit /\ call'[s].resp = "shutdown"
           \/ call'[s].resp = call[s].resp /\ call[s].resp # "none"
        /\ UNCHANGED <<startStop, wg, loop, handlers>>
    BY <1>a, <1>10, CallEnded DEF StreamRegistered
  <2> USE DEF StreamRegistered, StreamReturns
  <2>2. StreamTyped'
    BY <1>a, <1>b, <1>10, <2>1 DEF StreamTyped
  <2>3. CallOfStream'
    BY <1>a, <1>b, <1>10, <2>1 DEF CallOfStream
  <2>4. HandlersOwned'
    BY <1>a, <1>b, <1>10, <2>1 DEF HandlersOwned
  <2>5. RequestOfStream'
    BY <1>a, <1>b, <1>10, <2>1 DEF RequestOfStream, IndInv, LoopLocals, Ops
  <2> QED BY <1>b, <1>10, <2>1, <2>2, <2>3, <2>4, <2>5 DEF SrvStopOrder
<1>11. ASSUME NEW s \in Callers, StreamReceive(s) \/ StreamSend(s) PROVE Ties'
  <2>1. /\ UNCHANGED <<vars, server, subTlv, history>>
        /\ sub[s] \in {"recv", "send"}
        /\ \E to \in {"recv", "send"} : sub' = [sub EXCEPT ![s] = to]
    BY <1>11 DEF StreamReceive, StreamSend
  <2>2. StreamTyped'
    BY <1>a, <1>b, <2>1 DEF StreamTyped
  <2>3. CallOfStream'
    BY <1>a, <1>b, <2>1 DEF CallOfStream
  <2>4. HandlersOwned'
    BY <1>a, <1>b, <2>1 DEF HandlersOwned
  <2>5. RequestOfStream'
    BY <1>a, <1>b, <2>1 DEF RequestOfStream, IndInv, LoopLocals, Ops
  <2> QED BY <1>b, <2>1, <2>2, <2>3, <2>4, <2>5 DEF SrvStopOrder
<1>12. ASSUME NEW s \in Callers, StreamStops(s) \/ StreamSendFails(s)
       PROVE  Ties'
  <2>1. sub[s] \in {"recv", "send"} /\ Call(s, "deregister", subTlv[s])
        /\ sub' = [sub EXCEPT ![s] = "deregister"]
        /\ UNCHANGED <<server, subTlv, history>>
    BY <1>12 DEF StreamStops, StreamSendFails, StreamLeaves
  <2>2. started = 1
    BY <1>b, <2>1 DEF StreamTyped
  <2>3. /\ call' = [call EXCEPT ![s] =
                       [st |-> "deliver", op |-> "deregister",
                        tlv |-> subTlv[s], resp |-> "none"]]
        /\ UNCHANGED <<startStop, wg, loop, handlers>>
    BY <1>a, <1>b, <2>1, <2>2, CallBegun DEF StreamTyped, Ops
  <2>4. StreamTyped'
    BY <1>a, <1>b, <2>1, <2>3 DEF StreamTyped
  <2>5. CallOfStream'
    BY <1>a, <1>b, <2>1, <2>3 DEF CallOfStream
  <2>6. HandlersOwned'
    BY <1>a, <1>b, <2>1, <2>3 DEF HandlersOwned
  <2>7. RequestOfStream'
    BY <1>a, <1>b, <2>1, <2>3 DEF RequestOfStream, IndInv, LoopLocals, Ops
  <2> QED BY <1>b, <2>1, <2>3, <2>4, <2>5, <2>6, <2>7 DEF SrvStopOrder
<1>13. ASSUME NEW s \in Callers, StreamDeregistered(s) PROVE Ties'
  <2>1. /\ call' = [call EXCEPT ![s] = call'[s]]
        /\ call'[s].st = "returned"
        /\ \/ quit /\ call'[s].resp = "shutdown"
           \/ call'[s].resp = call[s].resp /\ call[s].resp # "none"
        /\ UNCHANGED <<startStop, wg, loop, handlers>>
    BY <1>a, <1>13, CallEnded DEF StreamDeregistered
  <2> USE DEF StreamDeregistered, StreamReturns
  <2>2. StreamTyped'
    BY <1>a, <1>b, <1>13, <2>1 DEF StreamTyped
  <2>3. CallOfStream'
    BY <1>a, <1>b, <1>13, <2>1 DEF CallOfStream
  <2>4. HandlersOwned'
    BY <1>a, <1>b, <1>13, <2>1 DEF HandlersOwned, StreamTyped
  <2>5. RequestOfStream'
    BY <1>a, <1>b, <1>13, <2>1 DEF RequestOfStream, IndInv, LoopLocals, Ops
  <2> QED BY <1>b, <1>13, <2>1, <2>2, <2>3, <2>4, <2>5 DEF SrvStopOrder
<1>14. ASSUME NEW s \in Callers, LoopReceives(s) PROVE Ties'
  <2> USE DEF LoopReceives, LoopReceive, LoopGoto
  <2>1. StreamTyped'
    BY <1>a, <1>b, <1>14 DEF StreamTyped
  <2>2. /\ \A r \in Callers : /\ call'[r].op = call[r].op
                              /\ call'[r].tlv = call[r].tlv
                              /\ call'[r].resp = call[r].resp
                              /\ r # s => call'[r].st = call[r].st
        /\ call[s].st = "deliver" /\ call'[s].st = "wait"
    BY <1>a, <1>14 DEF CallRecords
  <2>3. CallOfStream'
    BY <1>a, <1>b, <1>14, <2>2 DEF CallOfStream
  <2>4. HandlersOwned'
    BY <1>a, <1>b, <1>14, <2>2 DEF HandlersOwned
  <2>5. sub[s] \in {"register", "deregister"} /\ call[s].resp = "none"
    BY <1>a, <1>b, <1>14
    DEF CallOfStream, IndInv, RequestsFormed, SubStates
  <2>6. RequestOfStream'
    BY <1>a, <1>b, <1>14, <2>2, <2>5
    DEF RequestOfStream, CallOfStream, HandlersOwned
  <2> QED BY <1>b, <1>14, <2>1, <2>3, <2>4, <2>6 DEF SrvStopOrder
<1>15. ASSUME NEW m \in Messages, LoopMessageArrives(m) PROVE Ties'
  <2>1. /\ UNCHANGED <<sub, subTlv, call, handlers, quit, req, srvStop,
                       stopPc, srvQuit, ready, started>>
        /\ seen' = seen + 1 /\ loopPc' # "register"
    BY <1>15 DEF LoopMessageArrives, LoopMessage
  <2>2. seen \in Nat
    BY RpcAssumption DEF RpcInv, RpcTypeOK
  <2> QED BY <1>b, <2>1, <2>2 DEF StreamTyped, CallOfStream, HandlersOwned,
             RequestOfStream, SrvStopOrder
<1>16. CASE HandlerAccepts \/ HandlerFails
  <2>1. /\ UNCHANGED <<sub, subTlv, call, handlers, quit, req, srvStop,
                       stopPc, srvQuit, ready, started, seen>>
        /\ loopPc = "dispatch" /\ loopPc' \in {"select", "dispatch"}
    BY <1>16 DEF HandlerAccepts, HandlerFails, HandlerReturns, NextPayload,
       MessageDone
  <2> QED BY <1>b, <2>1 DEF StreamTyped, CallOfStream, HandlersOwned,
             RequestOfStream, SrvStopOrder
<1>17. CASE LoopInternal /\ LoopRegister
  <2>1. PICK resp \in Responses :
           /\ registerHandler(req, resp)
           /\ call' = IF call[req.from].st = "wait"
                      THEN [call EXCEPT ![req.from] = [@ EXCEPT !.resp = resp]]
                      ELSE call
    BY <1>17 DEF LoopRegister
  <2>2. /\ loopPc = "register" /\ loopPc' = "select"
        /\ UNCHANGED <<sub, subTlv, quit, srvStop, stopPc, srvQuit, ready,
                       started, seen>>
    BY <1>17 DEF LoopInternal, LoopRegister, LoopGoto
  <2>3. req.from \in Callers /\ req.op \in Ops /\ req.tlv \in TlvTypes
    BY <1>b, <2>2 DEF IndInv, LoopLocals
  <2>4. \A r \in Callers :
           /\ call'[r].st = call[r].st /\ call'[r].op = call[r].op
           /\ call'[r].tlv = call[r].tlv
           /\ call'[r].resp = IF r = req.from /\ call[r].st = "wait"
                              THEN resp ELSE call[r].resp
    BY <1>a, <2>1, <2>3 DEF CallRecords
  <2>5. StreamTyped'
    BY <1>b, <2>2 DEF StreamTyped
  <2>6. CallOfStream'
    BY <1>b, <2>2, <2>4 DEF CallOfStream
  <2>7. HandlersOwned'
    BY <1>a, <1>b, <2>1, <2>2, <2>3, <2>4, ConstantsAssumption
    DEF HandlersOwned, RequestOfStream, CallOfStream, StreamTyped,
        registerHandler, Ops
  <2> QED BY <1>b, <2>2, <2>5, <2>6, <2>7 DEF RequestOfStream, SrvStopOrder
<1>18. CASE (LoopInternal /\ ~LoopRegister) \/ LoopQuits \/ LoopLosesLnd
  <2>1. /\ UNCHANGED <<sub, subTlv, call, handlers, quit, srvStop, stopPc,
                       srvQuit, ready, started, seen>>
        /\ loopPc' # "register"
        /\ loopPc' \in {"process", "dispatch"} => loopPc = "process"
                                                  \/ loopPc = "dispatch"
    BY <1>18 DEF LoopInternal, LoopQuits, LoopLosesLnd, LoopSubscribe,
       ProcessPacket, PayloadUnhandled, ForwardReturns, LoopEnd, LoopQuit,
       LoopStreamEnds, LoopGoto, NextPayload, MessageDone
  <2> QED BY <1>b, <2>1 DEF StreamTyped, CallOfStream, HandlersOwned,
             RequestOfStream, SrvStopOrder
<1>19. CASE UNCHANGED rpcVars
  BY <1>b, <1>19 DEF rpcVars, StreamTyped, CallOfStream, HandlersOwned,
     RequestOfStream, SrvStopOrder
<1> QED
  BY <1>1, <1>2, <1>3, <1>4, <1>5, <1>6, <1>7, <1>8, <1>9, <1>10, <1>11,
     <1>12, <1>13, <1>14, <1>15, <1>16, <1>17, <1>18, <1>19
  DEF RpcNext, StreamStep

\* The new server satisfies the inductive invariant.
LEMMA RpcInitially == RpcInit => RpcInv
<1> SUFFICES ASSUME RpcInit PROVE RpcInv
  OBVIOUS
<1>1. IndInv
  BY Initially DEF RpcInit
<1>2. RpcTypeOK
  <2>1. TypeOK
    BY <1>1 DEF IndInv
  <2>2. <<>> \in Seq(MessageNumbers) /\ Len(<<>>) = 0
    OBVIOUS
  <2>3. 0 \in 0..MaxMessages /\ 0 <= IncomingSize
    BY RpcAssumption
  <2>4. /\ incoming \in [Callers -> Seq(MessageNumbers)]
        /\ sending \in [Callers -> Seq(MessageNumbers)]
        /\ sent \in [Callers -> Seq(MessageNumbers)]
        /\ \A s \in Callers :
              Len(incoming[s]) <= IncomingSize /\ Len(sending[s]) <= 1
    BY <2>2, <2>3 DEF RpcInit
  <2> QED BY <2>1, <2>3, <2>4 DEF RpcInit, RpcTypeOK, SubStates
<1>3. /\ handlers = [t \in TlvTypes |-> NoHandler] /\ loopPc = "off"
      /\ call = [c \in Callers |-> [st |-> "idle", op |-> "register",
                                    tlv |-> 0, resp |-> "none"]]
      /\ stopPc = [p \in Stoppers |-> "idle"]
  BY DEF RpcInit, Init
<1>4. StreamTyped /\ CallOfStream /\ HandlersOwned
  BY <1>3, ConstantsAssumption
  DEF RpcInit, StreamTyped, CallOfStream, HandlersOwned
<1>5. RequestOfStream /\ SrvStopOrder
  BY <1>3 DEF RpcInit, RequestOfStream, SrvStopOrder
<1> QED BY <1>1, <1>2, <1>4, <1>5 DEF RpcInv

\* The inductive invariant holds in every reachable state.
THEOREM RpcInvariance == RpcSpec => []RpcInv
<1>1. RpcInv /\ [RpcNext]_rpcVars => RpcInv'
  <2> SUFFICES ASSUME RpcInv, [RpcNext]_rpcVars PROVE RpcInv'
    OBVIOUS
  <2>1. IndInv'
    BY MessengerStep, Inductive DEF RpcInv
  <2>2. RpcTypeOK'
    BY <2>1, RpcTypesKept DEF IndInv
  <2>3. Ties'
    BY <2>1, TiesKept
  <2> QED BY <2>1, <2>2, <2>3 DEF RpcInv, Ties
<1> QED
  BY <1>1, RpcInitially, PTL DEF RpcSpec

\* Type correctness; in particular the channel of a stream never holds more
\* than it was made for.
THEOREM RpcTypeCorrect == RpcSpec => []RpcTypeOK
<1>1. RpcInv => RpcTypeOK
  BY DEF RpcInv
<1> QED
  BY <1>1, RpcInvariance, PTL

\* A stream that is receiving owns its type, whatever the other streams do.
THEOREM StreamsOwnTheirType == RpcSpec => []Ownership
<1>1. RpcInv => Ownership
  BY DEF RpcInv, HandlersOwned, Ownership, Subscribed
<1> QED
  BY <1>1, RpcInvariance, PTL

\* A stream that is gone leaves no handler behind, except in a shutdown.
THEOREM NoHandlerLeftBehind == RpcSpec => []NoOrphan
<1>1. RpcInv => NoOrphan
  BY DEF RpcInv, HandlersOwned, NoOrphan, RpcTypeOK, SubStates
<1> QED
  BY <1>1, RpcInvariance, PTL

\* When Server.Stop has returned no handler runs any more, except after the two
\* windows in which it overlaps Server.Start.
THEOREM ServerStopQuiesces == RpcSpec => []StopQuiesces
<1>1. RpcInv => StopQuiesces
  <2> SUFFICES ASSUME RpcInv, NEW p \in Stoppers, srvStop[p] = "done",
                      ~StopMissed, ~stopRaced
               PROVE  ~LoopLive
    BY DEF StopQuiesces
  <2>1. stopPc[p] = "done"
    BY DEF RpcInv, SrvStopOrder, StopMissed
  <2> QED BY <2>1 DEF RpcInv, IndInv, Joined
<1> QED
  BY <1>1, RpcInvariance, PTL
=============================================================================
