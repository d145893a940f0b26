--------------------------- MODULE MessengerProofs ---------------------------
(***************************************************************************)
(* Proofs about Messenger, for any number of goroutines, types and         *)
(* messages.                                                               *)
(***************************************************************************)
EXTENDS Messenger, TLAPS

\* A call of Start past the compare-and-swap.
Running == {"router", "spawn", "done", "failed"}

\* Start: only the winner of the compare-and-swap gets past it.
OneStart ==
    /\ started = 0 => \A p \in Starters : startPc[p] = "idle"
    /\ \A p, q \in Starters :
          startPc[p] \in Running /\ startPc[q] \in Running => p = q

\* The event loop exists from the end of a successful Start on, and the wait
\* group counts it while it lives.
LoopCounted ==
    /\ (\E p \in Starters : startPc[p] = "done") <=> loopPc # "off"
    /\ wg = IF LoopLive THEN 1 ELSE 0

\* The loop's local variables fit the place it is at.
LoopLocals ==
    /\ loopPc = "register" =>
          req.from \in Callers /\ req.op \in Ops /\ req.tlv \in TlvTypes
    /\ loopPc = "dispatch" => rest # <<>>
    /\ loopPc \in {"exit", "done"} => loopErr # "none"
    /\ loopErr = "shuttingDown" => quit
    /\ loopPc = "done" => (loopErr = "lnd" => shutdownReq)

\* A request on its way carries a type that has passed validation and no
\* response yet.
RequestsFormed ==
    \A c \in Callers :
        /\ call[c].st \in {"deliver", "wait"} => call[c].tlv \in TlvTypes
        /\ call[c].st = "deliver" => call[c].resp = "none"

\* The router is stopped only by a Stop that has joined the loop.
RouterOrder ==
    /\ \A p \in Starters : startPc[p] \in {"spawn", "done"} => router # "new"
    /\ router = "down" => \E p \in Stoppers : stopPc[p] = "done"

\* Unless they raced, Start had returned when Stop began.
StopAfterStart ==
    (\E p \in Stoppers : stopPc[p] \in {"wait", "router", "done"})
        => stopped = 1 /\ (~stopRaced => StartReturned)

\* Such a Stop gets past wg.Wait only when the loop is gone.
Joined ==
    ~stopRaced /\ (\E p \in Stoppers : stopPc[p] \in {"router", "done"})
        => ~LoopLive

\* The inductive invariant: what the event loop and the goroutines around it
\* know of each other, at every step of each of them.
IndInv ==
    /\ TypeOK
    /\ OneStart
    /\ LoopCounted
    /\ LoopLocals
    /\ RequestsFormed
    /\ RouterOrder
    /\ StopAfterStart
    /\ Joined
    /\ WaitersServed

-----------------------------------------------------------------------------

\* The state of a call.
CallRecords == [st : {"idle", "deliver", "wait", "returned"}, op : Ops,
                tlv : TlvTypes \cup {0}, resp : Results]

\* What is left of a sequence of tlv types is one again.
LEMMA TailOfTypes ==
    ASSUME NEW s \in Seq(TlvTypes), s # <<>>
    PROVE  Head(s) \in TlvTypes /\ Tail(s) \in Seq(TlvTypes)
  OBVIOUS

\* So is the empty sequence.
LEMMA EmptyOfTypes == <<>> \in Seq(TlvTypes)
  OBVIOUS

\* Every step of the messenger preserves the inductive invariant: one step per
\* action, and under it one per conjunct the action can disturb.
LEMMA Inductive == IndInv /\ [Next]_vars => IndInv'
<1> SUFFICES ASSUME IndInv, [Next]_vars PROVE IndInv'
  OBVIOUS
<1> USE DEF IndInv, startStop, loop
<1>1. ASSUME NEW p \in Starters, StartBegin(p) PROVE IndInv'
  <2>1. TypeOK'
    BY <1>1 DEF StartBegin, TypeOK
  <2>2. OneStart'
    BY <1>1 DEF StartBegin, TypeOK, OneStart, Running
  <2>3. LoopCounted'
    BY <1>1 DEF StartBegin, TypeOK, LoopCounted, OneStart, LoopLive, Running
  <2>4. RouterOrder'
    BY <1>1 DEF StartBegin, TypeOK, RouterOrder, OneStart, Running
  <2>5. StopAfterStart'
    BY <1>1 DEF StartBegin, TypeOK, StopAfterStart, OneStart, StartReturned,
        Running
  <2> QED BY <1>1, <2>1, <2>2, <2>3, <2>4, <2>5
          DEF StartBegin, LoopLocals, RequestsFormed, Joined, WaitersServed,
        LoopLive
<1>2. ASSUME NEW p \in Starters, StartRouter(p) PROVE IndInv'
  <2>1. TypeOK'
    BY <1>2 DEF StartRouter, TypeOK
  <2>2. OneStart'
    BY <1>2 DEF StartRouter, TypeOK, OneStart, Running
  <2>3. LoopCounted'
    BY <1>2 DEF StartRouter, TypeOK, LoopCounted, LoopLive
  <2>4. RouterOrder'
    BY <1>2 DEF StartRouter, TypeOK, RouterOrder
  <2>5. StopAfterStart'
    BY <1>2 DEF StartRouter, TypeOK, StopAfterStart, StartReturned
  <2> QED BY <1>2, <2>1, <2>2, <2>3, <2>4, <2>5
          DEF StartRouter, LoopLocals, RequestsFormed, Joined, WaitersServed,
        LoopLive
<1>3. ASSUME NEW p \in Starters, StartSpawn(p) PROVE IndInv'
  <2>1. TypeOK'
    BY <1>3 DEF StartSpawn, TypeOK, LoopCounted, OneStart, LoopLive, Running
  <2>2. OneStart'
    BY <1>3 DEF StartSpawn, TypeOK, OneStart, Running
  <2>3. LoopCounted'
    BY <1>3 DEF StartSpawn, TypeOK, LoopCounted, OneStart, LoopLive, Running
  <2>4. LoopLocals'
    BY <1>3 DEF StartSpawn, TypeOK, LoopLocals, OneStart, LoopCounted, Ops,
        Running, LoopLive
  <2>5. RouterOrder'
    BY <1>3 DEF StartSpawn, TypeOK, RouterOrder, OneStart, Running
  <2>6. StopAfterStart'
    BY <1>3 DEF StartSpawn, TypeOK, StopAfterStart, StartReturned
  <2>7. Joined'
    BY <1>3 DEF StartSpawn, TypeOK, Joined, StopAfterStart, OneStart,
        LoopLive, StartReturned, Running
  <2>8. WaitersServed'
    BY <1>3 DEF StartSpawn, TypeOK, WaitersServed, LoopCounted, OneStart,
        LoopLive, Running
  <2> QED BY <1>3, <2>1, <2>2, <2>3, <2>4, <2>5, <2>6, <2>7, <2>8
          DEF StartSpawn, RequestsFormed
<1>4. ASSUME NEW p \in Stoppers, StopBegin(p) PROVE IndInv'
  <2>1. TypeOK'
    <3>1. stopRaced' \in BOOLEAN
      BY <1>4, Zenon DEF StopBegin, TypeOK, StartReturned
    <3>2. QED
      BY <1>4, <3>1 DEF StopBegin, TypeOK
  <2>2. LoopLocals'
    BY <1>4 DEF StopBegin, StartReturned, TypeOK, LoopLocals, Ops
  <2>3. RouterOrder'
    BY <1>4 DEF StopBegin, StartReturned, TypeOK, RouterOrder
  <2>4. StopAfterStart'
    BY <1>4 DEF StopBegin, StartReturned, TypeOK, StopAfterStart
  <2>5. Joined'
    BY <1>4 DEF StopBegin, StartReturned, TypeOK, Joined, StopAfterStart,
        LoopLive
  <2> QED BY <1>4, <2>1, <2>2, <2>3, <2>4, <2>5
          DEF StopBegin, StartReturned, OneStart, LoopCounted, RequestsFormed,
        WaitersServed, LoopLive
<1>5. ASSUME NEW p \in Stoppers, StopWait(p) PROVE IndInv'
  <2>1. TypeOK'
    BY <1>5 DEF StopWait, TypeOK
  <2>2. RouterOrder'
    BY <1>5 DEF StopWait, TypeOK, RouterOrder
  <2>3. StopAfterStart'
    BY <1>5 DEF StopWait, TypeOK, StopAfterStart, StartReturned
  <2>4. Joined'
    BY <1>5 DEF StopWait, TypeOK, Joined, LoopCounted, LoopLive
  <2> QED BY <1>5, <2>1, <2>2, <2>3, <2>4
          DEF StopWait, OneStart, LoopCounted, LoopLocals, RequestsFormed,
        WaitersServed, LoopLive
<1>6. ASSUME NEW p \in Stoppers, StopRouter(p) PROVE IndInv'
  <2>1. TypeOK'
    BY <1>6 DEF StopRouter, TypeOK
  <2>2. RouterOrder'
    BY <1>6 DEF StopRouter, TypeOK, RouterOrder
  <2>3. StopAfterStart'
    BY <1>6 DEF StopRouter, TypeOK, StopAfterStart, StartReturned
  <2>4. Joined'
    BY <1>6 DEF StopRouter, TypeOK, Joined, LoopLive
  <2> QED BY <1>6, <2>1, <2>2, <2>3, <2>4
          DEF StopRouter, OneStart, LoopCounted, LoopLocals, RequestsFormed,
        WaitersServed, LoopLive
<1>7. ASSUME NEW c \in Callers, NEW op \in Ops, NEW t \in TlvTypes,
             Call(c, op, t)
      PROVE  IndInv'
  <2>1. TypeOK'
    BY <1>7 DEF Call, CallOutcome, TypeOK, Ops, Responses, Results
  <2>2. RequestsFormed'
    BY <1>7 DEF Call, CallOutcome, TypeOK, RequestsFormed
  <2>3. WaitersServed'
    BY <1>7 DEF Call, CallOutcome, TypeOK, WaitersServed
  <2> QED BY <1>7, <2>1, <2>2, <2>3
          DEF Call, CallOutcome, OneStart, LoopCounted, LoopLocals,
        RouterOrder, StopAfterStart, Joined, LoopLive, StartReturned
<1>8. ASSUME NEW c \in Callers, CallQuit(c) PROVE IndInv'
  <2>1. TypeOK'
    <3>1. call[c] \in CallRecords
      BY DEF TypeOK, CallRecords
    <3>2. [call[c] EXCEPT !.st = "returned", !.resp = "shutdown"]
              \in CallRecords
      BY <3>1 DEF CallRecords, Results
    <3>3. call' \in [Callers -> CallRecords]
      BY <1>8, <3>2 DEF CallQuit, TypeOK, CallRecords
    <3> QED BY <1>8, <3>3 DEF CallQuit, TypeOK, CallRecords
  <2>2. RequestsFormed'
    BY <1>8 DEF CallQuit, TypeOK, RequestsFormed
  <2>3. WaitersServed'
    BY <1>8 DEF CallQuit, TypeOK, WaitersServed
  <2> QED BY <1>8, <2>1, <2>2, <2>3
          DEF CallQuit, OneStart, LoopCounted, LoopLocals, RouterOrder,
        StopAfterStart, Joined, LoopLive, StartReturned
<1>9. ASSUME NEW c \in Callers, CallReturn(c) PROVE IndInv'
  <2>1. TypeOK'
    <3>1. call[c] \in CallRecords
      BY DEF TypeOK, CallRecords
    <3>2. [call[c] EXCEPT !.st = "returned"] \in CallRecords
      BY <3>1 DEF CallRecords, Results
    <3>3. call' \in [Callers -> CallRecords]
      BY <1>9, <3>2 DEF CallReturn, TypeOK, CallRecords
    <3> QED BY <1>9, <3>3 DEF CallReturn, TypeOK, CallRecords
  <2>2. RequestsFormed'
    BY <1>9 DEF CallReturn, TypeOK, RequestsFormed
  <2>3. WaitersServed'
    BY <1>9 DEF CallReturn, TypeOK, WaitersServed
  <2> QED BY <1>9, <2>1, <2>2, <2>3
          DEF CallReturn, OneStart, LoopCounted, LoopLocals, RouterOrder,
        StopAfterStart, Joined, LoopLive, StartReturned
<1>10. ASSUME LoopSubscribe PROVE IndInv'
  <2>1. TypeOK'
    BY <1>10 DEF LoopSubscribe, LoopGoto, TypeOK
  <2>2. LoopCounted'
    BY <1>10 DEF LoopSubscribe, LoopGoto, TypeOK, LoopCounted, LoopLive
  <2>3. LoopLocals'
    BY <1>10 DEF LoopSubscribe, LoopGoto, TypeOK, LoopLocals, Ops
  <2>4. Joined'
    BY <1>10 DEF LoopSubscribe, LoopGoto, TypeOK, Joined, LoopLive
  <2>5. WaitersServed'
    BY <1>10 DEF LoopSubscribe, LoopGoto, TypeOK, WaitersServed
  <2> QED BY <1>10, <2>1, <2>2, <2>3, <2>4, <2>5
          DEF LoopSubscribe, LoopGoto, OneStart, RequestsFormed, RouterOrder,
        StopAfterStart, StartReturned
<1>11. ASSUME NEW c \in Callers, LoopReceive(c) PROVE IndInv'
  <2>1. TypeOK'
    BY <1>11 DEF LoopReceive, LoopGoto, TypeOK
  <2>2. LoopCounted'
    BY <1>11 DEF LoopReceive, LoopGoto, TypeOK, LoopCounted, LoopLive
  <2>3. LoopLocals'
    BY <1>11 DEF LoopReceive, LoopGoto, TypeOK, LoopLocals, RequestsFormed,
        Ops
  <2>4. RequestsFormed'
    BY <1>11 DEF LoopReceive, LoopGoto, TypeOK, RequestsFormed
  <2>5. Joined'
    BY <1>11 DEF LoopReceive, LoopGoto, TypeOK, Joined, LoopLive
  <2>6. WaitersServed'
    BY <1>11 DEF LoopReceive, LoopGoto, TypeOK, WaitersServed
  <2> QED BY <1>11, <2>1, <2>2, <2>3, <2>4, <2>5, <2>6
          DEF LoopReceive, LoopGoto, OneStart, RouterOrder, StopAfterStart,
        StartReturned
<1>12. ASSUME LoopRegister PROVE IndInv'
  <2>1. TypeOK'
    <3>1. PICK resp \in Responses :
             /\ registerHandler(req, resp)
             /\ call' = IF call[req.from].st = "wait"
                        THEN [call EXCEPT ![req.from] = [@ EXCEPT !.resp = resp]]
                        ELSE call
      BY <1>12 DEF LoopRegister
    <3>2. req.from \in Callers /\ req.tlv \in TlvTypes
      BY <1>12 DEF LoopRegister, LoopGoto, LoopLocals
    <3>3. handlers' \in [TlvTypes -> Callers \cup {NoHandler}]
      BY <3>1, <3>2 DEF registerHandler, TypeOK
    <3>4. [call[req.from] EXCEPT !.resp = resp] \in CallRecords
      BY <3>2 DEF TypeOK, CallRecords, Results
    <3>5. call' \in [Callers -> CallRecords]
      BY <3>1, <3>2, <3>4 DEF TypeOK, CallRecords
    <3> QED
      BY <1>12, <3>3, <3>5
      DEF LoopRegister, LoopGoto, NoReq, TypeOK, CallRecords
  <2>2. LoopCounted'
    BY <1>12 DEF LoopRegister, LoopGoto, NoReq, TypeOK, LoopCounted, LoopLive
  <2>3. LoopLocals'
    BY <1>12 DEF LoopRegister, LoopGoto, NoReq, TypeOK, LoopLocals, Ops
  <2>4. RequestsFormed'
    BY <1>12 DEF LoopRegister, LoopGoto, NoReq, TypeOK, RequestsFormed
  <2>5. Joined'
    BY <1>12 DEF LoopRegister, LoopGoto, NoReq, TypeOK, Joined, LoopLive
  <2>6. WaitersServed'
    BY <1>12 DEF LoopRegister, LoopGoto, NoReq, TypeOK, WaitersServed,
        LoopLocals, registerHandler, Ops
  <2> QED BY <1>12, <2>1, <2>2, <2>3, <2>4, <2>5, <2>6
          DEF LoopRegister, LoopGoto, NoReq, OneStart, RouterOrder,
        StopAfterStart, StartReturned
<1>13. ASSUME NEW m \in Messages, LoopMessage(m) PROVE IndInv'
  <2>1. TypeOK'
    BY <1>13, ConstantsAssumption DEF LoopMessage, MessageType, TypeOK
  <2>2. LoopCounted'
    BY <1>13 DEF LoopMessage, TypeOK, LoopCounted, LoopLive
  <2>3. LoopLocals'
    BY <1>13 DEF LoopMessage, TypeOK, LoopLocals, Ops
  <2>4. Joined'
    BY <1>13 DEF LoopMessage, TypeOK, Joined, LoopLive
  <2>5. WaitersServed'
    BY <1>13 DEF LoopMessage, TypeOK, WaitersServed
  <2> QED BY <1>13, <2>1, <2>2, <2>3, <2>4, <2>5
          DEF LoopMessage, OneStart, RequestsFormed, RouterOrder,
        StopAfterStart, StartReturned
<1>14. ASSUME ProcessPacket PROVE IndInv'
  <2>1. TypeOK'
    <3>1. rest \in Seq(TlvTypes)
      BY DEF TypeOK
    <3>2. loopPc' \in {"select", "dispatch", "forward"}
             /\ packet' \in {"none", packet} /\ rest' \in Seq(TlvTypes)
      BY <1>14, <3>1, EmptyOfTypes DEF ProcessPacket, MessageDone
    <3> QED BY <1>14, <3>2 DEF ProcessPacket, TypeOK
  <2>2. LoopCounted'
    BY <1>14 DEF ProcessPacket, MessageDone, TypeOK, LoopCounted, LoopLive
  <2>3. LoopLocals'
    BY <1>14 DEF ProcessPacket, MessageDone, TypeOK, LoopLocals, Ops
  <2>4. Joined'
    BY <1>14 DEF ProcessPacket, MessageDone, TypeOK, Joined, LoopLive
  <2>5. WaitersServed'
    BY <1>14 DEF ProcessPacket, MessageDone, TypeOK, WaitersServed
  <2> QED BY <1>14, <2>1, <2>2, <2>3, <2>4, <2>5
          DEF ProcessPacket, MessageDone, OneStart, RequestsFormed,
        RouterOrder, StopAfterStart, StartReturned
<1>15. ASSUME PayloadUnhandled PROVE IndInv'
  <2>1. TypeOK'
    <3>1. rest \in Seq(TlvTypes) /\ rest # <<>>
      BY <1>15 DEF PayloadUnhandled, LoopLocals, TypeOK
    <3>2. Tail(rest) \in Seq(TlvTypes)
      BY <3>1, TailOfTypes
    <3>3. loopPc' \in {"select", "dispatch"}
             /\ packet' \in {"none", packet} /\ rest' \in Seq(TlvTypes)
      BY <1>15, <3>2, EmptyOfTypes
      DEF PayloadUnhandled, NextPayload, MessageDone
    <3> QED BY <1>15, <3>3 DEF PayloadUnhandled, TypeOK
  <2>2. LoopCounted'
    BY <1>15 DEF PayloadUnhandled, NextPayload, MessageDone, TypeOK,
        LoopCounted, LoopLive
  <2>3. LoopLocals'
    BY <1>15 DEF PayloadUnhandled, NextPayload, MessageDone, TypeOK,
        LoopLocals, Ops
  <2>4. Joined'
    BY <1>15 DEF PayloadUnhandled, NextPayload, MessageDone, TypeOK, Joined,
        LoopLive
  <2>5. WaitersServed'
    BY <1>15 DEF PayloadUnhandled, NextPayload, MessageDone, TypeOK,
        WaitersServed
  <2> QED BY <1>15, <2>1, <2>2, <2>3, <2>4, <2>5
          DEF PayloadUnhandled, NextPayload, MessageDone, OneStart,
        RequestsFormed, RouterOrder, StopAfterStart, StartReturned
<1>16. ASSUME NEW ok \in BOOLEAN, HandlerReturns(ok) PROVE IndInv'
  <2>1. TypeOK'
    <3>1. rest \in Seq(TlvTypes) /\ rest # <<>>
      BY <1>16 DEF HandlerReturns, LoopLocals, TypeOK
    <3>2. Tail(rest) \in Seq(TlvTypes)
      BY <3>1, TailOfTypes
    <3>3. loopPc' \in {"select", "dispatch"}
             /\ packet' \in {"none", packet} /\ rest' \in Seq(TlvTypes)
      BY <1>16, <3>2, EmptyOfTypes DEF HandlerReturns, NextPayload, MessageDone
    <3> QED BY <1>16, <3>3 DEF HandlerReturns, TypeOK
  <2>2. LoopCounted'
    BY <1>16 DEF HandlerReturns, NextPayload, MessageDone, TypeOK,
        LoopCounted, LoopLive
  <2>3. LoopLocals'
    BY <1>16 DEF HandlerReturns, NextPayload, MessageDone, TypeOK, LoopLocals,
        Ops
  <2>4. Joined'
    BY <1>16 DEF HandlerReturns, NextPayload, MessageDone, TypeOK, Joined,
        LoopLive
  <2>5. WaitersServed'
    BY <1>16 DEF HandlerReturns, NextPayload, MessageDone, TypeOK,
        WaitersServed
  <2> QED BY <1>16, <2>1, <2>2, <2>3, <2>4, <2>5
          DEF HandlerReturns, NextPayload, MessageDone, OneStart,
        RequestsFormed, RouterOrder, StopAfterStart, StartReturned
<1>17. ASSUME ForwardReturns PROVE IndInv'
  <2>1. TypeOK'
    BY <1>17 DEF ForwardReturns, MessageDone, TypeOK
  <2>2. LoopCounted'
    BY <1>17 DEF ForwardReturns, MessageDone, TypeOK, LoopCounted, LoopLive
  <2>3. LoopLocals'
    BY <1>17 DEF ForwardReturns, MessageDone, TypeOK, LoopLocals, Ops
  <2>4. Joined'
    BY <1>17 DEF ForwardReturns, MessageDone, TypeOK, Joined, LoopLive
  <2>5. WaitersServed'
    BY <1>17 DEF ForwardReturns, MessageDone, TypeOK, WaitersServed
  <2> QED BY <1>17, <2>1, <2>2, <2>3, <2>4, <2>5
          DEF ForwardReturns, MessageDone, OneStart, RequestsFormed,
        RouterOrder, StopAfterStart, StartReturned
<1>18. ASSUME LoopStreamEnds PROVE IndInv'
  <2>1. TypeOK'
    BY <1>18 DEF LoopStreamEnds, LoopGoto, TypeOK
  <2>2. LoopCounted'
    BY <1>18 DEF LoopStreamEnds, LoopGoto, TypeOK, LoopCounted, LoopLive
  <2>3. LoopLocals'
    BY <1>18 DEF LoopStreamEnds, LoopGoto, TypeOK, LoopLocals, Ops
  <2>4. Joined'
    BY <1>18 DEF LoopStreamEnds, LoopGoto, TypeOK, Joined, LoopLive
  <2>5. WaitersServed'
    BY <1>18 DEF LoopStreamEnds, LoopGoto, TypeOK, WaitersServed
  <2> QED BY <1>18, <2>1, <2>2, <2>3, <2>4, <2>5
          DEF LoopStreamEnds, LoopGoto, OneStart, RequestsFormed, RouterOrder,
        StopAfterStart, StartReturned
<1>19. ASSUME LoopQuit PROVE IndInv'
  <2>1. TypeOK'
    BY <1>19 DEF LoopQuit, LoopGoto, TypeOK
  <2>2. LoopCounted'
    BY <1>19 DEF LoopQuit, LoopGoto, TypeOK, LoopCounted, LoopLive
  <2>3. LoopLocals'
    BY <1>19 DEF LoopQuit, LoopGoto, TypeOK, LoopLocals, Ops
  <2>4. Joined'
    BY <1>19 DEF LoopQuit, LoopGoto, TypeOK, Joined, LoopLive
  <2>5. WaitersServed'
    BY <1>19 DEF LoopQuit, LoopGoto, TypeOK, WaitersServed
  <2> QED BY <1>19, <2>1, <2>2, <2>3, <2>4, <2>5
          DEF LoopQuit, LoopGoto, OneStart, RequestsFormed, RouterOrder,
        StopAfterStart, StartReturned
<1>20. ASSUME LoopEnd PROVE IndInv'
  <2>1. TypeOK'
    BY <1>20 DEF LoopEnd, LoopGoto, TypeOK, LoopCounted, LoopLive
  <2>2. LoopCounted'
    BY <1>20 DEF LoopEnd, LoopGoto, TypeOK, LoopCounted, LoopLive
  <2>3. LoopLocals'
    BY <1>20 DEF LoopEnd, LoopGoto, TypeOK, LoopLocals, Ops
  <2>4. Joined'
    BY <1>20 DEF LoopEnd, LoopGoto, TypeOK, Joined, LoopLive
  <2>5. WaitersServed'
    BY <1>20 DEF LoopEnd, LoopGoto, TypeOK, WaitersServed
  <2> QED BY <1>20, <2>1, <2>2, <2>3, <2>4, <2>5
          DEF LoopEnd, LoopGoto, OneStart, RequestsFormed, RouterOrder,
        StopAfterStart, StartReturned
<1>21. CASE UNCHANGED vars
  BY <1>21 DEF vars, TypeOK, OneStart, LoopCounted, LoopLocals,
      RequestsFormed, RouterOrder, StopAfterStart, Joined, WaitersServed,
      LoopLive, StartReturned
<1> QED
  BY <1>1, <1>2, <1>3, <1>4, <1>5, <1>6, <1>7, <1>8, <1>9, <1>10, <1>11,
     <1>12, <1>13, <1>14, <1>15, <1>16, <1>17, <1>18, <1>19, <1>20, <1>21
  DEF Next, LoopStep

\* The initial state satisfies the inductive invariant.
LEMMA Initially == Init => IndInv
<1> SUFFICES ASSUME Init PROVE IndInv
  OBVIOUS
<1>1. TypeOK
  <2>1. call \in [Callers -> CallRecords]
    BY DEF Init, CallRecords, Ops, Responses, Results
  <2>2. rest \in Seq(TlvTypes)
    BY EmptyOfTypes DEF Init
  <2> QED BY <2>1, <2>2 DEF Init, TypeOK, NoReq, CallRecords
<1>2. OneStart /\ LoopCounted /\ LoopLocals /\ RequestsFormed
  BY DEF Init, OneStart, LoopCounted, LoopLocals, RequestsFormed, LoopLive,
         Running
<1>3. RouterOrder /\ StopAfterStart /\ Joined /\ WaitersServed
  BY DEF Init, RouterOrder, StopAfterStart, Joined, WaitersServed
<1> QED BY <1>1, <1>2, <1>3 DEF IndInv

\* The inductive invariant holds in every reachable state.
THEOREM Invariance == Spec => []IndInv
<1>1. Init => IndInv
  BY Initially
<1>2. IndInv /\ [Next]_vars => IndInv'
  BY Inductive
<1> QED
  BY <1>1, <1>2, PTL DEF Spec

\* Type correctness.
THEOREM TypeCorrect == Spec => []TypeOK
<1>1. IndInv => TypeOK
  BY DEF IndInv
<1> QED
  BY <1>1, Invariance, PTL

\* No request of RegisterHandler or DeregisterHandler is forgotten by the loop
\* or answered to another caller.
THEOREM RequestsServed == Spec => []WaitersServed
<1>1. IndInv => WaitersServed
  BY DEF IndInv
<1> QED
  BY <1>1, Invariance, PTL

\* A Stop that does not overlap Start joins the event loop, and the router is
\* up for as long as the loop lives.
THEOREM StopJoinsLoop == Spec => []StopJoins
<1>1. IndInv => StopJoins
  <2> SUFFICES ASSUME IndInv, ~stopRaced PROVE StopJoins
    BY DEF StopJoins
  <2>1. (\E p \in Stoppers : stopPc[p] \in {"router", "done"}) => ~LoopLive
    BY DEF IndInv, Joined
  <2>2. ASSUME LoopLive PROVE router = "up"
    <3>1. router # "new"
      BY <2>2 DEF IndInv, LoopCounted, LoopLive, RouterOrder
    <3>2. router # "down"
      BY <2>1, <2>2 DEF IndInv, RouterOrder
    <3> QED BY <3>1, <3>2 DEF IndInv, TypeOK
  <2> QED BY <2>1, <2>2 DEF StopJoins
<1> QED
  BY <1>1, Invariance, PTL

\* The event loop never ends without Stop having been called or a shutdown
\* having been asked for.
THEOREM LoopDeathIsReported == Spec => []NoSilentDeath
<1>1. IndInv => NoSilentDeath
  BY DEF IndInv, LoopLocals, NoSilentDeath, TypeOK
<1> QED
  BY <1>1, Invariance, PTL

\* Only LoopRegister changes the map of handlers, and registerHandler never
\* puts a handler where there is one.
THEOREM HandlersNeverReplaced == Spec => NoReplace
<1> DEFINE Step == \A t \in TlvTypes :
                      handlers[t] # NoHandler =>
                          handlers'[t] \in {handlers[t], NoHandler}
<1>1. IndInv /\ [Next]_vars => [Step]_vars
  <2> SUFFICES ASSUME IndInv, [Next]_vars PROVE Step
    OBVIOUS
  <2>1. CASE LoopRegister
    <3>1. req.tlv \in TlvTypes
      BY <2>1 DEF LoopRegister, LoopGoto, IndInv, LoopLocals
    <3> QED
      BY <2>1, <3>1 DEF LoopRegister, registerHandler, IndInv, TypeOK
  <2>2. CASE handlers' = handlers
    BY <2>2
  <2>3. LoopRegister \/ handlers' = handlers
    BY DEF Next, LoopStep, vars, StartBegin, StartRouter, StartSpawn,
           StopBegin, StopWait, StopRouter, Call, CallQuit, CallReturn,
           LoopSubscribe, LoopReceive, LoopMessage, ProcessPacket,
           PayloadUnhandled, HandlerReturns, ForwardReturns, LoopStreamEnds,
           LoopQuit, LoopEnd
  <2> QED BY <2>1, <2>2, <2>3
<1> QED
  BY <1>1, Invariance, PTL DEF Spec, NoReplace
=============================================================================
