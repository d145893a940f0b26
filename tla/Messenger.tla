------------------------------ MODULE Messenger ------------------------------
(***************************************************************************)
(* The onion messenger (onionmsg/messenger.go): one event loop goroutine,  *)
(* manageOnionMessages, that owns the map of final-hop payload handlers,   *)
(* consumes lnd's custom message stream and serves (de)registration        *)
(* requests; and the goroutines around it that call Start, Stop,           *)
(* RegisterHandler and DeregisterHandler.                                  *)
(*                                                                         *)
(* What a handler does is left open here: HandlerReturns may answer with   *)
(* success or failure at any time. RpcServer.tla extends this module and   *)
(* conjoins the handler of the SubscribeOnionPayload rpc to it.            *)
(***************************************************************************)
EXTENDS Naturals, Sequences

CONSTANTS
    Starters,   \* goroutines that call Start
    Stoppers,   \* goroutines that call Stop
    Callers,    \* goroutines that call RegisterHandler and DeregisterHandler;
                \* the handler a caller registers is named by the caller
    TlvTypes,   \* the tlv types callers and messages use
    Messages,   \* the custom messages lnd may deliver
    NoHandler   \* a missing entry of onionMsgHandlers

\* A custom message, reduced to what handleOnionMessage tells apart: "bad"
\* stands for every packet that processOnion or decodePayload fails on, and
\* for sphinx.Failure; payloads are the types of its FinalHopPayloads, in the
\* ascending order in which decoding returns them.
MessageType ==
    [msgType : {"onion", "other"}, packet : {"bad", "exit", "hops"},
     payloads : Seq(TlvTypes)]

Ascending(s) == \A i, j \in DOMAIN s : i < j => s[i] < s[j]

ASSUME ConstantsAssumption ==
    /\ TlvTypes \subseteq Nat
    /\ NoHandler \notin Callers
    /\ \A m \in Messages : m \in MessageType /\ Ascending(m.payloads)

\* lnwire.ValidateFinalPayload: final hop payload types are >= 64.
finalHopPayloadStart == 64
ValidateFinalPayload(t) == t >= finalHopPayloadStart

VARIABLES
    started,      \* Messenger.started
    stopped,      \* Messenger.stopped
    quit,         \* TRUE once Messenger.quit is closed
    router,       \* the sphinx router: "new", "up" or "down"
    wg,           \* the count of the WaitGroup
    startPc,      \* progress of each call of Start
    stopPc,       \* progress of each call of Stop
    stopRaced,    \* history: Stop was called before Start had returned
    loopPc,       \* where the event loop goroutine is
    loopErr,      \* the error manageOnionMessages returns
    shutdownReq,  \* TRUE once requestShutdown has been called
    req,          \* the registration request the loop has received
    packet,       \* the kind of packet the loop is handling
    rest,         \* the final hop payloads it still has to hand off
    handlers,     \* onionMsgHandlers
    call          \* each caller's call: progress, request, response

startStop == <<started, stopped, quit, router, startPc, stopPc, stopRaced>>
loop      == <<loopPc, loopErr, shutdownReq, req, packet, rest>>
vars      == <<startStop, wg, loop, handlers, call>>

Ops       == {"register", "deregister"}
Responses == {"none", "ok", "registered", "notFound"}
Results   == Responses \cup {"shutdown", "invalid", "notStarted"}
NoReq     == [from |-> NoHandler, op |-> "none", tlv |-> 0]

TypeOK ==
    /\ started \in {0, 1} /\ stopped \in {0, 1}
    /\ quit \in BOOLEAN /\ stopRaced \in BOOLEAN /\ shutdownReq \in BOOLEAN
    /\ router \in {"new", "up", "down"}
    /\ wg \in {0, 1}
    /\ startPc \in [Starters -> {"idle", "router", "spawn", "done",
                                 "failed", "rejected"}]
    /\ stopPc \in [Stoppers -> {"idle", "wait", "router", "done", "rejected"}]
    /\ loopPc \in {"off", "subscribe", "select", "register", "process",
                   "dispatch", "forward", "exit", "done"}
    /\ loopErr \in {"none", "lnd", "shuttingDown"}
    /\ req \in [from : Callers \cup {NoHandler}, op : Ops \cup {"none"},
                tlv : TlvTypes \cup {0}]
    /\ packet \in {"none", "bad", "exit", "hops"}
    /\ rest \in Seq(TlvTypes)
    /\ handlers \in [TlvTypes -> Callers \cup {NoHandler}]
    /\ call \in [Callers -> [st : {"idle", "deliver", "wait", "returned"},
                             op : Ops, tlv : TlvTypes \cup {0}, resp : Results]]

\* NewOnionMessenger.
Init ==
    /\ started = 0 /\ stopped = 0
    /\ quit = FALSE /\ stopRaced = FALSE /\ shutdownReq = FALSE
    /\ router = "new"
    /\ wg = 0
    /\ startPc = [p \in Starters |-> "idle"]
    /\ stopPc = [p \in Stoppers |-> "idle"]
    /\ loopPc = "off"
    /\ loopErr = "none"
    /\ req = NoReq
    /\ packet = "none"
    /\ rest = <<>>
    /\ handlers = [t \in TlvTypes |-> NoHandler]
    /\ call = [c \in Callers |-> [st |-> "idle", op |-> "register",
                                  tlv |-> 0, resp |-> "none"]]

-----------------------------------------------------------------------------
(***************************************************************************)
(* Start and Stop.                                                         *)
(***************************************************************************)

\* Fault: started is stored without the compare, so every caller goes on.
StartBegin_NoSwap(p) ==
    /\ startPc[p] = "idle"
    /\ started' = 1
    /\ startPc' = [startPc EXCEPT ![p] = "router"]
    /\ UNCHANGED <<stopped, quit, router, stopPc, stopRaced, wg, loop,
                   handlers, call>>

\* The compare-and-swap on started: the first caller goes on, others fail.
StartBegin(p) ==
    /\ startPc[p] = "idle"
    /\ started' = 1
    /\ startPc' = [startPc EXCEPT ![p] =
                       IF started = 0 THEN "router" ELSE "rejected"]
    /\ UNCHANGED <<stopped, quit, router, stopPc, stopRaced, wg, loop,
                   handlers, call>>

\* router.Start, which may fail.
StartRouter(p) ==
    /\ startPc[p] = "router"
    /\ \/ /\ router' = "up"
          /\ startPc' = [startPc EXCEPT ![p] = "spawn"]
       \/ /\ startPc' = [startPc EXCEPT ![p] = "failed"]
          /\ UNCHANGED router
    /\ UNCHANGED <<started, stopped, quit, stopPc, stopRaced, wg, loop,
                   handlers, call>>

\* wg.Add(1), go manageOnionMessages, and Start returns.
StartSpawn(p) ==
    /\ startPc[p] = "spawn"
    /\ wg' = wg + 1
    /\ loopPc' = "subscribe"
    /\ startPc' = [startPc EXCEPT ![p] = "done"]
    /\ UNCHANGED <<started, stopped, quit, router, stopPc, stopRaced, loopErr,
                   shutdownReq, req, packet, rest, handlers, call>>

StartReturned ==
    \E p \in Starters : startPc[p] \in {"done", "failed"}

\* The compare-and-swap on stopped; the winner closes quit, in one step since
\* nobody else looks at stopped.
StopBegin(p) ==
    /\ stopPc[p] = "idle"
    /\ stopped' = 1
    /\ quit' = TRUE
    /\ stopPc' = [stopPc EXCEPT ![p] =
                      IF stopped = 0 THEN "wait" ELSE "rejected"]
    /\ stopRaced' = IF stopped = 0 THEN ~StartReturned ELSE stopRaced
    /\ UNCHANGED <<started, router, startPc, wg, loop, handlers, call>>

\* Fault: the router is stopped before the goroutines are waited for.
StopWait_NoWait(p) ==
    /\ stopPc[p] = "wait"
    /\ stopPc' = [stopPc EXCEPT ![p] = "router"]
    /\ UNCHANGED <<started, stopped, quit, router, startPc, stopRaced, wg,
                   loop, handlers, call>>

\* wg.Wait.
StopWait(p) ==
    /\ stopPc[p] = "wait"
    /\ wg = 0
    /\ stopPc' = [stopPc EXCEPT ![p] = "router"]
    /\ UNCHANGED <<started, stopped, quit, router, startPc, stopRaced, wg,
                   loop, handlers, call>>

\* router.Stop, and Stop returns.
StopRouter(p) ==
    /\ stopPc[p] = "router"
    /\ router' = "down"
    /\ stopPc' = [stopPc EXCEPT ![p] = "done"]
    /\ UNCHANGED <<started, stopped, quit, startPc, stopRaced, wg, loop,
                   handlers, call>>

-----------------------------------------------------------------------------
(***************************************************************************)
(* RegisterHandler and DeregisterHandler, through handleRegistration.      *)
(***************************************************************************)

\* The checks before the request is offered to the loop.
CallOutcome(t) ==
    IF ~ValidateFinalPayload(t) THEN "invalid"
    ELSE IF started = 0 THEN "notStarted" ELSE "none"

Call(c, op, t) ==
    /\ call[c].st \in {"idle", "returned"}
    /\ call' = [call EXCEPT ![c] =
                    [st |-> IF CallOutcome(t) = "none"
                            THEN "deliver" ELSE "returned",
                     op |-> op, tlv |-> t, resp |-> CallOutcome(t)]]
    /\ UNCHANGED <<startStop, wg, loop, handlers>>

\* Fault: only the second select of handleRegistration watches quit.
CallQuit_NotOnDeliver(c) ==
    /\ call[c].st = "wait"
    /\ quit
    /\ call' = [call EXCEPT ![c] = [@ EXCEPT !.st = "returned",
                                             !.resp = "shutdown"]]
    /\ UNCHANGED <<startStop, wg, loop, handlers>>

\* Both selects of handleRegistration give up when quit is closed, the second
\* one even when the loop has answered.
CallQuit(c) ==
    /\ call[c].st \in {"deliver", "wait"}
    /\ quit
    /\ call' = [call EXCEPT ![c] = [@ EXCEPT !.st = "returned",
                                             !.resp = "shutdown"]]
    /\ UNCHANGED <<startStop, wg, loop, handlers>>

\* The response, or the closed errChan, is read.
CallReturn(c) ==
    /\ call[c].st = "wait"
    /\ call[c].resp # "none"
    /\ call' = [call EXCEPT ![c] = [@ EXCEPT !.st = "returned"]]
    /\ UNCHANGED <<startStop, wg, loop, handlers>>

-----------------------------------------------------------------------------
(***************************************************************************)
(* The event loop, manageOnionMessages.                                    *)
(***************************************************************************)

LoopGoto(from, to) == loopPc = from /\ loopPc' = to

\* SubscribeCustomMessages succeeds or fails.
LoopSubscribe ==
    /\ \/ LoopGoto("subscribe", "select") /\ UNCHANGED loopErr
       \/ LoopGoto("subscribe", "exit") /\ loopErr' = "lnd"
    /\ UNCHANGED <<startStop, wg, shutdownReq, req, packet, rest, handlers,
                   call>>

\* A request is received over the unbuffered channel handlerRegistration: its
\* sender goes on to wait for the response.
LoopReceive(c) ==
    /\ LoopGoto("select", "register")
    /\ call[c].st = "deliver"
    /\ req' = [from |-> c, op |-> call[c].op, tlv |-> call[c].tlv]
    /\ call' = [call EXCEPT ![c] = [@ EXCEPT !.st = "wait"]]
    /\ UNCHANGED <<startStop, wg, loopErr, shutdownReq, packet, rest, handlers>>

\* Fault: a registration replaces the handler that is already there.
registerHandler_Replace(r, resp) ==
    \/ /\ r.op = "deregister"
       /\ resp = IF handlers[r.tlv] = NoHandler THEN "notFound" ELSE "ok"
       /\ handlers' = [handlers EXCEPT ![r.tlv] = NoHandler]
    \/ /\ r.op = "register"
       /\ resp = "ok"
       /\ handlers' = [handlers EXCEPT ![r.tlv] = r.from]

\* registerHandler: what request r does to the map, and its response.
registerHandler(r, resp) ==
    \/ /\ r.op = "deregister" /\ handlers[r.tlv] = NoHandler
       /\ resp = "notFound"
       /\ UNCHANGED handlers
    \/ /\ r.op = "deregister" /\ handlers[r.tlv] # NoHandler
       /\ resp = "ok"
       /\ handlers' = [handlers EXCEPT ![r.tlv] = NoHandler]
    \/ /\ r.op = "register" /\ handlers[r.tlv] # NoHandler
       /\ resp = "registered"
       /\ UNCHANGED handlers
    \/ /\ r.op = "register" /\ handlers[r.tlv] = NoHandler
       /\ resp = "ok"
       /\ handlers' = [handlers EXCEPT ![r.tlv] = r.from]

\* Fault: errChan is closed only on failure, so success is never reported.
LoopRegister_NoClose ==
    /\ LoopGoto("register", "select")
    /\ \E resp \in Responses :
          /\ registerHandler(req, resp)
          /\ call' = IF call[req.from].st = "wait" /\ resp # "ok"
                     THEN [call EXCEPT ![req.from] = [@ EXCEPT !.resp = resp]]
                     ELSE call
    /\ req' = NoReq
    /\ UNCHANGED <<startStop, wg, loopErr, shutdownReq, packet, rest>>

\* Fault: errChan is not buffered, so the loop needs the caller to be there.
LoopRegister_Unbuffered ==
    /\ LoopGoto("register", "select")
    /\ \E resp \in Responses :
          /\ registerHandler(req, resp)
          /\ resp # "ok" => call[req.from].st = "wait"
          /\ call' = IF call[req.from].st = "wait"
                     THEN [call EXCEPT ![req.from] = [@ EXCEPT !.resp = resp]]
                     ELSE call
    /\ req' = NoReq
    /\ UNCHANGED <<startStop, wg, loopErr, shutdownReq, packet, rest>>

\* The request is served. errChan has room for the response, so the loop
\* goes on whether or not the caller is still there to read it.
LoopRegister ==
    /\ LoopGoto("register", "select")
    /\ \E resp \in Responses :
          /\ registerHandler(req, resp)
          /\ call' = IF call[req.from].st = "wait"
                     THEN [call EXCEPT ![req.from] = [@ EXCEPT !.resp = resp]]
                     ELSE call
    /\ req' = NoReq
    /\ UNCHANGED <<startStop, wg, loopErr, shutdownReq, packet, rest>>

\* A custom message arrives; those of other types are skipped.
LoopMessage(m) ==
    /\ loopPc = "select"
    /\ IF m.msgType = "onion"
       THEN /\ loopPc' = "process"
            /\ packet' = m.packet
            /\ rest' = m.payloads
       ELSE UNCHANGED <<loopPc, packet, rest>>
    /\ UNCHANGED <<startStop, wg, loopErr, shutdownReq, req, handlers, call>>

\* handleOnionMessage is over, with or without an error: both are only logged.
MessageDone ==
    /\ loopPc' = "select"
    /\ packet' = "none"
    /\ rest' = <<>>

\* handleOnionMessage, up to the hand-off or the forward. A router that is not
\* running fails every packet.
ProcessPacket ==
    /\ loopPc = "process"
    /\ \/ /\ packet = "bad" \/ router # "up"
          /\ MessageDone
       \/ /\ packet = "exit" /\ router = "up"
          /\ IF rest = <<>> THEN MessageDone
             ELSE loopPc' = "dispatch" /\ UNCHANGED <<packet, rest>>
       \/ /\ packet = "hops" /\ router = "up"
          /\ IF rest # <<>> THEN MessageDone
             ELSE loopPc' = "forward" /\ UNCHANGED <<packet, rest>>
    /\ UNCHANGED <<startStop, wg, loopErr, shutdownReq, req, handlers, call>>

\* The next iteration of the loop over the final hop payloads.
NextPayload ==
    IF Tail(rest) = <<>> THEN MessageDone
    ELSE rest' = Tail(rest) /\ UNCHANGED <<loopPc, packet>>

PayloadUnhandled ==
    /\ loopPc = "dispatch"
    /\ handlers[Head(rest)] = NoHandler
    /\ NextPayload
    /\ UNCHANGED <<startStop, wg, loopErr, shutdownReq, req, handlers, call>>

\* The handler of the next payload returns; an error ends the message.
HandlerReturns(ok) ==
    /\ loopPc = "dispatch"
    /\ handlers[Head(rest)] # NoHandler
    /\ IF ok THEN NextPayload ELSE MessageDone
    /\ UNCHANGED <<startStop, wg, loopErr, shutdownReq, req, handlers, call>>

\* decryptDataBlob and forwardMessage have returned.
ForwardReturns ==
    /\ loopPc = "forward"
    /\ MessageDone
    /\ UNCHANGED <<startStop, wg, loopErr, shutdownReq, req, handlers, call>>

\* lnd closes one of the two channels of the stream, or reports an error.
LoopStreamEnds ==
    /\ LoopGoto("select", "exit")
    /\ loopErr' = "lnd"
    /\ UNCHANGED <<startStop, wg, shutdownReq, req, packet, rest, handlers,
                   call>>

\* Fault: the loop learns of quit only from a Stop that is waiting for it.
LoopQuit_OnlyWhileWaiting ==
    /\ LoopGoto("select", "exit")
    /\ \E p \in Stoppers : stopPc[p] = "wait"
    /\ loopErr' = "shuttingDown"
    /\ UNCHANGED <<startStop, wg, shutdownReq, req, packet, rest, handlers,
                   call>>

\* quit is a closed channel: it is noticed whenever the loop gets to it.
LoopQuit ==
    /\ LoopGoto("select", "exit")
    /\ quit
    /\ loopErr' = "shuttingDown"
    /\ UNCHANGED <<startStop, wg, shutdownReq, req, packet, rest, handlers,
                   call>>

\* Fault: the test on ErrShuttingDown is the wrong way round.
LoopEnd_Inverted ==
    /\ LoopGoto("exit", "done")
    /\ shutdownReq' = (shutdownReq \/ loopErr = "shuttingDown")
    /\ wg' = wg - 1
    /\ UNCHANGED <<startStop, loopErr, req, packet, rest, handlers, call>>

\* The goroutine asks for a shutdown unless it was told to stop, and is done.
LoopEnd ==
    /\ LoopGoto("exit", "done")
    /\ shutdownReq' = (shutdownReq \/ loopErr # "shuttingDown")
    /\ wg' = wg - 1
    /\ UNCHANGED <<startStop, loopErr, req, packet, rest, handlers, call>>

-----------------------------------------------------------------------------
LoopStep ==
    \/ LoopSubscribe \/ LoopRegister \/ ProcessPacket \/ PayloadUnhandled
    \/ ForwardReturns \/ LoopStreamEnds \/ LoopQuit \/ LoopEnd
    \/ \E c \in Callers : LoopReceive(c)
    \/ \E m \in Messages : LoopMessage(m)
    \/ \E ok \in BOOLEAN : HandlerReturns(ok)

Next ==
    \/ \E p \in Starters : StartBegin(p) \/ StartRouter(p) \/ StartSpawn(p)
    \/ \E p \in Stoppers : StopBegin(p) \/ StopWait(p) \/ StopRouter(p)
    \/ \E c \in Callers :
          \/ \E op \in Ops, t \in TlvTypes : Call(c, op, t)
          \/ CallQuit(c)
          \/ CallReturn(c)
    \/ LoopStep

Spec == Init /\ [][Next]_vars

(***************************************************************************)
(* Fairness. Every goroutine that can take a step eventually takes it. Go  *)
(* chooses uniformly among the ready cases of a select and serves blocked  *)
(* senders in turn, hence strong fairness for quit and for each request.   *)
(* Handlers and lnd's SendCustomMessage return. Nobody has to call Start   *)
(* or Stop.                                                                *)
(***************************************************************************)
Fairness ==
    /\ \A p \in Starters : WF_vars(StartRouter(p) \/ StartSpawn(p))
    /\ \A p \in Stoppers : WF_vars(StopWait(p) \/ StopRouter(p))
    /\ \A c \in Callers : /\ WF_vars(CallQuit(c) \/ CallReturn(c))
                          /\ SF_vars(LoopReceive(c))
    /\ WF_vars(LoopSubscribe \/ LoopRegister \/ ProcessPacket
               \/ PayloadUnhandled \/ ForwardReturns \/ LoopEnd)
    /\ WF_vars(\E ok \in BOOLEAN : HandlerReturns(ok))
    /\ SF_vars(LoopQuit)

FairSpec == Spec /\ Fairness

\* A further assumption, for CallersReturn only: an owner that answers a
\* shutdown request, or a Start that failed, with a Stop. The code does not
\* make it: requestShutdown is a callback, and boltnd only logs without one.
OwnerStops ==
    /\ shutdownReq \/ \E p \in Starters : startPc[p] = "failed"
    /\ \E p \in Stoppers : StopBegin(p)

OwnerFairness == WF_vars(OwnerStops)

-----------------------------------------------------------------------------
(***************************************************************************)
(* Properties.                                                             *)
(***************************************************************************)
LoopLive == loopPc \notin {"off", "done"}

\* A handler is never replaced: a step leaves the entry of a type as it is,
\* or fills an empty one, or clears it (registerHandler, whatever the order in
\* which requests reach the loop).
NoReplace ==
    [][\A t \in TlvTypes :
          handlers[t] # NoHandler =>
              handlers'[t] \in {handlers[t], NoHandler}]_vars

\* A caller whose request the loop has taken and not answered is the one being
\* served: no request is forgotten and none is answered to somebody else
\* (handleRegistration and the loop's use of errChan).
WaitersServed ==
    \A c \in Callers :
        call[c].st = "wait" /\ call[c].resp = "none"
            => loopPc = "register" /\ req.from = c

\* Unless Stop was called before Start returned, the event loop has ended when
\* Stop gets past wg.Wait, and the router outlives the loop.
StopJoins ==
    ~stopRaced =>
        /\ (\E p \in Stoppers : stopPc[p] \in {"router", "done"}) => ~LoopLive
        /\ LoopLive => router = "up"

\* The loop never ends behind everybody's back: either Stop was called or the
\* owner has been asked to shut down.
NoSilentDeath == loopPc = "done" => quit \/ shutdownReq

\* Stop returns, whatever the loop was doing when it was called.
StopTerminates ==
    \A p \in Stoppers : stopPc[p] = "wait" ~> stopPc[p] = "done"

\* No call of RegisterHandler or DeregisterHandler waits for ever while the loop
\* runs, whatever the other callers and the messages, or once quit is closed:
\* only a loop that has died, or never came up, can keep it waiting. With an
\* owner that answers a shutdown request with a Stop, every call returns.
NobodyToServe ==
    ~quit /\ (loopPc = "done" \/ \E p \in Starters : startPc[p] = "failed")

CallersReturn ==
    /\ \A c \in Callers :
          call[c].st \in {"deliver", "wait"}
              ~> call[c].st = "returned" \/ NobodyToServe
    /\ OwnerFairness =>
          \A c \in Callers :
              call[c].st \in {"deliver", "wait"} ~> call[c].st = "returned"

\* A Stop is final, also one that overlaps Start or comes before it, and has not
\* waited for a loop that was not counted yet: sooner or later the loop is gone,
\* and stays gone.
StopIsFinal == stopped = 1 ~> [](~LoopLive)
=============================================================================
