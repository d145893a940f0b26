------------------------------ MODULE RpcServer ------------------------------
(***************************************************************************)
(* The rpc server (rpcserver/server.go) and its SubscribeOnionPayload      *)
(* streams (rpcserver/impl_subscribe_onion_payload.go), composed with the  *)
(* messenger they register their handlers with. A stream is a goroutine    *)
(* of the grpc server: it plays the caller of Messenger, and its handler,  *)
(* run by the event loop, fills the stream's channel of incoming payloads. *)
(*                                                                         *)
(* The context of a stream is grpc's: it is done when the client cancels,  *)
(* when a Send fails and when the rpc returns.                             *)
(***************************************************************************)
EXTENDS Messenger, FiniteSets

CONSTANTS
    IncomingSize,   \* the capacity of incomingMessages
    MaxMessages     \* bound: the custom messages lnd delivers

ASSUME RpcAssumption == IncomingSize \in Nat /\ MaxMessages \in Nat

VARIABLES
    srvStarted,   \* Server.started
    srvStopped,   \* Server.stopped
    srvQuit,      \* TRUE once Server.quit is closed
    ready,        \* TRUE once Server.ready is closed
    hasMsgr,      \* Server.onionMsgr is set
    srvStart,     \* progress of each call of Server.Start
    srvStop,      \* progress of each call of Server.Stop
    sub,          \* where each stream is
    subTlv,       \* the tlv type each stream asked for
    ctxDone,      \* the stream's context is done
    incoming,     \* the payloads in the stream's channel
    sending,      \* the payload the stream is sending, if any
    sent,         \* the payloads sent to the client
    seen,         \* the number of custom messages received so far
    expected,     \* history: messages with a payload of the stream's type
                  \* that arrived while its handler was registered
    aborted       \* history: messages ended by a handler's error

server  == <<srvStarted, srvStopped, srvQuit, ready, hasMsgr, srvStart,
             srvStop>>
streams == <<sub, subTlv, ctxDone, incoming, sending, sent>>
history == <<seen, expected, aborted>>
rpcVars == <<vars, server, streams, history>>

SubStates == {"idle", "ready", "register", "recv", "send", "deregister",
              "closed"}
MessageNumbers == 1..MaxMessages

RpcTypeOK ==
    /\ TypeOK
    /\ srvStarted \in {0, 1} /\ srvStopped \in {0, 1}
    /\ srvQuit \in BOOLEAN /\ ready \in BOOLEAN /\ hasMsgr \in BOOLEAN
    /\ srvStart \in [Starters -> {"idle", "setup", "messenger", "done",
                                  "failed", "rejected"}]
    /\ srvStop \in [Stoppers -> {"idle", "check", "messenger", "done",
                                 "rejected"}]
    /\ sub \in [Callers -> SubStates]
    /\ subTlv \in [Callers -> TlvTypes \cup {0}]
    /\ ctxDone \in [Callers -> BOOLEAN]
    /\ incoming \in [Callers -> Seq(MessageNumbers)]
    /\ sending \in [Callers -> Seq(MessageNumbers)]
    /\ sent \in [Callers -> Seq(MessageNumbers)]
    /\ \A s \in Callers :
          Len(incoming[s]) <= IncomingSize /\ Len(sending[s]) <= 1
    /\ seen \in 0..MaxMessages
    /\ expected \in [Callers -> SUBSET MessageNumbers]
    /\ aborted \subseteq MessageNumbers

\* NewServer, and no stream yet.
RpcInit ==
    /\ Init
    /\ srvStarted = 0 /\ srvStopped = 0
    /\ srvQuit = FALSE /\ ready = FALSE /\ hasMsgr = FALSE
    /\ srvStart = [p \in Starters |-> "idle"]
    /\ srvStop = [p \in Stoppers |-> "idle"]
    /\ sub = [s \in Callers |-> "idle"]
    /\ subTlv = [s \in Callers |-> 0]
    /\ ctxDone = [s \in Callers |-> FALSE]
    /\ incoming = [s \in Callers |-> <<>>]
    /\ sending = [s \in Callers |-> <<>>]
    /\ sent = [s \in Callers |-> <<>>]
    /\ seen = 0
    /\ expected = [s \in Callers |-> {}]
    /\ aborted = {}

-----------------------------------------------------------------------------
(***************************************************************************)
(* Server.Start and Server.Stop.                                           *)
(***************************************************************************)

\* The compare-and-swap on started.
SrvStartBegin(p) ==
    /\ srvStart[p] = "idle"
    /\ srvStarted' = 1
    /\ srvStart' = [srvStart EXCEPT ![p] =
                        IF srvStarted = 0 THEN "setup" ELSE "rejected"]
    /\ UNCHANGED <<vars, srvStopped, srvQuit, ready, hasMsgr, srvStop,
                   streams, history>>

\* NewNodeECDH fails, or the messenger is created and its Start is called.
SrvStartSetup(p) ==
    /\ srvStart[p] = "setup"
    /\ \/ /\ srvStart' = [srvStart EXCEPT ![p] = "failed"]
          /\ UNCHANGED hasMsgr
       \/ /\ srvStart' = [srvStart EXCEPT ![p] = "messenger"]
          /\ hasMsgr' = TRUE
    /\ UNCHANGED <<vars, srvStarted, srvStopped, srvQuit, ready, srvStop,
                   streams, history>>

\* A step of Messenger.Start on behalf of Server.Start.
SrvStartMessenger(p) ==
    /\ srvStart[p] = "messenger"
    /\ StartBegin(p) \/ StartRouter(p) \/ StartSpawn(p)
    /\ UNCHANGED <<server, streams, history>>

\* Messenger.Start has returned: ready is closed on success.
SrvStartReturns(p) ==
    /\ srvStart[p] = "messenger"
    /\ \/ /\ startPc[p] = "done"
          /\ ready' = TRUE
          /\ srvStart' = [srvStart EXCEPT ![p] = "done"]
       \/ /\ startPc[p] = "failed"
          /\ srvStart' = [srvStart EXCEPT ![p] = "failed"]
          /\ UNCHANGED ready
    /\ UNCHANGED <<vars, srvStarted, srvStopped, srvQuit, hasMsgr, srvStop,
                   streams, history>>

\* The compare-and-swap on stopped; the winner closes quit.
SrvStopBegin(p) ==
    /\ srvStop[p] = "idle"
    /\ srvStopped' = 1
    /\ srvQuit' = TRUE
    /\ srvStop' = [srvStop EXCEPT ![p] =
                       IF srvStopped = 0 THEN "check" ELSE "rejected"]
    /\ UNCHANGED <<vars, srvStarted, ready, hasMsgr, srvStart, streams,
                   history>>

\* Fault: only a server that is ready stops its messenger.
SrvStopCheck_OnlyIfReady(p) ==
    /\ srvStop[p] = "check"
    /\ srvStop' = [srvStop EXCEPT ![p] =
                       IF ready THEN "messenger" ELSE "done"]
    /\ UNCHANGED <<vars, srvStarted, srvStopped, srvQuit, ready, hasMsgr,
                   srvStart, streams, history>>

\* The messenger is stopped if there is one.
SrvStopCheck(p) ==
    /\ srvStop[p] = "check"
    /\ srvStop' = [srvStop EXCEPT ![p] =
                       IF hasMsgr THEN "messenger" ELSE "done"]
    /\ UNCHANGED <<vars, srvStarted, srvStopped, srvQuit, ready, hasMsgr,
                   srvStart, streams, history>>

\* Fault: Messenger.Stop is left to finish on its own.
SrvStopMessenger_NoJoin(p) ==
    /\ \/ /\ srvStop[p] = "messenger"
          /\ StopBegin(p)
          /\ srvStop' = [srvStop EXCEPT ![p] = "done"]
       \/ /\ StopWait(p) \/ StopRouter(p)
          /\ UNCHANGED srvStop
    /\ UNCHANGED <<srvStarted, srvStopped, srvQuit, ready, hasMsgr, srvStart,
                   streams, history>>

\* A step of Messenger.Stop on behalf of Server.Stop; its return is the
\* return of Server.Stop.
SrvStopMessenger(p) ==
    /\ srvStop[p] = "messenger"
    /\ \/ StopBegin(p) /\ UNCHANGED srvStop
       \/ StopWait(p) /\ UNCHANGED srvStop
       \/ StopRouter(p) /\ srvStop' = [srvStop EXCEPT ![p] = "done"]
    /\ UNCHANGED <<srvStarted, srvStopped, srvQuit, ready, hasMsgr, srvStart,
                   streams, history>>

-----------------------------------------------------------------------------
(***************************************************************************)
(* SubscribeOnionPayload.                                                  *)
(***************************************************************************)

\* A client opens a stream.
Subscribe(s, t) ==
    /\ sub[s] = "idle"
    /\ sub' = [sub EXCEPT ![s] = "ready"]
    /\ subTlv' = [subTlv EXCEPT ![s] = t]
    /\ UNCHANGED <<vars, server, ctxDone, incoming, sending, sent, history>>

ClientCancels(s) ==
    /\ sub[s] \notin {"idle", "closed"}
    /\ ~ctxDone[s]
    /\ ctxDone' = [ctxDone EXCEPT ![s] = TRUE]
    /\ UNCHANGED <<vars, server, sub, subTlv, incoming, sending, sent,
                   history>>

\* The rpc returns, which ends its context.
StreamReturns(s) ==
    /\ sub' = [sub EXCEPT ![s] = "closed"]
    /\ ctxDone' = [ctxDone EXCEPT ![s] = TRUE]

\* waitForReady fails on a context that is done, and the request's type is
\* checked once the server is ready.
StreamRejected(s) ==
    /\ sub[s] = "ready"
    /\ ctxDone[s] \/ (ready /\ ~ValidateFinalPayload(subTlv[s]))
    /\ StreamReturns(s)
    /\ UNCHANGED <<vars, server, subTlv, incoming, sending, sent, history>>

\* The server is ready, the type is valid and RegisterHandler is called.
StreamRegister(s) ==
    /\ sub[s] = "ready"
    /\ ready
    /\ ValidateFinalPayload(subTlv[s])
    /\ Call(s, "register", subTlv[s])
    /\ sub' = [sub EXCEPT ![s] = "register"]
    /\ UNCHANGED <<server, subTlv, ctxDone, incoming, sending, sent, history>>

CallEnds(s) == CallQuit(s) \/ CallReturn(s)

\* Fault: the deferred deregistration also runs when registering failed.
StreamRegistered_DeferFirst(s) ==
    /\ sub[s] = "register"
    /\ \/ /\ CallReturn(s) /\ call[s].resp = "ok"
          /\ sub' = [sub EXCEPT ![s] = "recv"]
       \/ /\ call[s].st = "wait" /\ call[s].resp \notin {"none", "ok"}
          /\ call' = [call EXCEPT ![s] = [@ EXCEPT !.st = "deliver",
                            !.op = "deregister", !.resp = "none"]]
          /\ sub' = [sub EXCEPT ![s] = "deregister"]
          /\ UNCHANGED <<startStop, wg, loop, handlers>>
    /\ UNCHANGED <<server, subTlv, ctxDone, incoming, sending, sent, history>>

\* RegisterHandler returns: the stream goes on if its handler is in place.
StreamRegistered(s) ==
    /\ sub[s] = "register"
    /\ CallEnds(s)
    /\ IF call'[s].resp = "ok"
       THEN sub' = [sub EXCEPT ![s] = "recv"] /\ UNCHANGED ctxDone
       ELSE StreamReturns(s)
    /\ UNCHANGED <<server, subTlv, incoming, sending, sent, history>>

\* Fault: the payload is read without being taken from the channel.
StreamReceive_Peek(s) ==
    /\ sub[s] = "recv"
    /\ incoming[s] # <<>>
    /\ sending' = [sending EXCEPT ![s] = <<Head(incoming[s])>>]
    /\ sub' = [sub EXCEPT ![s] = "send"]
    /\ UNCHANGED <<vars, server, subTlv, ctxDone, incoming, sent, history>>

\* A payload is received from the stream's channel.
StreamReceive(s) ==
    /\ sub[s] = "recv"
    /\ incoming[s] # <<>>
    /\ sending' = [sending EXCEPT ![s] = <<Head(incoming[s])>>]
    /\ incoming' = [incoming EXCEPT ![s] = Tail(@)]
    /\ sub' = [sub EXCEPT ![s] = "send"]
    /\ UNCHANGED <<vars, server, subTlv, ctxDone, sent, history>>

\* Send succeeds; it may do so although the context has just ended.
StreamSend(s) ==
    /\ sub[s] = "send"
    /\ sent' = [sent EXCEPT ![s] = @ \o sending[s]]
    /\ sending' = [sending EXCEPT ![s] = <<>>]
    /\ sub' = [sub EXCEPT ![s] = "recv"]
    /\ UNCHANGED <<vars, server, subTlv, ctxDone, incoming, history>>

\* handleSubscribeOnionPayload leaves its loop: the deferred function calls
\* DeregisterHandler.
StreamLeaves(s) ==
    /\ Call(s, "deregister", subTlv[s])
    /\ sub' = [sub EXCEPT ![s] = "deregister"]

\* Fault: a transport whose context outlives a failed Send.
StreamSendFails_CtxLives(s) ==
    /\ sub[s] = "send"
    /\ StreamLeaves(s)
    /\ sending' = [sending EXCEPT ![s] = <<>>]
    /\ UNCHANGED <<server, subTlv, ctxDone, incoming, sent, history>>

\* Send fails, which also ends the stream's context.
StreamSendFails(s) ==
    /\ sub[s] = "send"
    /\ StreamLeaves(s)
    /\ sending' = [sending EXCEPT ![s] = <<>>]
    /\ ctxDone' = [ctxDone EXCEPT ![s] = TRUE]
    /\ UNCHANGED <<server, subTlv, incoming, sent, history>>

\* Fault: the stream returns without deregistering its handler.
StreamStops_NoDefer(s) ==
    /\ sub[s] = "recv"
    /\ ctxDone[s] \/ srvQuit
    /\ StreamReturns(s)
    /\ UNCHANGED <<vars, server, subTlv, incoming, sending, sent, history>>

\* The client's cancel, or the server's quit, is noticed.
StreamStops(s) ==
    /\ sub[s] = "recv"
    /\ ctxDone[s] \/ srvQuit
    /\ StreamLeaves(s)
    /\ UNCHANGED <<server, subTlv, ctxDone, incoming, sending, sent, history>>

\* DeregisterHandler returns, its error is logged, and so does the rpc.
StreamDeregistered(s) ==
    /\ sub[s] = "deregister"
    /\ CallEnds(s)
    /\ StreamReturns(s)
    /\ UNCHANGED <<server, subTlv, incoming, sending, sent, history>>

-----------------------------------------------------------------------------
(***************************************************************************)
(* The event loop runs a stream's handler.                                 *)
(***************************************************************************)
Owner == handlers[Head(rest)]

\* Fault: the channel takes one payload more than it is made for.
HandlerAccepts_OneMore ==
    /\ HandlerReturns(TRUE)
    /\ Len(incoming[Owner]) <= IncomingSize
    /\ incoming' = [incoming EXCEPT ![Owner] = Append(@, seen)]
    /\ UNCHANGED <<server, sub, subTlv, ctxDone, sending, sent, history>>

\* Fault: a handler that skips the payload when the channel is full.
HandlerAccepts_DropsWhenFull ==
    /\ HandlerReturns(TRUE)
    /\ incoming' = IF Len(incoming[Owner]) < IncomingSize
                   THEN [incoming EXCEPT ![Owner] = Append(@, seen)]
                   ELSE incoming
    /\ UNCHANGED <<server, sub, subTlv, ctxDone, sending, sent, history>>

\* The payload goes into the channel if there is room for it.
HandlerAccepts ==
    /\ HandlerReturns(TRUE)
    /\ Len(incoming[Owner]) < IncomingSize
    /\ incoming' = [incoming EXCEPT ![Owner] = Append(@, seen)]
    /\ UNCHANGED <<server, sub, subTlv, ctxDone, sending, sent, history>>

\* Fault: the handler does not watch the server's quit.
HandlerFails_NoQuit ==
    /\ HandlerReturns(FALSE)
    /\ ctxDone[Owner]
    /\ aborted' = aborted \cup {seen}
    /\ UNCHANGED <<server, streams, seen, expected>>

\* The client's cancel or the server's quit ends the handler with an error.
HandlerFails ==
    /\ HandlerReturns(FALSE)
    /\ ctxDone[Owner] \/ srvQuit
    /\ aborted' = aborted \cup {seen}
    /\ UNCHANGED <<server, streams, seen, expected>>

Addressed(m, s) ==
    /\ m.msgType = "onion" /\ m.packet = "exit"
    /\ \E i \in DOMAIN m.payloads : handlers[m.payloads[i]] = s

LoopMessageArrives(m) ==
    /\ seen < MaxMessages
    /\ LoopMessage(m)
    /\ seen' = seen + 1
    /\ expected' = [s \in Callers |->
                        expected[s] \cup (IF Addressed(m, s) /\ router = "up"
                                          THEN {seen + 1} ELSE {})]
    /\ UNCHANGED <<server, streams, aborted>>

\* The steps of the loop that no stream takes part in.
LoopInternal ==
    /\ \/ LoopSubscribe \/ LoopRegister \/ ProcessPacket \/ PayloadUnhandled
       \/ ForwardReturns \/ LoopEnd
    /\ UNCHANGED <<server, streams, history>>

LoopReceives(s) == LoopReceive(s) /\ UNCHANGED <<server, streams, history>>
LoopQuits == LoopQuit /\ UNCHANGED <<server, streams, history>>
LoopLosesLnd == LoopStreamEnds /\ UNCHANGED <<server, streams, history>>

-----------------------------------------------------------------------------
StreamStep(s) ==
    \/ StreamRejected(s) \/ StreamRegister(s) \/ StreamRegistered(s)
    \/ StreamReceive(s) \/ StreamStops(s) \/ StreamDeregistered(s)

RpcNext ==
    \/ \E p \in Starters : \/ SrvStartBegin(p) \/ SrvStartSetup(p)
                           \/ SrvStartMessenger(p) \/ SrvStartReturns(p)
    \/ \E p \in Stoppers : \/ SrvStopBegin(p) \/ SrvStopCheck(p)
                           \/ SrvStopMessenger(p)
    \/ \E s \in Callers :
          \/ \E t \in TlvTypes : Subscribe(s, t)
          \/ ClientCancels(s)
          \/ StreamStep(s)
          \/ StreamSend(s) \/ StreamSendFails(s)
          \/ LoopReceives(s)
    \/ \E m \in Messages : LoopMessageArrives(m)
    \/ HandlerAccepts \/ HandlerFails
    \/ LoopInternal \/ LoopQuits \/ LoopLosesLnd

RpcSpec == RpcInit /\ [][RpcNext]_rpcVars

(***************************************************************************)
(* Fairness. The goroutines of the server, of the streams and of the       *)
(* messenger take the steps they can take; the ready cases of a select are *)
(* all taken eventually. A blocked Send returns once its context is done.  *)
(* Nothing is assumed of the clients: one may stop reading for ever.       *)
(***************************************************************************)
RpcFairness ==
    /\ \A p \in Starters : WF_rpcVars(\/ SrvStartSetup(p)
                                      \/ SrvStartMessenger(p)
                                      \/ SrvStartReturns(p))
    /\ \A p \in Stoppers : WF_rpcVars(SrvStopCheck(p) \/ SrvStopMessenger(p))
    /\ \A s \in Callers :
          /\ WF_rpcVars(StreamStep(s))
          /\ SF_rpcVars(StreamStops(s))
          /\ SF_rpcVars(LoopReceives(s))
          /\ WF_rpcVars(ctxDone[s] /\ (StreamSend(s) \/ StreamSendFails(s)))
    /\ WF_rpcVars(HandlerAccepts \/ HandlerFails)
    /\ WF_rpcVars(LoopInternal)
    /\ SF_rpcVars(LoopQuits)

FairRpcSpec == RpcSpec /\ RpcFairness

\* Further assumptions, for StreamsEnd only: clients that read what they are
\* sent, or go away; and an owner that stops the server when the messenger
\* asks for it.
SrvOwnerStops == shutdownReq /\ \E p \in Stoppers : SrvStopBegin(p)

ClientFairness ==
    /\ \A s \in Callers : WF_rpcVars(StreamSend(s) \/ StreamSendFails(s))
    /\ WF_rpcVars(SrvOwnerStops)

-----------------------------------------------------------------------------
(***************************************************************************)
(* Properties.                                                             *)
(***************************************************************************)
Delivered(s) == sent[s] \o sending[s] \o incoming[s]
Subscribed(s) == sub[s] \in {"recv", "send"}

\* A stream that is receiving owns its type: no other stream's registration,
\* cancellation or failure takes the handler away from it.
Ownership == \A s \in Callers : Subscribed(s) => handlers[subTlv[s]] = s

\* No handler is left behind by a stream that is gone, except by the shutdown
\* of the messenger, so the type can be subscribed to again.
NoOrphan ==
    \A t \in TlvTypes, s \in Callers :
        handlers[t] = s =>
            /\ subTlv[s] = t
            /\ sub[s] \in {"register", "recv", "send", "deregister"} \/ quit

\* A client is sent the payloads of its type in the order in which their
\* messages arrived, none of them twice, and only those that arrived while its
\* handler was registered.
InOrder ==
    \A s \in Callers :
        /\ \A i, j \in DOMAIN Delivered(s) :
              i < j => Delivered(s)[i] < Delivered(s)[j]
        /\ \A i \in DOMAIN Delivered(s) : Delivered(s)[i] \in expected[s]

InFlight == IF loopPc \in {"process", "dispatch"} THEN {seen} ELSE {}
Got(s) == {Delivered(s)[i] : i \in DOMAIN Delivered(s)}
Undisturbed(s) == Subscribed(s) /\ ~ctxDone[s] /\ ~srvQuit

\* While a stream is undisturbed, every payload of its type has been sent or is
\* on its way, unless the handler of an earlier payload of the same message
\* ended that message with an error.
NoLoss ==
    \A s \in Callers :
        Undisturbed(s) => expected[s] \ (aborted \cup InFlight) \subseteq Got(s)

\* "Buffer it by 1 so that we never risk blocking the calling function"
\* (SubscribeOnionPayload): while a client is slow to take the payload being
\* sent to it, a handler that the loop runs for the same stream can return.
HandlerNeverBlocks ==
    loopPc = "dispatch" /\ Owner # NoHandler /\ sub[Owner] = "send" =>
        Len(incoming[Owner]) < IncomingSize \/ ctxDone[Owner] \/ srvQuit

\* Server.Stop returned without having found a messenger to stop.
StopMissed ==
    \E p \in Stoppers : srvStop[p] = "done" /\ stopPc[p] = "idle"

\* Once Server.Stop has returned, the event loop is gone, and no handler runs
\* any more, in whatever state clients, streams and lnd were. The two windows in
\* which Stop overlaps Start are the only exceptions: Stop looked before the
\* messenger was there, or before its loop was counted.
StopQuiesces ==
    (\E p \in Stoppers : srvStop[p] = "done") =>
        ~LoopLive \/ StopMissed \/ stopRaced

Bus == INSTANCE PayloadBus WITH
    Subscribers  <- Callers,
    PayloadTypes <- TlvTypes,
    Nobody       <- NoHandler,
    Capacity     <- IncomingSize + 1,
    owner        <- handlers,
    waiting      <- [s \in Callers |-> sending[s] \o incoming[s]],
    taken        <- sent,
    clock        <- seen

\* The streams, their handlers and the event loop implement PayloadBus: each of
\* their steps is a step of the bus or changes nothing that a subscriber could
\* tell. What waits for a client is the payload being sent and the channel.
ImplementsBus == Bus!BusSpec

\* Server.Stop returns, even when clients have stopped reading and the loop is
\* stuck in a handler at that moment.
StopReturns ==
    \A p \in Stoppers : srvStop[p] = "check" ~> srvStop[p] = "done"

\* A Server.Stop that comes once there is a messenger is final, also while
\* Server.Start is still starting that messenger, and whatever clients and
\* handlers do: sooner or later the event loop is gone, and stays gone.
ServerStopIsFinal ==
    hasMsgr /\ (\E p \in Stoppers : srvStop[p] = "check") ~> [](~LoopLive)

\* What ends a stream: its context is done, it is deregistering, or the server
\* stops. Only a stream that still waits for the server to be ready outlasts a
\* Server.Stop (waitForReady does not watch quit), until its client gives up.
Ending(s) ==
    \/ sub[s] # "idle" /\ ctxDone[s]
    \/ sub[s] \notin {"idle", "ready"} /\ srvQuit
    \/ sub[s] = "deregister"

\* With clients that do not stall, a stream that is to end does end: the loop is
\* never stuck in the handler of the stream that waits for the loop, and a
\* stream waiting for a loop that has died is released by the shutdown it asks
\* for, unless Server.Stop had already missed the messenger.
StreamsEnd ==
    ClientFairness =>
        \A s \in Callers :
            Ending(s) ~> sub[s] = "closed" \/ StopMissed
=============================================================================
