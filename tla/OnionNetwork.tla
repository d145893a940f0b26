---------------------------- MODULE OnionNetwork -----------------------------
(***************************************************************************)
(* Onion messages in a network of nodes that all run the messenger: the    *)
(* SendOnionMessage rpc with Messenger.SendMessage (onionmsg/messenger.go) *)
(* on the sender's side, and handleOnionMessage with forwardMessage on     *)
(* every node the message passes. lnd is the environment: it knows the     *)
(* graph, connects peers, loses connections, and hands messages over.      *)
(***************************************************************************)
EXTENDS BlindedRoutes

CONSTANTS
    Requests,         \* the calls of SendOnionMessage; also their blinding keys
    Kinds(_),         \* the requests a client may make in each of the calls
    ReplyPayloads,    \* the payloads of a reply
    Channels,         \* the edges of lnd's graph, sets of two nodes
    Routes(_, _),     \* the routes QueryRoutes may return between two nodes
    LookupAttempts    \* lookupPeerAttempts

ASSUME NetworkAssumption ==
    /\ \A e \in Channels : e \subseteq Nodes /\ Cardinality(e) = 2
    /\ LookupAttempts \in Nat
    /\ Requests \subseteq Keys

\* A route that lnd finds leads to the node that was asked for.
ASSUME LndAssumption ==
    \A n, t \in Nodes : \A path \in Routes(n, t) :
        path \in Seq(Nodes) /\ path # <<>> /\ path[Len(path)] = t

VARIABLES
    links,     \* the connections that are up
    dialing,   \* the permanent connections lnd has been asked for
    send,      \* each call's progress, request, path and attempts made
    wire,      \* the messages in transit
    inbox,     \* what exit nodes have decoded
    drops      \* history: the messages that went no further, and why

vars == <<links, dialing, send, wire, inbox, drops>>

Active   == {"query", "find", "lookup", "connect", "poll", "backoff",
             "dispatch"}
Finished == {"sent", "failed", "unready", "invalid", "panicked"}
NoRequest == [from |-> None, peer |-> None, dest |-> None, reply |-> None,
              final |-> {}, direct |-> FALSE]

TypeOK ==
    /\ \A e \in links \cup dialing : e \subseteq Nodes /\ Cardinality(e) = 2
    /\ \A r \in Requests :
          /\ send[r].pc \in {"idle"} \cup Active \cup Finished
          /\ send[r].attempt \in 0..LookupAttempts
          /\ send[r].path \in Seq(Nodes)
    /\ \A m \in wire : m.id \in Requests /\ {m.from, m.to} \in links
    /\ \A m \in inbox : m.id \in Requests /\ m.at \in Nodes
    /\ \A d \in drops : d.id \in Requests /\ d.at \in Nodes

Init ==
    /\ links \in {{}, Channels}
    /\ dialing = {}
    /\ send = [r \in Requests |-> [pc |-> "idle", req |-> NoRequest,
                                   path |-> <<>>, attempt |-> 0]]
    /\ wire = {}
    /\ inbox = {}
    /\ drops = {}

-----------------------------------------------------------------------------
(***************************************************************************)
(* SendOnionMessage.                                                       *)
(***************************************************************************)

\* btcec.ParsePubKey: a key is a point of the curve or it is not.
ParsePubKey(key) == key \in Nodes
ParseBlinding(key) == key \in Ephemerals

parseReplyPath(p) ==
    p # None => /\ ParsePubKey(p.intro)
                /\ ParseBlinding(p.blinding)
                /\ \A i \in DOMAIN p.hops : ParsePubKey(p.hops[i].id.node)

\* parseSendOnionMessageRequest and SendMessageRequest.Validate.
ValidRequest(q) ==
    /\ (q.peer = None) # (q.dest = None)
    /\ q.peer # None => ParsePubKey(q.peer)
    /\ parseReplyPath(q.dest) /\ parseReplyPath(q.reply)
    /\ q.dest # None => q.dest.hops # <<>>
    /\ ValidFinal(q.final)

\* The blinded paths that clients are given can be travelled, and the reply
\* paths that they give lead to them. (What is refused may be anything.)
ASSUME ClientsAssumption ==
    \A r \in Requests : \A q \in Kinds(r) : ValidRequest(q) =>
        /\ q.from \in Nodes
        /\ q.dest # None => q.dest \in BlindedPaths /\ Travellable(q.dest)
        /\ q.reply # None =>
              /\ q.reply \in BlindedPaths
              /\ q.reply.hops # <<>> =>
                    Travellable(q.reply) /\ EndOf(q.reply) = q.from

targetPeer(q) == IF q.dest = None THEN q.peer ELSE q.dest.intro

Goto(r, pc) == send' = [send EXCEPT ![r].pc = pc]
Fail(r) == Goto(r, "failed") /\ UNCHANGED <<links, dialing, wire, inbox, drops>>
Us(r) == send[r].req.from
Target(r) == targetPeer(send[r].req)
Edge(r) == {Us(r), Target(r)}

\* waitForReady returns when the server is ready or when the caller's context
\* ends (which of them is RpcServer's matter); then the request is parsed.
SendOnionMessage(r, q) ==
    /\ send[r].pc = "idle"
    /\ \E ready \in BOOLEAN :
          send' = [send EXCEPT ![r].req = q,
                               ![r].pc = IF ~ready THEN "unready"
                                         ELSE IF ~ValidRequest(q) THEN "invalid"
                                         ELSE IF q.direct THEN "find"
                                         ELSE "query"]
    /\ UNCHANGED <<links, dialing, wire, inbox, drops>>

\* A node answers along the reply path of a message it has received.
Reply(r, m, direct) ==
    /\ m.reply # None
    /\ \A s \in Requests : send[s].req.dest # m.reply
    /\ SendOnionMessage(r, [NoRequest EXCEPT !.from = m.at, !.dest = m.reply,
                            !.final = ReplyPayloads, !.direct = direct])

\* multiHopPath: lnd returns a route, none, or an error.
QueryRoutes(r) ==
    /\ send[r].pc = "query"
    /\ \/ /\ \E path \in Routes(Us(r), Target(r)) :
                send' = [send EXCEPT ![r].pc = "dispatch", ![r].path = path]
          /\ UNCHANGED <<links, dialing, wire, inbox, drops>>
       \/ Fail(r)

\* findPeer, then the path is the target alone.
Peered(r) ==
    /\ Edge(r) \in links
    /\ send' = [send EXCEPT ![r].pc = "dispatch", ![r].path = <<Target(r)>>]
    /\ UNCHANGED <<links, dialing, wire, inbox, drops>>

NotPeered(r, pc) ==
    /\ Edge(r) \notin links
    /\ Goto(r, pc)
    /\ UNCHANGED <<links, dialing, wire, inbox, drops>>

\* The first look at our peers; ListPeers may fail.
FindPeer(r) ==
    /\ send[r].pc = "find"
    /\ Peered(r) \/ NotPeered(r, "lookup") \/ Fail(r)

\* GetNodeInfo fails, or returns no address, or an address to connect to.
LookupNode(r) ==
    /\ send[r].pc = "lookup"
    /\ \/ Goto(r, "connect") /\ UNCHANGED <<links, dialing, wire, inbox, drops>>
       \/ Fail(r)

\* Connect, for good, or an error; lnd does not connect to itself.
ConnectPeer(r) ==
    /\ send[r].pc = "connect"
    /\ \/ /\ Us(r) # Target(r)
          /\ Goto(r, "poll")
          /\ dialing' = dialing \cup {Edge(r)}
          /\ UNCHANGED <<links, wire, inbox, drops>>
       \/ Fail(r)

\* Fault: one attempt too many.
PollPeer_OneMore(r) ==
    /\ send[r].pc = "poll"
    /\ \/ /\ send[r].attempt <= LookupAttempts
          /\ Peered(r) \/ NotPeered(r, "backoff")
       \/ Fail(r)

\* The test of the loop, and the look at our peers in its body.
PollPeer(r) ==
    /\ send[r].pc = "poll"
    /\ \/ /\ send[r].attempt < LookupAttempts
          /\ Peered(r) \/ NotPeered(r, "backoff")
       \/ Fail(r)

\* Fault: the backoff does not count.
Backoff_NoCount(r) ==
    /\ send[r].pc = "backoff"
    /\ \/ /\ send' = [send EXCEPT ![r].pc = "poll"]
          /\ UNCHANGED <<links, dialing, wire, inbox, drops>>
       \/ Fail(r)

\* The timer of the backoff, or the caller's context.
Backoff(r) ==
    /\ send[r].pc = "backoff"
    /\ \/ /\ send' = [send EXCEPT ![r].pc = "poll", ![r].attempt = @ + 1]
          /\ UNCHANGED <<links, dialing, wire, inbox, drops>>
       \/ Fail(r)

\* CreateBlindedRoute, and SendCustomMessage to its first node, which lnd
\* refuses if that node is not, or no longer, a peer. Either may fail for other
\* reasons too. A path that does not fit into the onion panics.
Dispatch(r) ==
    LET q   == send[r].req
        msg == CreateBlindedRoute(r, send[r].path, q.dest, q.reply, q.final)
    IN  /\ send[r].pc = "dispatch"
        /\ \/ /\ msg.ok
              /\ {Us(r), msg.first} \in links
              /\ Goto(r, "sent")
              /\ wire' = wire \cup {[id |-> r, from |-> Us(r),
                                     to |-> msg.first,
                                     blinding |-> msg.blinding,
                                     onion |-> msg.onion]}
              /\ UNCHANGED <<links, dialing, inbox, drops>>
           \/ /\ ~msg.ok /\ msg.why = "panic"
              /\ Goto(r, "panicked")
              /\ UNCHANGED <<links, dialing, wire, inbox, drops>>
           \/ /\ ~msg.ok => msg.why # "panic"
              /\ Fail(r)

-----------------------------------------------------------------------------
(***************************************************************************)
(* handleOnionMessage, on the node m.to.                                   *)
(***************************************************************************)
Hop(m) == m.onion[1]

\* processOnion: the router opens the onion with our key and the blinding
\* point of the message.
Opens(m) == Hop(m).id = BlindedID(m.to, m.blinding)

\* decryptDataBlob.
Decrypts(m) == Hop(m).data.node = m.to /\ Hop(m).data.eph = m.blinding
RouteData(m) == Hop(m).data.data

\* Fault: a message that cannot be handled is kept for another try.
Drop_Retries(m, why) == UNCHANGED vars

\* handleOnionMessage returned an error, which manageOnionMessages only logs.
Drop(m, why) ==
    /\ wire' = wire \ {m}
    /\ drops' = drops \cup {[id |-> m.id, at |-> m.to, why |-> why]}
    /\ UNCHANGED <<links, dialing, send, inbox>>

\* What is wrong with the message, in the order in which it is found out.
Rejected(m) ==
    IF ~Opens(m) THEN "bad onion"
    ELSE IF ~Decodes(Hop(m).final) THEN "bad payload"
    ELSE IF Len(m.onion) = 1 THEN "none"
    ELSE IF DecodedFinal(Hop(m).final) # {} THEN "final payload"
    ELSE IF ~Decrypts(m) THEN "bad data"
    ELSE IF RouteData(m).next = None THEN "no next node"
    ELSE IF {m.to, RouteData(m).next} \notin links THEN "no peer"
    ELSE "none"

\* Fault: the exit node goes on to forward what it has consumed.
Exit_FallsThrough(m) ==
    /\ Rejected(m) = "none"
    /\ Len(m.onion) = 1
    /\ inbox' = inbox \cup {[id |-> m.id, at |-> m.to,
                             reply |-> decodeReplyPath(Hop(m).reply),
                             final |-> DecodedFinal(Hop(m).final)]}
    /\ wire' = wire \ {m}
    /\ drops' = drops \cup {[id |-> m.id, at |-> m.to, why |-> "no next node"]}
    /\ UNCHANGED <<links, dialing, send>>

\* The exit node decodes the payload for its handlers.
Exit(m) ==
    /\ Rejected(m) = "none"
    /\ Len(m.onion) = 1
    /\ wire' = wire \ {m}
    /\ inbox' = inbox \cup {[id |-> m.id, at |-> m.to,
                             reply |-> decodeReplyPath(Hop(m).reply),
                             final |-> DecodedFinal(Hop(m).final)]}
    /\ UNCHANGED <<links, dialing, send, drops>>

\* The ephemeral key of the next hop, or the override that replaces it.
NextBlinding(m) ==
    IF RouteData(m).override # None THEN RouteData(m).override
    ELSE NextEphemeral(m.to, m.blinding)

\* forwardMessage.
Forward(m) ==
    /\ Rejected(m) = "none"
    /\ Len(m.onion) > 1
    /\ wire' = (wire \ {m}) \cup
                   {[id |-> m.id, from |-> m.to, to |-> RouteData(m).next,
                     blinding |-> NextBlinding(m), onion |-> Tail(m.onion)]}
    /\ UNCHANGED <<links, dialing, send, inbox, drops>>

\* The message is dropped with an error, which is only logged.
Reject(m) == Rejected(m) # "none" /\ Drop(m, Rejected(m))

\* A call to lnd fails: for the shared secret with our key, or to send.
LndFails(m) == Drop(m, "lnd")

HandleOnionMessage(m) == Exit(m) \/ Forward(m) \/ Reject(m) \/ LndFails(m)

-----------------------------------------------------------------------------
(***************************************************************************)
(* lnd's connections. What is in transit on a connection is lost with it.  *)
(***************************************************************************)
LinkUp(e) ==
    /\ e \in (Channels \cup dialing) \ links
    /\ links' = links \cup {e}
    /\ UNCHANGED <<dialing, send, wire, inbox, drops>>

LinkDown(e) ==
    LET lost == {m \in wire : {m.from, m.to} = e}
    IN  /\ e \in links
        /\ links' = links \ {e}
        /\ wire' = wire \ lost
        /\ drops' = drops \cup
                      {[id |-> m.id, at |-> m.to, why |-> "lost"] : m \in lost}
        /\ UNCHANGED <<dialing, send, inbox>>

-----------------------------------------------------------------------------
SendStep(r) ==
    \/ QueryRoutes(r) \/ FindPeer(r) \/ LookupNode(r) \/ ConnectPeer(r)
    \/ PollPeer(r) \/ Backoff(r) \/ Dispatch(r)

Next ==
    \/ \E r \in Requests :
          \/ \E q \in Kinds(r) : SendOnionMessage(r, q)
          \/ \E m \in inbox, d \in BOOLEAN : Reply(r, m, d)
          \/ SendStep(r)
    \/ \E m \in wire : HandleOnionMessage(m)
    \/ \E e \in Channels \cup dialing : LinkUp(e) \/ LinkDown(e)

Spec == Init /\ [][Next]_vars

\* Calls to lnd return and timers fire; nodes handle what reaches them.
Fairness ==
    /\ \A r \in Requests : WF_vars(SendStep(r))
    /\ WF_vars(\E m \in wire : HandleOnionMessage(m))

FairSpec == Spec /\ Fairness

-----------------------------------------------------------------------------
(***************************************************************************)
(* Properties.                                                             *)
(***************************************************************************)
Recipient(q) == IF q.dest = None THEN q.peer ELSE EndOf(q.dest)

\* The request was sent straight to a blinded path (directToBlinded).
SentDirect(r) == send[r].req.dest # None /\ Len(send[r].path) = 1

\* No node on the way refuses a message that CreateBlindedRoute made: every
\* hop can open its layer, decrypt its data and learn a next node, also where
\* our hops meet those of a blinded destination. Only lnd and its connections
\* fail, and payloads of unknown even types at the recipient.
HopsAccept ==
    \A d \in drops :
        \/ d.why \in {"no peer", "lost", "lnd"}
        \/ /\ d.why = "bad payload"
           /\ ~Decodes(send[d.id].req.final)
           /\ d.at = Recipient(send[d.id].req)

\* A message reaches the node it was meant for and no other, and once: it is
\* then neither in transit nor dropped anywhere.
RightRecipient ==
    /\ \A m \in inbox : m.at = Recipient(send[m.id].req)
    /\ \A m1, m2 \in inbox : m1.id = m2.id => m1 = m2
    /\ \A m \in inbox : /\ \A w \in wire : w.id # m.id
                        /\ \A d \in drops : d.id # m.id

\* A reply, sent along the reply path of a message, reaches the node that the
\* message came from, which the replying node does not know.
RepliesComeBack ==
    \A m, asked \in inbox :
        asked.reply # None /\ send[m.id].req.dest = asked.reply =>
            m.at = send[asked.id].req.from

\* A message shows the reply path it was sent with, no payload it was not sent
\* with, and every payload that has a body or a type the decoder knows. Of
\* markers, payloads of other types without a body, it says nothing: Validate
\* means to allow them, and decoding drops them.
Intact(m) ==
    LET q == send[m.id].req
    IN  /\ m.reply = q.reply
        /\ m.final \subseteq q.final
        /\ \A p \in q.final : ~p.empty \/ p.tlv \in Recognized => p \in m.final

\* What arrives is what was sent. Not so when the message was sent straight to
\* a blinded path.
ArrivesIntact == \A m \in inbox : ~SentDirect(m.id) => Intact(m)

\* Only the hop that a message is for carries its reply path and payloads.
OnlyLastHopCarries ==
    \A m \in wire : \A i \in 1..(Len(m.onion) - 1) :
        m.onion[i].reply = None /\ m.onion[i].final = {}

\* "The message can optionally include a reply path for the recipient to use
\* for replies and payloads for the final hop" (SendMessage): whatever the kind
\* of destination, they arrive.
PayloadsArrive == \A m \in inbox : Intact(m)

\* Where the message of a call is, as Delivery sees it; that it is in more than
\* one place is none of Delivery's states.
Where(r) ==
    LET delivered == \E m \in inbox : m.id = r
        transit   == \E m \in wire : m.id = r
        lost      == \E d \in drops : d.id = r
    IN  IF (delivered /\ transit) \/ (transit /\ lost) \/ (lost /\ delivered)
        THEN "everywhere"
        ELSE IF delivered THEN "delivered"
        ELSE IF transit THEN "transit"
        ELSE IF lost THEN "lost"
        ELSE IF send[r].pc = "idle" THEN "idle"
        ELSE IF send[r].pc \in Active THEN "calling"
        ELSE IF send[r].pc = "sent" THEN "vanished"
        ELSE "refused"

ParcelOf(r) ==
    LET st   == Where(r)
        made == st \notin {"idle", "refused"}
        here == {m \in inbox : m.id = r}
    IN  [st   |-> st,
         to   |-> IF made THEN {Recipient(send[r].req)} ELSE {},
         body |-> IF made THEN send[r].req.final ELSE {},
         at   |-> {m.at : m \in here},
         read |-> UNION {m.final : m \in here}]

Abstract == INSTANCE Delivery WITH
    Calls    <- Requests,
    Places   <- Nodes,
    Contents <- {ReplyPayloads} \cup
                    {q.final : q \in UNION {Kinds(r) : r \in Requests}},
    parcel   <- [r \in Requests |-> ParcelOf(r)]

\* Routes, hops and connections implement Delivery: each step of the network
\* is one of its steps or changes nothing that it sees. In particular a message
\* never leaves a call that failed, is never delivered and lost, never comes
\* back once it is settled, and never vanishes without a trace.
ImplementsDelivery == Abstract!DeliverySpec

\* SendOnionMessage ends: looking a peer up is over after its attempts.
SendReturns ==
    \A r \in Requests : send[r].pc \in Active ~> send[r].pc \in Finished

\* A message in transit does not travel for ever.
MessagesSettle ==
    \A r \in Requests :
        (\E m \in wire : m.id = r) ~> (\A m \in wire : m.id # r)
=============================================================================
