---------------------------- MODULE BlindedRoutes ----------------------------
(***************************************************************************)
(* Blinded routes for onion messages: CreateBlindedRoute and the           *)
(* functions it is made of (routes/blinded.go), over a symbolic sphinx     *)
(* library. Keys are symbols: the ephemeral key that a path built from key *)
(* k has after the nodes via have each applied NextEphemeral is the record *)
(* [key |-> k, via |-> via]; what is blinded or encrypted for node n under *)
(* an ephemeral key can be opened by n under that same key only.           *)
(***************************************************************************)
EXTENDS Naturals, Sequences, FiniteSets

CONSTANTS
    Nodes,        \* the nodes of the network, named by their public keys
    None,         \* a nil pointer
    Keys,         \* the ephemeral keys that blinded paths are built from
    NumMaxHops,   \* the length of sphinx.PaymentPath
    CountBits,    \* the width of a reply path's hop count, 8
    ReplyRoom     \* the hops of a reply path that an onion has bytes for

\* Ephemeral keys as they are handed on, what is encrypted for a hop, and paths
\* of such hops, in memory and as they are written into an onion.
Ephemerals   == [key : Keys, via : Seq(Nodes)]
RouteDatas   == [next : Nodes \cup {None}, override : Ephemerals \cup {None}]
BlindedHops  == [id   : [node : Nodes, eph : Ephemerals],
                 data : [node : Nodes, eph : Ephemerals, data : RouteDatas]]
BlindedPaths == [intro : Nodes, blinding : Ephemerals, hops : Seq(BlindedHops)]
EncodedPaths == [intro : Nodes, blinding : Ephemerals, count : Nat,
                 hops : Seq(BlindedHops)]

\* An onion has 1300 bytes for its hops, and a hop of a reply path takes 35 or
\* more of them.
ASSUME RoutesAssumption ==
    /\ None \notin Nodes \cup Ephemerals \cup EncodedPaths
    /\ NumMaxHops \in Nat \ {0}
    /\ CountBits \in Nat /\ ReplyRoom \in Nat
    /\ 2 ^ CountBits \in Nat /\ ReplyRoom < 2 ^ CountBits

-----------------------------------------------------------------------------
(***************************************************************************)
(* The sphinx library, as far as it is used.                               *)
(***************************************************************************)
PubKey(key) == [key |-> key, via |-> <<>>]
NextEphemeral(n, eph) == [eph EXCEPT !.via = Append(@, n)]
BlindedID(n, eph) == [node |-> n, eph |-> eph]
EncryptBlindedData(n, eph, data) == [node |-> n, eph |-> eph, data |-> data]

\* Blind every hop and encrypt its payload, each under the ephemeral key that
\* the hops before it leave.
BuildBlindedPath(key, hops) ==
    LET Eph(i) == [key |-> key, via |-> [j \in 1..(i - 1) |-> hops[j].pub]]
    IN  [intro    |-> hops[1].pub,
         blinding |-> PubKey(key),
         hops     |-> [i \in DOMAIN hops |->
             [id   |-> BlindedID(hops[i].pub, Eph(i)),
              data |-> EncryptBlindedData(hops[i].pub, Eph(i),
                                          hops[i].payload)]]]

-----------------------------------------------------------------------------
(***************************************************************************)
(* Payloads. The FinalHopPayloads of a request come from a map, so they    *)
(* are a set with one record per type; empty says that the value has no    *)
(* bytes. Encoding sorts them by type, so the order in which they were     *)
(* given is not part of the model.                                         *)
(***************************************************************************)
BlindedRouteData(next, override) == [next |-> next, override |-> override]
EmptyData == BlindedRouteData(None, None)

FinalHopPayloadStart == 64
Recognized == {64, 66}   \* InvoiceRequestNamespaceType, InvoiceNamespaceType

ValidFinal(payloads) == \A p \in payloads : p.tlv >= FinalHopPayloadStart

\* A reply path is written with a count of its hops and then all of them, and
\* as many hops as were counted are read.
HopCount(hops) == Len(hops) % (2 ^ CountBits)
encodeReplyPath(reply) ==
    IF reply = None THEN None
    ELSE [intro |-> reply.intro, blinding |-> reply.blinding,
          count |-> HopCount(reply.hops), hops |-> reply.hops]
decodeReplyPath(record) ==
    IF record = None THEN None
    ELSE [intro |-> record.intro, blinding |-> record.blinding,
          hops  |-> SubSeq(record.hops, 1, record.count)]

\* EncodeOnionMessagePayload refuses final payloads outside of their range and
\* a reply path with a count of no hops.
Encodable(reply, final) ==
    ValidFinal(final) /\ (reply # None => HopCount(reply.hops) # 0)

\* DecodeOnionMessagePayload fails on an even type that it does not recognise.
Decodes(payloads) ==
    \A p \in payloads : p.tlv \in Recognized \/ p.tlv % 2 = 1

\* DecodeOnionMessagePayload skips a type it does not recognise when its value
\* has no bytes.
DecodedFinal(payloads) ==
    {p \in payloads : p.tlv \in Recognized \/ ~p.empty}

-----------------------------------------------------------------------------
(***************************************************************************)
(* CreateBlindedRoute.                                                     *)
(***************************************************************************)

\* Fault: the override for the introduction node is forgotten.
createPathToBlind_NoOverride(path, start) ==
    [i \in DOMAIN path |->
        [pub     |-> path[i],
         payload |-> IF i < Len(path) THEN BlindedRouteData(path[i + 1], None)
                     ELSE IF start = None THEN EmptyData
                     ELSE BlindedRouteData(start.intro, None)]]

\* Every hop is told the node after it; the last one, when a blinded path
\* follows, its introduction node and the ephemeral key to switch to.
createPathToBlind(path, start) ==
    [i \in DOMAIN path |->
        [pub     |-> path[i],
         payload |-> IF i < Len(path) THEN BlindedRouteData(path[i + 1], None)
                     ELSE IF start = None THEN EmptyData
                     ELSE BlindedRouteData(start.intro, start.blinding)]]

\* createSphinxHop, for an intermediate hop and for the one that carries the
\* message.
RelayHop(hop) == [id |-> hop.id, data |-> hop.data, reply |-> None,
                  final |-> {}]
FinalHop(hop, reply, final) == [id |-> hop.id, data |-> hop.data,
                                reply |-> encodeReplyPath(reply),
                                final |-> final]

\* Fault: every hop of ours that is last in our part of the path carries the
\* message, although blinded hops follow.
blindedToSphinx_OwnLast(own, extra, reply, final) ==
    LET hops == own \o extra
    IN  [i \in DOMAIN hops |->
            IF i \in {Len(own), Len(hops)} THEN FinalHop(hops[i], reply, final)
            ELSE RelayHop(hops[i])]

\* Fault: the message is put into the last hop of our part of the path, and so
\* into none when blinded hops follow.
blindedToSphinx_OwnOnly(own, extra, reply, final) ==
    LET hops == own \o extra
    IN  [i \in DOMAIN hops |->
            IF i = Len(own) /\ extra = <<>>
            THEN FinalHop(hops[i], reply, final)
            ELSE RelayHop(hops[i])]

\* Fault: the hops of the blinded destination are not added to ours.
blindedToSphinx_NoExtra(own, extra, reply, final) ==
    [i \in DOMAIN own |->
        IF i = Len(own) THEN FinalHop(own[i], reply, final)
        ELSE RelayHop(own[i])]

\* Our hops followed by those of the blinded destination; the last of all
\* carries the reply path and the final payloads.
blindedToSphinx(own, extra, reply, final) ==
    LET hops == own \o extra
    IN  [i \in DOMAIN hops |->
            IF i = Len(hops) THEN FinalHop(hops[i], reply, final)
            ELSE RelayHop(hops[i])]

Failure(why) == [ok |-> FALSE, why |-> why]

\* NewOnionPacket: the payloads of the hops have to fit.
Fits(hops) ==
    \A i \in DOMAIN hops :
        hops[i].reply # None => Len(hops[i].reply.hops) <= ReplyRoom

\* createOnionMessage: the sphinx path is an array of NumMaxHops hops, and an
\* index beyond it panics.
createOnionMessage(first, hops, blinding) ==
    IF Len(hops) > NumMaxHops THEN Failure("panic")
    ELSE IF ~Fits(hops) THEN Failure("onion")
    ELSE [ok |-> TRUE, first |-> first, blinding |-> blinding, onion |-> hops]

\* We are connected to the introduction node: the blinded path is used alone.
directToBlinded(dest) ==
    createOnionMessage(dest.intro,
                       [i \in DOMAIN dest.hops |-> RelayHop(dest.hops[i])],
                       dest.blinding)

\* validate.
ValidRoute(path, dest) ==
    /\ path # <<>>
    /\ dest # None => path[Len(path)] = dest.intro

\* The message for payloads final and reply path reply, along path and then,
\* if dest is one, along the blinded path dest of which path ends in the
\* introduction node. A hop is encoded before it is put into the array, and the
\* last one is the only one that can fail to encode: a path that is longer by
\* more than one panics first.
CreateBlindedRoute(key, path, dest, reply, final) ==
    LET own   == IF dest = None THEN path ELSE SubSeq(path, 1, Len(path) - 1)
        extra == IF dest = None THEN <<>> ELSE dest.hops
        blind == BuildBlindedPath(key, createPathToBlind(own, dest))
    IN  IF ~ValidRoute(path, dest) THEN Failure("invalid")
        ELSE IF own = <<>> THEN directToBlinded(dest)
        ELSE IF /\ ~Encodable(reply, final)
                /\ Len(own) + Len(extra) <= NumMaxHops + 1
             THEN Failure("payload")
        ELSE createOnionMessage(
                 path[1], blindedToSphinx(blind.hops, extra, reply, final),
                 PubKey(key))

-----------------------------------------------------------------------------
\* buildBlindedRoute: a path to us through one introduction node.
ReplyPathHops(intro, us) ==
    <<[pub |-> intro, payload |-> BlindedRouteData(us, None)],
      [pub |-> us, payload |-> EmptyData]>>

\* The node that a blinded path leads to.
EndOf(dest) == dest.hops[Len(dest.hops)].id.node

\* The data of a hop is encrypted under the key that the hop will have.
Sealed(hop) == hop.data.node = hop.id.node /\ hop.data.eph = hop.id.eph

\* A hop is told which node comes next, and hands on, or is told, the ephemeral
\* key that node needs.
Follows(hop, next) ==
    LET data == hop.data.data
    IN  /\ data.next = next.id.node
        /\ next.id.eph = IF data.override # None THEN data.override
                         ELSE NextEphemeral(hop.id.node, hop.id.eph)

\* A blinded path whose nodes, one after the other, can read their parts of it.
Travellable(p) ==
    /\ p.hops # <<>>
    /\ p.hops[1].id = BlindedID(p.intro, p.blinding)
    /\ \A i \in DOMAIN p.hops : Sealed(p.hops[i])
    /\ \A i \in 1..(Len(p.hops) - 1) : Follows(p.hops[i], p.hops[i + 1])
=============================================================================
