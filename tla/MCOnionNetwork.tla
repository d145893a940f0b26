--------------------------- MODULE MCOnionNetwork ----------------------------
(***************************************************************************)
(* Instances of OnionNetwork on the line alice - bob - carol - dave.       *)
(***************************************************************************)
EXTENDS OnionNetwork

CONSTANTS alice, bob, carol, dave
CONSTANT badKey    \* bytes that are no public key

MCChannels == {{alice, bob}, {bob, carol}, {carol, dave}}

\* The simple paths of the graph, without the node they start from.
Line == <<alice, bob, carol, dave>>
Position(n) == CHOOSE i \in DOMAIN Line : Line[i] = n
MCRoutes(n, t) ==
    LET i == Position(n)
        j == Position(t)
    IN  IF i < j THEN {SubSeq(Line, i + 1, j)}
        ELSE IF j < i THEN {[k \in 1..(i - j) |-> Line[i - k]]}
        ELSE {}

Payload(t, empty) == [tlv |-> t, empty |-> empty]
Body == {Payload(101, FALSE)}

From(n) == [NoRequest EXCEPT !.from = n, !.final = Body]
PathTo(hops, key) == BuildBlindedPath(key, hops)

\* A path through the nodes given, each the next one's neighbour.
Through(nodes, key) ==
    PathTo([i \in DOMAIN nodes |->
               [pub     |-> nodes[i],
                payload |-> IF i = Len(nodes) THEN EmptyData
                            ELSE BlindedRouteData(nodes[i + 1], None)]], key)

\* Blinded paths: as ReplyPath makes them; with one hop and with three; and one
\* that does not fit into an onion with the hops that lead to it.
ToAlice == PathTo(ReplyPathHops(bob, alice), "ra")
ToBob == PathTo(ReplyPathHops(carol, bob), "rc")
ToDave == PathTo(ReplyPathHops(carol, dave), "rd")
OnlyDave == Through(<<dave>>, "rs")
LongToDave == Through(<<bob, carol, dave>>, "rl")
BackToBob == Through(<<dave, carol, bob>>, "rb")

\* Reply paths of as many hops as there is room for, and of more: the count of
\* hops is then zero, and one.
Back3 == Through(<<carol, bob, alice>>, "r3")
Back4 == Through(<<dave, carol, bob, alice>>, "r4")
Back5 == Through(<<carol, dave, carol, bob, alice>>, "r5")
NoHops == [intro |-> dave, blinding |-> PubKey("rn"), hops |-> <<>>]

Clear == {[From(alice) EXCEPT !.peer = n, !.reply = p, !.direct = d] :
             n \in {bob, dave}, p \in {None, ToAlice, NoHops}, d \in BOOLEAN}
Blinded == {[From(alice) EXCEPT !.dest = p, !.reply = ToAlice, !.direct = d] :
               p \in {ToDave, OnlyDave, LongToDave, BackToBob},
               d \in BOOLEAN}
Invalid == {[From(alice) EXCEPT !.peer = dave, !.dest = ToDave],
            From(alice),
            [From(alice) EXCEPT !.dest = NoHops],
            [From(alice) EXCEPT !.peer = badKey],
            [From(alice) EXCEPT !.peer = dave,
                 !.reply = Through(<<badKey, alice>>, "rk")],
            [From(alice) EXCEPT !.peer = dave,
                 !.reply = [ToAlice EXCEPT !.blinding = badKey]],
            [From(alice) EXCEPT !.peer = dave, !.final = {Payload(63, FALSE)}]}

\* Long reply paths.
Replies == {[From(alice) EXCEPT !.peer = carol, !.reply = p] :
               p \in {Back3, Back4, Back5}}

\* A payload of an even type that the recipient does not know.
Even == {[From(alice) EXCEPT !.peer = dave, !.final = {Payload(68, FALSE)}]}

\* A payload with no body next to one with a body and an empty invoice request.
Markers ==
    {[From(alice) EXCEPT !.peer = dave,
          !.final = Body \cup {Payload(103, TRUE), Payload(64, TRUE)}]}

\* Requests of other nodes, against and with the direction of the line.
Others == {[From(dave) EXCEPT !.dest = LongToDave],
           [From(bob) EXCEPT !.peer = dave, !.reply = ToBob, !.direct = TRUE]}

\* One call is made by a client, the other one answers a message.
CONSTANTS asking, answering

MCRequests == {asking, answering}
MCKeys == MCRequests \cup
    {"ra", "rc", "rd", "rs", "rl", "rb", "r3", "r4", "r5", "rn", "rk"}
MCKinds(r) ==
    IF r = asking
    THEN Clear \cup Blinded \cup Invalid \cup Even \cup Markers
             \cup Others \cup Replies
    ELSE {}
=============================================================================
