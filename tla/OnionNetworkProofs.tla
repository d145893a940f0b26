------------------------- MODULE OnionNetworkProofs --------------------------
(***************************************************************************)
(* Proofs about BlindedRoutes and OnionNetwork, for every network, every   *)
(* route and every blinded path that can be travelled: a message that      *)
(* CreateBlindedRoute made is accepted by every node it passes, reaches    *)
(* the node it is for and no other, whole, and answers to it come back.    *)
(***************************************************************************)
EXTENDS OnionNetwork, TLAPS, SequenceTheorems, FiniteSetTheorems

\* The final payloads that are ever sent.
Finals ==
    {{}, ReplyPayloads} \cup
        UNION {{q.final : q \in Kinds(r)} : r \in Requests}

OnionHops ==
    [id    : [node : Nodes, eph : Ephemerals],
     data  : [node : Nodes, eph : Ephemerals, data : RouteDatas],
     reply : EncodedPaths \cup {None},
     final : Finals]

\* send is a table of records; all of it but the requests is typed in TypeOK.
SendShape ==
    /\ send = [r \in Requests |-> send[r]]
    /\ \A r \in Requests :
          send[r] = [pc |-> send[r].pc, req |-> send[r].req,
                     path |-> send[r].path, attempt |-> send[r].attempt]

\* A request that SendOnionMessage accepted.
Accepted(q) ==
    /\ ValidRequest(q)
    /\ q.from \in Nodes
    /\ q.final \in Finals
    /\ q.dest # None => q.dest \in BlindedPaths /\ Travellable(q.dest)
    /\ q.reply # None =>
          /\ q.reply \in BlindedPaths
          /\ q.reply.hops # <<>> =>
                Travellable(q.reply) /\ EndOf(q.reply) = q.from

\* What is known of a call: its request, the path once there is one, and that
\* it does not wait after the last attempt.
CallsAccepted ==
    \A r \in Requests :
        /\ send[r].pc \notin {"idle", "unready", "invalid"} => Accepted(send[r].req)
        /\ send[r].pc \in {"dispatch", "sent"} =>
              /\ send[r].path # <<>>
              /\ send[r].path[Len(send[r].path)] = Target(r)
        /\ send[r].pc = "backoff" => send[r].attempt < LookupAttempts

\* What the last hop of a message carries.
Carries(hop, s) ==
    /\ hop.id.node = Recipient(s.req)
    /\ IF s.req.dest # None /\ Len(s.path) = 1
       THEN hop.reply = None /\ hop.final = {}
       ELSE /\ hop.final = s.req.final
            /\ hop.reply = encodeReplyPath(s.req.reply)
            /\ s.req.reply # None =>
                  /\ Len(s.req.reply.hops) <= ReplyRoom
                  /\ HopCount(s.req.reply.hops) # 0

\* An onion whose nodes, one after the other, can read their parts of it.
Readable(onion) ==
    /\ onion \in Seq(OnionHops) /\ onion # <<>>
    /\ \A i \in DOMAIN onion : Sealed(onion[i])
    /\ \A i \in 1..(Len(onion) - 1) :
          /\ Follows(onion[i], onion[i + 1])
          /\ onion[i].reply = None /\ onion[i].final = {}

\* A message in transit is at the node that its onion is next for.
OnTrack ==
    \A m \in wire :
        /\ send[m.id].pc = "sent"
        /\ m.from \in Nodes /\ m.to \in Nodes
        /\ Readable(m.onion)
        /\ Hop(m).id = BlindedID(m.to, m.blinding)
        /\ Carries(m.onion[Len(m.onion)], send[m.id])

\* What an exit node has read.
AsSent ==
    \A m \in inbox :
        LET s == send[m.id]
        IN  /\ s.pc = "sent"
            /\ m.at = Recipient(s.req)
            /\ IF s.req.dest # None /\ Len(s.path) = 1
               THEN m.reply = None /\ m.final = {}
               ELSE /\ m.final = DecodedFinal(s.req.final)
                    /\ m.reply = s.req.reply
                    /\ s.req.reply # None => s.req.reply.hops # <<>>

\* The message of a call is in one place at most.
OnePlace ==
    /\ \A m1, m2 \in wire : m1.id = m2.id => m1 = m2
    /\ \A m1, m2 \in inbox : m1.id = m2.id => m1 = m2
    /\ \A m \in wire, n \in inbox : m.id # n.id
    /\ \A m \in wire \cup inbox, d \in drops : m.id # d.id
    /\ \A d \in drops : send[d.id].pc = "sent"

\* The inductive invariant.
IndInv ==
    TypeOK /\ SendShape /\ CallsAccepted /\ OnTrack /\ AsSent /\ OnePlace
        /\ HopsAccept

-----------------------------------------------------------------------------
(***************************************************************************)
(* Blinded paths.                                                          *)
(***************************************************************************)

\* The ephemeral key that the nodes before position i leave.
EphAt(key, own, i) == [key |-> key, via |-> [j \in 1..(i - 1) |-> own[j]]]

\* The first n nodes of a path, and the path that one more makes.
LEMMA FirstNodes ==
    ASSUME NEW own \in Seq(Nodes), NEW n \in Nat, n < Len(own)
    PROVE  /\ [j \in 1..n |-> own[j]] \in Seq(Nodes)
           /\ [j \in 1..(n + 1) |-> own[j]]
                 = Append([j \in 1..n |-> own[j]], own[n + 1])
<1>1. PICK v : v = [j \in 1..n |-> own[j]]
  OBVIOUS
<1>2. PICK w : w = [j \in 1..(n + 1) |-> own[j]]
  OBVIOUS
<1>3. Len(own) \in Nat /\ DOMAIN own = 1..Len(own)
      /\ \A j \in 1..(n + 1) : own[j] \in Nodes
  OBVIOUS
<1>4. v \in Seq(Nodes) /\ Len(v) = n /\ \A j \in 1..n : v[j] = own[j]
  <2>1. \A j \in 1..n : own[j] \in Nodes
    BY <1>3
  <2>2. v \in [1..n -> Nodes]
    BY <1>1, <2>1
  <2> QED BY <1>1, <2>2
<1>5. w \in Seq(Nodes) /\ Len(w) = n + 1 /\ \A j \in 1..(n + 1) : w[j] = own[j]
  <2>1. w \in [1..(n + 1) -> Nodes]
    BY <1>2, <1>3
  <2> QED BY <1>2, <2>1
<1>6. own[n + 1] \in Nodes
  BY <1>3
<1>7. /\ Append(v, own[n + 1]) \in Seq(Nodes)
      /\ Len(Append(v, own[n + 1])) = n + 1
      /\ Append(v, own[n + 1])[n + 1] = own[n + 1]
      /\ \A j \in 1..n : Append(v, own[n + 1])[j] = own[j]
  BY <1>4, <1>6, AppendProperties
<1>8. ASSUME NEW j \in 1..(n + 1) PROVE Append(v, own[n + 1])[j] = w[j]
  <2>1. j = n + 1 \/ j \in 1..n
    BY <1>8
  <2> QED BY <1>5, <1>7, <2>1
<1>9. w = Append(v, own[n + 1])
  BY <1>5, <1>7, <1>8, SeqEqual
<1> QED BY <1>1, <1>2, <1>4, <1>9

\* A path starts with the public key that belongs to its private one, and
\* NextEphemeral leads from the key of one hop to that of the next.
LEMMA EphemeralKeys ==
    ASSUME NEW key \in Keys, NEW own \in Seq(Nodes)
    PROVE  /\ EphAt(key, own, 1) = PubKey(key)
           /\ \A i \in DOMAIN own :
                 /\ EphAt(key, own, i) \in Ephemerals
                 /\ EphAt(key, own, i + 1)
                       = NextEphemeral(own[i], EphAt(key, own, i))
<1>1. EphAt(key, own, 1) = PubKey(key)
  <2>1. [j \in 1..(1 - 1) |-> own[j]] = <<>>
    <3>1. 1..(1 - 1) = {}
      OBVIOUS
    <3> QED BY <3>1
  <2> QED BY <2>1 DEF EphAt, PubKey
<1>2. ASSUME NEW i \in DOMAIN own
      PROVE  /\ EphAt(key, own, i) \in Ephemerals
             /\ EphAt(key, own, i + 1)
                   = NextEphemeral(own[i], EphAt(key, own, i))
  <2>1. i - 1 \in Nat /\ i - 1 < Len(own) /\ (i - 1) + 1 = i /\ (i + 1) - 1 = i
    BY <1>2
  <2>2. PICK v : v = [j \in 1..(i - 1) |-> own[j]]
    OBVIOUS
  <2>3. v \in Seq(Nodes) /\ [j \in 1..i |-> own[j]] = Append(v, own[i])
    <3>1. PICK n \in Nat : n = i - 1
      BY <2>1
    <3>2. n < Len(own) /\ n + 1 = i
      BY <2>1, <3>1
    <3>3. /\ [j \in 1..n |-> own[j]] \in Seq(Nodes)
          /\ [j \in 1..(n + 1) |-> own[j]]
                = Append([j \in 1..n |-> own[j]], own[n + 1])
      BY <3>2, FirstNodes
    <3> QED BY <2>2, <3>1, <3>2, <3>3
  <2>4. /\ EphAt(key, own, i) = [key |-> key, via |-> v]
        /\ EphAt(key, own, i + 1) = [key |-> key, via |-> Append(v, own[i])]
    BY <2>1, <2>2, <2>3 DEF EphAt
  <2>5. EphAt(key, own, i) \in Ephemerals
    BY <2>3, <2>4 DEF Ephemerals
  <2>6. NextEphemeral(own[i], [key |-> key, via |-> v])
           = [key |-> key, via |-> Append(v, own[i])]
    BY DEF NextEphemeral
  <2> QED BY <2>4, <2>5, <2>6
<1> QED BY <1>1, <1>2

\* What our part of a path, blinded, is: every hop is for its node, is followed
\* by the next one, and the last is told where the blinded destination begins.
OwnPart(b, key, own, start) ==
    /\ b \in Seq(BlindedHops) /\ Len(b) = Len(own)
    /\ b[1].id = BlindedID(own[1], PubKey(key))
    /\ \A i \in DOMAIN own : Sealed(b[i]) /\ b[i].id.node = own[i]
    /\ \A i \in 1..(Len(own) - 1) : Follows(b[i], b[i + 1])
    /\ start # None =>
          /\ b[Len(own)].data.data.next = start.intro
          /\ b[Len(own)].data.data.override = start.blinding

\* What hop i of our part is told, and the hop.
HopData(own, start, i) ==
    IF i < Len(own) THEN BlindedRouteData(own[i + 1], None)
    ELSE IF start = None THEN EmptyData
    ELSE BlindedRouteData(start.intro, start.blinding)
OwnHop(key, own, start, i) ==
    [id   |-> BlindedID(own[i], EphAt(key, own, i)),
     data |-> EncryptBlindedData(own[i], EphAt(key, own, i),
                                 HopData(own, start, i))]

LEMMA OwnHopsAre ==
    ASSUME NEW key \in Keys, NEW own \in Seq(Nodes), NEW start
    PROVE  BuildBlindedPath(key, createPathToBlind(own, start)).hops
              = [i \in DOMAIN own |-> OwnHop(key, own, start, i)]
<1>1. PICK hops : hops = createPathToBlind(own, start)
  OBVIOUS
<1>2. /\ DOMAIN hops = DOMAIN own
      /\ \A i \in DOMAIN own :
            hops[i].pub = own[i] /\ hops[i].payload = HopData(own, start, i)
  BY <1>1 DEF createPathToBlind, HopData
<1>3. ASSUME NEW i \in DOMAIN own
      PROVE  [j \in 1..(i - 1) |-> hops[j].pub] = [j \in 1..(i - 1) |-> own[j]]
  <2>1. 1..(i - 1) \subseteq DOMAIN own
    BY <1>3
  <2> QED BY <1>2, <2>1
<1>4. BuildBlindedPath(key, hops).hops
         = [i \in DOMAIN own |-> OwnHop(key, own, start, i)]
  BY <1>2, <1>3 DEF BuildBlindedPath, OwnHop, EphAt
<1> QED BY <1>1, <1>4

\* createPathToBlind and BuildBlindedPath make such a path.
LEMMA OwnHops ==
    ASSUME NEW key \in Keys, NEW own \in Seq(Nodes), own # <<>>,
           NEW start \in BlindedPaths \cup {None}
    PROVE  OwnPart(BuildBlindedPath(key, createPathToBlind(own, start)).hops,
                   key, own, start)
<1>1. PICK b : b = [i \in DOMAIN own |-> OwnHop(key, own, start, i)]
  OBVIOUS
<1>2. DOMAIN own = 1..Len(own) /\ Len(own) \in Nat /\ Len(own) # 0
      /\ \A i \in DOMAIN own : own[i] \in Nodes
  OBVIOUS
<1>3. ASSUME NEW i \in DOMAIN own PROVE HopData(own, start, i) \in RouteDatas
  <2>1. CASE i < Len(own)
    <3>1. i + 1 \in DOMAIN own
      BY <1>2, <1>3, <2>1
    <3> QED BY <1>2, <2>1, <3>1 DEF HopData, RouteDatas, BlindedRouteData
  <2>2. CASE ~(i < Len(own))
    BY <2>2 DEF HopData, RouteDatas, BlindedRouteData, EmptyData, BlindedPaths
  <2> QED BY <2>1, <2>2
<1>4. ASSUME NEW i \in DOMAIN own
      PROVE  /\ b[i].id.node = own[i] /\ b[i].id.eph = EphAt(key, own, i)
             /\ b[i].id = BlindedID(own[i], EphAt(key, own, i))
             /\ b[i].data.data = HopData(own, start, i)
             /\ Sealed(b[i])
  BY <1>1, <1>4 DEF OwnHop, Sealed, BlindedID, EncryptBlindedData
<1>6. /\ EphAt(key, own, 1) = PubKey(key)
      /\ \A i \in DOMAIN own :
            /\ EphAt(key, own, i) \in Ephemerals
            /\ EphAt(key, own, i + 1)
                  = NextEphemeral(own[i], EphAt(key, own, i))
  BY EphemeralKeys
<1>7. ASSUME NEW i \in DOMAIN own PROVE OwnHop(key, own, start, i) \in BlindedHops
  <2>1. own[i] \in Nodes /\ EphAt(key, own, i) \in Ephemerals
        /\ HopData(own, start, i) \in RouteDatas
    BY <1>2, <1>3, <1>6, <1>7
  <2> QED BY <2>1 DEF OwnHop, BlindedHops, BlindedID, EncryptBlindedData
<1>8. b \in Seq(BlindedHops) /\ Len(b) = Len(own)
  <2>1. b \in [1..Len(own) -> BlindedHops]
    BY <1>1, <1>2, <1>7
  <2> QED BY <1>2, <2>1
<1>9. b[1].id = BlindedID(own[1], PubKey(key))
  <2>1. 1 \in DOMAIN own
    BY <1>2
  <2> QED BY <1>4, <1>6, <2>1
<1>10. \A i \in DOMAIN own : Sealed(b[i]) /\ b[i].id.node = own[i]
  BY <1>4
<1>11. ASSUME NEW i \in 1..(Len(own) - 1) PROVE Follows(b[i], b[i + 1])
  <2>1. i \in DOMAIN own /\ i + 1 \in DOMAIN own /\ i < Len(own)
    BY <1>2, <1>11
  <2>2. /\ HopData(own, start, i).next = own[i + 1]
        /\ HopData(own, start, i).override = None
    BY <2>1 DEF HopData, BlindedRouteData
  <2> QED BY <1>4, <1>6, <2>1, <2>2 DEF Follows
<1>12. ASSUME start # None
       PROVE  /\ b[Len(own)].data.data.next = start.intro
              /\ b[Len(own)].data.data.override = start.blinding
  <2>1. Len(own) \in DOMAIN own /\ ~(Len(own) < Len(own))
    BY <1>2
  <2>2. HopData(own, start, Len(own)) = BlindedRouteData(start.intro, start.blinding)
    BY <1>12, <2>1 DEF HopData
  <2> QED BY <1>4, <2>1, <2>2 DEF BlindedRouteData
<1>13. OwnPart(b, key, own, start)
  BY <1>8, <1>9, <1>10, <1>11, <1>12 DEF OwnPart
<1> QED BY <1>1, <1>13, OwnHopsAre

\* The path that GenerateBlindedRoute and ReplyPath return can be travelled and
\* leads to us, whatever node is its introduction: the clients' reply paths are
\* what ClientsAssumption takes them to be.
THEOREM ReplyPathLeadsBack ==
    ASSUME NEW key \in Keys, NEW intro \in Nodes, NEW us \in Nodes,
           NEW p, p = BuildBlindedPath(key, ReplyPathHops(intro, us))
    PROVE  p \in BlindedPaths /\ Travellable(p) /\ EndOf(p) = us
<1>1. PICK own : own = <<intro, us>>
  OBVIOUS
<1>2. /\ own \in Seq(Nodes) /\ own # <<>> /\ Len(own) = 2 /\ DOMAIN own = 1..2
      /\ own[1] = intro /\ own[2] = us
  BY <1>1
<1>3. PICK hops : hops = ReplyPathHops(intro, us)
  OBVIOUS
<1>4. hops = createPathToBlind(own, None)
  <2>1. /\ hops = [i \in 1..2 |-> hops[i]]
        /\ hops[1] = [pub |-> intro, payload |-> BlindedRouteData(us, None)]
        /\ hops[2] = [pub |-> us, payload |-> EmptyData]
    BY <1>3 DEF ReplyPathHops
  <2>2. PICK made : made = createPathToBlind(own, None)
    OBVIOUS
  <2>3. /\ made = [i \in 1..2 |-> made[i]]
        /\ made[1] = [pub |-> intro, payload |-> BlindedRouteData(us, None)]
        /\ made[2] = [pub |-> us, payload |-> EmptyData]
    BY <1>2, <2>2 DEF createPathToBlind
  <2>4. \A i \in 1..2 : hops[i] = made[i]
    BY <2>1, <2>3
  <2> QED BY <2>1, <2>2, <2>3, <2>4
<1>5. OwnPart(p.hops, key, own, None)
  BY <1>2, <1>3, <1>4, OwnHops
<1>6. hops[1].pub = intro
  BY <1>3 DEF ReplyPathHops
<1>7. p.intro = intro /\ p.blinding = PubKey(key)
      /\ p = [intro |-> p.intro, blinding |-> p.blinding, hops |-> p.hops]
  BY <1>3, <1>6 DEF BuildBlindedPath
<1>8. PubKey(key) \in Ephemerals
  <2>1. EphAt(key, own, 1) = PubKey(key) /\ EphAt(key, own, 1) \in Ephemerals
    BY <1>2, EphemeralKeys
  <2> QED BY <2>1
<1>9. p.hops \in Seq(BlindedHops) /\ Len(p.hops) = 2 /\ DOMAIN p.hops = 1..2
  BY <1>2, <1>5 DEF OwnPart
<1>10. p \in BlindedPaths
  BY <1>7, <1>8, <1>9 DEF BlindedPaths
<1>11. Travellable(p)
  <2>1. p.hops # <<>>
    BY <1>9
  <2>2. p.hops[1].id = BlindedID(p.intro, p.blinding)
    BY <1>2, <1>5, <1>7 DEF OwnPart
  <2>3. \A i \in DOMAIN p.hops : Sealed(p.hops[i])
    BY <1>2, <1>5, <1>9 DEF OwnPart
  <2>4. \A i \in 1..(Len(p.hops) - 1) : Follows(p.hops[i], p.hops[i + 1])
    BY <1>2, <1>5, <1>9 DEF OwnPart
  <2> QED BY <2>1, <2>2, <2>3, <2>4 DEF Travellable
<1>12. EndOf(p) = us
  BY <1>2, <1>5, <1>9 DEF OwnPart, EndOf
<1> QED BY <1>10, <1>11, <1>12

-----------------------------------------------------------------------------
(***************************************************************************)
(* The onion that CreateBlindedRoute makes.                                *)
(***************************************************************************)

\* Blinded hops that can be travelled one after the other.
Chain(c) ==
    /\ c \in Seq(BlindedHops) /\ c # <<>>
    /\ \A i \in DOMAIN c : Sealed(c[i])
    /\ \A i \in 1..(Len(c) - 1) : Follows(c[i], c[i + 1])

\* Where the hops of two parts, of lengths k and l, are in the whole.
Spliced(c, S, b, k, x, l) ==
    /\ c \in Seq(S) /\ Len(c) = k + l /\ DOMAIN c = 1..(k + l)
    /\ \A i \in 1..k : c[i] = b[i]
    /\ \A i \in 1..l : c[k + i] = x[i]

LEMMA Concatenated ==
    ASSUME NEW S, NEW b \in Seq(S), NEW x \in Seq(S)
    PROVE  Spliced(b \o x, S, b, Len(b), x, Len(x))
<1>a. PICK c : c = b \o x
  OBVIOUS
<1>b. PICK k \in Nat : k = Len(b)
  OBVIOUS
<1>c. PICK l \in Nat : l = Len(x)
  OBVIOUS
<1>1. /\ c \in Seq(S) /\ Len(c) = k + l
      /\ \A i \in 1..Len(c) : c[i] = IF i <= k THEN b[i] ELSE x[i - k]
  BY <1>a, <1>b, <1>c, ConcatProperties
<1>2. DOMAIN c = 1..(k + l)
  BY <1>1
<1>3. ASSUME NEW i \in 1..k PROVE c[i] = b[i]
  <2>1. i \in 1..Len(c) /\ i <= k
    BY <1>1, <1>3
  <2> QED BY <1>1, <2>1
<1>4. ASSUME NEW i \in 1..l PROVE c[k + i] = x[i]
  <2>1. k + i \in 1..Len(c) /\ ~(k + i <= k) /\ (k + i) - k = i
    BY <1>1, <1>4
  <2> QED BY <1>1, <2>1
<1>5. Spliced(c, S, b, k, x, l)
  BY <1>1, <1>2, <1>3, <1>4 DEF Spliced
<1> QED BY <1>5, <1>a, <1>b, <1>c

\* A chain that begins with the first of our nodes and ends where dest does.
LeadsTo(c, key, own, dest) ==
    /\ Chain(c)
    /\ c[1].id = BlindedID(own[1], PubKey(key))
    /\ c[Len(c)].id.node = EndOf(dest)

\* Our hops and those of a blinded destination make one chain: the last of ours
\* is told the introduction node and the key to switch to.
LEMMA Joined ==
    ASSUME NEW key \in Keys, NEW own \in Seq(Nodes), own # <<>>,
           NEW dest \in BlindedPaths, dest # None, Travellable(dest),
           NEW b, OwnPart(b, key, own, dest)
    PROVE  LeadsTo(b \o dest.hops, key, own, dest)
<1>a. PICK c : c = b \o dest.hops
  OBVIOUS
<1>1. PICK x : x = dest.hops
  OBVIOUS
<1>2. /\ x \in Seq(BlindedHops) /\ x # <<>> /\ dest.blinding \in Ephemerals
      /\ x[1].id = BlindedID(dest.intro, dest.blinding)
      /\ \A i \in 1..Len(x) : Sealed(x[i])
      /\ \A i \in 1..(Len(x) - 1) : Follows(x[i], x[i + 1])
  BY <1>1 DEF BlindedPaths, Travellable
<1>3. /\ b \in Seq(BlindedHops) /\ Len(b) = Len(own)
      /\ b[1].id = BlindedID(own[1], PubKey(key))
      /\ \A i \in 1..Len(b) : Sealed(b[i])
      /\ \A i \in 1..(Len(b) - 1) : Follows(b[i], b[i + 1])
      /\ b[Len(b)].data.data.next = dest.intro
      /\ b[Len(b)].data.data.override = dest.blinding
  BY DEF OwnPart
<1>4. PICK k \in Nat : k = Len(b)
  BY <1>3
<1>5. PICK l \in Nat : l = Len(x)
  BY <1>2
<1>6. k >= 1 /\ l >= 1
  BY <1>2, <1>3, <1>4, <1>5
<1>7. /\ c \in Seq(BlindedHops) /\ Len(c) = k + l /\ DOMAIN c = 1..(k + l)
      /\ \A i \in 1..k : c[i] = b[i]
      /\ \A i \in 1..l : c[k + i] = x[i]
  <2>1. c = b \o x
    BY <1>1, <1>a
  <2>2. b \in Seq(BlindedHops) /\ x \in Seq(BlindedHops)
    BY <1>2, <1>3
  <2>3. Spliced(b \o x, BlindedHops, b, Len(b), x, Len(x))
    BY <2>2, Concatenated
  <2>4. Spliced(c, BlindedHops, b, k, x, l)
    BY <1>4, <1>5, <2>1, <2>3
  <2> QED BY <2>4 DEF Spliced
<1>8. c # <<>>
  BY <1>6, <1>7
<1>9. \A i \in 1..(k + l) : i \in 1..k \/ \E j \in 1..l : i = k + j
  <2> SUFFICES ASSUME NEW i \in 1..(k + l), i \notin 1..k
               PROVE  \E j \in 1..l : i = k + j
    OBVIOUS
  <2>1. i - k \in 1..l /\ i = k + (i - k)
    OBVIOUS
  <2> QED BY <2>1
<1>10. ASSUME NEW i \in DOMAIN c PROVE Sealed(c[i])
  <2>1. CASE i \in 1..k
    BY <1>3, <1>4, <1>7, <2>1
  <2>2. ASSUME NEW j \in 1..l, i = k + j PROVE Sealed(c[i])
    <3>1. c[i] = x[j]
      BY <1>7, <2>2
    <3> QED BY <1>2, <1>5, <3>1
  <2> QED BY <1>7, <1>9, <1>10, <2>1, <2>2
<1>11. Follows(b[k], x[1])
  <2>1. dest.blinding # None
    BY <1>2, RoutesAssumption
  <2> QED BY <1>2, <1>3, <1>4, <2>1 DEF Follows, BlindedID
<1>12. ASSUME NEW i \in 1..(Len(c) - 1) PROVE Follows(c[i], c[i + 1])
  <2>1. CASE i \in 1..(k - 1)
    <3>1. i \in 1..k /\ i + 1 \in 1..k
      BY <2>1
    <3> QED BY <1>3, <1>4, <1>7, <2>1, <3>1
  <2>2. CASE i = k
    <3>1. k \in 1..k /\ 1 \in 1..l
      BY <1>6
    <3> QED BY <1>7, <1>11, <2>2, <3>1
  <2>3. CASE i > k
    <3>1. i - k \in 1..(l - 1)
      BY <1>7, <2>3
    <3>2. PICK j \in 1..(l - 1) : j = i - k
      BY <3>1
    <3>3. i = k + j /\ i + 1 = k + (j + 1) /\ j \in 1..l /\ j + 1 \in 1..l
      BY <3>2
    <3> QED BY <1>2, <1>5, <1>7, <3>2, <3>3
  <2> QED BY <1>12, <2>1, <2>2, <2>3
<1>13. c[1].id = BlindedID(own[1], PubKey(key))
  BY <1>3, <1>6, <1>7
<1>14. c[Len(c)].id.node = EndOf(dest)
  <2>1. l \in 1..l
    BY <1>6
  <2>2. c[k + l] = x[l]
    BY <1>7, <2>1
  <2> QED BY <1>1, <1>5, <1>7, <2>2 DEF EndOf
<1>15. LeadsTo(c, key, own, dest)
  BY <1>7, <1>8, <1>10, <1>12, <1>13, <1>14 DEF Chain, LeadsTo
<1> QED BY <1>15, <1>a

\* The sphinx hops of a chain: what is sent is in the last of them.
Wrapped(c, reply, final) ==
    [i \in DOMAIN c |-> IF i = Len(c) THEN FinalHop(c[i], reply, final)
                        ELSE RelayHop(c[i])]

\* They can be read one after the other, and only the last one carries.
LEMMA WrappedIsReadable ==
    ASSUME NEW c, Chain(c), NEW final \in Finals, NEW reply,
           encodeReplyPath(reply) \in EncodedPaths \cup {None},
           NEW o, o = Wrapped(c, reply, final)
    PROVE  /\ Readable(o) /\ o[1].id = c[1].id /\ Len(o) = Len(c)
           /\ o[Len(o)].id = c[Len(c)].id
           /\ o[Len(o)].final = final
           /\ o[Len(o)].reply = encodeReplyPath(reply)
<1>1. PICK n \in Nat : n = Len(c)
  BY DEF Chain
<1>2. /\ DOMAIN c = 1..n /\ n >= 1 /\ 1 \in 1..n /\ n \in 1..n
      /\ \A i \in 1..n : c[i] \in BlindedHops /\ Sealed(c[i])
      /\ \A i \in 1..(n - 1) : Follows(c[i], c[i + 1])
  BY <1>1 DEF Chain
<1>3. {} \in Finals
  BY DEF Finals
<1>4. ASSUME NEW i \in 1..n
      PROVE  /\ o[i].id = c[i].id /\ o[i].data = c[i].data
             /\ o[i] \in OnionHops
  <2>1. o[i] = IF i = n THEN FinalHop(c[i], reply, final) ELSE RelayHop(c[i])
    BY <1>1, <1>2, <1>4 DEF Wrapped
  <2>2. c[i] \in BlindedHops
    BY <1>2, <1>4
  <2>3. CASE i = n
    BY <2>1, <2>2, <2>3 DEF FinalHop, OnionHops, BlindedHops
  <2>4. CASE i # n
    BY <1>3, <2>1, <2>2, <2>4 DEF RelayHop, OnionHops, BlindedHops
  <2> QED BY <2>3, <2>4
<1>5. o \in Seq(OnionHops) /\ Len(o) = n /\ DOMAIN o = 1..n
  <2>1. o = [i \in 1..n |-> o[i]]
    BY <1>2 DEF Wrapped
  <2>2. o \in [1..n -> OnionHops]
    BY <1>4, <2>1
  <2> QED BY <1>2, <2>2
<1>6. o # <<>>
  BY <1>2, <1>5
<1>7. \A i \in 1..n : Sealed(o[i])
  BY <1>2, <1>4 DEF Sealed
<1>8. ASSUME NEW i \in 1..(n - 1)
      PROVE  /\ Follows(o[i], o[i + 1])
             /\ o[i].reply = None /\ o[i].final = {}
  <2>1. i \in 1..n /\ i + 1 \in 1..n /\ i # n
    BY <1>2, <1>8
  <2>2. Follows(o[i], o[i + 1])
    BY <1>2, <1>4, <1>8, <2>1 DEF Follows
  <2>3. o[i] = RelayHop(c[i])
    BY <1>1, <1>2, <2>1 DEF Wrapped
  <2> QED BY <2>2, <2>3 DEF RelayHop
<1>9. Readable(o)
  BY <1>5, <1>6, <1>7, <1>8 DEF Readable
<1>10. o[n] = FinalHop(c[n], reply, final)
  BY <1>1, <1>2 DEF Wrapped
<1> QED BY <1>1, <1>2, <1>4, <1>5, <1>9, <1>10 DEF FinalHop

\* A message that was made: the first node can open it, every node can read its
\* part, and the last one has what was sent.
WellMade(msg, s) ==
    /\ Readable(msg.onion)
    /\ msg.first \in Nodes
    /\ msg.onion[1].id = BlindedID(msg.first, msg.blinding)
    /\ Carries(msg.onion[Len(msg.onion)], s)

\* A reply path that was written into an onion fits, count and hops.
LEMMA EncodedReply ==
    ASSUME NEW reply, reply # None => reply \in BlindedPaths
    PROVE  /\ encodeReplyPath(reply) \in EncodedPaths \cup {None}
           /\ (encodeReplyPath(reply) = None) <=> (reply = None)
           /\ reply # None => encodeReplyPath(reply).hops = reply.hops
<1>1. CASE reply = None
  BY <1>1 DEF encodeReplyPath
<1>2. CASE reply # None
  <2>1. reply \in BlindedPaths /\ reply.hops \in Seq(BlindedHops)
    BY <1>2 DEF BlindedPaths
  <2>2. PICK n \in Nat : n = Len(reply.hops)
    BY <2>1
  <2>3. PICK w \in Nat : w = 2 ^ CountBits
    BY RoutesAssumption
  <2>4. w > 0
    BY <2>3, RoutesAssumption
  <2>5. n % w \in Nat
    BY <2>4
  <2>6. HopCount(reply.hops) \in Nat
    BY <2>2, <2>3, <2>5 DEF HopCount
  <2>7. PICK e : e = encodeReplyPath(reply)
    OBVIOUS
  <2>8. e \in EncodedPaths /\ e.hops = reply.hops
    BY <1>2, <2>1, <2>6, <2>7 DEF encodeReplyPath, EncodedPaths, BlindedPaths
  <2>9. e # None
    BY <2>8, RoutesAssumption
  <2> QED BY <1>2, <2>7, <2>8, <2>9
<1> QED BY <1>1, <1>2

\* createOnionMessage returns the hops it was given, if they fit.
LEMMA OnionMade ==
    ASSUME NEW first, NEW hops, NEW blinding, NEW msg,
           msg = createOnionMessage(first, hops, blinding), msg.ok
    PROVE  /\ msg.first = first /\ msg.onion = hops /\ msg.blinding = blinding
           /\ Fits(hops) /\ ~(Len(hops) > NumMaxHops)
<1>1. CASE Len(hops) > NumMaxHops \/ ~Fits(hops)
  BY <1>1 DEF createOnionMessage, Failure
<1>2. CASE ~(Len(hops) > NumMaxHops) /\ Fits(hops)
  BY <1>2 DEF createOnionMessage
<1> QED BY <1>1, <1>2

\* Our part of a route to an introduction node leaves that node out.
LEMMA AllButLast ==
    ASSUME NEW path \in Seq(Nodes), Len(path) >= 1
    PROVE  LET own == SubSeq(path, 1, Len(path) - 1)
           IN  /\ own \in Seq(Nodes) /\ Len(own) = Len(path) - 1
               /\ \A i \in 1..(Len(path) - 1) : own[i] = path[i]
<1>1. PICK n \in Nat : n = Len(path) - 1
  OBVIOUS
<1>2. 1 \in 1..(Len(path) + 1) /\ n \in (1 - 1)..Len(path)
  BY <1>1
<1>3. PICK own : own = SubSeq(path, 1, n)
  OBVIOUS
<1>4. /\ own \in Seq(Nodes)
      /\ Len(own) = IF 1 <= n THEN n - 1 + 1 ELSE 0
      /\ \A i \in 1..(n - 1 + 1) : own[i] = path[1 + i - 1]
  BY <1>2, <1>3, SubSeqProperties
<1>5. Len(own) = n
  BY <1>4
<1>6. ASSUME NEW i \in 1..n PROVE own[i] = path[i]
  <2>1. i \in 1..(n - 1 + 1) /\ 1 + i - 1 = i
    BY <1>6
  <2> QED BY <1>4, <2>1
<1> QED BY <1>1, <1>3, <1>4, <1>5, <1>6

\* CreateBlindedRoute, for a peer, for a blinded path behind a route and for
\* one that begins at a peer, makes messages that can be read hop by hop.
LEMMA RouteIsWellMade ==
    ASSUME NEW key \in Keys, NEW s, s.path \in Seq(Nodes), s.path # <<>>,
           Accepted(s.req), s.path[Len(s.path)] = targetPeer(s.req),
           NEW msg, msg = CreateBlindedRoute(key, s.path, s.req.dest,
                                             s.req.reply, s.req.final),
           msg.ok
    PROVE  WellMade(msg, s)
<1>1. PICK path \in Seq(Nodes) : path = s.path
  OBVIOUS
<1>2. PICK dest : dest = s.req.dest
  OBVIOUS
<1>3. PICK reply : reply = s.req.reply
  OBVIOUS
<1>4. PICK final \in Finals : final = s.req.final
  BY DEF Accepted
<1>5. /\ dest # None => dest \in BlindedPaths /\ Travellable(dest)
      /\ reply # None => reply \in BlindedPaths
      /\ path # <<>> /\ path[Len(path)] = targetPeer(s.req)
      /\ msg = CreateBlindedRoute(key, path, dest, reply, final)
  BY <1>1, <1>2, <1>3, <1>4 DEF Accepted
<1>6. /\ encodeReplyPath(reply) \in EncodedPaths \cup {None}
      /\ (encodeReplyPath(reply) = None) <=> (reply = None)
      /\ reply # None => encodeReplyPath(reply).hops = reply.hops
  BY <1>5, EncodedReply
<1>7. PICK own : own = IF dest = None THEN path
                       ELSE SubSeq(path, 1, Len(path) - 1)
  OBVIOUS
<1>8. /\ own \in Seq(Nodes)
      /\ dest # None => Len(own) = Len(path) - 1
      /\ own # <<>> => own[1] = path[1] /\ own[1] \in Nodes
      /\ path[1] \in Nodes
  <2>1. path[1] \in Nodes /\ Len(path) \in Nat /\ Len(path) >= 1
    BY <1>5
  <2>2. CASE dest = None
    BY <1>5, <1>7, <2>1, <2>2
  <2>3. CASE dest # None
    <3>1. own = SubSeq(path, 1, Len(path) - 1)
      BY <1>7, <2>3
    <3>2. /\ own \in Seq(Nodes) /\ Len(own) = Len(path) - 1
          /\ \A i \in 1..(Len(path) - 1) : own[i] = path[i]
      BY <2>1, <3>1, AllButLast
    <3> QED BY <2>1, <3>2
  <2> QED BY <2>2, <2>3
<1>9. PICK b : b = BuildBlindedPath(key, createPathToBlind(own, dest)).hops
  OBVIOUS
<1>10. CASE own = <<>>
  <2>a. dest # None
    BY <1>5, <1>7, <1>10
  <2>b. Len(own) = 0 /\ Len(path) \in Nat
    BY <1>10
  <2>1. dest # None /\ Len(path) = 1
    BY <1>8, <2>a, <2>b
  <2>2. ValidRoute(path, dest)
    BY <1>2, <1>5, <2>1 DEF ValidRoute, targetPeer
  <2>3. msg = directToBlinded(dest)
    BY <1>5, <1>7, <1>10, <2>2 DEF CreateBlindedRoute
  <2>4. PICK c : c = dest.hops
    OBVIOUS
  <2>5. Chain(c) /\ c[1].id = BlindedID(dest.intro, dest.blinding)
        /\ c[Len(c)].id.node = EndOf(dest) /\ dest.intro \in Nodes
    BY <1>5, <2>1, <2>4 DEF Chain, Travellable, BlindedPaths, EndOf
  <2>6. PICK o : o = Wrapped(c, None, {})
    OBVIOUS
  <2>7. o = [i \in DOMAIN c |-> RelayHop(c[i])]
    BY <2>6 DEF Wrapped, FinalHop, RelayHop, encodeReplyPath
  <2>8. {} \in Finals /\ encodeReplyPath(None) = None
    BY DEF Finals, encodeReplyPath
  <2>9. /\ Readable(o) /\ o[1].id = c[1].id /\ o[Len(o)].id = c[Len(c)].id
        /\ o[Len(o)].final = {} /\ o[Len(o)].reply = None
    BY <2>5, <2>6, <2>8, WrappedIsReadable
  <2>10. msg = createOnionMessage(dest.intro, o, dest.blinding)
    BY <2>3, <2>4, <2>7 DEF directToBlinded
  <2>11. msg.first = dest.intro /\ msg.onion = o /\ msg.blinding = dest.blinding
    BY <2>10, OnionMade
  <2> QED BY <1>1, <1>2, <2>1, <2>5, <2>9, <2>11
          DEF WellMade, Carries, Recipient
<1>11. CASE own # <<>>
  <2>1. ValidRoute(path, dest)
    BY <1>2, <1>5 DEF ValidRoute, targetPeer
  <2>2. PICK extra : extra = IF dest = None THEN <<>> ELSE dest.hops
    OBVIOUS
  <2>3. PICK hops : hops = blindedToSphinx(b, extra, reply, final)
    OBVIOUS
  <2>a. PICK fits : fits = (Len(own) + Len(extra) <= NumMaxHops + 1)
    OBVIOUS
  <2>b. msg = IF ~Encodable(reply, final) /\ fits THEN Failure("payload")
              ELSE createOnionMessage(path[1], hops, PubKey(key))
    BY <1>5, <1>7, <1>9, <1>11, <2>1, <2>2, <2>3, <2>a
    DEF CreateBlindedRoute
  <2>4. /\ fits => Encodable(reply, final)
        /\ msg = createOnionMessage(path[1], hops, PubKey(key))
    BY <2>b DEF Failure
  <2>5. OwnPart(b, key, own, dest)
    BY <1>5, <1>8, <1>9, <1>11, OwnHops
  <2>6. PICK c : c = b \o extra
    OBVIOUS
  <2>7. /\ Chain(c) /\ c[1].id = BlindedID(path[1], PubKey(key))
        /\ c[Len(c)].id.node = Recipient(s.req)
    <3>1. CASE dest = None
      <4>1. b \in Seq(BlindedHops) /\ extra = <<>> /\ <<>> \in Seq(BlindedHops)
        BY <2>2, <2>5, <3>1 DEF OwnPart
      <4>2. c = b
        BY <2>6, <4>1, ConcatEmptySeq
      <4>3. own = path /\ Len(b) = Len(path) /\ Len(path) \in 1..Len(path)
            /\ DOMAIN b = 1..Len(path) /\ DOMAIN own = 1..Len(path)
        BY <1>5, <1>7, <2>5, <3>1, <4>1 DEF OwnPart
      <4>4. b # <<>>
        BY <1>5, <4>3
      <4>5. Chain(b)
        BY <2>5, <4>1, <4>3, <4>4 DEF OwnPart, Chain
      <4>6. b[Len(b)].id.node = path[Len(path)]
        BY <2>5, <4>3 DEF OwnPart
      <4>7. Recipient(s.req) = path[Len(path)]
        BY <1>2, <1>5, <3>1 DEF Recipient, targetPeer
      <4> QED BY <2>5, <4>2, <4>3, <4>5, <4>6, <4>7 DEF OwnPart
    <3>2. CASE dest # None
      <4>1. c = b \o dest.hops
        BY <2>2, <2>6, <3>2
      <4>2. /\ Chain(c) /\ c[1].id = BlindedID(own[1], PubKey(key))
            /\ c[Len(c)].id.node = EndOf(dest)
        <5>1. dest \in BlindedPaths /\ Travellable(dest)
          BY <1>5, <3>2
        <5>2. own \in Seq(Nodes)
          BY <1>8
        <5>3. LeadsTo(b \o dest.hops, key, own, dest)
          BY <1>11, <2>5, <3>2, <5>1, <5>2, Joined
        <5> QED BY <4>1, <5>3 DEF LeadsTo
      <4> QED BY <1>2, <1>8, <1>11, <3>2, <4>2 DEF Recipient
    <3> QED BY <3>1, <3>2
  <2>8. hops = Wrapped(c, reply, final)
    BY <2>3, <2>6 DEF blindedToSphinx, Wrapped
  <2>9. /\ Readable(hops) /\ hops[1].id = c[1].id /\ Len(hops) = Len(c)
        /\ hops[Len(hops)].id = c[Len(c)].id
        /\ hops[Len(hops)].final = final
        /\ hops[Len(hops)].reply = encodeReplyPath(reply)
    BY <1>6, <2>7, <2>8, WrappedIsReadable
  <2>10. /\ msg.first = path[1] /\ msg.onion = hops
         /\ msg.blinding = PubKey(key) /\ Fits(hops)
         /\ ~(Len(hops) > NumMaxHops)
    BY <2>4, OnionMade
  <2>11. ~(dest # None /\ Len(path) = 1)
    BY <1>5, <1>8, <1>11
  <2>12. ASSUME reply # None
         PROVE  Len(reply.hops) <= ReplyRoom /\ HopCount(reply.hops) # 0
    <3>1. Len(hops) \in DOMAIN hops
      BY <2>9 DEF Readable
    <3>2. Len(reply.hops) <= ReplyRoom
      BY <1>6, <2>9, <2>10, <2>12, <3>1 DEF Fits
    <3>3. b \in Seq(BlindedHops) /\ Len(b) = Len(own)
      BY <2>5 DEF OwnPart
    <3>4. extra \in Seq(BlindedHops)
      BY <1>5, <2>2 DEF BlindedPaths
    <3>5. Len(b \o extra) = Len(b) + Len(extra)
      BY <3>3, <3>4, ConcatProperties, Zenon
    <3>6. Len(b) \in Nat /\ Len(extra) \in Nat
      BY <3>3, <3>4, LenProperties
    <3>7. Len(hops) = Len(b) + Len(extra)
      BY <2>6, <2>9, <3>5
    <3>8. Len(b) + Len(extra) <= NumMaxHops + 1
      BY <2>10, <3>6, <3>7, RoutesAssumption
    <3>9. fits
      BY <2>a, <3>3, <3>8, Zenon
    <3> QED BY <2>4, <2>12, <3>2, <3>9 DEF Encodable
  <2>13. Carries(hops[Len(hops)], s)
    BY <1>1, <1>2, <1>3, <1>4, <2>7, <2>9, <2>11, <2>12 DEF Carries
  <2> QED BY <1>8, <2>7, <2>9, <2>10, <2>13 DEF WellMade
<1> QED BY <1>10, <1>11

-----------------------------------------------------------------------------
(***************************************************************************)
(* Steps of a call.                                                        *)
(***************************************************************************)

\* The entry of call r is replaced.
Moved(r, pc, req, path, attempt) ==
    send' = [send EXCEPT ![r] = [pc |-> pc, req |-> req, path |-> path,
                                 attempt |-> attempt]]

\* What that does to the table.
LEMMA MovedTable ==
    ASSUME SendShape, NEW r \in Requests, NEW pc, NEW req, NEW path, NEW attempt,
           Moved(r, pc, req, path, attempt)
    PROVE  /\ SendShape'
           /\ send'[r].pc = pc /\ send'[r].req = req
           /\ send'[r].path = path /\ send'[r].attempt = attempt
           /\ \A s \in Requests : s # r => send'[s] = send[s]
<1>1. DOMAIN send = Requests
  BY DEF SendShape
<1>2. /\ send'[r] = [pc |-> pc, req |-> req, path |-> path, attempt |-> attempt]
      /\ \A s \in Requests : s # r => send'[s] = send[s]
      /\ send' = [s \in Requests |-> send'[s]]
  BY <1>1 DEF Moved
<1>3. /\ send'[r].pc = pc /\ send'[r].req = req
      /\ send'[r].path = path /\ send'[r].attempt = attempt
  BY <1>2
<1>4. ASSUME NEW s \in Requests
      PROVE  send'[s] = [pc |-> send'[s].pc, req |-> send'[s].req,
                         path |-> send'[s].path, attempt |-> send'[s].attempt]
  <2>1. CASE s = r
    BY <1>2, <1>3, <2>1
  <2>2. CASE s # r
    BY <1>2, <1>4, <2>2 DEF SendShape
  <2> QED BY <2>1, <2>2
<1> QED BY <1>2, <1>3, <1>4 DEF SendShape

\* The forms in which the actions write it.
LEMMA CallForms ==
    ASSUME SendShape, NEW r \in Requests, NEW pc
    PROVE  /\ Goto(r, pc) =>
                 Moved(r, pc, send[r].req, send[r].path, send[r].attempt)
           /\ \A path : send' = [send EXCEPT ![r].pc = pc, ![r].path = path] =>
                 Moved(r, pc, send[r].req, path, send[r].attempt)
           /\ \A q : send' = [send EXCEPT ![r].req = q, ![r].pc = pc] =>
                 Moved(r, pc, q, send[r].path, send[r].attempt)
           /\ send' = [send EXCEPT ![r].pc = pc, ![r].attempt = @ + 1] =>
                 Moved(r, pc, send[r].req, send[r].path, send[r].attempt + 1)
<1>1. /\ DOMAIN send = Requests
      /\ send[r] = [pc |-> send[r].pc, req |-> send[r].req,
                    path |-> send[r].path, attempt |-> send[r].attempt]
  BY DEF SendShape
<1>2. [send[r] EXCEPT !.pc = pc] = [pc |-> pc, req |-> send[r].req,
                    path |-> send[r].path, attempt |-> send[r].attempt]
  BY <1>1
<1>3. Goto(r, pc) => Moved(r, pc, send[r].req, send[r].path, send[r].attempt)
  BY <1>1, <1>2 DEF Goto, Moved
<1>4. ASSUME NEW path, send' = [send EXCEPT ![r].pc = pc, ![r].path = path]
      PROVE  Moved(r, pc, send[r].req, path, send[r].attempt)
  <2>1. /\ send'[r] = [pc |-> pc, req |-> send[r].req, path |-> path,
                       attempt |-> send[r].attempt]
        /\ \A s \in Requests : s # r => send'[s] = send[s]
        /\ send' = [s \in Requests |-> send'[s]]
    BY <1>1, <1>4
  <2> QED BY <1>1, <2>1 DEF Moved
<1>5. ASSUME NEW q, send' = [send EXCEPT ![r].req = q, ![r].pc = pc]
      PROVE  Moved(r, pc, q, send[r].path, send[r].attempt)
  <2>1. /\ send'[r] = [pc |-> pc, req |-> q, path |-> send[r].path,
                       attempt |-> send[r].attempt]
        /\ \A s \in Requests : s # r => send'[s] = send[s]
        /\ send' = [s \in Requests |-> send'[s]]
    BY <1>1, <1>5
  <2> QED BY <1>1, <2>1 DEF Moved
<1>6. ASSUME send' = [send EXCEPT ![r].pc = pc, ![r].attempt = @ + 1]
      PROVE  Moved(r, pc, send[r].req, send[r].path, send[r].attempt + 1)
  <2>1. /\ send'[r] = [pc |-> pc, req |-> send[r].req,
                       path |-> send[r].path, attempt |-> send[r].attempt + 1]
        /\ \A s \in Requests : s # r => send'[s] = send[s]
        /\ send' = [s \in Requests |-> send'[s]]
    BY <1>1, <1>6
  <2> QED BY <1>1, <2>1 DEF Moved
<1> QED BY <1>3, <1>4, <1>5, <1>6

\* A call that has sent nothing yet, and sends nothing in this step, does not
\* touch what is known of messages.
LEMMA MessagesUntouched ==
    ASSUME IndInv, NEW r \in Requests, send[r].pc # "sent",
           NEW pc, NEW req, NEW path, NEW attempt,
           Moved(r, pc, req, path, attempt), pc # "sent",
           UNCHANGED <<wire, inbox, drops>>
    PROVE  OnTrack' /\ AsSent' /\ OnePlace' /\ HopsAccept'
<1>1. /\ \A m \in wire : m.id \in Requests
      /\ \A m \in inbox : m.id \in Requests
      /\ \A d \in drops : d.id \in Requests
  BY DEF IndInv, TypeOK
<1>2. \A s \in Requests : s # r => send'[s] = send[s]
  BY MovedTable DEF IndInv
<1>3. /\ \A m \in wire : send'[m.id] = send[m.id]
      /\ \A m \in inbox : send'[m.id] = send[m.id]
      /\ \A d \in drops : send'[d.id] = send[d.id]
  BY <1>1, <1>2 DEF IndInv, OnTrack, AsSent, OnePlace
<1>4. OnTrack'
  BY <1>3 DEF IndInv, OnTrack
<1>5. AsSent'
  BY <1>3 DEF IndInv, AsSent
<1>6. OnePlace'
  BY <1>3 DEF IndInv, OnePlace
<1>7. HopsAccept'
  BY <1>3 DEF IndInv, HopsAccept
<1> QED BY <1>4, <1>5, <1>6, <1>7

\* The target of a request that was accepted, and the node it comes from.
LEMMA Ends ==
    ASSUME NEW q, Accepted(q)
    PROVE  q.from \in Nodes /\ targetPeer(q) \in Nodes
<1>1. q.from \in Nodes /\ ValidRequest(q)
  BY DEF Accepted
<1>2. CASE q.dest = None
  BY <1>1, <1>2 DEF ValidRequest, ParsePubKey, targetPeer
<1>3. CASE q.dest # None
  BY <1>1, <1>3 DEF ValidRequest, ParsePubKey, parseReplyPath, targetPeer
<1> QED BY <1>1, <1>2, <1>3

\* A connection has two ends.
LEMMA PairSize ==
    ASSUME NEW a, NEW b, a # b
    PROVE  Cardinality({a, b}) = 2
<1>1. IsFiniteSet({a}) /\ Cardinality({a}) = 1
  BY FS_Singleton
<1>2. b \notin {a} /\ {a} \cup {b} = {a, b}
  OBVIOUS
<1>3. Cardinality({a} \cup {b}) = Cardinality({a}) + 1
  BY <1>1, <1>2, FS_AddElement
<1> QED BY <1>1, <1>2, <1>3

\* A step of a call that sends nothing.
CallStep(r, pc, req, path, attempt) ==
    /\ send[r].pc # "sent" /\ pc # "sent"
    /\ Moved(r, pc, req, path, attempt)
    /\ pc \in {"idle"} \cup Active \cup Finished
    /\ pc \notin {"idle", "unready", "invalid"} => Accepted(req)
    /\ path \in Seq(Nodes)
    /\ pc = "dispatch" => path # <<>> /\ path[Len(path)] = targetPeer(req)
    /\ attempt \in 0..LookupAttempts
    /\ pc = "backoff" => attempt < LookupAttempts
    /\ \A e \in dialing' : e \in dialing \/ (e \subseteq Nodes /\ Cardinality(e) = 2)
    /\ UNCHANGED <<links, wire, inbox, drops>>

\* Such a step keeps the invariant.
LEMMA CallKept ==
    ASSUME IndInv, NEW r \in Requests, NEW pc, NEW req, NEW path, NEW attempt,
           CallStep(r, pc, req, path, attempt)
    PROVE  IndInv'
<1>1. /\ SendShape'
      /\ send'[r].pc = pc /\ send'[r].req = req
      /\ send'[r].path = path /\ send'[r].attempt = attempt
      /\ \A s \in Requests : s # r => send'[s] = send[s]
  BY MovedTable DEF IndInv, CallStep
<1>2. OnTrack' /\ AsSent' /\ OnePlace' /\ HopsAccept'
  BY MessagesUntouched DEF CallStep
<1>3. TypeOK'
  <2>1. \A e \in links' \cup dialing' : e \subseteq Nodes /\ Cardinality(e) = 2
    BY DEF IndInv, TypeOK, CallStep
  <2>2. ASSUME NEW s \in Requests
        PROVE  /\ send'[s].pc \in {"idle"} \cup Active \cup Finished
               /\ send'[s].attempt \in 0..LookupAttempts
               /\ send'[s].path \in Seq(Nodes)
    <3>1. CASE s = r
      BY <1>1, <3>1 DEF CallStep
    <3>2. CASE s # r
      BY <1>1, <2>2, <3>2 DEF IndInv, TypeOK
    <3> QED BY <3>1, <3>2
  <2>3. /\ \A m \in wire' : m.id \in Requests /\ {m.from, m.to} \in links'
        /\ \A m \in inbox' : m.id \in Requests /\ m.at \in Nodes
        /\ \A d \in drops' : d.id \in Requests /\ d.at \in Nodes
    BY DEF IndInv, TypeOK, CallStep
  <2> QED BY <2>1, <2>2, <2>3 DEF TypeOK
<1>4. CallsAccepted'
  <2> SUFFICES ASSUME NEW s \in Requests
               PROVE  /\ send'[s].pc \notin {"idle", "unready", "invalid"} =>
                            Accepted(send'[s].req)
                      /\ send'[s].pc \in {"dispatch", "sent"} =>
                            /\ send'[s].path # <<>>
                            /\ send'[s].path[Len(send'[s].path)]
                                  = targetPeer(send'[s].req)
                      /\ send'[s].pc = "backoff" =>
                            send'[s].attempt < LookupAttempts
    BY DEF CallsAccepted, Target
  <2>1. CASE s = r
    BY <1>1, <2>1 DEF CallStep
  <2>2. CASE s # r
    BY <1>1, <2>2 DEF IndInv, CallsAccepted, Target
  <2> QED BY <2>1, <2>2
<1> QED BY <1>1, <1>2, <1>3, <1>4 DEF IndInv

\* A call that fails keeps the invariant.
LEMMA FailKept ==
    ASSUME IndInv, NEW r \in Requests, NEW pc, pc \in {"failed", "panicked"},
           send[r].pc \notin {"idle", "unready", "invalid", "sent"},
           Goto(r, pc), UNCHANGED <<links, dialing, wire, inbox, drops>>
    PROVE  IndInv'
<1>1. Moved(r, pc, send[r].req, send[r].path, send[r].attempt)
  BY CallForms DEF IndInv
<1>2. CallStep(r, pc, send[r].req, send[r].path, send[r].attempt)
  BY <1>1 DEF CallStep, IndInv, TypeOK, CallsAccepted, Active, Finished
<1> QED BY <1>2, CallKept

\* A step of a call that goes on to look for its target.
Searches(r, pc) ==
    /\ pc \in {"lookup", "connect", "poll", "backoff"}
    /\ send[r].pc \notin {"idle", "unready", "invalid", "sent"}
    /\ pc = "backoff" => send[r].attempt < LookupAttempts
    /\ Goto(r, pc)
    /\ UNCHANGED <<links, wire, inbox, drops>>
    /\ \A e \in dialing' :
          e \in dialing \/ (e \subseteq Nodes /\ Cardinality(e) = 2)

\* It keeps the invariant too.
LEMMA GotoKept ==
    ASSUME IndInv, NEW r \in Requests, NEW pc, Searches(r, pc)
    PROVE  IndInv'
<1>1. Moved(r, pc, send[r].req, send[r].path, send[r].attempt)
  BY CallForms DEF IndInv, Searches
<1>2. CallStep(r, pc, send[r].req, send[r].path, send[r].attempt)
  BY <1>1 DEF CallStep, IndInv, TypeOK, CallsAccepted, Active, Searches
<1> QED BY <1>2, CallKept

\* A call that finds its target among our peers does too.
LEMMA PeeredKept ==
    ASSUME IndInv, NEW r \in Requests,
           send[r].pc \notin {"idle", "unready", "invalid", "sent"}, Peered(r)
    PROVE  IndInv'
<1>1. PICK p : p = <<Target(r)>>
  OBVIOUS
<1>2. Target(r) \in Nodes /\ Target(r) = targetPeer(send[r].req)
  BY Ends DEF IndInv, CallsAccepted, Target
<1>3. p \in Seq(Nodes) /\ p # <<>> /\ p[Len(p)] = targetPeer(send[r].req)
  BY <1>1, <1>2
<1>4. send' = [send EXCEPT ![r].pc = "dispatch", ![r].path = p]
  BY <1>1 DEF Peered
<1>5. Moved(r, "dispatch", send[r].req, p, send[r].attempt)
  BY <1>4, CallForms DEF IndInv
<1>6. CallStep(r, "dispatch", send[r].req, p, send[r].attempt)
  BY <1>3, <1>5
  DEF CallStep, IndInv, TypeOK, CallsAccepted, Active, Peered
<1> QED BY <1>6, CallKept

\* A request keeps the invariant, provided that it can be travelled if it is
\* valid.
LEMMA RequestKept ==
    ASSUME IndInv, NEW r \in Requests, NEW q, SendOnionMessage(r, q),
           ValidRequest(q) => Accepted(q)
    PROVE  IndInv'
<1>1. PICK ready \in BOOLEAN :
         send' = [send EXCEPT ![r].req = q,
                              ![r].pc = IF ~ready THEN "unready"
                                        ELSE IF ~ValidRequest(q) THEN "invalid"
                                        ELSE IF q.direct THEN "find"
                                        ELSE "query"]
  BY DEF SendOnionMessage
<1>2. PICK pc : /\ send' = [send EXCEPT ![r].req = q, ![r].pc = pc]
                /\ pc = IF ~ready THEN "unready"
                        ELSE IF ~ValidRequest(q) THEN "invalid"
                        ELSE IF q.direct THEN "find" ELSE "query"
  BY <1>1
<1>3. Moved(r, pc, q, send[r].path, send[r].attempt)
  BY <1>2, CallForms DEF IndInv
<1>4. /\ pc \in {"unready", "invalid", "find", "query"}
      /\ pc \notin {"unready", "invalid"} => Accepted(q)
  BY <1>2
<1>5. CallStep(r, pc, q, send[r].path, send[r].attempt)
  BY <1>3, <1>4
  DEF CallStep, IndInv, TypeOK, Active, Finished, SendOnionMessage
<1> QED BY <1>5, CallKept

\* Dispatch puts a message on the wire that can be read hop by hop.
LEMMA DispatchKept ==
    ASSUME IndInv, NEW r \in Requests, Dispatch(r)
    PROVE  IndInv'
<1>1. PICK s : s = send[r]
  OBVIOUS
<1>2. PICK msg : msg = CreateBlindedRoute(r, s.path, s.req.dest, s.req.reply,
                                          s.req.final)
  OBVIOUS
<1>3. /\ s.pc = "dispatch" /\ Accepted(s.req) /\ s.path \in Seq(Nodes)
      /\ s.path # <<>> /\ s.path[Len(s.path)] = targetPeer(s.req)
      /\ r \in Keys /\ Us(r) = s.req.from /\ s.req.from \in Nodes
  BY <1>1, NetworkAssumption, Ends
  DEF Dispatch, IndInv, TypeOK, CallsAccepted, Target, Us
<1>4. \/ /\ msg.ok
         /\ {Us(r), msg.first} \in links
         /\ Goto(r, "sent")
         /\ wire' = wire \cup {[id |-> r, from |-> Us(r), to |-> msg.first,
                                blinding |-> msg.blinding, onion |-> msg.onion]}
         /\ UNCHANGED <<links, dialing, inbox, drops>>
      \/ Goto(r, "panicked") /\ UNCHANGED <<links, dialing, wire, inbox, drops>>
      \/ Goto(r, "failed") /\ UNCHANGED <<links, dialing, wire, inbox, drops>>
  BY <1>1, <1>2 DEF Dispatch, Fail
<1>5. CASE Goto(r, "panicked") /\ UNCHANGED <<links, dialing, wire, inbox, drops>>
  BY <1>1, <1>3, <1>5, FailKept
<1>6. CASE Goto(r, "failed") /\ UNCHANGED <<links, dialing, wire, inbox, drops>>
  BY <1>1, <1>3, <1>6, FailKept
<1>7. CASE /\ msg.ok
           /\ {Us(r), msg.first} \in links
           /\ Goto(r, "sent")
           /\ wire' = wire \cup {[id |-> r, from |-> Us(r), to |-> msg.first,
                                  blinding |-> msg.blinding,
                                  onion |-> msg.onion]}
           /\ UNCHANGED <<links, dialing, inbox, drops>>
  <2>1. WellMade(msg, s)
    BY <1>2, <1>3, <1>7, RouteIsWellMade
  <2>2. Moved(r, "sent", s.req, s.path, s.attempt)
    BY <1>1, <1>7, CallForms DEF IndInv
  <2>3. /\ SendShape'
        /\ send'[r].pc = "sent" /\ send'[r].req = s.req
        /\ send'[r].path = s.path /\ send'[r].attempt = s.attempt
        /\ \A t \in Requests : t # r => send'[t] = send[t]
    BY <2>2, MovedTable DEF IndInv
  <2>4. PICK n : n = [id |-> r, from |-> Us(r), to |-> msg.first,
                      blinding |-> msg.blinding, onion |-> msg.onion]
    OBVIOUS
  <2>5. /\ n.id = r /\ n.from = Us(r) /\ n.to = msg.first
        /\ n.blinding = msg.blinding /\ n.onion = msg.onion
        /\ wire' = wire \cup {n}
    BY <1>7, <2>4
  <2>6. /\ \A m \in wire : m.id \in Requests /\ m.id # r
        /\ \A m \in inbox : m.id \in Requests /\ m.id # r
        /\ \A d \in drops : d.id \in Requests /\ d.id # r
    BY <1>1, <1>3 DEF IndInv, TypeOK, OnTrack, AsSent, OnePlace
  <2>7. TypeOK'
    <3>1. ASSUME NEW t \in Requests
          PROVE  /\ send'[t].pc \in {"idle"} \cup Active \cup Finished
                 /\ send'[t].attempt \in 0..LookupAttempts
                 /\ send'[t].path \in Seq(Nodes)
      <4>1. CASE t = r
        BY <1>1, <2>3, <4>1 DEF IndInv, TypeOK, Finished
      <4>2. CASE t # r
        BY <2>3, <3>1, <4>2 DEF IndInv, TypeOK
      <4> QED BY <4>1, <4>2
    <3>2. \A m \in wire' : m.id \in Requests /\ {m.from, m.to} \in links'
      BY <1>7, <2>5 DEF IndInv, TypeOK
    <3> QED BY <1>7, <3>1, <3>2 DEF IndInv, TypeOK
  <2>8. CallsAccepted'
    <3> SUFFICES ASSUME NEW t \in Requests
                 PROVE  /\ send'[t].pc \notin {"idle", "unready", "invalid"} =>
                              Accepted(send'[t].req)
                        /\ send'[t].pc \in {"dispatch", "sent"} =>
                              /\ send'[t].path # <<>>
                              /\ send'[t].path[Len(send'[t].path)]
                                    = targetPeer(send'[t].req)
                        /\ send'[t].pc = "backoff" =>
                              send'[t].attempt < LookupAttempts
      BY DEF CallsAccepted, Target
    <3>1. CASE t = r
      BY <1>3, <2>3, <3>1
    <3>2. CASE t # r
      BY <2>3, <3>2 DEF IndInv, CallsAccepted, Target
    <3> QED BY <3>1, <3>2
  <2>9. OnTrack'
    <3> SUFFICES ASSUME NEW m \in wire'
                 PROVE  /\ send'[m.id].pc = "sent"
                        /\ m.from \in Nodes /\ m.to \in Nodes
                        /\ Readable(m.onion)
                        /\ Hop(m).id = BlindedID(m.to, m.blinding)
                        /\ Carries(m.onion[Len(m.onion)], send'[m.id])
      BY DEF OnTrack
    <3>1. CASE m \in wire
      BY <2>3, <2>6, <3>1 DEF IndInv, OnTrack
    <3>2. CASE m = n
      <4>1. Carries(msg.onion[Len(msg.onion)], send'[r])
        BY <2>1, <2>3 DEF WellMade, Carries
      <4> QED BY <1>3, <2>1, <2>3, <2>5, <3>2, <4>1 DEF WellMade, Hop
    <3> QED BY <2>5, <3>1, <3>2
  <2>10. AsSent'
    BY <1>7, <2>3, <2>6 DEF IndInv, AsSent
  <2>11. OnePlace'
    BY <1>7, <2>3, <2>5, <2>6 DEF IndInv, OnePlace
  <2>12. HopsAccept'
    BY <1>7, <2>3, <2>6 DEF IndInv, HopsAccept
  <2> QED BY <2>3, <2>7, <2>8, <2>9, <2>10, <2>11, <2>12 DEF IndInv
<1> QED BY <1>4, <1>5, <1>6, <1>7

-----------------------------------------------------------------------------
(***************************************************************************)
(* Steps of a message.                                                     *)
(***************************************************************************)

\* What may be wrong with a message in transit: the payloads at its last node,
\* or the connection to the next.
LEMMA HowHandled ==
    ASSUME OnTrack, NEW m \in wire
    PROVE  /\ Len(m.onion) \in Nat /\ Len(m.onion) >= 1
           /\ Len(m.onion) = 1 =>
                 Rejected(m) = IF Decodes(Hop(m).final) THEN "none"
                               ELSE "bad payload"
           /\ Len(m.onion) > 1 =>
                 Rejected(m) = IF {m.to, RouteData(m).next} \notin links
                               THEN "no peer" ELSE "none"
<1>1. /\ Readable(m.onion) /\ Hop(m).id = BlindedID(m.to, m.blinding)
  BY DEF OnTrack
<1>2. Len(m.onion) \in Nat /\ Len(m.onion) >= 1 /\ 1 \in DOMAIN m.onion
  BY <1>1 DEF Readable
<1>3. Opens(m)
  BY <1>1 DEF Opens
<1>a. PICK n \in Nat : n = Len(m.onion)
  BY <1>2
<1>b. (n = 1 \/ n > 1) /\ ~(n = 1 /\ n > 1)
  <2>1. n >= 1
    BY <1>2, <1>a
  <2>2. n = 1 \/ n > 1
    BY <2>1
  <2>3. ~(n = 1 /\ n > 1)
    OBVIOUS
  <2> QED BY <2>2, <2>3
<1>4. CASE n = 1
  <2>1. CASE Decodes(Hop(m).final)
    <3>1. Rejected(m) = "none"
      BY <1>3, <1>4, <1>a, <2>1 DEF Rejected
    <3> QED BY <1>2, <1>4, <1>a, <1>b, <2>1, <3>1
  <2>2. CASE ~Decodes(Hop(m).final)
    <3>1. Rejected(m) = "bad payload"
      BY <1>3, <1>4, <1>a, <2>2 DEF Rejected
    <3> QED BY <1>2, <1>4, <1>a, <1>b, <2>2, <3>1
  <2> QED BY <2>1, <2>2
<1>5. CASE n > 1
  <2>1. 1 \in 1..(Len(m.onion) - 1) /\ 2 \in DOMAIN m.onion /\ 1 + 1 = 2
    BY <1>1, <1>2, <1>5, <1>a DEF Readable
  <2>2. /\ Hop(m).final = {} /\ Follows(m.onion[1], m.onion[2])
        /\ Sealed(m.onion[1]) /\ m.onion[2] \in OnionHops
    BY <1>1, <1>2, <2>1 DEF Readable, Hop
  <2>3. Decodes(Hop(m).final) /\ DecodedFinal(Hop(m).final) = {}
    BY <2>2 DEF Decodes, DecodedFinal
  <2>4. Decrypts(m)
    BY <1>1, <2>2 DEF Decrypts, Sealed, Hop, BlindedID
  <2>5. RouteData(m).next \in Nodes
    BY <2>2 DEF RouteData, Follows, OnionHops, Hop
  <2>6. RouteData(m).next # None
    BY <2>5, RoutesAssumption
  <2>7. Len(m.onion) # 1
    <3>1. n # 1
      BY <1>5
    <3> QED BY <1>a, <3>1
  <2>8. Rejected(m) = IF {m.to, RouteData(m).next} \notin links
                      THEN "no peer" ELSE "none"
    BY <1>3, <2>3, <2>4, <2>6, <2>7 DEF Rejected
  <2> QED BY <1>2, <1>5, <1>a, <1>b, <2>8
<1> QED BY <1>4, <1>5, <1>b

\* A reply path that fits into an onion is read as it was written: the count of
\* its hops has not wrapped.
LEMMA ReplyRoundTrip ==
    ASSUME NEW reply \in BlindedPaths, reply # None,
           Len(reply.hops) <= ReplyRoom, HopCount(reply.hops) # 0
    PROVE  /\ decodeReplyPath(encodeReplyPath(reply)) = reply
           /\ reply.hops # <<>>
<1>1. /\ reply.hops \in Seq(BlindedHops)
      /\ reply = [intro |-> reply.intro, blinding |-> reply.blinding,
                  hops |-> reply.hops]
  BY DEF BlindedPaths
<1>2. PICK n \in Nat : n = Len(reply.hops)
  BY <1>1
<1>3. PICK w \in Nat : w = 2 ^ CountBits
  BY RoutesAssumption
<1>4. n < w
  <2>1. n <= ReplyRoom /\ ReplyRoom \in Nat /\ ReplyRoom < w
    BY <1>2, <1>3, RoutesAssumption
  <2> QED BY <2>1
<1>5. n % w = n
  BY <1>4
<1>6. HopCount(reply.hops) = Len(reply.hops)
  BY <1>2, <1>3, <1>5 DEF HopCount
<1>7. SubSeq(reply.hops, 1, Len(reply.hops)) = reply.hops
  BY <1>1, SubSeqFull
<1>8. Len(reply.hops) # 0
  BY <1>6
<1>9. reply.hops # <<>>
  BY <1>8
<1>10. PICK e : e = encodeReplyPath(reply)
  OBVIOUS
<1>11. /\ e # None /\ e.intro = reply.intro /\ e.blinding = reply.blinding
       /\ e.hops = reply.hops /\ e.count = Len(reply.hops)
  BY <1>6, <1>10, EncodedReply DEF encodeReplyPath
<1>12. decodeReplyPath(e) = reply
  BY <1>1, <1>7, <1>11 DEF decodeReplyPath
<1> QED BY <1>9, <1>10, <1>12

\* A step of a message leaves the calls alone.
LEMMA CallsUntouched ==
    ASSUME IndInv, UNCHANGED send
    PROVE  SendShape' /\ CallsAccepted'
  BY DEF IndInv, SendShape, CallsAccepted, Target

\* The exit node reads what was sent.
LEMMA ExitKept ==
    ASSUME IndInv, NEW m \in wire, Exit(m)
    PROVE  IndInv'
<1>1. PICK n : n = [id |-> m.id, at |-> m.to,
                    reply |-> decodeReplyPath(Hop(m).reply),
                    final |-> DecodedFinal(Hop(m).final)]
  OBVIOUS
<1>2. /\ n.id = m.id /\ n.at = m.to /\ n.reply = decodeReplyPath(Hop(m).reply)
      /\ n.final = DecodedFinal(Hop(m).final)
      /\ wire' = wire \ {m} /\ inbox' = inbox \cup {n}
      /\ UNCHANGED <<links, dialing, send, drops>>
  BY <1>1 DEF Exit
<1>3. /\ send[m.id].pc = "sent" /\ m.id \in Requests /\ m.to \in Nodes
      /\ Hop(m).id = BlindedID(m.to, m.blinding)
      /\ Carries(Hop(m), send[m.id]) /\ Accepted(send[m.id].req)
  <2>1. Len(m.onion) = 1
    BY DEF Exit
  <2> QED BY <2>1 DEF IndInv, TypeOK, OnTrack, Hop, CallsAccepted
<1>4. PICK s : s = send[m.id]
  OBVIOUS
<1>5. m.to = Recipient(s.req)
  BY <1>3, <1>4 DEF Carries, BlindedID
<1>6. /\ s.pc = "sent" /\ n.at = Recipient(s.req)
      /\ IF s.req.dest # None /\ Len(s.path) = 1
         THEN n.reply = None /\ n.final = {}
         ELSE /\ n.final = DecodedFinal(s.req.final)
              /\ n.reply = s.req.reply
              /\ s.req.reply # None => s.req.reply.hops # <<>>
  <2>1. CASE s.req.dest # None /\ Len(s.path) = 1
    BY <1>2, <1>3, <1>4, <1>5, <2>1 DEF Carries, decodeReplyPath, DecodedFinal
  <2>2. CASE ~(s.req.dest # None /\ Len(s.path) = 1)
    <3>1. /\ Hop(m).final = s.req.final
          /\ Hop(m).reply = encodeReplyPath(s.req.reply)
          /\ s.req.reply # None =>
                /\ Len(s.req.reply.hops) <= ReplyRoom
                /\ HopCount(s.req.reply.hops) # 0
      BY <1>3, <1>4, <2>2 DEF Carries
    <3>2. CASE s.req.reply = None
      BY <1>2, <1>3, <1>4, <1>5, <2>2, <3>1, <3>2
      DEF decodeReplyPath, encodeReplyPath
    <3>3. CASE s.req.reply # None
      <4>1. s.req.reply \in BlindedPaths
        BY <1>3, <1>4, <3>3 DEF Accepted
      <4>2. /\ decodeReplyPath(encodeReplyPath(s.req.reply)) = s.req.reply
            /\ s.req.reply.hops # <<>>
        BY <3>1, <3>3, <4>1, ReplyRoundTrip
      <4> QED BY <1>2, <1>3, <1>4, <1>5, <2>2, <3>1, <4>2
    <3> QED BY <3>2, <3>3
  <2> QED BY <2>1, <2>2
<1>7. AsSent'
  BY <1>2, <1>4, <1>6 DEF IndInv, AsSent
<1>8. TypeOK'
  BY <1>2, <1>3 DEF IndInv, TypeOK
<1>9. OnTrack'
  BY <1>2 DEF IndInv, OnTrack
<1>10. OnePlace'
  BY <1>2 DEF IndInv, OnePlace
<1>11. HopsAccept'
  BY <1>2 DEF IndInv, HopsAccept
<1> QED BY <1>2, <1>7, <1>8, <1>9, <1>10, <1>11, CallsUntouched DEF IndInv

\* The next node gets an onion that it can open.
LEMMA ForwardKept ==
    ASSUME IndInv, NEW m \in wire, Forward(m)
    PROVE  IndInv'
<1>1. PICK n : n = [id |-> m.id, from |-> m.to, to |-> RouteData(m).next,
                    blinding |-> NextBlinding(m), onion |-> Tail(m.onion)]
  OBVIOUS
<1>2. /\ n.id = m.id /\ n.from = m.to /\ n.to = RouteData(m).next
      /\ n.blinding = NextBlinding(m) /\ n.onion = Tail(m.onion)
      /\ wire' = (wire \ {m}) \cup {n}
      /\ UNCHANGED <<links, dialing, send, inbox, drops>>
  BY <1>1 DEF Forward
<1>3. /\ send[m.id].pc = "sent" /\ m.id \in Requests /\ m.to \in Nodes
      /\ Readable(m.onion) /\ Hop(m).id = BlindedID(m.to, m.blinding)
      /\ Carries(m.onion[Len(m.onion)], send[m.id])
  BY DEF IndInv, TypeOK, OnTrack
<1>4. {m.to, RouteData(m).next} \in links
  BY HowHandled DEF IndInv, Forward
<1>5. PICK o \in Seq(OnionHops) : o = m.onion
  BY <1>3 DEF Readable
<1>6. PICK k \in Nat : k = Len(o)
  OBVIOUS
<1>7. k > 1
  BY <1>5, <1>6 DEF Forward
<1>8. PICK u : u = Tail(o)
  OBVIOUS
<1>9. /\ u \in Seq(OnionHops) /\ Len(u) = k - 1 /\ DOMAIN u = 1..(k - 1)
      /\ \A i \in 1..(k - 1) : u[i] = o[i + 1]
  <2>1. o # <<>>
    BY <1>6, <1>7
  <2> QED BY <1>6, <1>7, <1>8, <2>1, HeadTailProperties
<1>10. /\ \A i \in 1..k : Sealed(o[i])
       /\ \A i \in 1..(k - 1) : /\ Follows(o[i], o[i + 1])
                                /\ o[i].reply = None /\ o[i].final = {}
  BY <1>3, <1>5, <1>6 DEF Readable
<1>11. Readable(u)
  <2>1. u # <<>>
    BY <1>7, <1>9
  <2>2. ASSUME NEW i \in 1..(k - 1) PROVE Sealed(u[i])
    <3>1. i + 1 \in 1..k
      BY <2>2
    <3> QED BY <1>9, <1>10, <2>2, <3>1
  <2>3. ASSUME NEW i \in 1..((k - 1) - 1)
        PROVE  Follows(u[i], u[i + 1]) /\ u[i].reply = None /\ u[i].final = {}
    <3>1. i \in 1..(k - 1) /\ i + 1 \in 1..(k - 1)
      BY <2>3
    <3>2. u[i] = o[i + 1] /\ u[i + 1] = o[(i + 1) + 1]
      BY <1>9, <3>1
    <3> QED BY <1>10, <3>1, <3>2
  <2> QED BY <1>9, <2>1, <2>2, <2>3 DEF Readable
<1>12. u[1] = o[2] /\ u[Len(u)] = o[Len(o)] /\ Follows(o[1], o[2])
  <2>1. 1 \in 1..(k - 1) /\ k - 1 \in 1..(k - 1) /\ (k - 1) + 1 = k /\ 1 + 1 = 2
    BY <1>7
  <2>2. u[1] = o[2] /\ u[k - 1] = o[k] /\ Follows(o[1], o[2])
    BY <1>9, <1>10, <2>1
  <2> QED BY <1>6, <1>9, <2>2
<1>13. u[1].id = BlindedID(n.to, n.blinding) /\ n.to \in Nodes
  <2>1. /\ u[1].id.node = n.to /\ u[1].id.eph = n.blinding
    BY <1>2, <1>3, <1>5, <1>12
    DEF Follows, RouteData, NextBlinding, Hop, BlindedID
  <2>2. u[1] \in OnionHops
    BY <1>7, <1>9
  <2> QED BY <2>1, <2>2 DEF OnionHops, BlindedID
<1>14. OnTrack'
  <2> SUFFICES ASSUME NEW x \in wire'
               PROVE  /\ send'[x.id].pc = "sent"
                      /\ x.from \in Nodes /\ x.to \in Nodes
                      /\ Readable(x.onion)
                      /\ Hop(x).id = BlindedID(x.to, x.blinding)
                      /\ Carries(x.onion[Len(x.onion)], send'[x.id])
    BY DEF OnTrack
  <2>1. CASE x \in wire
    BY <1>2, <2>1 DEF IndInv, OnTrack
  <2>2. CASE x = n
    <3>1. n.onion = u
      BY <1>2, <1>5, <1>8
    <3> QED BY <1>2, <1>3, <1>5, <1>11, <1>12, <1>13, <2>2, <3>1 DEF Hop
  <2> QED BY <1>2, <2>1, <2>2
<1>15. TypeOK'
  BY <1>2, <1>3, <1>4 DEF IndInv, TypeOK
<1>16. AsSent'
  BY <1>2 DEF IndInv, AsSent
<1>17. OnePlace'
  BY <1>2 DEF IndInv, OnePlace
<1>18. HopsAccept'
  BY <1>2 DEF IndInv, HopsAccept
<1> QED BY <1>2, <1>14, <1>15, <1>16, <1>17, <1>18, CallsUntouched DEF IndInv

\* What goes no further leaves the wire for the history, for a reason that
\* HopsAccept allows.
LEMMA LossKept ==
    ASSUME IndInv, NEW lost, lost \subseteq wire,
           wire' = wire \ lost, UNCHANGED <<dialing, send, inbox>>,
           links' \subseteq links,
           \A m \in wire \ lost : {m.from, m.to} \in links',
           \A d \in drops' : d \in drops \/
               \E m \in lost : /\ d.id = m.id /\ d.at = m.to
                               /\ \/ d.why \in {"no peer", "lost", "lnd"}
                                  \/ /\ d.why = "bad payload"
                                     /\ ~Decodes(send[m.id].req.final)
                                     /\ m.to = Recipient(send[m.id].req)
    PROVE  IndInv'
<1>1. TypeOK'
  <2>1. \A d \in drops' : d.id \in Requests /\ d.at \in Nodes
    BY DEF IndInv, TypeOK, OnTrack
  <2> QED BY <2>1 DEF IndInv, TypeOK
<1>2. OnTrack'
  BY DEF IndInv, OnTrack
<1>3. AsSent'
  BY DEF IndInv, AsSent
<1>4. OnePlace'
  <2>1. ASSUME NEW d \in drops'
        PROVE  /\ send[d.id].pc = "sent"
               /\ \A m \in wire' : m.id # d.id
               /\ \A m \in inbox : m.id # d.id
    <3>1. CASE d \in drops
      BY <3>1 DEF IndInv, OnePlace
    <3>2. ASSUME NEW m \in lost, d.id = m.id
          PROVE  /\ send[d.id].pc = "sent"
                 /\ \A x \in wire' : x.id # d.id
                 /\ \A x \in inbox : x.id # d.id
      <4>1. m \in wire /\ send[m.id].pc = "sent"
        BY <3>2 DEF IndInv, OnTrack
      <4>2. \A x \in wire' : x \in wire /\ x # m
        BY <3>2
      <4>3. \A x \in wire' : x.id # m.id
        BY <4>1, <4>2 DEF IndInv, OnePlace
      <4>4. \A x \in inbox : x.id # m.id
        BY <4>1 DEF IndInv, OnePlace
      <4> QED BY <3>2, <4>1, <4>3, <4>4
    <3> QED BY <2>1, <3>1, <3>2
  <2> QED BY <2>1 DEF IndInv, OnePlace
<1>5. HopsAccept'
  <2> SUFFICES ASSUME NEW d \in drops'
               PROVE  \/ d.why \in {"no peer", "lost", "lnd"}
                      \/ /\ d.why = "bad payload"
                         /\ ~Decodes(send[d.id].req.final)
                         /\ d.at = Recipient(send[d.id].req)
    BY DEF HopsAccept
  <2>1. CASE d \in drops
    BY <2>1 DEF IndInv, HopsAccept
  <2>2. CASE d \notin drops
    BY <2>2
  <2> QED BY <2>1, <2>2
<1> QED BY <1>1, <1>2, <1>3, <1>4, <1>5, CallsUntouched DEF IndInv

\* A node that drops a message: lnd failed, or one of the reasons of HowHandled.
LEMMA DropKept ==
    ASSUME IndInv, NEW m \in wire, Reject(m) \/ LndFails(m)
    PROVE  IndInv'
<1>1. PICK why : /\ Drop(m, why)
                 /\ why = "lnd" \/ (why = Rejected(m) /\ why # "none")
  BY DEF Reject, LndFails
<1>2. PICK d : d = [id |-> m.id, at |-> m.to, why |-> why]
  OBVIOUS
<1>3. /\ d.id = m.id /\ d.at = m.to /\ d.why = why
      /\ wire' = wire \ {m} /\ drops' = drops \cup {d}
      /\ UNCHANGED <<links, dialing, send, inbox>>
  BY <1>1, <1>2 DEF Drop
<1>4. \/ why \in {"no peer", "lost", "lnd"}
      \/ /\ why = "bad payload" /\ ~Decodes(send[m.id].req.final)
         /\ m.to = Recipient(send[m.id].req)
  <2>1. CASE why = "lnd"
    BY <2>1
  <2>2. CASE why = Rejected(m) /\ why # "none"
    <3>1. PICK k \in Nat : k = Len(m.onion)
      BY HowHandled DEF IndInv
    <3>2. k >= 1
      BY <3>1, HowHandled DEF IndInv
    <3>3. k = 1 \/ k > 1
      BY <3>2
    <3>4. CASE k > 1
      BY <2>2, <3>1, <3>4, HowHandled DEF IndInv
    <3>5. CASE k = 1
      <4>1. why = "bad payload" /\ ~Decodes(Hop(m).final)
        BY <2>2, <3>1, <3>5, HowHandled DEF IndInv
      <4>2. /\ Carries(Hop(m), send[m.id])
            /\ Hop(m).id = BlindedID(m.to, m.blinding)
        BY <3>1, <3>5 DEF IndInv, OnTrack, Hop
      <4>3. Decodes({})
        BY DEF Decodes
      <4>4. Hop(m).final = send[m.id].req.final
        BY <4>1, <4>2, <4>3 DEF Carries
      <4>5. m.to = Recipient(send[m.id].req)
        BY <4>2 DEF Carries, BlindedID
      <4> QED BY <4>1, <4>4, <4>5
    <3> QED BY <3>3, <3>4, <3>5
  <2> QED BY <1>1, <2>1, <2>2
<1>5. PICK lost : lost = {m}
  OBVIOUS
<1>6. \A x \in wire \ lost : {x.from, x.to} \in links'
  BY <1>3 DEF IndInv, TypeOK
<1>7. \A x \in drops' : x \in drops \/
         \E y \in lost : /\ x.id = y.id /\ x.at = y.to
                         /\ \/ x.why \in {"no peer", "lost", "lnd"}
                            \/ /\ x.why = "bad payload"
                               /\ ~Decodes(send[y.id].req.final)
                               /\ y.to = Recipient(send[y.id].req)
  BY <1>3, <1>4, <1>5
<1> QED BY <1>3, <1>5, <1>6, <1>7, LossKept

\* What is on a connection is lost with it.
LEMMA LinkDownKept ==
    ASSUME IndInv, NEW e, LinkDown(e)
    PROVE  IndInv'
<1>1. PICK lost : lost = {m \in wire : {m.from, m.to} = e}
  OBVIOUS
<1>2. /\ links' = links \ {e} /\ wire' = wire \ lost
      /\ drops' = drops \cup
            {[id |-> m.id, at |-> m.to, why |-> "lost"] : m \in lost}
      /\ UNCHANGED <<dialing, send, inbox>>
  BY <1>1 DEF LinkDown
<1>3. \A m \in wire \ lost : {m.from, m.to} \in links'
  BY <1>1, <1>2 DEF IndInv, TypeOK
<1>4. \A d \in drops' : d \in drops \/
         \E m \in lost : /\ d.id = m.id /\ d.at = m.to
                         /\ \/ d.why \in {"no peer", "lost", "lnd"}
                            \/ /\ d.why = "bad payload"
                               /\ ~Decodes(send[m.id].req.final)
                               /\ m.to = Recipient(send[m.id].req)
  <2> SUFFICES ASSUME NEW d \in drops', d \notin drops
               PROVE  \E m \in lost : d.id = m.id /\ d.at = m.to /\ d.why = "lost"
    OBVIOUS
  <2>1. PICK m \in lost : d = [id |-> m.id, at |-> m.to, why |-> "lost"]
    BY <1>2
  <2> QED BY <2>1
<1>5. lost \subseteq wire /\ links' \subseteq links
  BY <1>1, <1>2
<1> QED BY <1>2, <1>3, <1>4, <1>5, LossKept

\* A new connection changes nothing that is in transit.
LEMMA LinkUpKept ==
    ASSUME IndInv, NEW e \in Channels \cup dialing, LinkUp(e)
    PROVE  IndInv'
<1>1. /\ links' = links \cup {e} /\ UNCHANGED <<dialing, send, wire, inbox, drops>>
  BY DEF LinkUp
<1>2. e \subseteq Nodes /\ Cardinality(e) = 2
  BY NetworkAssumption DEF IndInv, TypeOK
<1>3. TypeOK'
  BY <1>1, <1>2 DEF IndInv, TypeOK
<1>4. OnTrack' /\ AsSent' /\ OnePlace' /\ HopsAccept'
  BY <1>1 DEF IndInv, OnTrack, AsSent, OnePlace, HopsAccept
<1> QED BY <1>1, <1>3, <1>4, CallsUntouched DEF IndInv

-----------------------------------------------------------------------------
(***************************************************************************)
(* The invariant.                                                          *)
(***************************************************************************)

\* Nothing has been sent at first.
LEMMA Initial == Init => IndInv
<1> SUFFICES ASSUME Init PROVE IndInv
  OBVIOUS
<1>1. \A r \in Requests :
         send[r] = [pc |-> "idle", req |-> NoRequest, path |-> <<>>,
                    attempt |-> 0]
  BY DEF Init
<1>2. \A r \in Requests :
         send[r].pc = "idle" /\ send[r].path = <<>> /\ send[r].attempt = 0
           /\ send[r].req = NoRequest
  BY <1>1
<1>3. TypeOK
  <2>1. \A e \in links \cup dialing : e \subseteq Nodes /\ Cardinality(e) = 2
    BY NetworkAssumption DEF Init
  <2>2. 0 \in 0..LookupAttempts
    BY NetworkAssumption
  <2>3. <<>> \in Seq(Nodes)
    OBVIOUS
  <2>4. wire = {} /\ inbox = {} /\ drops = {}
    BY DEF Init
  <2>5. \A r \in Requests :
           /\ send[r].pc \in {"idle"} \cup Active \cup Finished
           /\ send[r].attempt \in 0..LookupAttempts
           /\ send[r].path \in Seq(Nodes)
    BY <1>2, <2>2, <2>3
  <2> QED BY <2>1, <2>4, <2>5 DEF TypeOK
<1>4. SendShape
  BY <1>1, <1>2 DEF Init, SendShape
<1>5. CallsAccepted
  BY <1>2 DEF CallsAccepted
<1>6. OnTrack /\ AsSent /\ OnePlace /\ HopsAccept
  BY DEF Init, OnTrack, AsSent, OnePlace, HopsAccept
<1> QED BY <1>3, <1>4, <1>5, <1>6 DEF IndInv

\* Every step keeps the invariant.
LEMMA Inductive == IndInv /\ [Next]_vars => IndInv'
<1> SUFFICES ASSUME IndInv, [Next]_vars PROVE IndInv'
  OBVIOUS
<1>1. ASSUME NEW r \in Requests, NEW q \in Kinds(r), SendOnionMessage(r, q)
      PROVE  IndInv'
  <2>1. q.final \in Finals
    BY <1>1 DEF Finals
  <2>2. ValidRequest(q) => Accepted(q)
    BY <1>1, <2>1, ClientsAssumption DEF Accepted
  <2> QED BY <1>1, <2>2, RequestKept
<1>2. ASSUME NEW r \in Requests, NEW m \in inbox, NEW d \in BOOLEAN,
             Reply(r, m, d)
      PROVE  IndInv'
  <2>1. PICK q : q = [NoRequest EXCEPT !.from = m.at, !.dest = m.reply,
                      !.final = ReplyPayloads, !.direct = d]
    OBVIOUS
  <2>2. q.from = m.at /\ q.dest = m.reply /\ q.final = ReplyPayloads
        /\ q.reply = None
    BY <2>1 DEF NoRequest
  <2>3. m.reply # None /\ SendOnionMessage(r, q)
    BY <1>2, <2>1 DEF Reply
  <2>4. m.id \in Requests /\ m.at \in Nodes
    BY <1>2 DEF IndInv, TypeOK
  <2>5. PICK s : s = send[m.id]
    OBVIOUS
  <2>6. /\ s.pc = "sent" /\ m.reply = s.req.reply /\ s.req.reply.hops # <<>>
    BY <1>2, <2>3, <2>5 DEF IndInv, AsSent
  <2>7. Accepted(s.req)
    BY <2>4, <2>5, <2>6 DEF IndInv, CallsAccepted
  <2>8. m.reply \in BlindedPaths /\ Travellable(m.reply)
    BY <2>3, <2>6, <2>7 DEF Accepted
  <2>9. ReplyPayloads \in Finals
    BY DEF Finals
  <2>10. ValidRequest(q) => Accepted(q)
    BY <2>2, <2>4, <2>8, <2>9 DEF Accepted
  <2> QED BY <1>2, <2>3, <2>10, RequestKept
<1>3. ASSUME NEW r \in Requests, QueryRoutes(r)
      PROVE  IndInv'
  <2>1. send[r].pc = "query"
    BY <1>3 DEF QueryRoutes
  <2>2. Accepted(send[r].req)
    BY <1>3, <2>1 DEF IndInv, CallsAccepted
  <2>3. Us(r) \in Nodes /\ Target(r) \in Nodes
    BY <2>2, Ends DEF Us, Target
  <2>4. CASE Fail(r)
    BY <1>3, <2>1, <2>4, FailKept DEF Fail
  <2>5. CASE /\ \E path \in Routes(Us(r), Target(r)) :
                   send' = [send EXCEPT ![r].pc = "dispatch", ![r].path = path]
             /\ UNCHANGED <<links, dialing, wire, inbox, drops>>
    <3>1. PICK path \in Routes(Us(r), Target(r)) :
             send' = [send EXCEPT ![r].pc = "dispatch", ![r].path = path]
      BY <2>5
    <3>2. /\ path \in Seq(Nodes) /\ path # <<>>
          /\ path[Len(path)] = targetPeer(send[r].req)
      BY <2>3, LndAssumption DEF Target
    <3>3. Moved(r, "dispatch", send[r].req, path, send[r].attempt)
      BY <1>3, <3>1, CallForms DEF IndInv
    <3>4. CallStep(r, "dispatch", send[r].req, path, send[r].attempt)
      BY <1>3, <2>1, <2>2, <2>5, <3>2, <3>3 DEF CallStep, IndInv, TypeOK, Active
    <3> QED BY <1>3, <3>4, CallKept
  <2> QED BY <1>3, <2>4, <2>5 DEF QueryRoutes
<1>4. ASSUME NEW r \in Requests, FindPeer(r) \/ PollPeer(r)
      PROVE  IndInv'
  <2>1. send[r].pc \notin {"idle", "unready", "invalid", "sent"}
    BY <1>4 DEF FindPeer, PollPeer
  <2>2. CASE Peered(r)
    BY <1>4, <2>1, <2>2, PeeredKept
  <2>3. CASE Fail(r)
    BY <1>4, <2>1, <2>3, FailKept DEF Fail
  <2>4. ASSUME NEW pc \in {"lookup", "backoff"}, NotPeered(r, pc),
               pc = "backoff" => send[r].attempt < LookupAttempts
        PROVE  IndInv'
    <3>1. dialing' = dialing
      BY <2>4 DEF NotPeered
    <3>2. \A e \in dialing' :
             e \in dialing \/ (e \subseteq Nodes /\ Cardinality(e) = 2)
      BY <3>1, Zenon
    <3>3. Searches(r, pc)
      BY <2>1, <2>4, <3>2, Zenon DEF NotPeered, Searches
    <3> QED BY <1>4, <3>3, GotoKept
  <2> QED BY <1>4, <2>2, <2>3, <2>4 DEF FindPeer, PollPeer
<1>5. ASSUME NEW r \in Requests, LookupNode(r)
      PROVE  IndInv'
  <2>1. send[r].pc = "lookup"
    BY <1>5 DEF LookupNode
  <2>2. CASE Fail(r)
    BY <1>5, <2>1, <2>2, FailKept DEF Fail
  <2>3. CASE /\ Goto(r, "connect")
             /\ UNCHANGED <<links, dialing, wire, inbox, drops>>
    <3>1. dialing' = dialing
      BY <2>3
    <3>2. \A e \in dialing' :
             e \in dialing \/ (e \subseteq Nodes /\ Cardinality(e) = 2)
      BY <3>1, Zenon
    <3>3. Searches(r, "connect")
      BY <2>1, <2>3, <3>2 DEF Searches
    <3> QED BY <1>5, <3>3, GotoKept
  <2> QED BY <1>5, <2>2, <2>3 DEF LookupNode
<1>6. ASSUME NEW r \in Requests, ConnectPeer(r)
      PROVE  IndInv'
  <2>1. send[r].pc = "connect"
    BY <1>6 DEF ConnectPeer
  <2>2. Us(r) \in Nodes /\ Target(r) \in Nodes
    BY <1>6, <2>1, Ends DEF IndInv, CallsAccepted, Us, Target
  <2>3. CASE Fail(r)
    BY <1>6, <2>1, <2>3, FailKept DEF Fail
  <2>4. CASE /\ Us(r) # Target(r) /\ Goto(r, "poll")
             /\ dialing' = dialing \cup {Edge(r)}
             /\ UNCHANGED <<links, wire, inbox, drops>>
    <3>1. Edge(r) \subseteq Nodes /\ Cardinality(Edge(r)) = 2
      BY <2>2, <2>4, PairSize DEF Edge
    <3>2. \A e \in dialing' :
             e \in dialing \/ (e \subseteq Nodes /\ Cardinality(e) = 2)
      BY <2>4, <3>1, Zenon
    <3>3. Searches(r, "poll")
      BY <2>1, <2>4, <3>2 DEF Searches
    <3> QED BY <1>6, <3>3, GotoKept
  <2> QED BY <1>6, <2>3, <2>4 DEF ConnectPeer
<1>7. ASSUME NEW r \in Requests, Backoff(r)
      PROVE  IndInv'
  <2>1. /\ send[r].pc = "backoff" /\ send[r].attempt \in 0..LookupAttempts
        /\ send[r].attempt < LookupAttempts /\ LookupAttempts \in Nat
    BY <1>7, NetworkAssumption DEF Backoff, IndInv, TypeOK, CallsAccepted
  <2>2. CASE Fail(r)
    BY <1>7, <2>1, <2>2, FailKept DEF Fail
  <2>3. CASE /\ send' = [send EXCEPT ![r].pc = "poll", ![r].attempt = @ + 1]
             /\ UNCHANGED <<links, dialing, wire, inbox, drops>>
    <3>1. Moved(r, "poll", send[r].req, send[r].path, send[r].attempt + 1)
      BY <1>7, <2>3, CallForms DEF IndInv
    <3>2. send[r].attempt + 1 \in 0..LookupAttempts
      BY <2>1
    <3>3. CallStep(r, "poll", send[r].req, send[r].path, send[r].attempt + 1)
      BY <1>7, <2>1, <2>3, <3>1, <3>2
      DEF CallStep, IndInv, TypeOK, CallsAccepted, Active
    <3> QED BY <1>7, <3>3, CallKept
  <2> QED BY <1>7, <2>2, <2>3 DEF Backoff
<1>8. ASSUME NEW r \in Requests, Dispatch(r)
      PROVE  IndInv'
  BY <1>8, DispatchKept
<1>9. ASSUME NEW m \in wire, HandleOnionMessage(m)
      PROVE  IndInv'
  BY <1>9, ExitKept, ForwardKept, DropKept DEF HandleOnionMessage
<1>10. ASSUME NEW e \in Channels \cup dialing, LinkUp(e) \/ LinkDown(e)
       PROVE  IndInv'
  BY <1>10, LinkUpKept, LinkDownKept
<1>11. CASE UNCHANGED vars
  BY <1>11 DEF vars, IndInv, TypeOK, SendShape, CallsAccepted, Target, OnTrack,
     AsSent, OnePlace, HopsAccept
<1> QED
  BY <1>1, <1>2, <1>3, <1>4, <1>5, <1>6, <1>7, <1>8, <1>9, <1>10, <1>11
  DEF Next, SendStep

-----------------------------------------------------------------------------
\* The invariant holds.
THEOREM Invariance == Spec => []IndInv
  BY Initial, Inductive, PTL DEF Spec

\* The tables keep their types; in particular what is in transit is always on a
\* connection that is up, and no more attempts are made than allowed.
THEOREM TypeCorrect == Spec => []TypeOK
<1>1. IndInv => TypeOK
  BY DEF IndInv
<1> QED BY <1>1, Invariance, PTL

\* No node refuses a message that CreateBlindedRoute made, whatever the route
\* and the blinded path behind it: every hop opens its layer, decrypts its data
\* and learns the next node and key.
THEOREM EveryHopAccepts == Spec => []HopsAccept
<1>1. IndInv => HopsAccept
  BY DEF IndInv
<1> QED BY <1>1, Invariance, PTL

\* A message reaches the node it is for, no other, and only once.
THEOREM ReachesRecipient == Spec => []RightRecipient
<1>1. IndInv => RightRecipient
  BY DEF IndInv, AsSent, OnePlace, RightRecipient
<1> QED BY <1>1, Invariance, PTL

\* The reply path, hop count and all, and the payloads that are more than a
\* marker arrive as they were sent, and nothing else does.
THEOREM ArrivesAsSent == Spec => []ArrivesIntact
<1>1. IndInv => ArrivesIntact
  BY DEF IndInv, AsSent, ArrivesIntact, Intact, DecodedFinal, SentDirect
<1> QED BY <1>1, Invariance, PTL

\* An answer along a reply path reaches whoever sent the message.
THEOREM AnswersComeBack == Spec => []RepliesComeBack
<1>1. IndInv => RepliesComeBack
  <2> SUFFICES ASSUME IndInv, NEW m \in inbox, NEW asked \in inbox,
                      asked.reply # None, send[m.id].req.dest = asked.reply
               PROVE  m.at = send[asked.id].req.from
    BY DEF RepliesComeBack
  <2>1. PICK s : s = send[asked.id]
    OBVIOUS
  <2>2. /\ s.pc = "sent" /\ asked.reply = s.req.reply
        /\ s.req.reply.hops # <<>> /\ asked.id \in Requests
    BY <2>1 DEF IndInv, AsSent, TypeOK
  <2>3. Accepted(s.req)
    BY <2>1, <2>2 DEF IndInv, CallsAccepted
  <2>4. EndOf(asked.reply) = s.req.from
    BY <2>2, <2>3 DEF Accepted
  <2>5. m.at = EndOf(asked.reply)
    BY DEF IndInv, AsSent, Recipient
  <2> QED BY <2>1, <2>4, <2>5
<1> QED BY <1>1, Invariance, PTL

\* No hop before the last carries a reply path or a payload.
THEOREM OnlyLastCarries == Spec => []OnlyLastHopCarries
<1>1. IndInv => OnlyLastHopCarries
  BY DEF IndInv, OnTrack, Readable, OnlyLastHopCarries
<1> QED BY <1>1, Invariance, PTL
=============================================================================
