--------------------------- MODULE DeliveryProofs ----------------------------
(***************************************************************************)
(* OnionNetwork implements Delivery, for every network, route and blinded  *)
(* path: each step of a call, a hop or a connection is a step of Delivery  *)
(* or changes nothing that Delivery sees.                                  *)
(***************************************************************************)
EXTENDS OnionNetworkProofs

InTransit(r) == \E m \in wire : m.id = r
Lost(r) == \E d \in drops : d.id = r
Here(r) == {m \in inbox : m.id = r}

\* What Delivery's variable stands for.
Parcels == [r \in Requests |-> ParcelOf(r)]

\* A parcel that has been made, one that has been read, and one that is not
\* made.
Form(st, to, body, at, read) ==
    [st |-> st, to |-> to, body |-> body, at |-> at, read |-> read]
Made(r, st) == Form(st, {Recipient(send[r].req)}, send[r].req.final, {}, {})
ReadBy(r, m) == Form("delivered", {Recipient(send[r].req)},
                     send[r].req.final, {m.at}, m.final)
Empty(st) == Form(st, {}, {}, {}, {})

\* How Delivery sees a call, by the place its message is in.
LooksRight ==
    \A r \in Requests :
        /\ send[r].pc = "idle" => ParcelOf(r) = Empty("idle")
        /\ send[r].pc \in Active => ParcelOf(r) = Made(r, "calling")
        /\ send[r].pc \in Finished \ {"sent"} => ParcelOf(r) = Empty("refused")
        /\ InTransit(r) => ParcelOf(r) = Made(r, "transit")
        /\ Lost(r) => ParcelOf(r) = Made(r, "lost")
        /\ \A m \in Here(r) :
              ParcelOf(r) = ReadBy(r, m)

-----------------------------------------------------------------------------
\* A parcel is what the place of the message and the request make it.
LEMMA ParcelParts ==
    ASSUME NEW r \in Requests
    PROVE  ParcelOf(r) =
              [st   |-> Where(r),
               to   |-> IF Where(r) \notin {"idle", "refused"}
                        THEN {Recipient(send[r].req)} ELSE {},
               body |-> IF Where(r) \notin {"idle", "refused"}
                        THEN send[r].req.final ELSE {},
               at   |-> {m.at : m \in Here(r)},
               read |-> UNION {m.final : m \in Here(r)}]
  BY DEF ParcelOf, Here

\* Delivery sees each call as its place says.
LEMMA Looks == IndInv => LooksRight
<1> SUFFICES ASSUME IndInv, NEW r \in Requests
             PROVE
        /\ send[r].pc = "idle" => ParcelOf(r) = Empty("idle")
        /\ send[r].pc \in Active => ParcelOf(r) = Made(r, "calling")
        /\ send[r].pc \in Finished \ {"sent"} => ParcelOf(r) = Empty("refused")
        /\ InTransit(r) => ParcelOf(r) = Made(r, "transit")
        /\ Lost(r) => ParcelOf(r) = Made(r, "lost")
        /\ \A m \in Here(r) :
              ParcelOf(r) = ReadBy(r, m)
  BY DEF LooksRight
<1>1. /\ InTransit(r) => send[r].pc = "sent"
      /\ Lost(r) => send[r].pc = "sent"
      /\ Here(r) # {} => send[r].pc = "sent"
  BY DEF IndInv, OnTrack, AsSent, OnePlace, InTransit, Lost, Here
<1>2. /\ InTransit(r) => ~Lost(r) /\ Here(r) = {}
      /\ Lost(r) => Here(r) = {}
  BY DEF IndInv, OnePlace, InTransit, Lost, Here
<1>3. Where(r) = IF Here(r) # {} THEN "delivered"
                 ELSE IF InTransit(r) THEN "transit"
                 ELSE IF Lost(r) THEN "lost"
                 ELSE IF send[r].pc = "idle" THEN "idle"
                 ELSE IF send[r].pc \in Active THEN "calling"
                 ELSE IF send[r].pc = "sent" THEN "vanished"
                 ELSE "refused"
  <2>1. (\E m \in inbox : m.id = r) <=> Here(r) # {}
    BY DEF Here
  <2> QED BY <1>2, <2>1 DEF Where, InTransit, Lost
<1>4. ASSUME Here(r) = {}
      PROVE  ParcelOf(r) = IF Where(r) \notin {"idle", "refused"}
                           THEN Made(r, Where(r)) ELSE Empty(Where(r))
  BY <1>4, ParcelParts DEF Made, Empty, Form
<1>5. /\ send[r].pc = "idle" => ParcelOf(r) = Empty("idle")
      /\ send[r].pc \in Active => ParcelOf(r) = Made(r, "calling")
      /\ send[r].pc \in Finished \ {"sent"} => ParcelOf(r) = Empty("refused")
  BY <1>1, <1>3, <1>4 DEF Active, Finished
<1>6. /\ InTransit(r) => ParcelOf(r) = Made(r, "transit")
      /\ Lost(r) => ParcelOf(r) = Made(r, "lost")
  BY <1>2, <1>3, <1>4
<1>7. ASSUME NEW m \in Here(r)
      PROVE  ParcelOf(r) = ReadBy(r, m)
  <2>1. Here(r) = {m}
    BY <1>7 DEF IndInv, OnePlace, Here
  <2>2. Where(r) = "delivered"
    BY <1>3, <1>7
  <2>3. {x.at : x \in Here(r)} = {m.at} /\ UNION {x.final : x \in Here(r)} = m.final
    BY <2>1
  <2>4. ParcelOf(r) = [st   |-> Where(r),
                       to   |-> {Recipient(send[r].req)},
                       body |-> send[r].req.final,
                       at   |-> {x.at : x \in Here(r)},
                       read |-> UNION {x.final : x \in Here(r)}]
    BY <2>2, ParcelParts
  <2> QED BY <2>2, <2>3, <2>4, Zenon DEF ReadBy, Form
<1> QED BY <1>5, <1>6, <1>7

\* Delivery sees no more of a call than its request and where its message is.
LEMMA SameView ==
    ASSUME NEW r \in Requests, send'[r].req = send[r].req,
           Where(r)' = Where(r), Here(r)' = Here(r)
    PROVE  ParcelOf(r)' = ParcelOf(r)
<1>1. Recipient(send[r].req)' = Recipient(send[r].req)
  BY DEF Recipient
<1> QED BY <1>1 DEF ParcelOf, Here

\* The place depends on the progress of the call and on the messages.
LEMMA SamePlace ==
    ASSUME NEW r \in Requests, send'[r] = send[r],
           InTransit(r)' <=> InTransit(r), Lost(r)' <=> Lost(r),
           Here(r)' = Here(r)
    PROVE  ParcelOf(r)' = ParcelOf(r)
<1>1. (\E m \in inbox' : m.id = r) <=> (\E m \in inbox : m.id = r)
  BY DEF Here
<1>2. Where(r)' = Where(r)
  BY <1>1 DEF Where, InTransit, Lost
<1> QED BY <1>2, SameView

\* One parcel changes.
LEMMA OneParcel ==
    ASSUME NEW r \in Requests, NEW p, ParcelOf(r)' = p,
           \A s \in Requests : s # r => ParcelOf(s)' = ParcelOf(s)
    PROVE  Abstract!Becomes(r, p)
  BY DEF Abstract!Becomes

\* No parcel changes.
LEMMA NoParcel ==
    ASSUME \A s \in Requests : ParcelOf(s)' = ParcelOf(s)
    PROVE  UNCHANGED Parcels
  BY DEF Parcels

\* A step of Delivery, or none.
Simulated == [Abstract!DeliveryNext]_Parcels

-----------------------------------------------------------------------------
(***************************************************************************)
(* The calls.                                                              *)
(***************************************************************************)

\* A call that goes on changes nothing that is seen of the others.
LEMMA OthersSame ==
    ASSUME SendShape, NEW r \in Requests, NEW pc, NEW req, NEW path,
           NEW attempt, Moved(r, pc, req, path, attempt),
           UNCHANGED <<wire, inbox, drops>>
    PROVE  /\ send'[r].pc = pc /\ send'[r].req = req
           /\ \A s \in Requests : s # r => ParcelOf(s)' = ParcelOf(s)
<1>1. /\ send'[r].pc = pc /\ send'[r].req = req
      /\ \A s \in Requests : s # r => send'[s] = send[s]
  BY MovedTable
<1>2. ASSUME NEW s \in Requests, s # r
      PROVE  ParcelOf(s)' = ParcelOf(s)
  <2>1. /\ send'[s] = send[s] /\ InTransit(s)' = InTransit(s)
        /\ Lost(s)' = Lost(s) /\ Here(s)' = Here(s)
    BY <1>1, <1>2 DEF InTransit, Lost, Here
  <2> QED BY <2>1, SamePlace
<1> QED BY <1>1, <1>2

\* As long as a call is under way, nothing is seen of it.
LEMMA GoesOn ==
    ASSUME IndInv, LooksRight, LooksRight', NEW r \in Requests, NEW pc, NEW path,
           NEW attempt, Moved(r, pc, send[r].req, path, attempt),
           UNCHANGED <<wire, inbox, drops>>,
           send[r].pc \in Active, pc \in Active
    PROVE  Simulated
<1>1. /\ send'[r].pc = pc /\ send'[r].req = send[r].req
      /\ \A s \in Requests : s # r => ParcelOf(s)' = ParcelOf(s)
  BY OthersSame DEF IndInv
<1>2. Made(r, "calling")' = Made(r, "calling")
  BY <1>1 DEF Made, Recipient, Form
<1>3. ParcelOf(r)' = ParcelOf(r)
  BY <1>1, <1>2 DEF LooksRight
<1> QED BY <1>1, <1>3, NoParcel DEF Simulated

\* A call that fails, before its message is on its way, is refused.
LEMMA IsRefused ==
    ASSUME IndInv, LooksRight, LooksRight', NEW r \in Requests, NEW pc, NEW req,
           NEW path, NEW attempt, Moved(r, pc, req, path, attempt),
           UNCHANGED <<wire, inbox, drops>>,
           send[r].pc \in Active \cup {"idle"}, pc \in Finished \ {"sent"}
    PROVE  Simulated
<1>1. /\ send'[r].pc = pc
      /\ \A s \in Requests : s # r => ParcelOf(s)' = ParcelOf(s)
  BY OthersSame DEF IndInv
<1>2. ParcelOf(r)' = Empty("refused")
  BY <1>1 DEF LooksRight, Empty, Form
<1>3. ParcelOf(r).st \in {"idle", "calling"}
  BY DEF LooksRight, Empty, Made, Form
<1>4. Abstract!Becomes(r, Abstract!Blank("refused"))
  BY <1>1, <1>2, OneParcel DEF Empty, Abstract!Blank, Abstract!Parcel, Form
<1>5. Abstract!Refuse(r)
  BY <1>3, <1>4 DEF Abstract!Refuse
<1> QED BY <1>5 DEF Simulated, Abstract!DeliveryNext

\* The contents that Delivery knows of.
Bodies == {ReplyPayloads} \cup {q.final : q \in UNION {Kinds(r) : r \in Requests}}

\* The node that an accepted request is for.
LEMMA RecipientIsNode ==
    ASSUME NEW q, Accepted(q)
    PROVE  Recipient(q) \in Nodes
<1>1. CASE q.dest = None
  BY <1>1, Ends DEF targetPeer, Recipient
<1>2. CASE q.dest # None
  <2>1. q.dest \in BlindedPaths /\ q.dest.hops # <<>>
    BY <1>2 DEF Accepted, Travellable
  <2>2. q.dest.hops \in Seq(BlindedHops)
    BY <2>1 DEF BlindedPaths
  <2>3. PICK n \in Nat : n = Len(q.dest.hops)
    BY <2>2
  <2>4. n # 0
    BY <2>1, <2>2, <2>3
  <2>5. q.dest.hops[n] \in BlindedHops
    BY <2>2, <2>3, <2>4
  <2>6. q.dest.hops[n].id.node \in Nodes
    BY <2>5 DEF BlindedHops
  <2> QED BY <1>2, <2>3, <2>6 DEF Recipient, EndOf
<1> QED BY <1>1, <1>2

\* A request that is accepted makes a parcel; one that is not is refused.
LEMMA IsMade ==
    ASSUME IndInv, IndInv', LooksRight, LooksRight', NEW r \in Requests, NEW q,
           SendOnionMessage(r, q), q.final \in Bodies
    PROVE  Simulated
<1>1. PICK ready \in BOOLEAN :
         send' = [send EXCEPT ![r].req = q,
                              ![r].pc = IF ~ready THEN "unready"
                                        ELSE IF ~ValidRequest(q) THEN "invalid"
                                        ELSE IF q.direct THEN "find"
                                        ELSE "query"]
  BY DEF SendOnionMessage
<1>2. PICK pc : /\ send' = [send EXCEPT ![r].req = q, ![r].pc = pc]
                /\ pc = IF ~ready THEN "unready"
                        ELSE IF ~ValidRequest(q) THEN "invalid"
                        ELSE IF q.direct THEN "find" ELSE "query"
  BY <1>1
<1>3. Moved(r, pc, q, send[r].path, send[r].attempt)
  BY <1>2, CallForms DEF IndInv
<1>4. send[r].pc = "idle" /\ UNCHANGED <<wire, inbox, drops>>
  BY DEF SendOnionMessage
<1>5. CASE pc \in {"unready", "invalid"}
  <2>1. send[r].pc \in Active \cup {"idle"} /\ pc \in Finished \ {"sent"}
    BY <1>4, <1>5 DEF Finished
  <2> QED BY <1>3, <1>4, <2>1, IsRefused
<1>6. CASE pc \notin {"unready", "invalid"}
  <2>1. pc \in Active
    BY <1>2, <1>6 DEF Active
  <2>2. /\ send'[r].pc = pc /\ send'[r].req = q
        /\ \A s \in Requests : s # r => ParcelOf(s)' = ParcelOf(s)
    BY <1>3, <1>4, OthersSame DEF IndInv
  <2>3. ParcelOf(r).st = "idle"
    BY <1>4 DEF LooksRight, Empty, Form
  <2>4. ParcelOf(r)' = Made(r, "calling")'
    BY <2>1, <2>2 DEF LooksRight
  <2>5. Made(r, "calling")' = Abstract!Parcel("calling", {Recipient(q)}, q.final)
    BY <2>2 DEF Made, Abstract!Parcel, Recipient, Form
  <2>6. pc \notin {"idle", "unready", "invalid"}
    BY <2>1 DEF Active
  <2>7. Accepted(q)
    BY <2>2, <2>6 DEF IndInv, CallsAccepted, Accepted
  <2>8. Recipient(q) \in Nodes
    BY <2>7, RecipientIsNode
  <2>9. Abstract!Becomes(r, Abstract!Parcel("calling", {Recipient(q)}, q.final))
    BY <2>2, <2>4, <2>5, OneParcel
  <2>10. Abstract!Make(r)
    BY <2>3, <2>8, <2>9 DEF Abstract!Make, Bodies
  <2> QED BY <2>10 DEF Simulated, Abstract!DeliveryNext
<1> QED BY <1>5, <1>6

-----------------------------------------------------------------------------
(***************************************************************************)
(* The messages.                                                           *)
(***************************************************************************)

\* How parcels change: their place only, or all that a delivery changes.
Relocated(p, st) == [p EXCEPT !.st = st]
Opened(p, to, f) == [p EXCEPT !.st = "delivered", !.at = to, !.read = f]

LEMMA MovedOn ==
    ASSUME NEW old, NEW to, NEW body, NEW at, NEW read, NEW st
    PROVE  Relocated(Form(old, to, body, at, read), st) =
               Form(st, to, body, at, read)
  BY DEF Form, Relocated

LEMMA IsOpened ==
    ASSUME NEW old, NEW to, NEW body, NEW at, NEW read, NEW f
    PROVE  Opened(Form(old, to, body, at, read), to, f) =
               Form("delivered", to, body, to, f)
<1> DEFINE p == Form(old, to, body, at, read)
           q == Opened(p, to, f)
<1>1. q = [x \in DOMAIN p |-> IF x = "st" THEN "delivered"
                              ELSE IF x = "at" THEN to
                              ELSE IF x = "read" THEN f ELSE p[x]]
  BY DEF Form, Opened
<1>2. DOMAIN p = {"st", "to", "body", "at", "read"}
  BY DEF Form
<1>3. p["to"] = to /\ p["body"] = body
  BY DEF Form
<1> HIDE DEF p, q
<1>4. q = Form("delivered", to, body, to, f)
  BY <1>1, <1>2, <1>3 DEF Form
<1> QED BY <1>4, Zenon DEF p, q

\* A parcel that has been made is in another place.
LEMMA MadeChanges ==
    ASSUME NEW r, NEW old, NEW st
    PROVE  Relocated(Made(r, old), st) = Made(r, st)
<1>1. PICK to : to = {Recipient(send[r].req)}
  OBVIOUS
<1>2. PICK body : body = send[r].req.final
  OBVIOUS
<1>3. PICK none : none = {}
  OBVIOUS
<1>4. Relocated(Form(old, to, body, none, none), st) = Form(st, to, body, none, none)
  BY MovedOn
<1> QED BY <1>1, <1>2, <1>3, <1>4 DEF Made

\* A parcel that has been made is read.
LEMMA MadeIsRead ==
    ASSUME NEW r, NEW old, NEW x, x.at = Recipient(send[r].req)
    PROVE  Opened(Made(r, old), Made(r, old).to, x.final) = ReadBy(r, x)
<1>1. Made(r, old).to = {x.at}
  BY DEF Made, Form
<1>2. Made(r, old) = Form(old, {x.at}, send[r].req.final, {}, {})
  BY Zenon DEF Made
<1>3. ReadBy(r, x) = Form("delivered", {x.at}, send[r].req.final, {x.at},
                          x.final)
  BY Zenon DEF ReadBy
<1>4. Opened(Form(old, {x.at}, send[r].req.final, {}, {}), {x.at}, x.final)
        = Form("delivered", {x.at}, send[r].req.final, {x.at}, x.final)
  <2>1. PICK to : to = {x.at}
    OBVIOUS
  <2>2. PICK body : body = send[r].req.final
    OBVIOUS
  <2>3. PICK none : none = {}
    OBVIOUS
  <2>4. PICK f : f = x.final
    OBVIOUS
  <2>5. Opened(Form(old, to, body, none, none), to, f)
          = Form("delivered", to, body, to, f)
    BY IsOpened
  <2> QED BY <2>1, <2>2, <2>3, <2>4, <2>5
<1> QED BY <1>1, <1>2, <1>3, <1>4, Zenon

\* A message that SendCustomMessage takes is on its way.
LEMMA IsPosted ==
    ASSUME IndInv, LooksRight, LooksRight', NEW r \in Requests, NEW x,
           x.id = r, send[r].pc \in Active, Goto(r, "sent"),
           wire' = wire \cup {x}, UNCHANGED <<inbox, drops>>
    PROVE  Simulated
<1>1. Moved(r, "sent", send[r].req, send[r].path, send[r].attempt)
  BY CallForms DEF IndInv
<1>2. /\ send'[r].req = send[r].req
      /\ \A s \in Requests : s # r => send'[s] = send[s]
  BY <1>1, MovedTable DEF IndInv
<1>3. ASSUME NEW s \in Requests, s # r
      PROVE  ParcelOf(s)' = ParcelOf(s)
  <2>1. InTransit(s)' <=> InTransit(s)
    BY <1>3 DEF InTransit
  <2>2. Lost(s)' = Lost(s) /\ Here(s)' = Here(s)
    BY DEF Lost, Here
  <2> QED BY <1>2, <1>3, <2>1, <2>2, SamePlace
<1>4. InTransit(r)'
  BY DEF InTransit
<1>5. ParcelOf(r)' = Made(r, "transit")' /\ ParcelOf(r) = Made(r, "calling")
  BY <1>4 DEF LooksRight
<1>6. Made(r, "transit")' = Made(r, "transit")
  BY <1>2 DEF Made, Recipient, Form
<1>7. Relocated(Made(r, "calling"), "transit") = Made(r, "transit")
  BY MadeChanges, Zenon
<1>8. ParcelOf(r).st = "calling"
  BY <1>5 DEF Made, Form
<1>9. Abstract!Becomes(r, Relocated(ParcelOf(r), "transit"))
  BY <1>3, <1>5, <1>6, <1>7, OneParcel
<1>10. Abstract!Post(r)
  BY <1>8, <1>9 DEF Abstract!Post, Relocated
<1> QED BY <1>10 DEF Simulated, Abstract!DeliveryNext

\* What an exit node reads is delivered.
LEMMA IsDelivered ==
    ASSUME IndInv, IndInv', LooksRight, LooksRight', NEW m \in wire, Exit(m)
    PROVE  Simulated
<1>1. PICK r \in Requests : r = m.id
  BY DEF IndInv, TypeOK
<1>2. PICK x : x = [id |-> m.id, at |-> m.to,
                    reply |-> decodeReplyPath(Hop(m).reply),
                    final |-> DecodedFinal(Hop(m).final)]
  OBVIOUS
<1>3. /\ wire' = wire \ {m} /\ inbox' = inbox \cup {x}
      /\ send' = send /\ drops' = drops
  BY <1>2 DEF Exit
<1>4. x.id = r
  BY <1>1, <1>2
<1>5. ASSUME NEW s \in Requests, s # r
      PROVE  ParcelOf(s)' = ParcelOf(s)
  <2>1. InTransit(s)' <=> InTransit(s)
    BY <1>1, <1>3, <1>5 DEF InTransit
  <2>2. Lost(s)' = Lost(s) /\ Here(s)' = Here(s)
    BY <1>3, <1>4, <1>5 DEF Lost, Here
  <2> QED BY <1>3, <1>5, <2>1, <2>2, SamePlace
<1>6. InTransit(r)
  BY <1>1 DEF InTransit
<1>7. ParcelOf(r) = Made(r, "transit")
  BY <1>6 DEF LooksRight
<1>8. x \in Here(r)'
  BY <1>3, <1>4 DEF Here
<1>9. ParcelOf(r)' = ReadBy(r, x)'
  BY <1>8 DEF LooksRight
<1>10. ReadBy(r, x)' = ReadBy(r, x)
  BY <1>3 DEF ReadBy, Recipient, Form
<1>11. /\ x.at = Recipient(send[r].req)
       /\ x.final \subseteq send[r].req.final
  <2>1. x \in inbox'
    BY <1>3
  <2>2. PICK s : s = send[r]
    OBVIOUS
  <2>3. /\ x.at = Recipient(s.req)
        /\ x.final = {} \/ x.final = DecodedFinal(s.req.final)
    BY <1>3, <1>4, <2>1, <2>2 DEF IndInv, AsSent, Recipient
  <2> QED BY <2>2, <2>3 DEF DecodedFinal
<1>12. ReadBy(r, x) = Opened(Made(r, "transit"), Made(r, "transit").to, x.final)
  BY <1>11, MadeIsRead
<1>13. ParcelOf(r).st = "transit" /\ ParcelOf(r).body = send[r].req.final
  BY <1>7 DEF Made, Form
<1>14. Abstract!Becomes(r, Opened(ParcelOf(r), ParcelOf(r).to, x.final))
  BY <1>5, <1>7, <1>9, <1>10, <1>12, OneParcel
<1>15. Abstract!Deliver(r)
  BY <1>11, <1>13, <1>14 DEF Abstract!Deliver, Opened
<1> QED BY <1>15 DEF Simulated, Abstract!DeliveryNext

\* A message that is handed on stays in transit.
LEMMA IsForwarded ==
    ASSUME NEW m \in wire, Forward(m)
    PROVE  Simulated
<1>1. PICK x : x = [id |-> m.id, from |-> m.to, to |-> RouteData(m).next,
                    blinding |-> NextBlinding(m), onion |-> Tail(m.onion)]
  OBVIOUS
<1>2. /\ wire' = (wire \ {m}) \cup {x} /\ x.id = m.id
      /\ send' = send /\ inbox' = inbox /\ drops' = drops
  BY <1>1 DEF Forward
<1>3. ASSUME NEW s \in Requests
      PROVE  ParcelOf(s)' = ParcelOf(s)
  <2>1. InTransit(s)' <=> InTransit(s)
    BY <1>2 DEF InTransit
  <2>2. Lost(s)' = Lost(s) /\ Here(s)' = Here(s)
    BY <1>2 DEF Lost, Here
  <2> QED BY <1>2, <2>1, <2>2, SamePlace
<1> QED BY <1>3, NoParcel DEF Simulated

\* Messages that are dropped, or that break off with their connection, are lost.
LEMMA AreLost ==
    ASSUME LooksRight, LooksRight', NEW lost \in SUBSET wire,
           \A m \in wire : m.id \in Requests,
           \A m1, m2 \in wire : m1.id = m2.id => m1 = m2,
           wire' = wire \ lost, UNCHANGED <<send, inbox>>,
           \A c : Lost(c)' <=> (Lost(c) \/ \E m \in lost : m.id = c)
    PROVE  Simulated
<1>1. PICK L \in SUBSET Requests : L = {m.id : m \in lost}
  OBVIOUS
<1>2. ASSUME NEW c \in Requests, c \in L
      PROVE  /\ ParcelOf(c).st = "transit"
             /\ ParcelOf(c)' = Relocated(ParcelOf(c), "lost")
  <2>1. InTransit(c) /\ Lost(c)'
    BY <1>1, <1>2 DEF InTransit
  <2>2. ParcelOf(c) = Made(c, "transit") /\ ParcelOf(c)' = Made(c, "lost")'
    BY <2>1 DEF LooksRight
  <2>3. Made(c, "lost")' = Made(c, "lost")
    BY DEF Made, Recipient, Form
  <2>4. Made(c, "lost") = Relocated(Made(c, "transit"), "lost")
    BY MadeChanges
  <2>5. Made(c, "transit").st = "transit"
    BY DEF Made, Form
  <2> QED BY <2>2, <2>3, <2>4, <2>5
<1>3. ASSUME NEW c \in Requests, c \notin L
      PROVE  ParcelOf(c)' = ParcelOf(c)
  <2>1. InTransit(c)' <=> InTransit(c)
    BY <1>1, <1>3 DEF InTransit
  <2>2. Lost(c)' <=> Lost(c)
    BY <1>1, <1>3
  <2>3. Here(c)' = Here(c)
    BY DEF Here
  <2> QED BY <2>1, <2>2, <2>3, SamePlace
<1>4. Abstract!Lose(L)
  BY <1>1, <1>2, <1>3 DEF Abstract!Lose, Relocated
<1> QED BY <1>4 DEF Simulated, Abstract!DeliveryNext

-----------------------------------------------------------------------------
\* Every step of the network is one of Delivery's, or none.
LEMMA EveryStep ==
    IndInv /\ IndInv' /\ LooksRight /\ LooksRight' /\ [Next]_vars => Simulated
<1> SUFFICES ASSUME IndInv, IndInv', LooksRight, LooksRight', [Next]_vars
             PROVE  Simulated
  OBVIOUS
<1>a. ASSUME NEW r \in Requests, send[r].pc \in Active, Fail(r)
      PROVE  Simulated
  <2>1. Moved(r, "failed", send[r].req, send[r].path, send[r].attempt)
    BY <1>a, CallForms DEF IndInv, Fail
  <2>2. "failed" \in Finished \ {"sent"} /\ UNCHANGED <<wire, inbox, drops>>
    BY <1>a DEF Finished, Fail
  <2> QED BY <1>a, <2>1, <2>2, IsRefused
<1>b. ASSUME NEW r \in Requests, NEW pc \in Active, send[r].pc \in Active,
             Goto(r, pc), UNCHANGED <<wire, inbox, drops>>
      PROVE  Simulated
  <2>1. Moved(r, pc, send[r].req, send[r].path, send[r].attempt)
    BY <1>b, CallForms DEF IndInv
  <2> QED BY <1>b, <2>1, GoesOn
<1>c. ASSUME NEW r \in Requests, NEW path, send[r].pc \in Active,
             send' = [send EXCEPT ![r].pc = "dispatch", ![r].path = path],
             UNCHANGED <<wire, inbox, drops>>
      PROVE  Simulated
  <2>1. Moved(r, "dispatch", send[r].req, path, send[r].attempt)
    BY <1>c, CallForms DEF IndInv
  <2>2. "dispatch" \in Active
    BY DEF Active
  <2> QED BY <1>c, <2>1, <2>2, GoesOn
<1>1. ASSUME NEW r \in Requests, NEW q \in Kinds(r), SendOnionMessage(r, q)
      PROVE  Simulated
  <2>1. q.final \in Bodies
    BY <1>1 DEF Bodies
  <2> QED BY <1>1, <2>1, IsMade
<1>2. ASSUME NEW r \in Requests, NEW m \in inbox, NEW d \in BOOLEAN,
             Reply(r, m, d)
      PROVE  Simulated
  <2>1. PICK q : q = [NoRequest EXCEPT !.from = m.at, !.dest = m.reply,
                      !.final = ReplyPayloads, !.direct = d]
    OBVIOUS
  <2>2. q.final \in Bodies
    BY <2>1 DEF NoRequest, Bodies
  <2>3. SendOnionMessage(r, q)
    BY <1>2, <2>1 DEF Reply
  <2> QED BY <1>2, <2>2, <2>3, IsMade
<1>3. ASSUME NEW r \in Requests, QueryRoutes(r)
      PROVE  Simulated
  <2>1. send[r].pc \in Active
    BY <1>3 DEF QueryRoutes, Active
  <2> QED BY <1>3, <1>a, <1>c, <2>1 DEF QueryRoutes
<1>4. ASSUME NEW r \in Requests, FindPeer(r) \/ PollPeer(r)
      PROVE  Simulated
  <2>1. send[r].pc \in Active /\ "lookup" \in Active /\ "backoff" \in Active
    BY <1>4 DEF FindPeer, PollPeer, Active
  <2>2. Peered(r) \/ NotPeered(r, "lookup") \/ NotPeered(r, "backoff") \/ Fail(r)
    BY <1>4 DEF FindPeer, PollPeer
  <2>3. CASE Peered(r)
    BY <1>4, <1>c, <2>1, <2>3 DEF Peered
  <2>4. CASE NotPeered(r, "lookup") \/ NotPeered(r, "backoff")
    BY <1>4, <1>b, <2>1, <2>4 DEF NotPeered
  <2> QED BY <1>4, <1>a, <2>1, <2>2, <2>3, <2>4
<1>5. ASSUME NEW r \in Requests, LookupNode(r) \/ ConnectPeer(r)
      PROVE  Simulated
  <2>1. send[r].pc \in Active /\ "connect" \in Active /\ "poll" \in Active
    BY <1>5 DEF LookupNode, ConnectPeer, Active
  <2> QED BY <1>5, <1>a, <1>b, <2>1 DEF LookupNode, ConnectPeer
<1>6. ASSUME NEW r \in Requests, Backoff(r)
      PROVE  Simulated
  <2>1. send[r].pc \in Active /\ "poll" \in Active
    BY <1>6 DEF Backoff, Active
  <2>2. CASE /\ send' = [send EXCEPT ![r].pc = "poll", ![r].attempt = @ + 1]
             /\ UNCHANGED <<links, dialing, wire, inbox, drops>>
    <3>1. Moved(r, "poll", send[r].req, send[r].path, send[r].attempt + 1)
      BY <1>6, <2>2, CallForms DEF IndInv
    <3> QED BY <1>6, <2>1, <2>2, <3>1, GoesOn
  <2> QED BY <1>6, <1>a, <2>1, <2>2 DEF Backoff
<1>7. ASSUME NEW r \in Requests, Dispatch(r)
      PROVE  Simulated
  <2>1. send[r].pc \in Active
    BY <1>7 DEF Dispatch, Active
  <2>2. \/ \E x : x.id = r /\ Goto(r, "sent") /\ wire' = wire \cup {x}
                    /\ UNCHANGED <<inbox, drops>>
        \/ Goto(r, "panicked") /\ UNCHANGED <<wire, inbox, drops>>
        \/ Fail(r)
    <3>1. PICK msg : msg = CreateBlindedRoute(r, send[r].path, send[r].req.dest,
                               send[r].req.reply, send[r].req.final)
      OBVIOUS
    <3>2. PICK x : x = [id |-> r, from |-> Us(r), to |-> msg.first,
                        blinding |-> msg.blinding, onion |-> msg.onion]
      OBVIOUS
    <3>3. x.id = r
      BY <3>2
    <3> QED BY <1>7, <3>1, <3>2, <3>3 DEF Dispatch
  <2>3. CASE Goto(r, "panicked") /\ UNCHANGED <<wire, inbox, drops>>
    <3>1. Moved(r, "panicked", send[r].req, send[r].path, send[r].attempt)
      BY <1>7, <2>3, CallForms DEF IndInv
    <3>2. "panicked" \in Finished \ {"sent"}
      BY DEF Finished
    <3> QED BY <1>7, <2>1, <2>3, <3>1, <3>2, IsRefused
  <2> QED BY <1>7, <1>a, <2>1, <2>2, <2>3, IsPosted
<1>8. ASSUME NEW m \in wire, NEW why, Drop(m, why)
      PROVE  Simulated
  <2>1. \A c : Lost(c)' <=> (Lost(c) \/ \E x \in {m} : x.id = c)
    <3>1. PICK d : d = [id |-> m.id, at |-> m.to, why |-> why]
      OBVIOUS
    <3>2. drops' = drops \cup {d} /\ d.id = m.id
      BY <1>8, <3>1 DEF Drop
    <3> QED BY <3>2, Zenon DEF Lost
  <2>2. /\ \A x \in wire : x.id \in Requests
        /\ \A m1, m2 \in wire : m1.id = m2.id => m1 = m2
    BY DEF IndInv, TypeOK, OnePlace
  <2>3. {m} \in SUBSET wire /\ wire' = wire \ {m} /\ UNCHANGED <<send, inbox>>
    BY <1>8 DEF Drop
  <2> QED BY <2>1, <2>2, <2>3, AreLost
<1>9. ASSUME NEW m \in wire, HandleOnionMessage(m)
      PROVE  Simulated
  BY <1>8, <1>9, IsDelivered, IsForwarded
  DEF HandleOnionMessage, Reject, LndFails
<1>10. ASSUME NEW e, LinkUp(e)
       PROVE  Simulated
  <2>1. send' = send /\ wire' = wire /\ inbox' = inbox /\ drops' = drops
    BY <1>10 DEF LinkUp
  <2>2. ASSUME NEW s \in Requests
        PROVE  ParcelOf(s)' = ParcelOf(s)
    BY <2>1, SamePlace DEF InTransit, Lost, Here
  <2> QED BY <2>2, NoParcel DEF Simulated
<1>11. ASSUME NEW e, LinkDown(e)
       PROVE  Simulated
  <2>1. PICK lost \in SUBSET wire : lost = {m \in wire : {m.from, m.to} = e}
    OBVIOUS
  <2>2. /\ wire' = wire \ lost /\ UNCHANGED <<send, inbox>>
        /\ drops' = drops \cup
              {[id |-> m.id, at |-> m.to, why |-> "lost"] : m \in lost}
    BY <1>11, <2>1 DEF LinkDown
  <2>3. \A c : Lost(c)' <=> (Lost(c) \/ \E m \in lost : m.id = c)
    <3> DEFINE Note(m) == [id |-> m.id, at |-> m.to, why |-> "lost"]
    <3>1. drops' = drops \cup {Note(m) : m \in lost}
      BY <2>2
    <3>2. \A m \in lost : Note(m).id = m.id
      OBVIOUS
    <3> HIDE DEF Note
    <3>3. ASSUME NEW c, Lost(c)'
          PROVE  Lost(c) \/ \E m \in lost : m.id = c
      BY <3>1, <3>2, <3>3 DEF Lost
    <3>4. ASSUME NEW c, Lost(c) \/ \E m \in lost : m.id = c
          PROVE  Lost(c)'
      BY <3>1, <3>2, <3>4 DEF Lost
    <3> QED BY <3>3, <3>4, Zenon
  <2>4. /\ \A x \in wire : x.id \in Requests
        /\ \A m1, m2 \in wire : m1.id = m2.id => m1 = m2
    BY DEF IndInv, TypeOK, OnePlace
  <2> QED BY <2>2, <2>3, <2>4, AreLost
<1>12. CASE UNCHANGED vars
  <2>1. send' = send /\ wire' = wire /\ inbox' = inbox /\ drops' = drops
    BY <1>12 DEF vars
  <2>2. ASSUME NEW s \in Requests
        PROVE  ParcelOf(s)' = ParcelOf(s)
    BY <2>1, SamePlace DEF InTransit, Lost, Here
  <2> QED BY <2>2, NoParcel DEF Simulated
<1> QED
  BY <1>1, <1>2, <1>3, <1>4, <1>5, <1>6, <1>7, <1>9, <1>10, <1>11, <1>12
  DEF Next, SendStep

\* Routes, hops and connections implement Delivery (ImplementsDelivery): a
\* message is delivered once, to the node it is for and with what was sent, or
\* it is lost, and a call that failed has sent none.
THEOREM NetworkImplementsDelivery == Spec => ImplementsDelivery
<1>1. Init => Abstract!DeliveryInit
  <2> SUFFICES ASSUME Init PROVE Abstract!DeliveryInit
    OBVIOUS
  <2>1. LooksRight
    BY Initial, Looks
  <2>2. \A r \in Requests : send[r].pc = "idle"
    BY DEF Init
  <2>3. \A r \in Requests : ParcelOf(r) = Empty("idle")
    BY <2>1, <2>2 DEF LooksRight
  <2> QED BY <2>3 DEF Abstract!DeliveryInit, Abstract!Blank, Abstract!Parcel,
             Empty, Form
<1>2. Simulated => [Abstract!DeliveryNext]_Parcels
  BY DEF Simulated
<1> QED
  BY <1>1, <1>2, EveryStep, Looks, Invariance, PTL
  DEF Spec, ImplementsDelivery, Abstract!DeliverySpec, Parcels
=============================================================================
