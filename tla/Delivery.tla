------------------------------- MODULE Delivery ------------------------------
(***************************************************************************)
(* What SendOnionMessage promises, without routes, hops or onions: a call  *)
(* that is not refused puts one message on its way, which is delivered     *)
(* once, to the node it is for, with nothing in it that was not sent, or   *)
(* is lost.                                                                *)
(***************************************************************************)
CONSTANTS
    Calls,      \* the calls of SendOnionMessage
    Places,     \* the nodes
    Contents    \* the sets of payloads that are sent

VARIABLE parcel   \* for each call where its message is, the node it is for,
                  \* its payloads and, once delivered, where and what was read

Parcel(st, to, body) ==
    [st |-> st, to |-> to, body |-> body, at |-> {}, read |-> {}]
Blank(st) == Parcel(st, {}, {})

DeliveryInit == parcel = [c \in Calls |-> Blank("idle")]

Becomes(c, p) == parcel' = [parcel EXCEPT ![c] = p]

Refuse(c) ==
    /\ parcel[c].st \in {"idle", "calling"}
    /\ Becomes(c, Blank("refused"))

Make(c) ==
    /\ parcel[c].st = "idle"
    /\ \E n \in Places, body \in Contents :
          Becomes(c, Parcel("calling", {n}, body))

Post(c) ==
    /\ parcel[c].st = "calling"
    /\ Becomes(c, [parcel[c] EXCEPT !.st = "transit"])

Deliver(c) ==
    /\ parcel[c].st = "transit"
    /\ \E read \in SUBSET parcel[c].body :
          Becomes(c, [parcel[c] EXCEPT !.st = "delivered", !.at = parcel[c].to,
                                       !.read = read])

\* One message is lost, or all that are on a link that breaks.
Lose(lost) ==
    /\ \A c \in lost : parcel[c].st = "transit"
    /\ parcel' = [c \in Calls |->
                     IF c \in lost THEN [parcel[c] EXCEPT !.st = "lost"]
                     ELSE parcel[c]]

DeliveryNext ==
    \/ \E c \in Calls : Refuse(c) \/ Make(c) \/ Post(c) \/ Deliver(c)
    \/ \E lost \in SUBSET Calls : Lose(lost)

DeliverySpec == DeliveryInit /\ [][DeliveryNext]_parcel
=============================================================================
