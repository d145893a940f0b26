------------------------------ MODULE PayloadBus -----------------------------
(***************************************************************************)
(* What the rpc server promises its subscribers, without streams, event    *)
(* loop or calls between them: a type of payload has at most one owner,    *)
(* who is given the payloads of the messages that arrive while it owns the *)
(* type, each once, in the order in which they arrived. What is waiting    *)
(* for a subscriber may be lost from the front when its stream breaks.     *)
(***************************************************************************)
EXTENDS Naturals, Sequences

CONSTANTS
    Subscribers,
    PayloadTypes,
    Nobody,         \* not a subscriber
    Capacity        \* the payloads that may wait for one subscriber

VARIABLES
    owner,      \* the owner of each type of payload
    waiting,    \* the payloads that wait for each subscriber
    taken,      \* the payloads that each subscriber has received
    clock       \* the number of messages so far, and the last one's number

busVars == <<owner, waiting, taken, clock>>

BusInit ==
    /\ owner = [t \in PayloadTypes |-> Nobody]
    /\ waiting = [s \in Subscribers |-> <<>>]
    /\ taken = [s \in Subscribers |-> <<>>]
    /\ clock = 0

Owns(s) == \E t \in PayloadTypes : owner[t] = s

\* A subscriber has one type in its life.
Open(s, t) ==
    /\ owner[t] = Nobody
    /\ ~Owns(s)
    /\ waiting[s] = <<>> /\ taken[s] = <<>>
    /\ owner' = [owner EXCEPT ![t] = s]
    /\ UNCHANGED <<waiting, taken, clock>>

Close(t) ==
    /\ owner[t] # Nobody
    /\ owner' = [owner EXCEPT ![t] = Nobody]
    /\ UNCHANGED <<waiting, taken, clock>>

Arrive ==
    /\ clock' = clock + 1
    /\ UNCHANGED <<owner, waiting, taken>>

Put(s) ==
    /\ Owns(s)
    /\ Len(waiting[s]) < Capacity
    /\ \A i \in DOMAIN (taken[s] \o waiting[s]) :
          (taken[s] \o waiting[s])[i] < clock
    /\ waiting' = [waiting EXCEPT ![s] = Append(@, clock)]
    /\ UNCHANGED <<owner, taken, clock>>

Take(s) ==
    /\ waiting[s] # <<>>
    /\ taken' = [taken EXCEPT ![s] = Append(@, Head(waiting[s]))]
    /\ waiting' = [waiting EXCEPT ![s] = Tail(@)]
    /\ UNCHANGED <<owner, clock>>

Lose(s) ==
    /\ waiting[s] # <<>>
    /\ waiting' = [waiting EXCEPT ![s] = Tail(@)]
    /\ UNCHANGED <<owner, taken, clock>>

BusNext ==
    \/ Arrive
    \/ \E t \in PayloadTypes : Close(t) \/ \E s \in Subscribers : Open(s, t)
    \/ \E s \in Subscribers : Put(s) \/ Take(s) \/ Lose(s)

BusSpec == BusInit /\ [][BusNext]_busVars
=============================================================================
