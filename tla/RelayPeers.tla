----------------------------- MODULE RelayPeers ------------------------------
(***************************************************************************)
(* GenerateBlindedRoute and ReplyPath (routes/blinded.go): the choice of   *)
(* the introduction node of a path to ourselves. One call goes through our *)
(* active channels and looks the peer of each up in lnd's graph. The graph *)
(* is live: two lookups of one peer may differ, so every lookup returns    *)
(* any answer.                                                             *)
(***************************************************************************)
EXTENDS Naturals, Sequences, FiniteSets

CONSTANTS
    Peers,         \* nodes we may have channels with
    FeatureBits,   \* feature bits that clients ask for and nodes announce
    MaxChannels,   \* bound: our channels
    MaxDegree      \* bound: the public channels of a peer

Errors == {"notReady", "overflow", "listChannels", "noChannels", "getNode",
           "noRelayingPeers", "path"}

ASSUME RelayAssumption ==
    /\ FeatureBits \subseteq Nat
    /\ MaxChannels \in Nat
    /\ MaxDegree \in Nat
    /\ Peers \cap (Errors \cup {"none"}) = {}

MaxUint16 == 65535

NodeInfos == [peer : Peers, degree : 0..MaxDegree, announced : BOOLEAN,
              features : SUBSET FeatureBits]

OpenChannels == [peer : Peers, active : BOOLEAN]

VARIABLES
    pc,         \* where the call is
    features,   \* the features the client asked for
    open,       \* our open channels when they were listed
    channels,   \* the peers of the active ones, one per channel
    found,      \* activePeers
    looked,     \* history: what each lookup returned
    result      \* the introduction node, or an error

vars == <<pc, features, open, channels, found, looked, result>>

Answers == {[kind |-> "info", info |-> i] : i \in NodeInfos}
               \cup {[kind |-> "notFound"], [kind |-> "error"]}

TypeOK ==
    /\ pc \in {"idle", "list", "lookup", "build", "done"}
    /\ features \subseteq FeatureBits
    /\ pc \in {"list", "lookup", "build"} => features \subseteq 0..MaxUint16
    /\ open \in Seq(OpenChannels) /\ Len(open) <= MaxChannels
    /\ channels \in Seq(Peers) /\ Len(channels) <= Len(open)
    /\ found \in Seq(NodeInfos)
    /\ looked \in Seq(Answers) /\ Len(looked) <= Len(channels)
    /\ result \in Peers \cup Errors \cup {"none"}

Init ==
    /\ pc = "idle"
    /\ features = {}
    /\ open = <<>>
    /\ channels = <<>>
    /\ found = <<>>
    /\ looked = <<>>
    /\ result = "none"

Return(r) == pc' = "done" /\ result' = r

\* Fault: features are not checked before they are narrowed.
GenerateBlindedRoute_NoCheck(fs) ==
    /\ pc = "idle"
    /\ features' = fs
    /\ pc' = "list"
    /\ UNCHANGED <<open, channels, found, looked, result>>

\* The caller's context ends before the server is ready (waitForReady), or the
\* request is parsed: a feature must fit into 16 bits.
GenerateBlindedRoute(fs) ==
    /\ pc = "idle"
    /\ features' = fs
    /\ \/ /\ \A f \in fs : f <= MaxUint16
          /\ pc' = "list"
          /\ UNCHANGED result
       \/ /\ \E f \in fs : f > MaxUint16
          /\ Return("overflow")
       \/ Return("notReady")
    /\ UNCHANGED <<open, channels, found, looked>>

\* The positions ix of the active ones, public or not, of our open channels cs.
ActiveOnes(ix, cs) ==
    /\ {ix[k] : k \in DOMAIN ix} = {i \in DOMAIN cs : cs[i].active}
    /\ \A j, k \in DOMAIN ix : j < k => ix[j] < ix[k]

\* ListChannels of the active channels fails, or there are none, or some.
ListChannels(cs) ==
    /\ pc = "list"
    /\ open' = cs
    /\ \/ /\ Return("listChannels")
          /\ UNCHANGED channels
       \/ /\ \E n \in 0..Len(cs) : \E ix \in [1..n -> DOMAIN cs] :
                /\ ActiveOnes(ix, cs)
                /\ channels' = [k \in 1..n |-> cs[ix[k]].peer]
          /\ IF channels' = <<>> THEN Return("noChannels")
             ELSE pc' = "lookup" /\ UNCHANGED result
    /\ UNCHANGED <<features, found, looked>>

IsRequired(f) == f % 2 = 0

\* The closure of createRelayCheck.
CanRelay(info) ==
    /\ info.degree # 0
    /\ info.announced
    /\ \A f \in features : IsRequired(f) => f \in info.features

\* Fault: a peer that is not in the graph fails the call.
LookupPeer_NotFoundFails(a) ==
    /\ pc = "lookup"
    /\ a.kind = "info" => a.info.peer = channels[Len(looked) + 1]
    /\ looked' = Append(looked, a)
    /\ IF a.kind # "info" THEN Return("getNode") /\ UNCHANGED found
       ELSE /\ found' = IF CanRelay(a.info) THEN Append(found, a.info)
                        ELSE found
            /\ pc' = IF Len(looked') = Len(channels) THEN "build" ELSE "lookup"
            /\ UNCHANGED result
    /\ UNCHANGED <<features, open, channels>>

\* One iteration of getRelayingPeers: the peer of the next channel is looked
\* up; one that is not found or cannot relay is skipped, an error is returned.
LookupPeer(a) ==
    /\ pc = "lookup"
    /\ a.kind = "info" => a.info.peer = channels[Len(looked) + 1]
    /\ looked' = Append(looked, a)
    /\ IF a.kind = "error" THEN Return("getNode") /\ UNCHANGED found
       ELSE /\ found' = IF a.kind = "info" /\ CanRelay(a.info)
                        THEN Append(found, a.info) ELSE found
            /\ pc' = IF Len(looked') = Len(channels) THEN "build" ELSE "lookup"
            /\ UNCHANGED result
    /\ UNCHANGED <<features, open, channels>>

\* Fault: the comparison is the wrong way round.
MostPeers_Fewest(s) ==
    s[CHOOSE i \in DOMAIN s :
          /\ \A j \in DOMAIN s : s[i].degree <= s[j].degree
          /\ \A j \in 1..(i - 1) : s[j].degree > s[i].degree]

\* The loop of buildBlindedRoute: the first peer with the most channels.
MostPeers(s) ==
    s[CHOOSE i \in DOMAIN s :
          /\ \A j \in DOMAIN s : s[i].degree >= s[j].degree
          /\ \A j \in 1..(i - 1) : s[j].degree < s[i].degree]

\* buildBlindedRoute and the rest of ReplyPath: with an introduction node the
\* path is made, unless parsing its key, encoding its payload, making a session
\* key or blinding the path fails.
BuildBlindedRoute ==
    /\ pc = "build"
    /\ \/ found = <<>> /\ Return("noRelayingPeers")
       \/ found # <<>> /\ Return(MostPeers(found).peer)
       \/ found # <<>> /\ Return("path")
    /\ UNCHANGED <<features, open, channels, found, looked>>

Next ==
    \/ \E fs \in SUBSET FeatureBits : GenerateBlindedRoute(fs)
    \/ \E n \in 0..MaxChannels : \E cs \in [1..n -> OpenChannels] :
          ListChannels(cs)
    \/ \E a \in Answers : LookupPeer(a)
    \/ BuildBlindedRoute

Spec == Init /\ [][Next]_vars

-----------------------------------------------------------------------------
(***************************************************************************)
(* Properties.                                                             *)
(***************************************************************************)

\* The lookups whose answer shows a peer that can relay, by the doc of
\* getRelayingPeers: it has public channels, an announcement, and every
\* required feature.
Eligible ==
    {i \in DOMAIN looked :
        /\ looked[i].kind = "info"
        /\ looked[i].info.degree > 0
        /\ looked[i].info.announced
        /\ {f \in features : f % 2 = 0} \subseteq looked[i].info.features}

\* A path is returned through the peer of one of our active channels that could
\* relay when it was looked up, and no eligible peer had more channels.
IntroIsBest ==
    pc = "done" /\ result \in Peers =>
        \E i \in Eligible :
            /\ channels[i] = result
            /\ \A j \in Eligible :
                  looked[j].info.degree <= looked[i].info.degree

\* An introduction node is found whenever a peer could have relayed and lnd
\* answered every lookup: peers the graph does not know are skipped, never fatal,
\* and no other peer's answer hides one that could relay.
FailureExplained ==
    pc = "done" =>
        /\ result = "noRelayingPeers" => Eligible = {}
        /\ result = "getNode" =>
              \E i \in DOMAIN looked : looked[i].kind = "error"
        /\ result = "path" => Eligible # {}
=============================================================================
