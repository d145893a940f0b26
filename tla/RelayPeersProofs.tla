-------------------------- MODULE RelayPeersProofs ---------------------------
(***************************************************************************)
(* Proofs about RelayPeers: whatever our channels are and whatever lnd's   *)
(* graph says of their peers, the introduction node is the best of the     *)
(* peers that can relay, and a call that fails has a reason.               *)
(***************************************************************************)
EXTENDS RelayPeers, TLAPS, WellFoundedInduction

\* What the call's position says of its locals.
CallLocals ==
    /\ pc # "done" => result = "none"
    /\ pc \in {"idle", "list"} =>
          open = <<>> /\ channels = <<>> /\ found = <<>> /\ looked = <<>>
    /\ pc = "lookup" => Len(looked) < Len(channels)

\* The answer to a lookup is about the peer of its channel.
AnswersMatch ==
    \A i \in DOMAIN looked :
        looked[i].kind = "info" => looked[i].info.peer = channels[i]

\* getRelayingPeers has kept the peers that can relay, and only those.
FoundEligible ==
    /\ \A k \in DOMAIN found : \E i \in Eligible : looked[i].info = found[k]
    /\ \A i \in Eligible : \E k \in DOMAIN found : found[k] = looked[i].info

\* The inductive invariant.
IndInv ==
    TypeOK /\ CallLocals /\ AnswersMatch /\ FoundEligible /\ IntroIsBest
        /\ FailureExplained

-----------------------------------------------------------------------------
(***************************************************************************)
(* The choice of buildBlindedRoute.                                        *)
(***************************************************************************)

\* Every set of naturals that is not empty has a least member.
LEMMA LeastNatural ==
    ASSUME NEW T, T \subseteq Nat, T # {}
    PROVE  \E x \in T : \A y \in T : x <= y
<1>1. PICK x \in T : \A y \in T : <<y, x>> \notin OpToRel(<, Nat)
  BY NatLessThanWellFounded, WFMin
<1>2. \A y \in T : ~(y < x)
  BY <1>1 DEF OpToRel
<1> QED BY <1>2

\* What the loop of buildBlindedRoute looks for.
Foremost(s, i) ==
    /\ \A j \in DOMAIN s : s[i].degree >= s[j].degree
    /\ \A j \in 1..(i - 1) : s[j].degree < s[i].degree

\* The loop finds a peer in every list that is not empty, and no peer of the
\* list has more channels.
LEMMA MostPeersIsMost ==
    ASSUME NEW s \in Seq(NodeInfos), s # <<>>
    PROVE  \E i \in DOMAIN s :
              /\ MostPeers(s) = s[i]
              /\ \A j \in DOMAIN s : s[j].degree <= s[i].degree
<1>1. /\ 1 \in DOMAIN s /\ DOMAIN s \subseteq Nat
      /\ \A i \in DOMAIN s : s[i].degree \in 0..MaxDegree
      /\ \A i \in DOMAIN s : 1..(i - 1) \subseteq DOMAIN s
  <2>1. DOMAIN s = 1..Len(s) /\ Len(s) \in Nat /\ Len(s) # 0
    OBVIOUS
  <2>2. ASSUME NEW i \in DOMAIN s PROVE s[i].degree \in 0..MaxDegree
    <3>1. s[i] \in NodeInfos
      BY <2>2
    <3> QED BY <3>1 DEF NodeInfos
  <2>3. /\ 1 \in DOMAIN s /\ DOMAIN s \subseteq Nat
        /\ \A i \in DOMAIN s : 1..(i - 1) \subseteq DOMAIN s
    BY <2>1
  <2> QED BY <2>2, <2>3
<1>a. \A d \in 0..MaxDegree : MaxDegree - d \in Nat
  BY RelayAssumption
<1>b. \A d, e \in 0..MaxDegree : MaxDegree - d <= MaxDegree - e => d >= e
  BY RelayAssumption
<1> DEFINE Gaps == {MaxDegree - s[i].degree : i \in DOMAIN s}
<1>2. Gaps \subseteq Nat /\ Gaps # {}
  BY <1>1, <1>a, Zenon
<1>3. PICK g \in Gaps : \A h \in Gaps : g <= h
  <2> HIDE DEF Gaps
  <2> QED BY <1>2, LeastNatural
<1> DEFINE Firsts == {i \in DOMAIN s : MaxDegree - s[i].degree = g}
<1>4. Firsts \subseteq Nat /\ Firsts # {}
  BY <1>1, <1>3
<1>5. PICK i \in Firsts : \A j \in Firsts : i <= j
  <2> HIDE DEF Firsts
  <2> QED BY <1>4, LeastNatural
<1>6. \A j \in DOMAIN s : s[i].degree >= s[j].degree
  <2> SUFFICES ASSUME NEW j \in DOMAIN s PROVE s[i].degree >= s[j].degree
    OBVIOUS
  <2>1. i \in DOMAIN s /\ MaxDegree - s[i].degree = g
    BY <1>5
  <2>2. g <= MaxDegree - s[j].degree
    BY <1>3
  <2> HIDE DEF Gaps, Firsts
  <2>3. MaxDegree - s[i].degree <= MaxDegree - s[j].degree
    BY <2>1, <2>2
  <2> QED BY <1>1, <1>b, <2>1, <2>3, Zenon
<1>7. ASSUME NEW j \in 1..(i - 1) PROVE s[j].degree < s[i].degree
  <2>1. j \in DOMAIN s /\ j < i /\ j \in Nat /\ i \in Nat
    BY <1>1, <1>5, <1>7
  <2>2. j \notin Firsts
    BY <1>5, <2>1
  <2>3. s[j].degree # s[i].degree
    BY <1>5, <2>1, <2>2
  <2> QED BY <1>1, <1>5, <1>6, <2>1, <2>3
<1>8. i \in DOMAIN s /\ Foremost(s, i)
  BY <1>5, <1>6, <1>7 DEF Foremost
<1> DEFINE c == CHOOSE k \in DOMAIN s : Foremost(s, k)
<1>9. c \in DOMAIN s /\ Foremost(s, c)
  BY <1>8
<1>10. MostPeers(s) = s[c]
  BY DEF MostPeers, Foremost
<1>11. \A j \in DOMAIN s : s[j].degree <= s[c].degree
  <2> HIDE DEF c
  <2> QED BY <1>1, <1>9 DEF Foremost
<1> QED BY <1>9, <1>10, <1>11

-----------------------------------------------------------------------------
(***************************************************************************)
(* The invariant.                                                          *)
(***************************************************************************)

\* A call that has not begun has looked nothing up.
LEMMA Initial == Init => IndInv
<1> SUFFICES ASSUME Init PROVE IndInv
  OBVIOUS
<1>1. TypeOK
  BY RelayAssumption DEF Init, TypeOK
<1>2. CallLocals /\ AnswersMatch /\ FoundEligible
  BY DEF Init, CallLocals, AnswersMatch, FoundEligible, Eligible
<1>3. IntroIsBest /\ FailureExplained
  BY DEF Init, IntroIsBest, FailureExplained
<1> QED BY <1>1, <1>2, <1>3 DEF IndInv

\* Listing the channels gives the peers of the active ones.
LEMMA Listed ==
    ASSUME IndInv, NEW n \in 0..MaxChannels, NEW cs \in [1..n -> OpenChannels],
           ListChannels(cs)
    PROVE  IndInv'
<1>1. /\ cs \in Seq(OpenChannels) /\ Len(cs) = n /\ Len(cs) <= MaxChannels
      /\ Len(cs) \in Nat /\ DOMAIN cs = 1..n
  BY RelayAssumption
<1>2. /\ pc = "list" /\ result = "none" /\ channels = <<>> /\ looked = <<>>
      /\ found = <<>> /\ open' = cs /\ looked' = <<>> /\ found' = <<>>
      /\ features' = features /\ features \subseteq FeatureBits
      /\ features \subseteq 0..MaxUint16
  BY DEF ListChannels, IndInv, CallLocals, TypeOK
<1>3. CASE Return("listChannels") /\ UNCHANGED channels
  <2>1. TypeOK'
    BY <1>1, <1>2, <1>3 DEF TypeOK, Return, Errors
  <2>2. IntroIsBest' /\ FailureExplained'
    BY <1>2, <1>3, RelayAssumption
    DEF Return, IntroIsBest, FailureExplained, Errors
  <2>3. CallLocals' /\ AnswersMatch' /\ FoundEligible'
    BY <1>2, <1>3 DEF Return, CallLocals, AnswersMatch, FoundEligible, Eligible
  <2> QED BY <2>1, <2>2, <2>3 DEF IndInv
<1>4. CASE /\ \E k \in 0..Len(cs) : \E ix \in [1..k -> DOMAIN cs] :
                 /\ ActiveOnes(ix, cs)
                 /\ channels' = [j \in 1..k |-> cs[ix[j]].peer]
           /\ IF channels' = <<>> THEN Return("noChannels")
              ELSE pc' = "lookup" /\ UNCHANGED result
  <2>1. PICK k \in 0..Len(cs) : \E ix \in [1..k -> DOMAIN cs] :
           /\ ActiveOnes(ix, cs)
           /\ channels' = [j \in 1..k |-> cs[ix[j]].peer]
    BY <1>4
  <2>2. PICK ix \in [1..k -> DOMAIN cs] :
           /\ ActiveOnes(ix, cs)
           /\ channels' = [j \in 1..k |-> cs[ix[j]].peer]
    BY <2>1
  <2>3. k \in Nat /\ k <= n
    BY <1>1, <2>1
  <2>4. \A j \in 1..k : cs[ix[j]].peer \in Peers
    BY <1>1, <2>2 DEF OpenChannels
  <2>5. /\ channels' \in [1..k -> Peers] /\ channels' \in Seq(Peers)
        /\ Len(channels') = k
    BY <2>2, <2>3, <2>4
  <2>6. CASE channels' = <<>>
    <3>1. k = 0 /\ pc' = "done" /\ result' = "noChannels"
      BY <1>4, <2>5, <2>6 DEF Return
    <3>2. DOMAIN ix = {}
      BY <2>2, <3>1
    <3>3. \A i \in DOMAIN cs : ~cs[i].active
      BY <2>2, <3>2 DEF ActiveOnes
    <3>4. TypeOK'
      BY <1>1, <1>2, <2>6, <3>1 DEF TypeOK, Errors
    <3>5. IntroIsBest' /\ FailureExplained'
      BY <1>2, <3>1, <3>3, RelayAssumption
      DEF IntroIsBest, FailureExplained, Errors
    <3>6. CallLocals' /\ AnswersMatch' /\ FoundEligible'
      BY <1>2, <3>1 DEF CallLocals, AnswersMatch, FoundEligible, Eligible
    <3> QED BY <3>4, <3>5, <3>6 DEF IndInv
  <2>7. CASE channels' # <<>>
    <3>1. k > 0 /\ pc' = "lookup" /\ result' = "none"
      BY <1>2, <1>4, <2>3, <2>5, <2>7
    <3>2. TypeOK'
      BY <1>1, <1>2, <2>3, <2>5, <3>1 DEF TypeOK
    <3>3. IntroIsBest' /\ FailureExplained'
      BY <3>1 DEF IntroIsBest, FailureExplained
    <3>4. CallLocals' /\ AnswersMatch' /\ FoundEligible'
      BY <1>2, <2>3, <2>5, <3>1
      DEF CallLocals, AnswersMatch, FoundEligible, Eligible
    <3> QED BY <3>2, <3>3, <3>4 DEF IndInv
  <2> QED BY <2>6, <2>7
<1> QED BY <1>3, <1>4 DEF ListChannels

\* A lookup adds its answer to the history, and its peer to the ones found if
\* and only if that peer is eligible.
LEMMA LookedUp ==
    ASSUME IndInv, NEW a \in Answers, LookupPeer(a)
    PROVE  IndInv'
<1>1. /\ pc = "lookup" /\ result = "none" /\ Len(looked) < Len(channels)
      /\ looked \in Seq(Answers) /\ channels \in Seq(Peers)
      /\ found \in Seq(NodeInfos) /\ features \subseteq FeatureBits
      /\ features \subseteq 0..MaxUint16
      /\ looked' = Append(looked, a)
      /\ UNCHANGED <<features, open, channels>>
      /\ a.kind = "info" => a.info.peer = channels[Len(looked) + 1]
  BY DEF LookupPeer, IndInv, CallLocals, TypeOK
<1>2. /\ looked' \in Seq(Answers) /\ Len(looked') = Len(looked) + 1
      /\ DOMAIN looked' = DOMAIN looked \cup {Len(looked) + 1}
      /\ Len(looked) + 1 \notin DOMAIN looked
      /\ looked'[Len(looked) + 1] = a
      /\ \A i \in DOMAIN looked : looked'[i] = looked[i]
      /\ Len(looked) \in Nat /\ Len(channels) \in Nat
  BY <1>1
<1>3. AnswersMatch'
  BY <1>1, <1>2 DEF IndInv, AnswersMatch
<1>4. a.kind = "info" => a.info \in NodeInfos
  BY DEF Answers
<1>5. CASE a.kind = "error"
  <2>1. pc' = "done" /\ result' = "getNode" /\ found' = found
    BY <1>5 DEF LookupPeer, Return
  <2>2. Eligible' = Eligible
    BY <1>1, <1>2, <1>5 DEF Eligible
  <2>3. \A i \in Eligible : i \in DOMAIN looked
    BY DEF Eligible
  <2>4. FoundEligible'
    <3>1. FoundEligible
      BY DEF IndInv
    <3>2. \A i \in Eligible : looked'[i] = looked[i]
      BY <1>2, <2>3
    <3> QED BY <2>1, <2>2, <3>1, <3>2 DEF FoundEligible
  <2>5. TypeOK'
    BY <1>1, <1>2, <2>1 DEF IndInv, TypeOK, Errors
  <2>6. CallLocals'
    BY <2>1 DEF CallLocals
  <2>7. IntroIsBest'
    BY <2>1, RelayAssumption DEF IntroIsBest, Errors
  <2>8. FailureExplained'
    BY <1>2, <1>5, <2>1 DEF FailureExplained
  <2> QED BY <1>3, <2>4, <2>5, <2>6, <2>7, <2>8 DEF IndInv
<1>6. CASE a.kind # "error"
  <2>1. /\ found' = IF a.kind = "info" /\ CanRelay(a.info)
                    THEN Append(found, a.info) ELSE found
        /\ pc' = IF Len(looked') = Len(channels) THEN "build" ELSE "lookup"
        /\ result' = "none"
    BY <1>1, <1>6 DEF LookupPeer
  <2>2. TypeOK'
    <3>1. found' \in Seq(NodeInfos)
      BY <1>1, <1>4, <2>1
    <3> QED BY <1>1, <1>2, <2>1, <3>1 DEF IndInv, TypeOK
  <2>3. CallLocals'
    BY <1>1, <1>2, <2>1 DEF CallLocals
  <2>4. IntroIsBest' /\ FailureExplained'
    BY <2>1 DEF IntroIsBest, FailureExplained
  <2>5. \A i \in Eligible : i \in DOMAIN looked
    BY DEF Eligible
  <2>6. ASSUME a.kind = "info" /\ CanRelay(a.info)
        PROVE  FoundEligible'
    <3>1. /\ a.info.degree \in 0..MaxDegree /\ a.info.degree # 0
          /\ a.info.announced
          /\ \A f \in features : f % 2 = 0 => f \in a.info.features
      BY <1>4, <2>6 DEF CanRelay, IsRequired, NodeInfos
    <3>2. a.info.degree > 0
      BY <3>1, RelayAssumption
    <3>3. Eligible' = Eligible \cup {Len(looked) + 1}
      <4>1. features' = features
        BY <1>1
      <4>2. {f \in features : f % 2 = 0} \subseteq a.info.features
        BY <3>1
      <4>3. Len(looked) + 1 \in Eligible'
        BY <1>2, <2>6, <3>1, <3>2, <4>1, <4>2 DEF Eligible
      <4>4. \A i \in DOMAIN looked : i \in Eligible' <=> i \in Eligible
        BY <1>2, <4>1 DEF Eligible
      <4>5. Eligible' \subseteq DOMAIN looked'
        BY DEF Eligible
      <4> QED BY <1>2, <2>5, <4>3, <4>4, <4>5
    <3>4. /\ DOMAIN found' = DOMAIN found \cup {Len(found) + 1}
          /\ found'[Len(found) + 1] = a.info
          /\ \A k \in DOMAIN found : found'[k] = found[k]
      <4>1. PICK r \in NodeInfos : r = a.info
        BY <1>4, <2>6
      <4>2. found \in Seq(NodeInfos) /\ found' = Append(found, r)
        BY <1>1, <2>1, <2>6, <4>1
      <4>3. /\ DOMAIN Append(found, r) = DOMAIN found \cup {Len(found) + 1}
            /\ Append(found, r)[Len(found) + 1] = r
            /\ \A k \in DOMAIN found : Append(found, r)[k] = found[k]
        BY <4>2
      <4> QED BY <4>1, <4>2, <4>3
    <3>5. ASSUME NEW k \in DOMAIN found'
          PROVE  \E i \in Eligible' : looked'[i].info = found'[k]
      <4>1. CASE k = Len(found) + 1
        BY <1>2, <3>3, <3>4, <4>1
      <4>2. CASE k \in DOMAIN found
        BY <1>2, <2>5, <3>3, <3>4, <4>2 DEF IndInv, FoundEligible
      <4> QED BY <3>4, <3>5, <4>1, <4>2
    <3>6. ASSUME NEW i \in Eligible'
          PROVE  \E k \in DOMAIN found' : found'[k] = looked'[i].info
      <4>1. CASE i = Len(looked) + 1
        BY <1>2, <3>4, <4>1
      <4>2. CASE i \in Eligible
        BY <1>2, <2>5, <3>4, <4>2 DEF IndInv, FoundEligible
      <4> QED BY <3>3, <3>6, <4>1, <4>2
    <3> QED BY <3>5, <3>6 DEF FoundEligible
  <2>7. ASSUME ~(a.kind = "info" /\ CanRelay(a.info))
        PROVE  FoundEligible'
    <3>1. Len(looked) + 1 \notin Eligible'
      <4>1. CASE a.kind # "info"
        BY <1>1, <1>2, <4>1 DEF Eligible
      <4>2. CASE a.kind = "info" /\ ~CanRelay(a.info)
        <5>1. a.info.degree \in 0..MaxDegree
          BY <1>4, <4>2 DEF NodeInfos
        <5>2. \/ ~(a.info.degree > 0) \/ ~a.info.announced
              \/ ~({f \in features : f % 2 = 0} \subseteq a.info.features)
          BY <4>2, <5>1, RelayAssumption DEF CanRelay, IsRequired
        <5> QED BY <1>1, <1>2, <5>2 DEF Eligible
      <4> QED BY <2>7, <4>1, <4>2
    <3>2. Eligible' = Eligible
      BY <1>1, <1>2, <3>1 DEF Eligible
    <3> QED BY <1>2, <2>1, <2>5, <2>7, <3>2 DEF IndInv, FoundEligible
  <2>8. FoundEligible'
    BY <2>6, <2>7
  <2> QED BY <1>3, <2>2, <2>3, <2>4, <2>8 DEF IndInv
<1> QED BY <1>5, <1>6

\* buildBlindedRoute takes the best of the peers found, which are the eligible
\* ones.
LEMMA Built ==
    ASSUME IndInv, BuildBlindedRoute
    PROVE  IndInv'
<1>1. /\ pc' = "done" /\ UNCHANGED <<features, open, channels, found, looked>>
      /\ \/ found = <<>> /\ result' = "noRelayingPeers"
         \/ found # <<>> /\ result' = MostPeers(found).peer
         \/ found # <<>> /\ result' = "path"
  BY DEF BuildBlindedRoute, Return
<1>2. found \in Seq(NodeInfos)
  BY DEF IndInv, TypeOK
<1>3. Eligible' = Eligible
  BY <1>1 DEF Eligible
<1>4. CallLocals' /\ AnswersMatch' /\ FoundEligible'
  BY <1>1, <1>3 DEF IndInv, CallLocals, AnswersMatch, FoundEligible
<1>5. CASE found = <<>>
  <2>1. result' = "noRelayingPeers"
    BY <1>1, <1>5
  <2>2. TypeOK'
    BY <1>1, <2>1 DEF IndInv, TypeOK, Errors
  <2>3. IntroIsBest'
    BY <2>1, RelayAssumption DEF IntroIsBest, Errors
  <2>4. DOMAIN found = {}
    BY <1>5
  <2>5. Eligible = {}
    BY <2>4 DEF IndInv, FoundEligible
  <2>6. FailureExplained'
    BY <1>3, <2>1, <2>5 DEF FailureExplained
  <2> QED BY <1>4, <2>2, <2>3, <2>6 DEF IndInv
<1>6. CASE found # <<>> /\ result' = MostPeers(found).peer
  <2>1. PICK k \in DOMAIN found :
           /\ MostPeers(found) = found[k]
           /\ \A j \in DOMAIN found : found[j].degree <= found[k].degree
    BY <1>2, <1>6, MostPeersIsMost
  <2>2. found[k] \in NodeInfos
    BY <1>2
  <2>3. result' = found[k].peer /\ result' \in Peers
    BY <1>1, <1>6, <2>1, <2>2 DEF NodeInfos
  <2>4. PICK i \in Eligible : looked[i].info = found[k]
    BY DEF IndInv, FoundEligible
  <2>5. channels[i] = result'
    BY <2>3, <2>4 DEF IndInv, AnswersMatch, Eligible
  <2>6. \A j \in Eligible : looked[j].info.degree <= looked[i].info.degree
    BY <2>1, <2>4 DEF IndInv, FoundEligible
  <2>7. IntroIsBest'
    BY <1>1, <1>3, <2>4, <2>5, <2>6 DEF IntroIsBest
  <2>8. TypeOK'
    BY <1>1, <2>3 DEF IndInv, TypeOK
  <2>9. FailureExplained'
    BY <2>3, RelayAssumption DEF FailureExplained, Errors
  <2> QED BY <1>4, <2>7, <2>8, <2>9 DEF IndInv
<1>7. CASE found # <<>> /\ result' = "path"
  <2>1. TypeOK'
    BY <1>1, <1>7 DEF IndInv, TypeOK, Errors
  <2>2. IntroIsBest'
    BY <1>7, RelayAssumption DEF IntroIsBest, Errors
  <2>3. 1 \in DOMAIN found
    BY <1>2, <1>7
  <2>4. Eligible # {}
    BY <2>3 DEF IndInv, FoundEligible
  <2>5. FailureExplained'
    BY <1>3, <1>7, <2>4 DEF FailureExplained
  <2> QED BY <1>4, <2>1, <2>2, <2>5 DEF IndInv
<1> QED BY <1>1, <1>5, <1>6, <1>7

\* Every step keeps the invariant.
LEMMA Inductive == IndInv /\ [Next]_vars => IndInv'
<1> SUFFICES ASSUME IndInv, [Next]_vars PROVE IndInv'
  OBVIOUS
<1>1. ASSUME NEW fs \in SUBSET FeatureBits, GenerateBlindedRoute(fs)
      PROVE  IndInv'
  <2>1. /\ pc = "idle" /\ result = "none" /\ looked = <<>> /\ found = <<>>
        /\ channels = <<>> /\ open = <<>> /\ features' = fs
        /\ UNCHANGED <<open, channels, found, looked>>
    BY <1>1 DEF GenerateBlindedRoute, IndInv, CallLocals
  <2>2. \/ pc' = "list" /\ result' = "none" /\ \A f \in fs : f <= MaxUint16
        \/ pc' = "done" /\ result' \in {"overflow", "notReady"}
    BY <1>1, <2>1 DEF GenerateBlindedRoute, Return
  <2>3. fs \subseteq Nat
    BY RelayAssumption
  <2>4. ASSUME pc' = "list" PROVE fs \subseteq 0..MaxUint16
    <3>1. \A f \in fs : f <= MaxUint16
      BY <2>2, <2>4
    <3>2. \A m \in Nat, f \in Nat : f <= m => f \in 0..m
      OBVIOUS
    <3>3. MaxUint16 \in Nat
      BY DEF MaxUint16
    <3> QED BY <2>3, <3>1, <3>2, <3>3, Zenon
  <2>5. TypeOK'
    BY <2>1, <2>2, <2>4, RelayAssumption DEF TypeOK, Errors
  <2>6. CallLocals' /\ AnswersMatch' /\ FoundEligible'
    BY <2>1, <2>2 DEF CallLocals, AnswersMatch, FoundEligible, Eligible
  <2>7. IntroIsBest' /\ FailureExplained'
    BY <2>2, RelayAssumption DEF IntroIsBest, FailureExplained, Errors
  <2> QED BY <2>5, <2>6, <2>7 DEF IndInv
<1>2. CASE UNCHANGED vars
  BY <1>2 DEF vars, IndInv, TypeOK, CallLocals, AnswersMatch, FoundEligible,
     Eligible, IntroIsBest, FailureExplained
<1> QED BY <1>1, <1>2, Listed, LookedUp, Built DEF Next

-----------------------------------------------------------------------------
\* The invariant holds.
THEOREM Invariance == Spec => []IndInv
  BY Initial, Inductive, PTL DEF Spec

\* The call's variables keep their types; features that pass the check of
\* parseGenerateBlindedRouteRequest fit into 16 bits.
THEOREM TypeCorrect == Spec => []TypeOK
<1>1. IndInv => TypeOK
  BY DEF IndInv
<1> QED BY <1>1, Invariance, PTL

\* GenerateBlindedRoute returns a path through the peer of one of our active
\* channels that can relay, and no such peer has more channels: for any number
\* of channels, several to one peer included, and any answers of lnd.
THEOREM BestIntroduction == Spec => []IntroIsBest
<1>1. IndInv => IntroIsBest
  BY DEF IndInv
<1> QED BY <1>1, Invariance, PTL

\* GenerateBlindedRoute fails for want of relaying peers only when no answer of
\* lnd showed one, and with lnd's error only when lnd returned one.
THEOREM FailuresAreExplained == Spec => []FailureExplained
<1>1. IndInv => FailureExplained
  BY DEF IndInv
<1> QED BY <1>1, Invariance, PTL
=============================================================================
