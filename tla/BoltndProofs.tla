----------------------------- MODULE BoltndProofs -----------------------------
(***************************************************************************)
(* Proofs about Boltnd, for any number of callers of Start and Stop and    *)
(* any number of retries that a uint8 holds.                               *)
(***************************************************************************)
EXTENDS Boltnd, TLAPS

\* No configuration asks for as many retries as make the bound of the loop wrap
\* around to zero, which the run boltnd_wrap shows the code does not bear.
NoWrap == 255 \notin Retries

\* A call of Start, or of Stop, past its compare-and-swap.
StartPast == {"loop", "sleep", "check", "server", "done", "connFailed",
              "serverFailed", "panicked"}
StopPast == {"server", "close", "done", "failed"}

\* Only the winner of the compare-and-swap gets past it.
OneStart ==
    /\ started = 0 => \A p \in Starters : startPc[p] = "idle"
    /\ \A p, q \in Starters :
          startPc[p] \in StartPast /\ startPc[q] \in StartPast => p = q

\* Nothing has been tried before Start, nor has been made while it still tries.
NotConnected ==
    started = 0 \/ (\E p \in Starters : startPc[p] \in {"loop", "sleep"})
        => lnd = Nil

\* The loop's variable and its error, at each place Start can be at. Without an
\* error and without a connection the bound of the loop was zero.
LoopLocals ==
    /\ attempt <= MaxAttempts
    /\ started = 0 => attempt = 0 /\ ~connErr
    /\ \A p \in Starters :
          /\ startPc[p] = "loop" => (attempt > 0 <=> connErr)
          /\ startPc[p] = "sleep" => connErr /\ attempt < MaxAttempts
          /\ startPc[p] = "check" =>
                IF connErr THEN attempt = retires + 1 /\ lnd = Nil
                           ELSE lnd # Nil \/ MaxAttempts = 0
          /\ startPc[p] = "connFailed" => attempt = retires + 1 /\ lnd = Nil
          /\ startPc[p] = "panicked" => MaxAttempts = 0

\* The one connection ever made is the one that is remembered.
OneConnection == opened = lnd

\* Unless they raced, Start had returned when Stop began; the server is down
\* behind such a Stop, and the connection closed at its end.
StopOrder ==
    /\ stopped = 0 => \A p \in Stoppers : stopPc[p] = "idle"
    /\ \A p \in Stoppers :
          /\ stopPc[p] \in StopPast => raced \/ StartReturned
          /\ stopPc[p] \in {"close", "done", "failed"} =>
                raced \/ server = "down"
          /\ stopPc[p] = "done" => raced \/ lnd \subseteq closed

\* The inductive invariant.
IndInv ==
    /\ TypeOK
    /\ OneStart
    /\ NotConnected
    /\ LoopLocals
    /\ OneConnection
    /\ StopOrder

-----------------------------------------------------------------------------

\* The bound of the loop is the number of attempts that was meant, or zero; it is
\* zero only for the configuration that NoWrap excludes.
LEMMA Bound ==
    ASSUME retires \in Retries
    PROVE  /\ MaxAttempts \in Uint8
           /\ MaxAttempts = IF retires = 255 THEN 0 ELSE retires + 1
<1>1. retires \in 0..255
  BY BoltndAssumption DEF Uint8
<1>2. CASE retires = 255
  BY <1>2 DEF MaxAttempts, Uint8
<1>3. CASE retires # 255
  BY <1>1, <1>3 DEF MaxAttempts, Uint8
<1>4. QED BY <1>2, <1>3

\* A new instance satisfies the inductive invariant.
LEMMA Initial == Init => IndInv
<1> SUFFICES ASSUME Init PROVE IndInv
  OBVIOUS
<1>1. MaxAttempts \in Uint8 /\ retires \in Uint8
  BY Bound, BoltndAssumption DEF Init
<1>2. TypeOK
  <2>1. 0 \in 0..(retires + 1)
    BY <1>1 DEF Uint8
  <2> QED BY <2>1 DEF Init, TypeOK
<1>3. LoopLocals
  BY <1>1 DEF Init, LoopLocals, Uint8
<1> QED BY <1>2, <1>3 DEF Init, IndInv, OneStart, NotConnected, OneConnection,
           StopOrder, StopPast, StartPast, Nil

\* Every step of Start and of Stop preserves the inductive invariant.
LEMMA Inductive == IndInv /\ [Next]_vars => IndInv'
<1> SUFFICES ASSUME IndInv, [Next]_vars PROVE IndInv'
  OBVIOUS
<1> USE DEF IndInv
<1>a. /\ retires \in 0..255 /\ MaxAttempts \in 0..255 /\ attempt \in Nat
      /\ MaxAttempts = IF retires = 255 THEN 0 ELSE retires + 1
  BY Bound, BoltndAssumption DEF TypeOK, Uint8
<1>b. ASSUME UNCHANGED retires PROVE MaxAttempts' = MaxAttempts
  BY <1>b DEF MaxAttempts
<1>1. ASSUME NEW p \in Starters, StartBegin(p) PROVE IndInv'
  <2> USE DEF StartBegin
  <2>1. TypeOK'
    BY <1>1 DEF TypeOK
  <2>2. OneStart'
    BY <1>1 DEF TypeOK, OneStart, StartPast
  <2>3. NotConnected'
    BY <1>1 DEF TypeOK, NotConnected, OneStart
  <2>4. LoopLocals'
    BY <1>1, <1>a, <1>b DEF TypeOK, LoopLocals
  <2>5. StopOrder'
    BY <1>1 DEF TypeOK, StopOrder, StartReturned, StartRunning, StopPast
  <2> QED BY <1>1, <2>1, <2>2, <2>3, <2>4, <2>5 DEF OneConnection
<1>2. ASSUME NEW p \in Starters, Connect(p) PROVE IndInv'
  <2> USE DEF Connect
  <2>1. attempt \in Uint8 /\ attempt < MaxAttempts /\ lnd = Nil
    BY <1>2, <1>a DEF LoopOver, Uint8, NotConnected
  <2>2. TypeOK'
    BY <1>2, <2>1 DEF TypeOK
  <2>3. OneStart'
    BY <1>2 DEF TypeOK, OneStart, StartPast
  <2>4. NotConnected'
    BY <1>2 DEF TypeOK, NotConnected, OneStart, StartPast
  <2>5. LoopLocals'
    <3>1. CASE lnd' = {attempt} /\ connErr' = FALSE
               /\ startPc' = [startPc EXCEPT ![p] = "check"]
      BY <1>2, <1>b, <2>1, <3>1
      DEF TypeOK, LoopLocals, OneStart, StartPast, Nil
    <3>2. CASE lnd' = Nil /\ connErr' = TRUE
               /\ startPc' = [startPc EXCEPT ![p] = "sleep"]
      BY <1>2, <1>b, <2>1, <3>2
      DEF TypeOK, LoopLocals, OneStart, StartPast
    <3> QED BY <1>2, <3>1, <3>2
  <2>6. OneConnection'
    BY <1>2, <2>1 DEF OneConnection, Nil
  <2>7. StopOrder'
    BY <1>2 DEF TypeOK, StopOrder, StartReturned, StartRunning, StopPast
  <2> QED BY <2>2, <2>3, <2>4, <2>5, <2>6, <2>7
<1>3. ASSUME NEW p \in Starters, Wait(p) PROVE IndInv'
  <2> USE DEF Wait
  <2>1. attempt < MaxAttempts /\ attempt' \in 0..(retires + 1)
    BY <1>3, <1>a DEF LoopLocals
  <2>2. TypeOK'
    BY <1>3, <2>1 DEF TypeOK
  <2>3. OneStart'
    BY <1>3 DEF TypeOK, OneStart, StartPast
  <2>4. NotConnected'
    BY <1>3 DEF TypeOK, NotConnected
  <2>5. LoopLocals'
    BY <1>3, <1>a, <1>b, <2>1 DEF TypeOK, LoopLocals, OneStart, StartPast
  <2>6. StopOrder'
    BY <1>3 DEF TypeOK, StopOrder, StartReturned, StartRunning, StopPast
  <2> QED BY <1>3, <2>2, <2>3, <2>4, <2>5, <2>6 DEF OneConnection
<1>4. ASSUME NEW p \in Starters, GiveUp(p) PROVE IndInv'
  <2> USE DEF GiveUp
  <2>1. TypeOK'
    BY <1>4 DEF TypeOK
  <2>2. OneStart'
    BY <1>4 DEF TypeOK, OneStart, StartPast
  <2>3. NotConnected'
    BY <1>4 DEF TypeOK, NotConnected
  <2>4. LoopLocals'
    BY <1>4, <1>a, <1>b
    DEF TypeOK, LoopLocals, LoopOver, NotConnected, OneStart, StartPast
  <2>5. StopOrder'
    BY <1>4 DEF TypeOK, StopOrder, StartReturned, StartRunning, StopPast
  <2> QED BY <1>4, <2>1, <2>2, <2>3, <2>4, <2>5 DEF OneConnection
<1>5. ASSUME NEW p \in Starters, CheckConn(p) PROVE IndInv'
  <2> USE DEF CheckConn
  <2>1. TypeOK'
    BY <1>5 DEF TypeOK
  <2>2. OneStart'
    BY <1>5 DEF TypeOK, OneStart, StartPast
  <2>3. NotConnected'
    BY <1>5 DEF TypeOK, NotConnected
  <2>4. LoopLocals'
    BY <1>5, <1>b DEF TypeOK, LoopLocals
  <2>5. StopOrder'
    BY <1>5 DEF TypeOK, StopOrder, StartReturned, StartRunning, StopPast
  <2> QED BY <1>5, <2>1, <2>2, <2>3, <2>4, <2>5 DEF OneConnection
<1>6. ASSUME NEW p \in Starters, StartServer(p) PROVE IndInv'
  <2> USE DEF StartServer
  <2>1. TypeOK'
    BY <1>6 DEF TypeOK
  <2>2. OneStart'
    BY <1>6 DEF TypeOK, OneStart, StartPast
  <2>3. NotConnected'
    BY <1>6 DEF TypeOK, NotConnected
  <2>4. LoopLocals'
    BY <1>6, <1>b DEF TypeOK, LoopLocals
  <2>5. StopOrder'
    BY <1>6 DEF TypeOK, StopOrder, StartReturned, StartRunning, StopPast
  <2> QED BY <1>6, <2>1, <2>2, <2>3, <2>4, <2>5 DEF OneConnection
<1>7. ASSUME NEW p \in Stoppers, StopBegin(p) PROVE IndInv'
  <2> USE DEF StopBegin
  <2>1. raced' \in BOOLEAN
    BY <1>7, Zenon DEF TypeOK
  <2>2. TypeOK'
    BY <1>7, <2>1 DEF TypeOK
  <2>3. StopOrder'
    <3>1. StartReturned' <=> StartReturned
      BY <1>7 DEF StartReturned, StartRunning
    <3>2. CASE stopped = 0
      <4>1. stopPc' = [stopPc EXCEPT ![p] = "server"] /\ stopped' = 1
        BY <1>7, <3>2
      <4>2. raced' \/ StartReturned
        BY <1>7, <3>2
      <4> QED BY <3>1, <3>2, <4>1, <4>2 DEF TypeOK, StopOrder, StopPast
    <3>3. CASE stopped # 0
      <4>1. stopPc' = [stopPc EXCEPT ![p] = "rejected"] /\ raced' = raced
        BY <1>7, <3>3
      <4> QED BY <1>7, <3>1, <4>1 DEF TypeOK, StopOrder, StopPast
    <3> QED BY <3>2, <3>3
  <2> QED BY <1>7, <1>b, <2>2, <2>3
          DEF OneStart, NotConnected, LoopLocals, OneConnection
<1>8. ASSUME NEW p \in Stoppers, StopServer(p) PROVE IndInv'
  <2> USE DEF StopServer
  <2>1. TypeOK'
    BY <1>8 DEF TypeOK
  <2>2. StopOrder'
    BY <1>8 DEF TypeOK, StopOrder, StartReturned, StartRunning, StopPast
  <2> QED BY <1>8, <1>b, <2>1, <2>2
          DEF OneStart, NotConnected, LoopLocals, OneConnection
<1>9. ASSUME NEW p \in Stoppers, CloseLnd(p) PROVE IndInv'
  <2> USE DEF CloseLnd
  <2>1. TypeOK'
    BY <1>9 DEF TypeOK, OneConnection
  <2>2. StopOrder'
    BY <1>9 DEF TypeOK, StopOrder, StartReturned, StartRunning, StopPast
  <2> QED BY <1>9, <1>b, <2>1, <2>2
          DEF OneStart, NotConnected, LoopLocals, OneConnection
<1>10. CASE UNCHANGED vars
  BY <1>10, <1>b DEF vars, TypeOK, OneStart, NotConnected, LoopLocals,
     OneConnection, StopOrder, StartReturned, StartRunning
<1> QED BY <1>1, <1>2, <1>3, <1>4, <1>5, <1>6, <1>7, <1>8, <1>9, <1>10
        DEF Next, StartStep

\* The inductive invariant holds of every reachable state.
THEOREM Invariance == Spec => []IndInv
  BY Initial, Inductive, PTL DEF Spec

\* Every variable of an instance keeps its type; the loop of Start does not
\* run past its last attempt.
THEOREM TypeCorrect == Spec => []TypeOK
<1>1. IndInv => TypeOK
  BY DEF IndInv
<1> QED BY <1>1, Invariance, PTL

\* Start gives up only after every attempt has failed and never goes on without
\* a connection, for every number of retries below the one that wraps around.
THEOREM AllRetriesMade ==
    ASSUME NoWrap
    PROVE  Spec => []RetriesExhausted
<1>1. IndInv => RetriesExhausted
  <2> SUFFICES ASSUME IndInv, NEW p \in Starters
               PROVE  /\ startPc[p] = "connFailed" =>
                            attempt = retires + 1 /\ opened = {} /\ lnd = Nil
                      /\ startPc[p] # "panicked"
    BY DEF RetriesExhausted
  <2>1. MaxAttempts # 0
    BY Bound, BoltndAssumption DEF NoWrap, IndInv, TypeOK, Uint8
  <2> QED BY <2>1 DEF IndInv, LoopLocals, OneConnection, Nil
<1> QED BY <1>1, Invariance, PTL

\* Whatever Start and Stop do at the same time, the only connection that can be
\* open is the one that Stop closes.
THEOREM ConnectionTracked == Spec => []NoLeakedConnection
<1>1. IndInv => NoLeakedConnection
  BY DEF IndInv, OneConnection, NoLeakedConnection, Open
<1> QED BY <1>1, Invariance, PTL

\* A Stop that did not overlap Start leaves neither a connection nor a server.
THEOREM StopLeavesNothing == Spec => []StoppedClean
<1>1. IndInv => StoppedClean
  BY DEF IndInv, OneConnection, StopOrder, StoppedClean, Open
<1> QED BY <1>1, Invariance, PTL
=============================================================================
