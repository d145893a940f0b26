-------------------------------- MODULE Boltnd -------------------------------
(***************************************************************************)
(* The life of a Boltnd instance (boltnd.go): Start connects to lnd, with  *)
(* retries, and starts the rpc server; Stop stops the server and closes    *)
(* the connection. Both may be called from several goroutines, and Stop    *)
(* while Start is still retrying. The rpc server is seen from outside; its *)
(* inside is RpcServer.tla.                                                *)
(***************************************************************************)
EXTENDS Naturals

CONSTANTS
    Starters,   \* goroutines that call Start
    Stoppers,   \* goroutines that call Stop
    Retries     \* the values of Config.LNDRetires

\* LNDRetires is a uint8.
Uint8 == 0..255

ASSUME BoltndAssumption == Retries \subseteq Uint8

VARIABLES
    retires,     \* cfg.LNDRetires
    started,     \* Boltnd.started
    stopped,     \* Boltnd.stopped
    startPc,     \* progress of each call of Start
    stopPc,      \* progress of each call of Stop
    attempt,     \* the loop variable of Start
    connErr,     \* the error of the last attempt
    lnd,         \* Boltnd.lnd: no connection, or one, named by its attempt
    server,      \* the rpc server: "new", "up", "down" or "failed"
    opened,      \* history: the connections that were made
    closed,      \* history: the connections that were closed
    raced        \* history: Stop was called before Start had returned

vars == <<retires, started, stopped, startPc, stopPc, attempt, connErr, lnd,
          server, opened, closed, raced>>

Nil == {}

TypeOK ==
    /\ retires \in Retries
    /\ started \in {0, 1} /\ stopped \in {0, 1}
    /\ startPc \in [Starters -> {"idle", "loop", "sleep", "check", "server",
                                 "done", "connFailed", "serverFailed",
                                 "rejected", "panicked"}]
    /\ stopPc \in [Stoppers -> {"idle", "server", "close", "done", "failed",
                                "rejected"}]
    /\ attempt \in 0..(retires + 1)
    /\ connErr \in BOOLEAN /\ raced \in BOOLEAN
    /\ lnd \in {Nil} \cup {{c} : c \in Uint8}
    /\ server \in {"new", "up", "down", "failed"}
    /\ opened \subseteq Uint8 /\ closed \subseteq opened

\* NewBoltnd, with a configuration that Validate accepts.
Init ==
    /\ retires \in Retries
    /\ started = 0 /\ stopped = 0
    /\ startPc = [p \in Starters |-> "idle"]
    /\ stopPc = [p \in Stoppers |-> "idle"]
    /\ attempt = 0
    /\ connErr = FALSE
    /\ lnd = Nil
    /\ server = "new"
    /\ opened = {} /\ closed = {}
    /\ raced = FALSE

-----------------------------------------------------------------------------
(***************************************************************************)
(* Start.                                                                  *)
(***************************************************************************)

\* The compare-and-swap on started.
StartBegin(p) ==
    /\ startPc[p] = "idle"
    /\ started' = 1
    /\ startPc' = [startPc EXCEPT ![p] =
                       IF started = 0 THEN "loop" ELSE "rejected"]
    /\ UNCHANGED <<retires, stopped, stopPc, attempt, connErr, lnd, server,
                   opened, closed, raced>>

\* Fault: the loop is tested against the retries, without the first attempt.
MaxAttempts_NoFirst == retires

\* int(LNDRetires + 1): the sum is a uint8 and wraps around.
MaxAttempts == (retires + 1) % 256

\* Fault: one attempt more than the configuration allows.
LoopOver_OneMore == attempt > MaxAttempts

LoopOver == attempt >= MaxAttempts

\* Fault: a connection that was made does not leave the loop.
Connect_NoBreak(p) ==
    /\ startPc[p] = "loop" /\ ~LoopOver
    /\ \/ /\ lnd' = {attempt} /\ opened' = opened \cup {attempt}
          /\ connErr' = FALSE
          /\ attempt' = attempt + 1
          /\ UNCHANGED startPc
       \/ /\ lnd' = Nil /\ connErr' = TRUE
          /\ startPc' = [startPc EXCEPT ![p] = "sleep"]
          /\ UNCHANGED <<attempt, opened>>
    /\ UNCHANGED <<retires, started, stopped, stopPc, server, closed, raced>>

\* One attempt: NewLndServices connects, which ends the loop, or fails.
Connect(p) ==
    /\ startPc[p] = "loop" /\ ~LoopOver
    /\ \/ /\ lnd' = {attempt} /\ opened' = opened \cup {attempt}
          /\ connErr' = FALSE
          /\ startPc' = [startPc EXCEPT ![p] = "check"]
       \/ /\ lnd' = Nil /\ connErr' = TRUE
          /\ startPc' = [startPc EXCEPT ![p] = "sleep"]
          /\ UNCHANGED opened
    /\ UNCHANGED <<retires, started, stopped, stopPc, attempt, server, closed,
                   raced>>

\* The wait after a failed attempt, the last one included.
Wait(p) ==
    /\ startPc[p] = "sleep"
    /\ attempt' = attempt + 1
    /\ startPc' = [startPc EXCEPT ![p] = "loop"]
    /\ UNCHANGED <<retires, started, stopped, stopPc, connErr, lnd, server,
                   opened, closed, raced>>

\* The loop runs out of attempts.
GiveUp(p) ==
    /\ startPc[p] = "loop" /\ LoopOver
    /\ startPc' = [startPc EXCEPT ![p] = "check"]
    /\ UNCHANGED <<retires, started, stopped, stopPc, attempt, connErr, lnd,
                   server, opened, closed, raced>>

\* Start fails with the error of the loop; without one it dereferences lnd.
CheckConn(p) ==
    /\ startPc[p] = "check"
    /\ startPc' = [startPc EXCEPT ![p] = IF connErr THEN "connFailed"
                                         ELSE IF lnd = Nil THEN "panicked"
                                         ELSE "server"]
    /\ UNCHANGED <<retires, started, stopped, stopPc, attempt, connErr, lnd,
                   server, opened, closed, raced>>

\* rpcServer.Start asks lnd for our key, which a closed connection fails, and
\* succeeds or fails. It takes no notice of an earlier Stop of the server.
StartServer(p) ==
    /\ startPc[p] = "server"
    /\ \/ /\ lnd \cap closed = {}
          /\ server' = "up"
          /\ startPc' = [startPc EXCEPT ![p] = "done"]
       \/ /\ server' = IF server = "down" THEN "down" ELSE "failed"
          /\ startPc' = [startPc EXCEPT ![p] = "serverFailed"]
    /\ UNCHANGED <<retires, started, stopped, stopPc, attempt, connErr, lnd,
                   opened, closed, raced>>

-----------------------------------------------------------------------------
(***************************************************************************)
(* Stop.                                                                   *)
(***************************************************************************)
StartRunning ==
    \E p \in Starters : startPc[p] \in {"loop", "sleep", "check", "server"}

StartReturned == started = 1 /\ ~StartRunning

\* The compare-and-swap on stopped.
StopBegin(p) ==
    /\ stopPc[p] = "idle"
    /\ stopped' = 1
    /\ stopPc' = [stopPc EXCEPT ![p] =
                      IF stopped = 0 THEN "server" ELSE "rejected"]
    /\ raced' = IF stopped = 0 THEN ~StartReturned ELSE raced
    /\ UNCHANGED <<retires, started, startPc, attempt, connErr, lnd, server,
                   opened, closed>>

\* rpcServer.Stop: it fails only when it has been called before, and then the
\* connection stays open.
StopServer(p) ==
    /\ stopPc[p] = "server"
    /\ stopPc' = [stopPc EXCEPT ![p] =
                      IF server = "down" THEN "failed" ELSE "close"]
    /\ server' = "down"
    /\ UNCHANGED <<retires, started, stopped, startPc, attempt, connErr, lnd,
                   opened, closed, raced>>

\* Fault: the connection is kept for a server that never came up.
CloseLnd_OnlyIfUp(p) ==
    /\ stopPc[p] = "close"
    /\ stopPc' = [stopPc EXCEPT ![p] = "done"]
    /\ closed' = IF \E q \in Starters : startPc[q] = "serverFailed"
                 THEN closed ELSE closed \cup lnd
    /\ UNCHANGED <<retires, started, stopped, startPc, attempt, connErr, lnd,
                   server, opened, raced>>

\* lnd.Close, if there is a connection.
CloseLnd(p) ==
    /\ stopPc[p] = "close"
    /\ stopPc' = [stopPc EXCEPT ![p] = "done"]
    /\ closed' = closed \cup lnd
    /\ UNCHANGED <<retires, started, stopped, startPc, attempt, connErr, lnd,
                   server, opened, raced>>

-----------------------------------------------------------------------------
StartStep(p) ==
    Connect(p) \/ Wait(p) \/ GiveUp(p) \/ CheckConn(p) \/ StartServer(p)

Next ==
    \/ \E p \in Starters : StartBegin(p) \/ StartStep(p)
    \/ \E p \in Stoppers : StopBegin(p) \/ StopServer(p) \/ CloseLnd(p)

Spec == Init /\ [][Next]_vars

-----------------------------------------------------------------------------
(***************************************************************************)
(* Properties.                                                             *)
(***************************************************************************)
Open == opened \ closed

\* Start fails for want of a connection only when the first attempt and every
\* retry of the configuration have failed, and never goes on without one.
RetriesExhausted ==
    \A p \in Starters :
        /\ startPc[p] = "connFailed" =>
              attempt = retires + 1 /\ opened = {} /\ lnd = Nil
        /\ startPc[p] # "panicked"

\* No connection is lost track of: one that is open is the one Stop closes.
NoLeakedConnection == Open \subseteq lnd

\* After a Stop that did not overlap Start, nothing is left running: neither
\* the connection, also of a server that failed to start, nor the server.
StoppedClean ==
    (\E p \in Stoppers : stopPc[p] = "done") /\ ~raced =>
        Open = {} /\ server # "up"

\* "We allow zero retires, so we iterate with retries + 1 to allow at least one
\* connection attempt for lnd" (Start): no Start is over without an attempt.
AtLeastOneAttempt ==
    \A p \in Starters :
        startPc[p] \in {"done", "connFailed", "serverFailed", "panicked"} =>
            opened # {} \/ connErr
=============================================================================
