----------------------------- MODULE MCRpcServer -----------------------------
(***************************************************************************)
(* The instance of RpcServer that TLC checks: messages with one payload    *)
(* and with two, so that one message can address two streams.              *)
(***************************************************************************)
EXTENDS RpcServer, TLC

Exit(payloads) ==
    [msgType |-> "onion", packet |-> "exit", payloads |-> payloads]

MCTwoTypes == {64, 65}
MCValidAndNot == {63, 64}

MCMessages == {Exit(<<64>>), Exit(<<64, 65>>)}
MCOneMessage == {Exit(<<64>>)}

Symmetry == Permutations(Callers)
=============================================================================
