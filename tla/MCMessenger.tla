----------------------------- MODULE MCMessenger -----------------------------
(***************************************************************************)
(* The instance of Messenger that TLC checks: every kind of custom         *)
(* message, tlv types on both sides of the start of the final hop range.   *)
(***************************************************************************)
EXTENDS Messenger, TLC

Onion(kind, payloads) ==
    [msgType |-> "onion", packet |-> kind, payloads |-> payloads]

MCTlvTypes == {63, 64, 65}

MCMessages ==
    {Onion("bad", <<>>), Onion("exit", <<64, 65>>), Onion("exit", <<>>),
     Onion("hops", <<>>), Onion("hops", <<64>>),
     [msgType |-> "other", packet |-> "bad", payloads |-> <<>>]}

\* For the liveness run: one type, and one message of each kind that leaves
\* the select by a different way.
MCOneType == {64}
MCFewMessages == {Onion("exit", <<64>>), Onion("hops", <<>>)}

Symmetry == Permutations(Callers) \cup Permutations(Starters)
            \cup Permutations(Stoppers)
=============================================================================
