------------------------------- MODULE Merkle --------------------------------
(***************************************************************************)
(* The merkle root of a Bolt 12 tlv stream and signatures over it          *)
(* (lnwire/bolt12_merkle.go, lnwire/bolt12_signature.go).                  *)
(*                                                                         *)
(* Bytes are sequences of terms. A hash is the term of what was hashed, so *)
(* two hashes are equal exactly when their inputs are; a pair of nodes is  *)
(* ordered by hash before it is combined, so a branch is a set. A tlv      *)
(* record is written with its type, its length and its bytes.              *)
(***************************************************************************)
EXTENDS Naturals, Sequences, FiniteSets

Num(n) == [tag |-> "num", n |-> n]

Record(t, bytes) == [type |-> t, len |-> Len(bytes), bytes |-> bytes]

\* tlv.SortRecords: in increasing order of type; no two have the same type.
SortRecords(records) ==
    [i \in 1..Cardinality(records) |->
        CHOOSE r \in records :
            Cardinality({q \in records : q.type <= r.type}) = i]

isSignatureTLV(r) == r.type \in 240..1000

-----------------------------------------------------------------------------
(***************************************************************************)
(* The tree.                                                               *)
(***************************************************************************)

\* orderNodes and the TaggedHash of the branch over the two nodes.
Branch(left, right) == [tag |-> "LnBranch", nodes |-> {left, right}]

\* The TaggedHash of the leaf of a record, and that of its nonce leaf, whose
\* tag holds all the records.
createLeafPair(r, all) ==
    <<[tag |-> "LnLeaf", value |-> <<r>>],
      [tag |-> "LnAll", value |-> <<r, all>>]>>

\* The records other than signatures, in order, each with its nonce.
CreateTLVLeaves(records) ==
    LET all == SortRecords({r \in records : ~isSignatureTLV(r)})
    IN  [i \in 1..(2 * Len(all)) |->
            createLeafPair(all[(i + 1) \div 2], all)[2 - (i % 2)]]

CreateTLVBranches(leaves) ==
    [i \in 1..(Len(leaves) \div 2) |-> Branch(leaves[2 * i - 1], leaves[2 * i])]

\* Fault: the combined branch is put at the front of the queue.
CalculateRoot_Stack(branches) ==
    LET queue[k \in 0..(Len(branches) - 1)] ==
            IF k = 0 THEN branches
            ELSE LET q == queue[k - 1]
                 IN  <<Branch(q[1], q[2])>> \o SubSeq(q, 3, Len(q))
    IN  queue[Len(branches) - 1][1]

\* The first two branches of the queue are combined and their parent is added
\* to its end.
Combined(q) == Append(SubSeq(q, 3, Len(q)), Branch(q[1], q[2]))

\* That is done until one is left; queue[k] is the queue after k rounds.
CalculateRoot(branches) ==
    LET queue[k \in 0..(Len(branches) - 1)] ==
            IF k = 0 THEN branches ELSE Combined(queue[k - 1])
    IN  queue[Len(branches) - 1][1]

ErrNoTLVs == [tag |-> "ErrNoTLVs"]

MerkleRoot(records) ==
    LET leaves == CreateTLVLeaves(records)
    IN  IF leaves = <<>> THEN ErrNoTLVs
        ELSE CalculateRoot(CreateTLVBranches(leaves))

\* The reference for CalculateRoot: a level of the tree pairs the nodes of the
\* level below from the left, and a node left over leads the next level.
Parents(level) ==
    LET pairs == [i \in 1..(Len(level) \div 2) |->
                     Branch(level[2 * i - 1], level[2 * i])]
    IN  IF Len(level) % 2 = 1 THEN <<level[Len(level)]>> \o pairs ELSE pairs

Above(level) == IF Len(level) = 1 THEN level ELSE Parents(level)

TreeRoot(branches) ==
    LET level[k \in 0..Len(branches)] ==
            IF k = 0 THEN branches ELSE Above(level[k - 1])
    IN  level[Len(branches)][1]

-----------------------------------------------------------------------------
\* Records for the types of a parsed stream that the decoder did not know: a
\* type it knows is in tlvMap without bytes. The function that writes a record
\* captures the loop's variable, which all of them share and which is left at
\* the value of the type that the iteration over the map visited last.
unknownRecordsFromParsed(tlvMap, last) ==
    {[type |-> t, len |-> Len(tlvMap[t]), bytes |-> tlvMap[last]] :
        t \in {t \in DOMAIN tlvMap : tlvMap[t] # <<>>}}

-----------------------------------------------------------------------------
(***************************************************************************)
(* Signatures. Only the holder of a key makes signatures with it, and one  *)
(* verifies for the digest it was made for. A bip340 key is x-only.        *)
(***************************************************************************)
signatureDigest(messageTag, root) == [tag |-> messageTag, root |-> root]

Key(id, odd) == [tag |-> "key", id |-> id, odd |-> odd]
XOnly(key) == [key EXCEPT !.odd = FALSE]
Sign(id, digest) == [tag |-> "signature", key |-> id, digest |-> digest]

\* Fault: a signature by the right key over anything will do.
validateSignature_AnyDigest(sig, key, digest) ==
    sig.tag = "signature" /\ sig.key = key.id

\* ParseSignature, then Verify.
validateSignature(sig, key, digest) ==
    /\ sig.tag = "signature"
    /\ sig.key = key.id
    /\ sig.digest = digest
=============================================================================
