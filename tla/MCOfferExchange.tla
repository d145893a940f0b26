--------------------------- MODULE MCOfferExchange ---------------------------
(***************************************************************************)
(* The instance of OfferExchange that TLC checks.                          *)
(***************************************************************************)
EXTENDS OfferExchange

Text1 == <<Num(7)>>
Hash(n) == <<[tag |-> "hash", n |-> n]>>

\* An offer with a description, a node id and a quantity range.
Offer(amount, min, max) ==
    [t \in DOMAIN OfferSchema |->
        CASE t = descriptionType -> Text1
          [] t = nodeIDType      -> <<issuerKey>>
          [] t = amountType      -> Value(amount)
          [] t = quantityMinType -> Value(min)
          [] t = quantityMaxType -> Value(max)
          [] OTHER               -> Unset]

\* One with every field; one whose expiry is the epoch; one without node id.
Full == [Offer(2, 1, 2) EXCEPT ![chainType] = Hash(1), ![featuresType] = Value(1),
             ![expiryType] = Value(3), ![issuerType] = <<Num(8)>>]
AtEpoch == [Offer(0, 0, 0) EXCEPT ![expiryType] = <<Num(0)>>]
NoNode == [Offer(0, 0, 0) EXCEPT ![nodeIDType] = Unset]

\* Odd types that no schema has, on both sides of the node id, with values of
\* different lengths and of none; and an even one, which no reader takes.
Foreign == {{Record(29, <<Num(4)>>)},
            {Record(29, <<Num(4)>>), Record(31, <<Num(5), Num(6)>>)},
            {Record(31, <<>>)}, {Record(28, <<Num(4)>>)}}

Own == {Offer(2, 0, 0), Offer(0, 1, 2), Offer(1, 2, 0), Offer(0, 0, 1),
        Offer(0, 2, 1), Full, AtEpoch, NoNode}

Publish(fields, foreign, sign) ==
    [fields |-> fields, foreign |-> foreign, sign |-> sign]

MCOffers == {Publish(f, {}, s) : f \in Own, s \in BOOLEAN} \cup
            {Publish(Offer(1, 1, 2), x, s) : x \in Foreign, s \in BOOLEAN}

\* One offer with one record that its reader does not know.
MCUnknown == {Publish(Offer(1, 1, 2), {Record(29, <<Num(4)>>)}, FALSE)}

MCNotes == {<<Num(7)>>}

\* Values that a record may turn into, of a kind with what it was; types 3 and
\* 4 hold hashes, 12 features, 30 and 38 keys.
MCChanges(t) ==
    CASE t \in {2, 3, 4, 42}       -> {Hash(9), <<Num(0)>>}
      [] t \in {8, 22, 24, 32}     -> {<<>>, <<Num(0)>>, <<Num(1)>>}
      [] t \in {10, 20, 39, 50}    -> {<<>>, <<Num(9)>>}
      [] t \in {12, 14, 40, 44, 46} -> {<<Num(0)>>, <<Num(9)>>}
      [] t \in {30, 38}            -> {<<Num(9)>>, <<Key("other", FALSE)>>}
      [] OTHER                     -> {<<Num(9)>>}
=============================================================================
