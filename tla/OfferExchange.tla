---------------------------- MODULE OfferExchange ----------------------------
(***************************************************************************)
(* A Bolt 12 exchange: an issuer publishes an offer as a string, a payer   *)
(* reads it with the DecodeOffer rpc (rpcserver/impl_decodeoffer.go,       *)
(* offers/), requests an invoice for it with NewInvoiceRequest, and is     *)
(* sent the invoice. Both sides read what they are sent with the decoders  *)
(* and validations of lnwire. The two wallets around the library, and what *)
(* happens to strings and streams on their way, are the environment.       *)
(*                                                                         *)
(* The offer's author may also be another implementation, which puts in    *)
(* records that this one does not know.                                    *)
(***************************************************************************)
EXTENDS Bolt12

CONSTANTS
    Offers,           \* the offers that may be issued: their fields, the
                      \* records that a foreign author adds, signed or not
    Amounts,          \* the amounts of requests
    Quantities,       \* the quantities of requests
    Notes,            \* the payer's notes
    Expiries,         \* the relative expiries of invoices
    Changes(_),       \* the values a record of a type may be changed to
    MaxChanges        \* bound: the changes on the way in one exchange

\* An author's offer sets some field, and is signed when it is issued; what else
\* the author puts in has types of its own.
ASSUME OffersAssumption ==
    \A o \in Offers :
        /\ o.fields = [t \in DOMAIN OfferSchema |-> o.fields[t]]
        /\ \E t \in DOMAIN OfferSchema : o.fields[t] # Unset
        /\ o.fields[signatureType] = Unset
        /\ IsFiniteSet(o.foreign)
        /\ \A r \in o.foreign : r.type \in Nat \ DOMAIN OfferSchema
        /\ \A r, s \in o.foreign : r.type = s.type => r = s

\* A field of an offer that this library makes holds what its Go type can: zero
\* is Unset but for an expiry, a number is a number and a key a key.
ASSUME OwnOffersAssumption ==
    \A o \in Offers : o.foreign = {} =>
        LET f   == o.fields
            key == f[nodeIDType]
        IN  /\ f[chainType] # <<Num(0)>> /\ f[featuresType] # <<Num(0)>>
            /\ \A t \in {amountType, quantityMinType, quantityMaxType} :
                  f[t] = Value(Number(f[t]))
            /\ f[expiryType] # Unset =>
                  f[expiryType] = <<Num(Number(f[expiryType]))>>
            /\ key # Unset => key = <<Key(key[1].id, key[1].odd)>>

\* Nobody makes up signatures.
ASSUME ChangesAssumption ==
    /\ MaxChanges \in Nat
    /\ \A v \in Changes(signatureType) : v = <<>> \/ v[1].tag # "signature"

ASSUME RequestsAssumption ==
    Amounts \subseteq Nat /\ Quantities \subseteq Nat /\ Expiries \subseteq Nat

Issuer == "issuer"
Payer  == "payer"
issuerKey == Key(Issuer, TRUE)
payerKey  == Key(Payer, TRUE)

VARIABLES
    sent,      \* for each kind of artefact, what its author made
    transit,   \* what is on its way: [kind, data]
    got,       \* for each kind, what its reader made of it
    changes    \* the number of changes on the way

vars == <<sent, transit, got, changes>>

Artefacts == {"offer", "request", "invoice"}
Nothing == [kind |-> "none", data |-> <<>>]
NotSent == [fields |-> <<>>]
NotRead == [ok |-> FALSE, fields |-> <<>>]

Schema(k) == CASE k = "offer"   -> OfferSchema
               [] k = "request" -> InvoiceRequestSchema
               [] k = "invoice" -> InvoiceSchema

Validate(k, a) == CASE k = "offer"   -> ValidateOffer(a)
                    [] k = "request" -> ValidateInvoiceRequest(a)
                    [] k = "invoice" -> ValidateInvoice(a)

\* An artefact that was decoded has to be valid as well.
Accepted(k, a) == IF ~a.ok THEN Failed ELSE IF Validate(k, a) THEN a ELSE Failed

Init ==
    /\ sent = [k \in Artefacts |-> NotSent]
    /\ transit = Nothing
    /\ got = [k \in Artefacts |-> NotRead]
    /\ changes = 0

-----------------------------------------------------------------------------
(***************************************************************************)
(* Offer strings. The human readable part is one letter here, the data of  *)
(* one record another; a letter has a case.                                *)
(***************************************************************************)
Plus  == [tag |-> "plus"]
Space == [tag |-> "space"]
One   == [tag |-> "one"]
HRP   == [tag |-> "hrp", upper |-> FALSE]
Data(record) == [tag |-> "data", upper |-> FALSE, record |-> record]

Text(stream) == <<HRP, One>> \o [i \in DOMAIN stream |-> Data(stream[i])]

\* The text without joins and whitespace; kept[i] is what is left of its first i
\* letters.
Letters(text) ==
    LET kept[i \in 0..Len(text)] ==
            IF i = 0 THEN <<>>
            ELSE IF text[i] \in {Plus, Space} THEN kept[i - 1]
            ELSE Append(kept[i - 1], text[i])
    IN  kept[Len(text)]
IsLetter(c) == c.tag \in {"hrp", "data"}

\* strings.TrimSpace of the part that position i is in takes i away: there is
\* nothing but whitespace between i and one of the ends of the part.
Trimmed(text, i) ==
    \/ \E j \in 0..(i - 1) : /\ j = 0 \/ text[j] = Plus
                             /\ \A k \in (j + 1)..i : text[k] = Space
    \/ \E j \in (i + 1)..(Len(text) + 1) :
          /\ j = Len(text) + 1 \/ text[j] = Plus
          /\ \A k \in i..(j - 1) : text[k] = Space

\* Fault: the parts are not trimmed.
stripOffer_NoTrim(text) ==
    IF \/ text = <<>>
       \/ \E i \in DOMAIN text : /\ text[i] = Plus
                                 /\ i = 1 \/ i = Len(text) \/ text[i - 1] = Plus
       \/ \E i \in DOMAIN text : text[i] = Space
    THEN <<>>
    ELSE Letters(text)

\* The string without its joins, or nothing: no part between two joins may be
\* empty before it is trimmed, and none may hold whitespace afterwards.
stripOffer(text) ==
    IF \/ text = <<>>
       \/ \E i \in DOMAIN text : /\ text[i] = Plus
                                 /\ i = 1 \/ i = Len(text) \/ text[i - 1] = Plus
       \/ \E i \in DOMAIN text : text[i] = Space /\ ~Trimmed(text, i)
    THEN <<>>
    ELSE Letters(text)

\* decodeBech32, the check of the human readable part and the conversion of
\* the data to the stream that it encodes: all in one case, split at the last
\* "1", with data after it.
ReadsAsOffer(clean) ==
    /\ Len(clean) > 2
    /\ \E upper \in BOOLEAN :
          \A i \in DOMAIN clean : IsLetter(clean[i]) => clean[i].upper = upper
    /\ clean[1].tag = "hrp"
    /\ clean[2] = One
    /\ \A i \in 3..Len(clean) : clean[i].tag = "data"

StreamOf(clean) == [i \in 1..(Len(clean) - 2) |-> clean[i + 2].record]

\* parseDecodeOfferRequest and DecodeOfferStr.
DecodeOfferStr(text, last) ==
    LET clean == stripOffer(text)
    IN  IF ReadsAsOffer(clean)
        THEN Accepted("offer", DecodeOffer(StreamOf(clean), last))
        ELSE Failed

-----------------------------------------------------------------------------
(***************************************************************************)
(* The exchange.                                                           *)
(***************************************************************************)

\* The artefact with a signature of its author, in the field of that type.
Signed(a, t, id, messageTag) ==
    [a EXCEPT !.fields[t] = <<Sign(id, signatureDigest(messageTag, a.root))>>]

\* The artefact of kind k is made and on its way, in an encoding of it.
Sends(k, a, foreign, data) ==
    /\ sent[k] = NotSent
    /\ sent' = [sent EXCEPT ![k] = [fields |-> a.fields, root |-> a.root,
                                    foreign |-> foreign]]
    /\ transit' = [kind |-> k, data |-> data]
    /\ UNCHANGED <<got, changes>>

\* An author makes an offer, signs it or not, and writes it down. A foreign
\* author hashes and writes its own records too.
IssueOffer(offer) ==
    LET made == [fields |-> offer.fields,
                 root   |-> MerkleRoot(records(OfferSchema, offer.fields)
                                           \cup offer.foreign)]
        o    == IF offer.sign THEN Signed(made, signatureType, Issuer, "offer")
                ELSE made
    IN  Sends("offer", o, offer.foreign,
              Text(SortRecords(records(OfferSchema, o.fields)
                                   \cup offer.foreign)))

\* The types that the iteration over the parsed types may end with, if any.
Last(types) == IF types = {} THEN {0} ELSE types
TextTypes(text) ==
    {text[i].record.type : i \in {i \in DOMAIN text : text[i].tag = "data"}}

\* What reached the reader of an artefact of kind k is accepted or not.
Reads(k, result) ==
    /\ got[k] = NotRead
    /\ got' = [got EXCEPT ![k] = result]
    /\ UNCHANGED <<sent, transit, changes>>

\* DecodeOffer, on the payer's node. A call whose context ends in waitForReady
\* returns an error and has read nothing: no step of this model.
ReadOffer ==
    /\ transit.kind = "offer"
    /\ \E last \in Last(TextTypes(transit.data)) :
          Reads("offer", DecodeOfferStr(transit.data, last))

\* The payer requests an invoice; a request that the offer does not allow is
\* refused and nothing happens.
RequestInvoice(amount, quantity, note) ==
    LET r == Signed(NewInvoiceRequest(got["offer"], amount, quantity, payerKey,
                                      note),
                    invReqSignatureType, Payer, "invoice_request")
    IN  /\ got["offer"].ok
        /\ RequestAllowed(got["offer"], amount, quantity)
        /\ Sends("request", r, {}, EncodeInvoiceRequest(r))

\* The issuer reads the request.
ReadRequest ==
    /\ transit.kind = "request"
    /\ \E last \in Last(Types(transit.data)) :
          Reads("request",
                Accepted("request", DecodeInvoiceRequest(transit.data, last)))

\* What the issuer's wallet puts into an invoice, for a request with fields q
\* and an offer with fields o.
InvoiceField(q, o, expiry, t) ==
    CASE t \in {invChainType, invOfferIDType, invAmountType, invFeatType,
                invQuantityType, invPayerKeyType, invPayerNoteType,
                invPayerInfoType}    -> q[t]
      [] t = invDescType             -> o[descriptionType]
      [] t = invNodeIDType           -> <<issuerKey>>
      [] t = invCreatedAtType        -> <<Num(0)>>
      [] t = invPaymentHashType      -> <<[tag |-> "payment hash"]>>
      [] t = invRelativeExpiryType   -> Value(expiry)
      [] t = inCLTVType              -> Value(1)
      [] OTHER                       -> Unset

\* The issuer's wallet makes the invoice for a request that it accepted and
\* that names its offer.
SendInvoice(expiry, sign) ==
    LET q == got["request"].fields
        o == sent["offer"].fields
        fields == [t \in DOMAIN InvoiceSchema |-> InvoiceField(q, o, expiry, t)]
        made == [fields |-> fields,
                 root   |-> MerkleRoot(records(InvoiceSchema, fields))]
        i == IF sign THEN Signed(made, invSigType, Issuer, "invoice") ELSE made
    IN  /\ got["request"].ok
        /\ q[invReqOfferIDType] = <<sent["offer"].root>>
        /\ ValidateInvoice(i)
        /\ Sends("invoice", i, {}, EncodeInvoice(i))

\* The payer reads the invoice.
ReadInvoice ==
    /\ transit.kind = "invoice"
    /\ \E last \in Last(Types(transit.data)) :
          Reads("invoice",
                Accepted("invoice", DecodeInvoice(transit.data, last)))

\* The two wallets are done with each other.
StartOver ==
    /\ sent # [k \in Artefacts |-> NotSent]
    /\ sent' = [k \in Artefacts |-> NotSent]
    /\ transit' = Nothing
    /\ got' = [k \in Artefacts |-> NotRead]
    /\ changes' = 0

-----------------------------------------------------------------------------
(***************************************************************************)
(* What may happen on the way.                                             *)
(***************************************************************************)
Without(s, i) == SubSeq(s, 1, i - 1) \o SubSeq(s, i + 1, Len(s))
Inserted(s, i, e) == SubSeq(s, 1, i - 1) \o e \o SubSeq(s, i, Len(s))

\* What may be written between two letters: joins, with whitespace or not, and
\* what looks like them.
Joins == {<<Plus>>, <<Plus, Space>>, <<Space>>, <<Plus, Plus>>,
          <<Plus, Space, Plus>>, <<Space, Plus>>}

\* What the bytes of a record may be replaced by: a signature also by that of
\* another artefact.
Replacements(t) ==
    Changes(t) \cup
        (IF t = signatureType
         THEN {sent[k].fields[t] : k \in {k \in Artefacts : sent[k] # NotSent}}
         ELSE {})

OnTheWay(data) ==
    /\ got[transit.kind] = NotRead
    /\ changes < MaxChanges
    /\ transit' = [transit EXCEPT !.data = data]
    /\ changes' = changes + 1
    /\ UNCHANGED <<sent, got>>

\* A string is split into parts, spaced out, put into upper case as a whole or
\* at one letter, or cut off.
Rewrite ==
    LET text == transit.data
        Raise(c) == IF IsLetter(c) THEN [c EXCEPT !.upper = TRUE] ELSE c
    IN  /\ transit.kind = "offer"
        /\ \/ \E i \in 1..(Len(text) + 1), j \in Joins :
                 OnTheWay(Inserted(text, i, j))
           \/ OnTheWay([i \in DOMAIN text |-> Raise(text[i])])
           \/ \E i \in DOMAIN text :
                 IsLetter(text[i]) /\ OnTheWay([text EXCEPT ![i] = Raise(@)])
           \/ \E i \in 0..(Len(text) - 1) : OnTheWay(SubSeq(text, 1, i))

\* A record of a stream is changed, lost or added.
Change ==
    LET stream == transit.data
    IN  /\ transit.kind \in {"request", "invoice"}
        /\ \/ \E i \in DOMAIN stream : \E v \in Replacements(stream[i].type) :
                 OnTheWay([stream EXCEPT ![i] = Record(stream[i].type, v)])
           \/ \E i \in DOMAIN stream : OnTheWay(Without(stream, i))
           \/ \E t \in DOMAIN Schema(transit.kind) \ Types(stream) :
                 \E v \in Replacements(t) :
                    OnTheWay(SortRecords(
                        {stream[i] : i \in DOMAIN stream} \cup {Record(t, v)}))

\* The same for a record in the data of a string.
ChangeData ==
    LET text == transit.data
    IN  /\ transit.kind = "offer"
        /\ \E i \in {i \in DOMAIN text : text[i].tag = "data"} :
              \/ \E v \in Replacements(text[i].record.type) :
                    OnTheWay([text EXCEPT ![i].record =
                                 Record(text[i].record.type, v)])
              \/ OnTheWay(Without(text, i))

Next ==
    \/ \E o \in Offers : IssueOffer(o)
    \/ ReadOffer \/ ReadRequest \/ ReadInvoice
    \/ \E a \in Amounts, n \in Quantities, note \in Notes :
          RequestInvoice(a, n, note)
    \/ \E e \in Expiries, s \in BOOLEAN : SendInvoice(e, s)
    \/ Rewrite \/ Change \/ ChangeData
    \/ StartOver

Spec == Init /\ [][Next]_vars

-----------------------------------------------------------------------------
(***************************************************************************)
(* Properties.                                                             *)
(***************************************************************************)

\* Fields hold values of their kind; a number, hash or feature vector that is
\* zero is Unset, so that records() leaves it out.
TypeOK ==
    /\ transit.kind \in Artefacts \cup {"none"}
    /\ changes \in 0..MaxChanges
    /\ \A k \in Artefacts :
          /\ sent[k] # NotSent => DOMAIN sent[k].fields = DOMAIN Schema(k)
          /\ got[k].ok =>
                /\ DOMAIN got[k].fields = DOMAIN Schema(k)
                /\ \A t \in DOMAIN Schema(k) :
                      Schema(k)[t] \in {"hash", "features", "tu64", "uint64"}
                          => got[k].fields[t] # <<Num(0)>>

\* CalculateRoot's queue builds the tree of the reference, level by level, for
\* every artefact on its way: no branch is lost, used twice or combined with
\* one of another level before its turn.
RootIsTree ==
    \A k \in Artefacts :
        transit.kind = k =>
            sent[k].root =
                TreeRoot(CreateTLVBranches(CreateTLVLeaves(
                    records(Schema(k), sent[k].fields) \cup sent[k].foreign)))

\* The bytes of a field, none if it is not set.
Shown(k, fields, t) ==
    IF fields[t] = Unset THEN <<>> ELSE Write(Schema(k)[t], fields[t])
SameFields(k) ==
    \A t \in DOMAIN Schema(k) :
        Shown(k, got[k].fields, t) = Shown(k, sent[k].fields, t)

\* A signed artefact that its reader accepts has the fields that its author
\* signed, whatever happened to its records on the way and whatever records
\* foreign authors put in: the root that is verified covers all the fields.
NothingAltered ==
    \A k \in Artefacts :
        got[k].ok =>
            (got[k].fields[signatureType] # Unset => SameFields(k))

\* A string is well joined as the test vectors of DecodeOfferStr say: "+ can
\* join anywhere", "+ can be followed by whitespace", in one case.
WellJoined(text) ==
    /\ \A i \in DOMAIN text :
          /\ text[i] \in {Plus, Space} => 1 < i /\ i < Len(text)
          /\ text[i] = Plus => text[i - 1] \notin {Plus, Space}
          /\ text[i] = Space => text[i - 1] \in {Plus, Space}
    /\ \E upper \in BOOLEAN :
          \A i \in DOMAIN text : IsLetter(text[i]) => text[i].upper = upper

Lower(c) == IF IsLetter(c) THEN [c EXCEPT !.upper = FALSE] ELSE c

\* What is on its way is what the author sent, but for joins and case.
Stream(k) == SortRecords(records(Schema(k), sent[k].fields)
                             \cup sent[k].foreign)
Unchanged(k) ==
    /\ transit.kind = k
    /\ IF k = "offer"
       THEN LET letters == Letters(transit.data)
            IN  /\ WellJoined(transit.data)
                /\ [i \in DOMAIN letters |-> Lower(letters[i])]
                       = Text(Stream(k))
       ELSE transit.data = Stream(k)

\* Fields that do not survive the encoding: an expiry at the epoch, and a
\* relative expiry that is not in whole seconds.
Representable(k) ==
    CASE k = "offer"   -> sent[k].fields[expiryType] # <<Num(0)>>
      [] k = "request" -> TRUE
      [] k = "invoice" ->
            Number(sent[k].fields[invRelativeExpiryType]) % Second = 0

\* What this library makes, signs and writes, and its own Validate accepts, is
\* accepted by the library at the other end, with the same fields and the same
\* root, also when an offer was split by joins or written in capitals.
OwnAccepted ==
    \A k \in Artefacts :
        /\ transit.kind = k /\ got[k] # NotRead
        /\ sent[k].foreign = {}
        /\ Validate(k, sent[k])
        /\ Representable(k)
        /\ Unchanged(k)
        => got[k].ok /\ got[k].root = sent[k].root /\ SameFields(k)

\* A request that the issuer accepts, and that names the issuer's offer, asks
\* for an amount and a quantity that this offer allows, although the issuer
\* does not check them: the payer did, on the offer with that id.
RequestFitsOffer ==
    LET q   == got["request"].fields
        o   == sent["offer"].fields
        min == Number(o[quantityMinType])
        max == Number(o[quantityMaxType])
        n   == Number(q[invReqQuantityType])
    IN  got["request"].ok =>
          (q[invReqOfferIDType] = <<sent["offer"].root>> =>
             /\ Number(q[invReqAmountType]) >= Number(o[amountType])
             /\ min # 0 => min <= n
             /\ max # 0 => n <= max
             /\ min = 0 /\ max = 0 => n = 0)

\* "we include odd unknown records that were parsed but not understood ... in
\* our tree" (decodeMerkleRoot): the root of an offer that was accepted as it
\* was sent is the root that its author computed.
UnknownIncluded ==
    Unchanged("offer") /\ got["offer"].ok => got["offer"].root = sent["offer"].root
=============================================================================
