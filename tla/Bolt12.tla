------------------------------- MODULE Bolt12 --------------------------------
(***************************************************************************)
(* Bolt 12 offers, invoice requests and invoices as tlv streams            *)
(* (lnwire/bolt12_offer.go, bolt12_invoice_request.go, bolt12_invoice.go,  *)
(* bolt12_shared.go, tu64.go).                                             *)
(*                                                                         *)
(* An artefact is [fields, root]. Its fields are a function from the types *)
(* of its records to values: Unset is Go's zero value (a nil pointer, an   *)
(* empty string, the zero hash, number or time), other values are one      *)
(* term. A schema gives the kind of each type, by which a field is written *)
(* and read. A stream is the sequence of its records.                      *)
(***************************************************************************)
EXTENDS Merkle

CONSTANT Second    \* the units of time.Duration in a second

ASSUME SecondAssumption == Second \in Nat \ {0}

Unset == <<>>
Number(v) == IF v = Unset THEN 0 ELSE v[1].n
Value(n) == IF n = 0 THEN Unset ELSE <<Num(n)>>

-----------------------------------------------------------------------------
(***************************************************************************)
(* The codec of one record, by kind of field:                              *)
(*   hash, bytes, features, uint64 - written as they are;                  *)
(*   tu64     - zero takes no bytes; read only if it is minimal;           *)
(*   expiry   - a time, as the tu64 of its seconds since the epoch;        *)
(*   time     - a time, as a uint64;                                       *)
(*   duration - as the uint64 of its whole seconds;                        *)
(*   xonly, point - a public key, without and with its parity;             *)
(*   signature - 64 bytes.                                                 *)
(***************************************************************************)

\* The bytes of the record of a field that is set.
Write(kind, v) ==
    CASE kind \in {"tu64", "expiry"} -> Value(v[1].n)
      [] kind = "duration"           -> <<Num(v[1].n \div Second)>>
      [] kind = "xonly"              -> <<XOnly(v[1])>>
      [] OTHER                       -> v

\* The bytes can be read: decodeTU64 wants a length of 1 to 8 bytes and no
\* leading zero, a key has to be on the curve, other kinds have a fixed length
\* or, for features, a length of their own.
Readable(kind, bytes) ==
    CASE kind \in {"tu64", "expiry"} -> bytes # <<>> /\ bytes # <<Num(0)>>
      [] kind \in {"xonly", "point"} -> bytes # <<>> /\ bytes[1].tag = "key"
      [] kind = "bytes"              -> TRUE
      [] OTHER                       -> bytes # <<>>

\* Fault: a record that is present and zero counts as a field that is set.
Read_KeepsZero(kind, bytes) ==
    IF kind = "duration" THEN Value(bytes[1].n * Second) ELSE bytes

\* The field for the bytes: a hash, a number or a feature vector that is zero
\* is as good as none, a time is not.
Read(kind, bytes) ==
    CASE kind = "duration" -> Value(bytes[1].n * Second)
      [] kind \in {"hash", "features", "uint64"} /\ bytes = <<Num(0)>> -> Unset
      [] OTHER -> bytes

-----------------------------------------------------------------------------
(***************************************************************************)
(* Artefacts.                                                              *)
(***************************************************************************)
Failed == [ok |-> FALSE]

\* The records() of an artefact: one for each field that is set.
records(schema, fields) ==
    {Record(t, Write(schema[t], fields[t])) :
        t \in {t \in DOMAIN schema : fields[t] # Unset}}

Encode(schema, fields) == SortRecords(records(schema, fields))

\* tlv.Stream: the types of a stream increase.
Canonical(stream) ==
    \A i \in 1..(Len(stream) - 1) : stream[i].type < stream[i + 1].type

Types(stream) == {stream[i].type : i \in DOMAIN stream}
BytesOf(stream, t) ==
    stream[CHOOSE i \in DOMAIN stream : stream[i].type = t].bytes

\* DecodeWithParsedTypes: the types of the stream, with the bytes of those
\* that the schema does not have.
ParsedTypes(schema, stream) ==
    [t \in Types(stream) |->
        IF t \in DOMAIN schema THEN <<>> ELSE BytesOf(stream, t)]

\* tlv.Stream: a type that the schema does not have must be odd.
UnknownEven(schema, stream) ==
    \E t \in Types(stream) \ DOMAIN schema : t % 2 = 0

\* The root over the fields that were decoded, written again, and the records
\* that were not known.
decodeMerkleRoot(schema, fields, tlvMap, last) ==
    MerkleRoot(records(schema, fields) \cup
               unknownRecordsFromParsed(tlvMap, last))

\* The artefact of a stream, if it can be read; last is the type that the
\* iteration over the map of parsed types ends with.
Decode(schema, stream, last) ==
    LET known  == Types(stream) \cap DOMAIN schema
        fields == [t \in DOMAIN schema |->
                      IF t \in known THEN Read(schema[t], BytesOf(stream, t))
                      ELSE Unset]
        root   == decodeMerkleRoot(schema, fields,
                                   ParsedTypes(schema, stream), last)
    IN  IF \/ ~Canonical(stream) \/ UnknownEven(schema, stream)
           \/ \E t \in known : ~Readable(schema[t], BytesOf(stream, t))
           \/ root = ErrNoTLVs
        THEN Failed
        ELSE [ok |-> TRUE, fields |-> fields, root |-> root]

\* A signature over the artefact's root is by the key given.
SignedBy(a, sig, key, messageTag) ==
    validateSignature(sig[1], key[1], signatureDigest(messageTag, a.root))

-----------------------------------------------------------------------------
(***************************************************************************)
(* Offers.                                                                 *)
(***************************************************************************)
chainType       == 2
amountType      == 8
descriptionType == 10
featuresType    == 12
expiryType      == 14
issuerType      == 20
quantityMinType == 22
quantityMaxType == 24
nodeIDType      == 30
signatureType   == 240

OfferSchema ==
    [t \in {chainType, amountType, descriptionType, featuresType, expiryType,
            issuerType, quantityMinType, quantityMaxType, nodeIDType,
            signatureType} |->
        CASE t = chainType -> "hash"
          [] t \in {amountType, quantityMinType, quantityMaxType} -> "tu64"
          [] t \in {descriptionType, issuerType} -> "bytes"
          [] t = featuresType -> "features"
          [] t = expiryType -> "expiry"
          [] t = nodeIDType -> "xonly"
          [] t = signatureType -> "signature"]

\* An offer need not be signed.
ValidateOffer(o) ==
    LET f   == o.fields
        min == Number(f[quantityMinType])
        max == Number(f[quantityMaxType])
    IN  /\ f[nodeIDType] # Unset
        /\ f[descriptionType] # Unset
        /\ ~(min # 0 /\ max # 0 /\ min > max)
        /\ f[signatureType] # Unset =>
              SignedBy(o, f[signatureType], f[nodeIDType], "offer")

EncodeOffer(o) == Encode(OfferSchema, o.fields)
DecodeOffer(stream, last) == Decode(OfferSchema, stream, last)

-----------------------------------------------------------------------------
(***************************************************************************)
(* Invoice requests.                                                       *)
(***************************************************************************)
invReqChainType     == 3
invReqOfferIDType   == 4
invReqAmountType    == 8
invReqFeaturesType  == 12
invReqQuantityType  == 32
invReqPayerKeyType  == 38
invReqPayerNoteType == 39
invReqPayerInfoType == 50
invReqSignatureType == 240

InvoiceRequestSchema ==
    [t \in {invReqChainType, invReqOfferIDType, invReqAmountType,
            invReqFeaturesType, invReqQuantityType, invReqPayerKeyType,
            invReqPayerNoteType, invReqPayerInfoType, invReqSignatureType} |->
        CASE t \in {invReqChainType, invReqOfferIDType} -> "hash"
          [] t \in {invReqAmountType, invReqQuantityType} -> "tu64"
          [] t = invReqFeaturesType -> "features"
          [] t = invReqPayerKeyType -> "xonly"
          [] t \in {invReqPayerNoteType, invReqPayerInfoType} -> "bytes"
          [] t = invReqSignatureType -> "signature"]

\* Fault: a quantity above the maximum is not noticed.
RequestAllowed_NoMaximum(o, amount, quantity) ==
    LET min == Number(o.fields[quantityMinType])
        max == Number(o.fields[quantityMaxType])
    IN  /\ amount >= Number(o.fields[amountType])
        /\ min # 0 => quantity >= min
        /\ ~(min # 0 /\ max # 0) => quantity = 0

\* The checks of NewInvoiceRequest against the offer.
RequestAllowed(o, amount, quantity) ==
    LET min == Number(o.fields[quantityMinType])
        max == Number(o.fields[quantityMaxType])
        specified == min # 0 /\ max # 0
    IN  /\ amount >= Number(o.fields[amountType])
        /\ specified => quantity # 0
        /\ min # 0 => quantity >= min
        /\ max # 0 => quantity <= max
        /\ ~specified => quantity = 0

\* NewInvoiceRequest, with its merkle root and no signature yet.
NewInvoiceRequest(o, amount, quantity, payerKey, payerNote) ==
    LET fields == [t \in DOMAIN InvoiceRequestSchema |->
            CASE t = invReqChainType     -> o.fields[chainType]
              [] t = invReqOfferIDType   -> <<o.root>>
              [] t = invReqAmountType    -> Value(amount)
              [] t = invReqFeaturesType  -> o.fields[featuresType]
              [] t = invReqQuantityType  -> Value(quantity)
              [] t = invReqPayerKeyType  -> <<payerKey>>
              [] t = invReqPayerNoteType -> payerNote
              [] OTHER                   -> Unset]
    IN  [fields |-> fields,
         root   |-> MerkleRoot(records(InvoiceRequestSchema, fields))]

ValidateInvoiceRequest(r) ==
    LET f == r.fields
    IN  /\ f[invReqOfferIDType] # Unset
        /\ f[invReqPayerKeyType] # Unset
        /\ f[invReqSignatureType] # Unset
        /\ SignedBy(r, f[invReqSignatureType], f[invReqPayerKeyType],
                    "invoice_request")

EncodeInvoiceRequest(r) == Encode(InvoiceRequestSchema, r.fields)
DecodeInvoiceRequest(stream, last) ==
    Decode(InvoiceRequestSchema, stream, last)

-----------------------------------------------------------------------------
(***************************************************************************)
(* Invoices.                                                               *)
(***************************************************************************)
invChainType          == 3
invOfferIDType        == 4
invAmountType         == 8
invDescType           == 10
invFeatType           == 12
invNodeIDType         == 30
invQuantityType       == 32
invPayerKeyType       == 38
invPayerNoteType      == 39
invCreatedAtType      == 40
invPaymentHashType    == 42
invRelativeExpiryType == 44
inCLTVType            == 46
invPayerInfoType      == 50
invSigType            == 240

InvoiceSchema ==
    [t \in {invChainType, invOfferIDType, invAmountType, invDescType,
            invFeatType, invNodeIDType, invQuantityType, invPayerKeyType,
            invPayerNoteType, invCreatedAtType, invPaymentHashType,
            invRelativeExpiryType, inCLTVType, invPayerInfoType,
            invSigType} |->
        CASE t \in {invChainType, invOfferIDType, invPaymentHashType} -> "hash"
          [] t \in {invAmountType, invQuantityType} -> "tu64"
          [] t \in {invDescType, invPayerNoteType, invPayerInfoType} -> "bytes"
          [] t = invFeatType -> "features"
          [] t \in {invNodeIDType, invPayerKeyType} -> "point"
          [] t = invCreatedAtType -> "time"
          [] t = invRelativeExpiryType -> "duration"
          [] t = inCLTVType -> "uint64"
          [] t = invSigType -> "signature"]

\* An invoice need not be signed.
ValidateInvoice(i) ==
    LET f == i.fields
    IN  /\ f[invAmountType] # Unset
        /\ f[invPaymentHashType] # Unset
        /\ f[invCreatedAtType] # Unset
        /\ f[invNodeIDType] # Unset
        /\ f[invDescType] # Unset
        /\ f[invSigType] # Unset =>
              SignedBy(i, f[invSigType], f[invNodeIDType], "invoice")

EncodeInvoice(i) == Encode(InvoiceSchema, i.fields)
DecodeInvoice(stream, last) == Decode(InvoiceSchema, stream, last)
=============================================================================
