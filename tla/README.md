# A TLA+ model of boltnd

boltnd runs next to lnd and adds BOLT 12 onion messages to it: it sends onion
messages, forwards those of others, hands the payloads that are meant for this
node to its clients, and offers a gRPC api for all that. This directory holds
TLA+ modules for the parts of it that keep state, build protocol messages or read
those of others, TLC configurations for them, and TLAPS proofs, for instances of
any size, of all the invariants that TLC checks, of the action properties and of
the refinements.

## 1. Inventory

### Onion messenger: life cycle, registration, event loop (`onionmsg/messenger.go`)

- *State.* The atomics `started` and `stopped`, the `quit` channel, the sphinx
  router, a `WaitGroup`, the unbuffered channel `handlerRegistration`, and
  `onionMsgHandlers`, a map that only the event loop touches.
- *Operations.* `Start`, `Stop`, `RegisterHandler`, `DeregisterHandler`; the
  goroutine `manageOnionMessages` selects among custom messages from lnd,
  errors of that stream, registration requests and `quit`.
- *Hard.* Four kinds of goroutines meet in that select; the loop may die when
  lnd's stream ends while callers are still offering requests; `Stop` may
  overlap `Start`; a caller may leave on `quit` just as its answer is written.
- *Correct when* no request is forgotten or answered to somebody else, no
  handler is silently replaced, `Stop` joins the loop before it stops the
  router, the loop never disappears without anybody being told, and all calls
  return.

### Onion messenger: sending and forwarding (`onionmsg/messenger.go`, `routes/blinded.go`)

- *State.* None of its own between calls; a call of `SendMessage` remembers its
  path and its lookup attempts. The state that matters is lnd's connections and
  the messages in transit.
- *Operations.* `SendMessage`, `multiHopPath`, `lookupAndConnect`, `findPeer`,
  `CreateBlindedRoute`; and, on each node that a message passes,
  `handleOnionMessage`, `processOnion`, `decryptDataBlob`, `forwardMessage`.
- *Hard.* The ephemeral key has to be switched exactly where our hops meet those
  of a blinded path; a one-hop path takes a separate way through the code;
  connections change between a lookup and the send that relies on it.
- *Correct when* every hop can open what was built for it, the message arrives
  at the intended node, once and intact, and replies come back.

### Rpc server and payload subscriptions (`rpcserver/server.go`, `rpcserver/impl_subscribe_onion_payload.go`)

- *State.* `started`, `stopped`, `quit`, `ready`, `onionMsgr`; per stream its
  context, its channel `incomingMessages` of capacity one, and its handler in
  the messenger's map.
- *Operations.* `Start`, `Stop`, `waitForReady`, `SubscribeOnionPayload` with
  its handler, which the messenger's event loop runs.
- *Hard.* A stream waits for the event loop (to deregister) while the event loop
  may wait for that stream (in its handler); streams cancel, fail and are
  stopped at any point; clients stop reading.
- *Correct when* handlers belong to streams that are alive, payloads are neither
  lost, repeated nor reordered, and stopping the server always succeeds.

### Blinded routes to ourselves (`routes/blinded.go`, `rpcserver/impl_generate_blinded_route.go`)

Reads our channels and lnd's graph one call after another, and picks the relay
with the most channels as introduction node. *Hard:* the graph changes under it.
*Correct when* the choice is the best among the answers it was given, and a
failure is explained by them.

### Boltnd instance (`boltnd.go`)

Connects to lnd with retries, starts and stops the rpc server. *Hard:* the bound
of the retry loop is computed in eight bits; `Stop` may come while `Start` is
retrying. *Correct when* all attempts are made before giving up and no
connection outlives a `Stop`.

### Onion message payloads (`lnwire/onion_msg_payload.go`)

Encoding and decoding of the final hop's payloads and of reply paths; no state.
*Hard:* a reply path's hops are counted in one byte; types without a body and
unknown even types take ways of their own. *Correct when* what arrives is what
was sent, or the sender is told.

### Bolt 12 artefacts (`lnwire/bolt12_*.go`, `lnwire/tu64.go`)

- *State.* None. An offer, invoice request or invoice is a Go struct that is
  written as a tlv stream, read, and validated. Its merkle root, over the records
  that it would be written with and those that the reader did not know, is its
  id and what is signed.
- *Operations.* `Encode...`, `Decode...`, `Validate` of the three,
  `NewInvoiceRequest`, `MerkleRoot` with `CreateTLVLeaves`, `CreateTLVBranches` and
  `CalculateRoot`, `unknownRecordsFromParsed`, `signatureDigest`,
  `validateSignature`.
- *Hard.* The root is computed over fields that were read and written again, so
  reading and writing must be inverse to the last bit; zero values mean "not
  set"; records change on the way; one side checks what the other relies on.
- *Correct when* both sides compute the same root, nothing that was signed can be
  changed, and a request that is accepted fits the offer.

### Offer strings (`offers/`, `rpcserver/impl_decodeoffer.go`)

An offer string may be split by `+` and whitespace and be in capitals.
`DecodeOffer` undoes that, reads the bech32 data and hands it to `lnwire`. No
state. *Correct when* an offer is read as it was written however it was split.

### Not modelled

- The generated rpc code, permissions, logging and test support carry no logic of
  their own. Configuration options of `boltnd.go` only pass values on.
- The formatting of rpc responses, and byte layouts: bech32's alphabet, varints,
  the nesting of records. They are conversions that unit tests with vectors reach.
- Cryptography: keys, hashes and signatures are symbols.
- Relative expiries beyond the range of `time.Duration`, 292 years.

How the parts interact: `Boltnd.Start` calls `Server.Start`, which creates the
messenger and calls `Messenger.Start`; `Stop` runs down the same chain. A stream
calls `RegisterHandler` and `DeregisterHandler`, which are requests over a
channel to the event loop; the event loop calls the stream's handler, which
writes to the stream's channel. `SendOnionMessage` calls `SendMessage`, which
calls `CreateBlindedRoute` and lnd. `DecodeOffer` calls `DecodeOfferStr` and that
`lnwire.DecodeOffer`; requests and invoices are a library for wallets, which so
far are not part of boltnd.

## 2. Modules

| Module | Models | Built on |
| --- | --- | --- |
| `Messenger` | life cycle, registration and event loop of the messenger | |
| `RpcServer` | server life cycle and subscription streams, composed with the messenger | `Messenger` |
| `BlindedRoutes` | `CreateBlindedRoute`, payload rules, a symbolic sphinx | |
| `OnionNetwork` | sending, forwarding and receiving in a network of nodes | `BlindedRoutes` |
| `PayloadBus` | abstract: what subscribers are promised; implemented by `RpcServer` | |
| `Delivery` | abstract: what senders are promised; implemented by `OnionNetwork` | |
| `Merkle` | merkle roots and signatures | |
| `Bolt12` | the three artefacts: writing, reading, validation, `NewInvoiceRequest` | `Merkle` |
| `OfferExchange` | offer strings, and an issuer and a payer who use the library | `Bolt12` |
| `RelayPeers` | the choice of an introduction node | |
| `Boltnd` | retries, start and stop of an instance | |
| `MC...` | the instances that TLC checks | |
| `MessengerProofs` | the event loop and registration: inductive invariant, theorems | `Messenger` |
| `RpcServerProofs` | server and streams as users of the messenger | `RpcServer`, `MessengerProofs` |
| `RpcDeliveryProofs` | what streams are sent; `RpcServer` implements `PayloadBus` | `RpcServerProofs` |
| `OnionNetworkProofs` | routes and their hops, for every length; the network's invariants | `OnionNetwork` |
| `DeliveryProofs` | `OnionNetwork` implements `Delivery` | `OnionNetworkProofs` |
| `RelayPeersProofs` | the choice of an introduction node | `RelayPeers` |
| `BoltndProofs` | an instance's life cycle | `Boltnd` |
| `OfferExchangeProofs` | merkle roots, codecs and the exchange | `OfferExchange` |

A definition whose name ends in `_Something` and whose comment begins with
"Fault:" is not part of any specification. It is a wrong version of the
definition after it, and shows that a property can tell the two apart: replacing
the one by the other makes TLC report the property violated.

### `Messenger`

Every compare-and-swap, channel operation and call into another component is a
step of its own. `startPc` and `stopPc` say where each call of `Start` and `Stop`
is; `loopPc` where the event loop is: `select`, serving a request
(`register`), in `processOnion` (`process`), in the loop over the final payloads
(`dispatch`), in `forwardMessage` (`forward`), or on its way out (`exit`). `call`
holds each caller's call of `RegisterHandler` or `DeregisterHandler`: `deliver`
is the first select of `handleRegistration`, `wait` the second one. The send on
the unbuffered channel and its reception are one step, `LoopReceive`. `errChan`
has one slot, so writing the response (`LoopRegister`) never blocks; closing the
channel after success is the response `ok`.

A custom message is reduced to its type, whether the packet is bad, ours or to be
forwarded, and the types of its final payloads. What a handler does is open:
`HandlerReturns` answers with success or failure.

### `RpcServer`

A stream plays the role of a caller of `Messenger`. `Server.Start` and
`Server.Stop` take the steps of `Messenger.Start` and `Messenger.Stop` on the way.
The handler of the rpc replaces the open `HandlerReturns`: `HandlerAccepts` needs
room in the stream's channel, `HandlerFails` a context that is done or the
server's `quit`; when neither holds, the loop is blocked in the handler, and so
is the model. Payloads carry the number of the message they came with, so that
order, loss and repetition can be told.

The context of a stream is gRPC's: it is done when the client cancels, when a
`Send` has failed, and when the rpc returns. The second of these matters: a
stream that leaves its loop after a failed `Send` waits for the event loop, which
may be waiting in that very stream's handler, and only the context lets it go.

`PayloadBus` is what is left of it for a client: a type has at most one owner;
messages arrive; a payload of the newest message is put into its owner's queue,
taken from its front, or lost from there. `ImplementsBus` maps the owner to the
messenger's map of handlers, a queue to the payload in `Send` followed by the
stream's channel, and what was taken to what was sent. The loop, the
registration requests and the server's own state are hidden.

### `BlindedRoutes` and `OnionNetwork`

Sphinx is symbolic. An ephemeral key is the key a path was built from and the
nodes that have since applied `NextEphemeral` to it; what is blinded or encrypted
for a node under a key can be opened by that node under that key and no other.
`createPathToBlind`, `blindedToSphinx`, `directToBlinded` and
`createOnionMessage` follow the functions of the same names; a path longer than
sphinx's array of hops panics, as in the code. Payload encoding is modelled by
what it refuses (types below 64, reply paths without hops), decoding by what it
fails on (unknown even types) and what it skips (unknown types without a body).
That an unknown even type is an error, here and in `Bolt12`, is done by lnd's tlv
package and taken from what this code says of it (`lnwire/onion_msg_payload.go:128`,
`lnwire/bolt12_shared.go:62`).
A reply path is written with a count of its hops of `CountBits` bits, eight in
the code, and as many are read. That a wrapped count never travels is sphinx's
doing, not this code's: an onion has no room for that many hops (`Fits`).

All nodes run boltnd. `send` follows the calls of `SendOnionMessage` through
`waitForReady` (a call may give up there: `unready`), their checks, the route query or the lookup and connection with its bounded
polling, to `Dispatch`. `HandleOnionMessage` is what one node does with one
message: consume it, forward it, or drop it for the first reason the code finds
(`Rejected`). Connections go up and down at any time; what is in transit on one is
lost with it. Each call to lnd may fail. Of others the model assumes two things:
a route that lnd finds leads to the node that was asked for (`LndAssumption`), and a
client that passes the checks hands in blinded paths that their makers' nodes can
follow, its reply path ending at itself (`ClientsAssumption`). boltnd can check
neither.

`Delivery` hides all of that: a call is refused or makes a parcel for one node,
which is posted, and then delivered there, once, with nothing in it that was not
put in, or lost. `ImplementsDelivery` maps a parcel's place to where messages of
the call are found (`Where`); a message in two places at once, or in none
although the call succeeded, is no state of `Delivery`.

### `Merkle`, `Bolt12`, `OfferExchange`

Hashes are terms: two are equal exactly when what was hashed is. A branch is the
set of its two nodes, since `orderNodes` sorts them. `CalculateRoot` is the queue of
the code; `TreeRoot` is the reference it is compared with, built level by level.

The three artefacts differ in their types and in the codec of each type, so a
schema (`OfferSchema` and so on) names the codec, and `Write`, `Readable` and `Read`
say what each codec does: a truncated integer that is zero has no bytes and
cannot be read; a duration loses its fraction of a second; an offer's keys lose
their parity; and a hash, number or feature vector that is present but zero is
read as not set, and so is not written again when the root is computed.
`unknownRecordsFromParsed` has a second parameter, the type that Go's iteration over
the map visits last, since all records share the loop's variable; the actions that
decode choose it.

In `OfferExchange` an issuer publishes an offer (by this library, or by another one
with records of its own), a payer reads the string, makes a request, and is
sent an invoice. The wallets are the environment and do the least they can: in
particular the issuer checks only that a request is valid and names its offer.
A `DecodeOffer` that gives up in `waitForReady` has read nothing and is no step.
On the way, a string may be joined, spaced, capitalised or cut at any letter, and a
record may be changed, removed or added (`Changes`), also to the signature of another
artefact (`Replacements`). What changes may not do is make up a signature
(`ChangesAssumption`); and an author's own offer is unsigned before it is signed, sets
a field, and has at most one foreign record of a type (`OffersAssumption`). An offer
of this library, one without foreign records, holds what its Go types can: a zero is
the same as not set but for an expiry, whose zero `time.Time` is not the Unix time
zero, numbers are numbers and keys are keys (`OwnOffersAssumption`). The amounts,
quantities and expiries that the wallets choose are natural numbers
(`RequestsAssumption`).

### `RelayPeers`, `Boltnd`

`RelayPeers` steps through one call of `GenerateBlindedRoute`, which may give up in
`waitForReady`; each lookup may return anything about its peer, as the graph is live,
and the path may fail to be built once its introduction node is chosen. `Boltnd` computes the number
of attempts in eight bits, as the code does, names each connection by the attempt
that made it, and sees the rpc server from outside.

## 3. Runs

| Run | Shows |
| --- | --- |
| `messenger_safety` | Requests are served (`WaitersServed`), handlers are not replaced (`NoReplace`), `Stop` joins the loop before the router goes (`StopJoins`), the loop does not die unnoticed (`NoSilentDeath`). |
| `messenger_liveness` | `Stop` returns (`StopTerminates`) and is final: also when it overlaps or precedes `Start`, the loop is gone in the end (`StopIsFinal`). Registrations return while the loop runs and once `quit` is closed; a loop that died keeps them waiting until the owner calls `Stop` (`CallersReturn`). |
| `rpc_safety` | A receiving stream owns its type (`Ownership`), no handler outlives its stream (`NoOrphan`), payloads come in order and once (`InOrder`), none is lost but by a handler's error on the same message (`NoLoss`), `Server.Stop` leaves no event loop behind unless it overlapped `Start` (`StopQuiesces`). |
| `rpc_liveness` | `Server.Stop` returns even when a client has stopped reading (`StopReturns`) and, if there was a messenger to stop, is final (`ServerStopIsFinal`); streams that are cancelled, deregister or meet a stopped server end (`StreamsEnd`). |
| `onion_messages` | Every hop accepts its layer (`HopsAccept`), messages reach the right node, once (`RightRecipient`) and intact (`ArrivesIntact`), relays carry no payload (`OnlyLastHopCarries`), replies return (`RepliesComeBack`), calls return (`SendReturns`), messages do not circulate (`MessagesSettle`). |
| `relay_peers` | The introduction node is the best among the answers (`IntroIsBest`), failures have their reason (`FailureExplained`). |
| `boltnd_lifecycle` | All attempts are made (`RetriesExhausted`), no connection is lost track of (`NoLeakedConnection`), `Stop` after `Start` leaves nothing running (`StoppedClean`). |
| `bolt12_exchange` | The queue of `CalculateRoot` builds the tree (`RootIsTree`), what was signed cannot be altered (`NothingAltered`), the library accepts what it makes, however an offer was split (`OwnAccepted`), an accepted request fits the offer that it names although nobody checks that twice (`RequestFitsOffer`). |
| `rpc_buffer`, `onion_direct`, `boltnd_wrap`, `bolt12_unknown` | Disagreements between the code and its comments, see section 5. |

`rpc_safety` and `onion_messages` also check the refinements `ImplementsBus` and
`ImplementsDelivery`.

### Bounds

- `MessengerSafety`: two calls each of `Start` and `Stop` (the compare-and-swaps
  decide between two), two callers (they contend for one type), types 63, 64 and
  65 (both sides of the border, and two valid ones), one message for each way
  through `handleOnionMessage`. No counter is bounded. Callers, starters and
  stoppers are symmetric, and no property here is a temporal one that symmetry
  could spoil (`NoReplace` is an action property whose formula is symmetric).
- `MessengerLiveness`: one starter and stopper and one type, no symmetry. Two
  callers still compete for the loop.
- `RpcSafety`: two streams, two types, messages with one payload and with two, at
  most two of them (`MaxMessages`): one in the stream's channel and one in
  the handler. `RpcLiveness` needs three (one in `Send`, one in the channel, one in
  the blocked handler) and makes do with one stream.
- `OnionMessages`: a line of four nodes, `NumMaxHops` of four instead of sphinx's
  27, so that a path that does not fit is reached; one message and one
  reply; `LookupAttempts` of two instead of five, enough for a connection to come up
  before, between and after the looks. The requests cover clear and blinded
  destinations, paths of one to three hops, both ways of finding a path, and
  each reason to refuse a request. A hop count has two bits and an onion room for
  three hops of a reply path, so that paths of three, four (the count is zero) and
  five hops (the count is one) show all cases.
- `RelayPeers`: two peers and up to two channels, so that two channels may share
  a peer; degrees 0, 1, 2; a required, an optional and an overlong feature.
- `OfferExchange`: offers with ten records and with few, with both, either and
  none of the borders of a quantity range, with a range that is empty, without
  node id, and with an expiry at the epoch; the trees have from one to
  thirteen records over the three artefacts. Quantities 0 to 3 and amounts 1 and 2 are on
  both sides of the borders. One change in an exchange (`MaxChanges`); joins of up
  to three characters are inserted as one. A second has two units, so that an
  expiry of one unit is less than a second.
- `Boltnd`: 0, 1, 4 and 254 retries, up to the last value that does not wrap.

Deadlock is checked for the messenger and the network, which always have a step
left. It is not for the runs in which the instance may be over: every call
returned, all messages seen.

### Fairness

- A goroutine that can take a step takes it (weak fairness); calls to lnd return.
  Nothing in the code bounds `SendCustomMessage` in `forwardMessage`, whose context
  never ends: that it returns is an assumption.
- Go picks uniformly among the ready cases of a select and serves blocked senders
  in order. A case that is ready again and again is therefore taken: strong
  fairness for `quit` and for each request. Without it a steady flow of messages
  could keep the loop from ever noticing `quit`.
- Nothing is assumed of the owner of the messenger: `RequestShutdown` is optional
  (`config.go:48`), and without it a shutdown request is only logged
  (`boltnd.go:123`). When the loop has died, or `Start` has failed, registrations
  therefore wait until somebody calls `Stop`. The first half of `CallersReturn` says
  that nothing else can keep them waiting; the second half, that all of them return,
  has an owner who answers with `Stop` as its hypothesis (`OwnerFairness`).
- Nothing is assumed of clients in `StopReturns` and `ServerStopIsFinal`.
  `StreamsEnd` assumes that a client reads or goes away, and that a shutdown request
  is honoured; both are in the property itself.

## 4. Proofs

The theorems hold for every value of the constants that the modules' assumptions
allow: any number of goroutines, streams, nodes, channels, records, messages and
changes. Each invariant is a consequence of an inductive one, named `IndInv`
(`RpcInv` and `DeliveryInv` for `RpcServer`, and `ReadInv` besides `IndInv` for
`OfferExchange`), which is proved action by action. The
inductive invariants were checked with TLC on the runs' instances before they were
proved.

**`MessengerProofs`** rests on `ConstantsAssumption` alone (types are natural
numbers, `NoHandler` is not a caller, messages are well formed). It proves
`Invariance`, `TypeCorrect`, `RequestsServed`, `StopJoinsLoop`,
`LoopDeathIsReported`, and the action property `HandlersNeverReplaced`. That `wg`
stays in {0, 1} needs that `Start` gets past its compare-and-swap only once
(`OneStart`) and that the count is one exactly while the loop lives (`LoopCounted`).
`StopJoins` needs that a `Stop` past `wg.Wait` came after `Start` had returned
(`StopAfterStart`), so that no loop is spawned behind its back (`Joined`), and that
only such a `Stop` takes the router down (`RouterOrder`). `NoSilentDeath` needs what
the loop's error says on its way out, and `WaitersServed` that the request being
served is well formed (`LoopLocals`, `RequestsFormed`).

**`RpcServerProofs`** first shows that every step of the server and its streams is a
step of the messenger or leaves it alone (`MessengerStep`), so that the messenger's
`IndInv` holds here too. On top of it come `RpcTypeCorrect`, `StreamsOwnTheirType`, `NoHandlerLeftBehind` and
`ServerStopQuiesces`. The strengthening says which request a stream in each position
has made (`CallOfStream`, `RequestOfStream`), and that a handler in the table is
that of a stream which will deregister it (`HandlersOwned`): `NoOrphan` would
otherwise be lost in the window between the loop's answer and the stream's reading
it.

**`RpcDeliveryProofs`** proves `DeliveredInOrder` and `NothingIsLost`. What a stream
has sent, is sending and has in its channel is one ascending sequence;
`CurrentMessage` says that the message in the loop is later than all of it, as long
as its type is still to be dispatched, and which payloads are still owed.
`ServerImplementsBus` maps each action to a step of `PayloadBus` or to none
(`BusStep`).

**`OnionNetworkProofs`**: lemmas about `BlindedRoutes` show that every hop of a
route that `CreateBlindedRoute` made can open its layer, decrypt its data and find
the next key, whatever the number of clear and blinded hops (`RouteIsWellMade`);
likewise for the paths of `BuildBlindedPath` (`ReplyPathLeadsBack`). The invariant
carries that along the way: what is on the wire is a suffix of such a route
(`OnTrack`), with its sender's payloads (`AsSent`), in one place only (`OnePlace`).
From it follow `EveryHopAccepts`, `ReachesRecipient`, `ArrivesAsSent`,
`AnswersComeBack` and `OnlyLastCarries`. The hop count's width is a parameter; that
an onion has no room for a path whose count would wrap is assumed of sphinx
(`RoutesAssumption`).

**`DeliveryProofs`**: `NetworkImplementsDelivery`. From the same invariant, each
action moves at most one parcel, by a step of `Delivery` (`EveryStep`).

**`RelayPeersProofs`**: `TypeCorrect`, `BestIntroduction`, `FailuresAreExplained`.
The invariant relates the list `activePeers` to the answers so far (`FoundEligible`,
`AnswersMatch`); the loop of `buildBlindedRoute` finds a first maximum because there
is a least position among the maxima.

**`BoltndProofs`**: `TypeCorrect`, `ConnectionTracked` and `StopLeavesNothing` hold
for all retries, also those that wrap. `AllRetriesMade` has the hypothesis `NoWrap`,
that 255 retries are not asked for; without it the statement is false, as
`boltnd_wrap` shows. The invariant says that at most one attempt ever succeeds
(`OneConnection`), and only in the one `Start` that runs (`OneStart`,
`NotConnected`, `LoopLocals`), and what a `Stop` has left to do (`StopOrder`).

**`OfferExchangeProofs`** has three layers.

1. *Merkle.* `CalculateRootIsTree`: the queue gives the root of the tree that is
   built level by level, for every number of branches. The argument follows the
   queue through one level: after *j* rounds it holds what is left of the level,
   followed by the branches over the pairs that are gone (`Rounds`), and an odd node
   moves to the front. `RootCovers`: equal roots have equal records but for
   signatures.
2. *Codecs.* What is read from a stream has the fields of its schema, and its root
   is that of the records that were written, but for those that the reader drops.
   `ReadUndoesWrite`: what is written for a value that its Go type can hold (`Sound`)
   and that the codec does not round (`Kept`) can be read, and says the same. Hence
   `Decode` gives back what was encoded, field by field (`DecodeUndoesEncode`), and
   `Validate` at the other end sees what it saw at this one. `SplitsAreUndone`: of a
   text that is split as BOLT 12 allows, `stripOffer` takes away the joins and
   nothing else, since each space stands in an unbroken run after a plus
   (`JoinsAreTrimmed`, by the least one that does not).
3. *The exchange.* `TypeCorrect`, `RootsAreTrees`, `AlterationsRefused`,
   `RequestsFit`. The invariant says of everything that was made or read which key
   signed it, and of what is in transit that every signature in it is one that was
   made (`Genuine`): a reader who accepts one has computed the root that its author
   signed, and by `RootCovers` sees the same fields. `RequestFitsOffer` needs
   moreover that a request was made from an offer with the same root as the issuer's
   (`RequestFor`), so that the bounds that the payer checked are the issuer's.
   `OwnIsAccepted` needs `ReadInv`, on top of `IndInv`. It says that only what was
   sent is read, and read from the data that are still in transit, since changes
   happen before the reading only; and that what was made is sound. For an invoice
   the latter has to be carried through the exchange: its chain, amount, quantity,
   payer key and more are copied from a request that was read, and they are sound
   because that request's signature tells that they are the payer's own.

The provers cannot instantiate the library's induction theorems. Where an induction
over numbers is needed, a counterexample is assumed and the least one taken, which
exists by `WFMin` (`LeastNatural`).

Some definitions were rewritten to be reasoned about, with the same meaning: lists
that `SelectSeq` and `SortSeq` had made are described by what they contain and their
order, arms of `CASE` that overlapped are a chain of `IF`, and `Letters` is a
recursive function.

Only model-checked are the liveness properties `StopTerminates`, `CallersReturn`,
`StopIsFinal`, `StopReturns`, `ServerStopIsFinal`, `StreamsEnd`, `SendReturns` and
`MessagesSettle`: fairness is out of reach of the prover.

## 5. Disagreements between the code and its comments

Kept as runs that TLC refutes:

- `rpc_buffer`: the buffer of one does not keep the handler from blocking the
  event loop (`rpcserver/impl_subscribe_onion_payload.go:73` against 30).
- `onion_direct`: a message sent straight to the introduction node of a blinded path
  loses its reply path and payloads (`routes/blinded.go:699`, against
  `onionmsg/messenger.go:378`).
- `boltnd_wrap`: with 255 retries the number of attempts wraps to zero and `Start`
  dereferences nil (`boltnd.go:74` against 71).
- `bolt12_unknown`: the records for types that the decoder does not know share the
  loop's variable in `unknownRecordsFromParsed` (the module is built as go 1.17), so
  that an offer with one such record gets a root other than its author's, and a
  different one from call to call (`lnwire/bolt12_merkle.go:303` against
  `lnwire/bolt12_shared.go:65`). A signed one is then refused, most of the time;
  an unsigned one is accepted, and a request for it names an id that its issuer
  does not know.

Met while modelling, and part of the modules' behaviour, but not kept as runs:

- `handleOnionMessage` returns at the first handler that fails, so a cancelled
  stream can cost another stream its payload of the same message
  (`onionmsg/messenger.go:876` against the comment at 859); `NoLoss` excepts such
  messages (`aborted`).
- A quantity counts as specified only if an offer has both a minimum and a maximum
  (`lnwire/bolt12_invoice_request.go:141`): an offer with a minimum alone can never
  be requested, one with a maximum alone only without a quantity, although
  `ErrNoQuantity` (73) speaks of offers "with no quantity tlvs specified":
  `RequestAllowed`.
- A part of an offer string that is whitespace alone is accepted, as in a string
  that ends in `+` and a space, since parts are tested for emptiness before they are
  trimmed (`offers/bech32.go:125`, 133; the comment at 116 says that joins are
  "surrounded by bech32 characters"): `stripOffer`.
- Records that are present and zero, or unknown and empty, are not part of the root
  that a reader computes, so a signed artefact with one is refused
  (`lnwire/bolt12_merkle.go:294`): `Read`, `unknownRecordsFromParsed`.
- An offer that expires at the epoch, and an invoice whose relative expiry is less
  than a whole second, are not read as they were written
  (`lnwire/bolt12_offer.go:150`, `lnwire/bolt12_invoice.go:264`): `Representable`.
- The queue of `CalculateRoot` puts a node that is left over in front of the next
  level. For five and seven records, and others, that is not the tree of BOLT 12,
  which leaves it at the end; the reference `TreeRoot` follows the code.
- A payload of an unrecognised odd type without a body is encoded and then dropped by
  the decoder (`lnwire/onion_msg_payload.go:170`), although `Validate` means to allow
  "marker-tlvs" without a body (234): `DecodedFinal`. `ArrivesIntact` and
  `PayloadsArrive` say nothing of such payloads.
- With `DirectConnect`, no route is queried even when one exists
  (`onionmsg/messenger.go:380`, 403): `SendOnionMessage`.
- `ErrNoChannels` is also returned when there are channels and none is active
  (`routes/blinded.go:19`, 174): `ListChannels`. `FailureExplained` says nothing of
  this error.
- `Server.Stop` between the beginning of `Server.Start` and the creation of the
  messenger finds no messenger, and `Start` brings one up that nobody stops
  (`rpcserver/server.go:104`, 117): `StopMissed`.
- The same in `boltnd.go` (74, 103): a `Stop` during the retries has no connection
  to close (`raced`), and `StoppedClean` leaves it out.
- A `Messenger.Stop` that overlaps `Start` may pass `wg.Wait` before the loop is
  counted (`stopRaced`), and return, and stop the router, while the loop is still to
  run. `StopJoins` and `StopQuiesces` leave this window out; that the loop
  goes in the end is `StopIsFinal` and `ServerStopIsFinal`.

## 6. Plan

1. *Done:* `Messenger`, `RpcServer`, `BlindedRoutes`, `OnionNetwork`, `RelayPeers`,
   `Boltnd`; the abstract specifications `PayloadBus` and `Delivery` with their
   refinements; `Merkle`, `Bolt12`, `OfferExchange`; theorems for all safety
   properties of all of them, and for both refinements.
2. *Left:* the hazards of `PROJECT.json` that no property covers, each with its reason
   there. Some lie outside of this code: a call that lnd does not answer, the size of
   sphinx's array, the width of `time.Duration`. The others are what the code does,
   reproduced by the models and described in section 5 or in the hazard's note; a
   property for one of them belongs here once the code or its documentation says
   what is meant.
