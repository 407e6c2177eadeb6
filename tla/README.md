# TLA+ models of omni-transaction-rs

The library builds transactions for Bitcoin, Ethereum and NEAR inside NEAR
contracts (wasm32) and Rust clients (64-bit hosts). It keeps no state of its
own, starts no thread and signs nothing. What is hard about it is elsewhere:

- a transaction is a mutable value that is filled in over a *session* with a
  signer that answers later and in any order, and a payload handed to the signer
  commits to the transaction as it was at that moment;
- its byte formats are ambiguous unless every count, tag and marker is right,
  and its decoders read lengths they must not believe;
- numbers are narrowed (`u64` to `usize`, `u64` to `u32`) at boundaries.

Paths below are relative to the repository root; `src/bitcoin/...` is the crate.

## Inventory

| Component | State | Operations | What makes it correct |
|---|---|---|---|
| `BitcoinTransaction` (`bitcoin_transaction.rs`) | version, lock_time, inputs (previous_output, script_sig, sequence, witness), outputs; all public | `serialize`, `build_for_signing_legacy/segwit`, `build_with_script_sig/witness`, assignment of a field | a preimage is the digest the network checks, and stays so; attaching to one input leaves the others valid; the format is chosen unambiguously |
| Signer (`signer/types.rs`, external) | pending requests | `sign(SignRequest)`, answered in a later receipt | answers are matched with the input they were asked for |
| Encoding (`encoding/*`) | a reader or a writer | `Encodable`, `Decodable`, `VarInt`, `read_bytes_from_finite_reader` | round trip, one encoding per value, bounded memory, no byte lost |
| Parts (`types/*`) | values | encoders and decoders, `LockTime::from_*`, `Amount` arithmetic, JSON visitors | round trip; a stored number is the number given |
| `Witness` (`types/tx_in/witness.rs`) | `content`, `witness_elements`, `indices_start` | `from_slice`, `encode`, `decode`, `iter` | one packed form per list of elements, slices in bounds, bounded memory |
| DER and script_sig (`bitcoin/utils.rs`) | none | `serialize_ecdsa_signature*`, `build_script_sig` | a node finds in the script what the signer answered; minimal DER; pushes that fit a byte |
| Builders (`*_builder.rs`) | a record of `Option`s | setters, assignments, `build` (which may be repeated) | last value wins, defaults only for optional fields, a panic only for a cause |
| JSON forms of Bitcoin values (visitors in `bitcoin/types/*`) | none | `from_json`, serializers | what is read is what was meant, whatever its form |
| EVM (`evm/*`) | `EVMTransaction`, the `rlp` crate's stream | `build_for_signing`, `build_with_signature`, `from_json` | EIP-1559 order, canonical integers, balanced lists, an answer good for its request only |
| NEAR (`near/*`) | `NearTransaction`, actions, keys, signatures | `build_for_signing`, `build_with_signature`, (de)serializers | the network's order of fields and variants; tags agree with lengths; one value for all readers |

Interactions. A caller builds a transaction with a builder, calls
`build_for_signing_*`, hashes the bytes and hands the hash to the signer
contract; the answer comes back in another receipt, after other calls. The
caller encodes it (DER, script_sig or witness) and attaches it with
`build_with_*` or by assigning the public field; the bytes go to a node, which
reads them, recomputes each digest from what it has read and verifies each
signature against it. `build_with_witness` packs the elements with
`Witness::from_slice`; every encoder writes its lengths through `VarInt`; every
decoder goes through `Decodable::decode`, which limits the reader once, and
`read_bytes_from_finite_reader`, which allocates chunk by chunk.

Concurrency, failure, ordering, time: the library is sequential, so there are no
interleavings inside it; they are between the caller's calls and the signer's
answers. Failures are a stream that ends early or lies about its lengths, and a
panic (`panic = "abort"`), which ends the session. There are no timeouts or
retries in the code.

On EVM and NEAR there is one signature per transaction, and the caller
may assign to the public fields between the request and the answer, or attach an
older answer. A NEAR transaction is also handed from a front end to a contract
and on, in JSON or Borsh, before it is signed.

## Modules

**The signing session**

- `BitcoinTransaction` - the value and its writers, field by field.
  `UsesSegwitSerialization`, `Encode`, `LegacyPreimage`, `SegwitPreimage`,
  `WithScriptSig` and `WithWitness` are the functions of
  `bitcoin_transaction.rs`. A hash of a list is the list (injective), so that
  `Bip143` and `LegacySighash`, the digests a node computes, can be compared
  with what was signed. These two and `Received` are external.
- `BitcoinSigning` - the session: variables `tx`, `segwit` (which inputs spend a
  segwit output), `requests` (the preimages asked for, in order), `signed` (the
  ones answered) and `status`. One action per public function, with its panics
  (`version != Two`, an index out of range, a transaction type of the other
  family), one for an assignment of `script_sig`, one for an answer.
  `Collect = FALSE` is a caller that calls anything at any time with anything it
  has. `Collect = TRUE` is the caller of
  `tests/bitcoin_integration_test.rs`: for a legacy input it puts the script
  code in place and takes the preimage (424-429), it takes every preimage before
  it attaches the first answer (790-867), attaches each to its input (870-872)
  and sends the bytes (874-893). Mixed transactions and `build_with_*` in place
  of the assignment of a witness are combined in it, as the functions allow.
- `IdealSigning` - what a session promises whatever the formats: inputs become
  valid one at a time and stay valid, the network takes the transaction once all
  are, never refuses one, and a session that is given up wastes no signature.

**Bytes**

- `BitcoinWire` - encoders and decoders of every part over bytes below `Radix`,
  with the VarInt tags and widths of the code, the limit of `Decodable::decode`
  (`Take`), the cast of lengths to `usize`, strictness (`NonMinimalVarInt`,
  versions), the reversal of hashes and the two forms of a transaction. The
  repository has no decoder for a whole transaction: `ReadTransaction` is a node
  (BIP 144), external, and reads the parts with the repository's decoders. Fields
  of fixed width are one byte each.
- `WireDelivery` - a serialized transaction that arrives whole, cut, or with one
  byte changed.
- `ChunkedRead` - `read_bytes_from_finite_reader`: one action per turn of its
  loop, successful or not.
- `Witness`, `WitnessDecode` - the packed representation and the decoder that
  builds it in place, one action per step: the count, a size (overflow and limit
  checks, position written), doublings, the element, truncate and rotate. Cells
  instead of bytes: a cell says whether it holds part of a position, of a size
  or of an element, so that any mix-up shows.

**Around a Bitcoin transaction**

- `BitcoinJson` - the visitors: numbers in numerals or text, byte strings as
  hexadecimal or arrays, an outpoint with its keys in any order, repeated or
  missing. A document is a tree; a text is what it says (a number with or without
  spaces around it, bytes). Numbers keep their width: `AsU32` is the cast of
  `lock_time.rs:129`, `VoutFromJson` that of `outpoint.rs:141`.
- `BitcoinHandover` - a front end's document, read, written and read again. Its
  properties say exactly what arrives and exactly what is refused or panics.
- `SignatureScript` and `ScriptSig` - every function of `bitcoin/utils.rs`, and the
  path from an answer of the signer over the assertion, DER and the two pushes to
  a node that takes the script apart (`Stack`, `IsEncoding`, external). `IsMinimal`
  is BIP 66.
- `Amount` and `AmountLedger` - the checked functions, and a wallet that uses them
  and the operators, beside an ideal total over the integers.
- `TxBuilders` - the three builders. A setter or an assignment is one action,
  `build` another, in any order; `calls` remembers what was set.

**EVM**

- `RlpStream` - the `rlp` crate's stream, external: a buffer, a stack of open lists,
  headers put in when a list is closed.
- `EvmTransaction` - the calls `encode_fields`, `build_for_signing` and
  `build_with_signature` make on it.
- `EvmNode` - a reader of RLP and of type 2 transactions (EIP 2718, EIP 1559),
  external; it knows nothing of the stream and refuses whatever is not the one
  encoding of a value.
- `EvmEncoding` - one action per call on the stream; `ReadsBack` says that the bytes
  returned are the transaction to that reader.
- `EvmSession` - caller, signer and node; refines `IdealAuthorization`.
- `EvmFromJson` - `from_json`, one action per field, with its two notations for
  numbers and the defaults of `to` and `input`.

**NEAR**

- `NearKeys` - every reader and writer of public keys, signatures and block hashes:
  texts with a prefix, JSON maps, Borsh, the functions of `near/utils`.
- `NearKeyTravel` - a value that goes from holder to holder, each time in some
  form, and is spoilt once at most.
- `NearTransaction` - structs and enums, each a table in the order of its declaration,
  from which `NearBorsh` (derived Borsh) and `NearJson` (derived serde, with the
  hand-written `U64`, `U128` and `base64_bytes`) work like the derive macros do.
  Both make the codecs of all types at once, depth by depth: those of values
  that are one level deeper from those of their parts, since an action may hold a
  delegate action, and that one actions.
- `NearNode` - the network's own tables, external, and its signature check.
- `NearHandover` - a transaction handed on in Borsh or JSON, by this library or by
  a front end with its own style and transactions, changed in one byte at most.
- `NearSession` - caller, signer and node; a byte of what is sent may change; refines
  `IdealAuthorization`.
- `IdealAuthorization` - what signing through somebody else promises the account that
  pays: the network executes only what a signature was asked for.

**Proofs**: `BitcoinSigningProofs`, `ChunkedReadProofs`, `WitnessDecodeProofs`,
`WireDeliveryProofs`, each of the module it is named after;
`NearProofs` of `NearKeyTravel`, `NearBorsh`, `NearJson`, `NearNode`, `NearHandover` and
`NearSession`;
`EvmProofs` of `EvmEncoding`, `EvmSession` and `EvmFromJson`; `BitcoinPartsProofs` of
`AmountLedger`, `TxBuilders`, `BitcoinHandover` and `ScriptSig`; and `SequenceInduction`, what they need to know about sequences and iteration.
**Instances**: the `MC*` modules and the `.cfg` files. `MCEncoding`, `MCBitcoinParts`,
`MCEvm` and `MCNear` put independent specifications side by side: `part` names the one that a
behaviour belongs to, the variables of the others keep their idle values, and every
step is a step of that one. Operators named `Faulty_*` are plausible
mistakes in the definition after them; they are used by nothing and serve to see
that a property notices.

## Runs

| Run | Question | Bounds and why they are enough |
|---|---|---|
| `SigningAny` | Whatever the caller does, do outstanding preimages stay valid and is attaching local? | 2 inputs, 2 requests, distinct outpoints, both versions, every call with every index (one out of range), type and signature. Two inputs are the smallest case in which one input's call can disturb another; the formulas never relate three. `SignatureUsedOnce` does not continue from states in which a signature stands in two places (they are checked, not left). Outpoints are symmetric: they are only compared. |
| `SigningCollect` | Does the caller of the tests get its transaction accepted, and does it implement `IdealSigning`? | 3 inputs in every mix of legacy and segwit, 3 requests, every order of answers and of attachments. |
| `SigningStepwise` | Is every segwit preimage the BIP-143 one? Violated, see findings. | as `SigningAny`. |
| `Encoding` | Is what is read what was sent, and is the encoding unique? Do chunks join exactly, with bounded memory? | Delivery: radix 5, so that a byte holds 0 and 1 and a length of 2 already needs a tag; up to two inputs and one output, scripts of 0 to 2 bytes, witnesses of 0 to 2 elements; every prefix and every change of one byte. `MaxVecSize` is larger than any message: the limit itself plays no part here. Chunks: of 3, lengths 0 to 10, streams 0 to 11: below, at and above one, two and three chunks, every early end. |
| `WitnessDecode` | Is memory bounded, and is the witness packed as `from_slice` packs and encoded as it came? | positions of 2 cells, sizes of 1, 3, 5 and 9, a limit of 12, slack of 2: 0 to 4 elements, refusals by the limit and by overflow, several doublings. |
| `WitnessDecode32` | Where `usize` is narrower than a VarInt: are all slices inside the vector, and does the iterator find the elements? | 33 and 45 are cut to 1 and 13: one is then taken, one refused. |
| `WitnessCount32` | Is a count beyond the limit refused there? Violated, see findings. | as `WitnessDecode32`. |
| `BitcoinParts` | Is a document read as it was meant and refused exactly if it does not fit? Is the total of amounts exact? Does a node find the answer in the script? Is a transaction what was set last? | Handover: a u32 of 4 bits, a u64 of 10, lock times are heights below 5; each number in turn on both sides of each bound, with lower halves that are zero, a height and a time; all combinations of three numeral styles, two styles of bytes and four key orders; 3 readings. Ledger: a u64 of 6 bits, 7 satoshis in a coin; operations without end. Script: components of 2 real bytes around 0 and the sign bit, answers of other lengths, keys of 33 and 65 bytes. Builders: fields of which some are set up to three times to two values or to nothing, builds in between. |
| `Evm` | Do the stream calls close every list, and does a node read back what went in? Is an answer good for its transaction only? Is a document read as written? | Real RLP bytes: numbers of 0 to 2 bytes with every first byte that matters (0, 127, 128), strings of 55 and 56 bytes, access lists of 0 to 3 entries with 0 to 2 keys, on both sides of the 55-byte header. Session: 2 requests, 2 fields that change, an r with and without a leading zero, any number of sendings. JSON: any two fields in any of 17 forms; `u64` and `u128` cut to 99 and 999, addresses to 2 bytes. |
| `Near` | Do keys, signatures, hashes and transactions arrive as they were sent, do changed ones mean the same to everybody, and does the node execute only what was asked for? | Lengths 1, 2 and 3 in the proportions of 32, 64 and 65, which decide what can be taken for what. Travel: 2 byte values, 3 hops, spoilt values of up to 4 bytes. Handover: all 11 actions with every variant inside them, a delegate action in another one from a front end, 2 hops, a byte set to each of 12 values. Session: 2 requests, 2 fields, a changed byte. Values up to 20 deep, twice what the deepest transaction of the run takes. |
| `SignaturePadded` | Is what is serialized for a script_sig DER? Violated, see findings. | as `BitcoinParts`. |
| `NearLargeAmount` | Does the library read what it writes? Violated, see findings. | as `Near`, with an amount above `u64::MAX`. |

What the properties say is written above each of them in the modules.

The parameters that are scaled (radix, widths, chunk, limits) are constants; the
proofs hold for all their values that the named assumptions allow, the code's
among them.

## Fairness

- `SigningCollect`: weak fairness of the caller's step (a sequential program that
  has not finished goes on) and of every answer (the signer contract answers
  each request in the end; without it only safety is claimed). No fairness is
  put on a choice among the caller's calls: termination follows because the
  caller that collects runs out of calls other than the ones that make progress,
  except for repeated serialization, which ends the session once every input is
  attached or leaves the state as it was.
- `Encoding` (of the chunk loop), `WitnessDecode`: weak fairness of the next step: a
  call that runs on one thread returns from each of its steps; the stream is in memory
  and never blocks.
- `Evm`: weak fairness of the calls on the stream, for the same reason.

Deadlock is checked in the runs of the signing session, the decoders and the
delivery of bytes, where finished sessions and calls stutter through an explicit
action (`Finished`, `ReadFinished`, `Delivered`). It is not in `BitcoinParts`, `SignaturePadded`, `Evm`, `Near` and
`NearLargeAmount`: a call there returns or panics and is over, and hops, readings
and assignments are bounded.

## Proved

All with TLAPS, for every value of the constants under the named assumptions.

- `BitcoinSigningProofs`. `TypeCorrect`; `SegwitCommitment`; `LegacyCommitment`;
  `AttachingIsLocal`; and for the caller that collects `NeverRejected` and the
  refinement of `IdealSigning`. Assumptions: `SizeAssumption` (at least one input and
  one request), `CollectAssumption`, `CodeAssumption` (the script code is neither
  empty nor a signature). For any caller, the two `With...` operators change one
  field of one input (`WithScriptSigEffect`, `WithWitnessEffect`), so every step
  leaves the transaction equal up to scripts and witnesses; both digests read
  nothing else of the transaction than what such steps keep, hence a payload that
  equals a digest once equals it for ever. Type correctness is part of the
  invariant because the digests range over the inputs of a transaction that is
  known to have them. For the caller that collects (`ASSUME Collect`), this says
  nothing of which signature stands where. `CollectInv` does: each request was taken
  for one input, its payload is the digest the network checks for that input, an
  input holds nothing but its own answer and before it at most the script code, one
  input at a time, and no answer is attached before the last preimage is taken (the
  finding below is what happens otherwise). From it follow that a serialized
  transaction is valid, and that each step is a step of `IdealSigning` or none.
- `ChunkedReadProofs`. `AllocationIsBounded`, `ReadIsExact`, `OnlyShortRefused`.
  The invariant says that while the loop reads, the vector is exactly as long as
  the bytes taken, holds them in order, and with what is still to be read makes
  up the announced length; the three properties alone are not inductive.
- `WitnessDecodeProofs`. Three invariants, each on top of the one before.
  `LengthInv` (`MemoryIsBounded`, `SlicesAreInBounds`, for both widths of `usize`)
  keeps, at each point of the loop, the gap inside the vector, the cursor below the
  limit, and the required length below the limit while the vector doubles: a
  doubling starts only from a vector not longer than what is required, so twice the
  limit is never passed. `StoredInv` (`IteratesReceived`, for both widths) says where
  each element is: index j holds the position of element j, where its size and its
  bytes stand, all below the cursor, also after the doublings and the rotation. `PackedInv` (`PacksLikeFromSlice`,
  `ReencodesReceived`) says moreover that the cells up to the cursor are the indices
  and the elements as `from_slice` packs them, and it needs `SizesFit`: the sizes a stream announces are not cut by `usize`. That is
  so where `usize` has 64 bits; on wasm32 a cut size is taken for another one, and
  the run `WitnessDecode32` therefore claims only the first two invariants.
  `IndexMax >= MaxVecSize` is assumed (`u32::MAX` and 4,000,000).
- `NearProofs`, on keys. `TravelsUnchanged`, `ReadersAgree`, `AcceptedWellFormed` and
  `AcceptedIsCanonical`, for any bytes, any number of hops and any lengths by which
  the variants of a key and of a signature can be told apart (`LengthAssumption`).
  `TravelInv`: a holder has a value of its type, a message is one of the forms that
  can exist, and as long as nothing is spoilt it is a spelling of what its sender
  holds. It is kept because each reader takes each spelling back
  (`ReadBack`) and returns values of the type only (`MessageAccepted`).
- `NearProofs`, on Borsh. For every radix above the number of variants
  (`RadixAssumption`) and values nested to any depth: what is written of a value of
  any type is read as that value (`BorshReadsBack`), and a reader takes no bytes but those
  that are written of the value it returns (`BorshIsCanonical`). A codec is *sound* if it
  reads what it wrote whatever follows, and reads nothing else (`Sound`). Codecs one after
  another are sound together (`RowSound`, by induction over the row, for any codecs), hence
  structs (`StructSound`), lists and options (`ItemsSound`) and, behind their
  tag, enums (`EnumSound`) are, if their parts are; keys, signatures and numbers are by
  themselves. Each type of the library is shown to be a struct or an enum of distinct names
  over its parts' values (`TypesSound`), and an induction over the depth ends
  the circle from `Action` to `SignedDelegateAction` and back (`CodecsSound`). The types in the order of
  the protocol are the types of the library (`TypesAreTheProtocols`), so a
  node reads what the builders write (`NodeReadsSigned`), and no two
  transactions are signed by the same bytes (`BuildForSigningInjective`).
- `NearProofs`, on JSON. A value of any type, whatever of it is put into strings, is written as
  a document that is read as this value if all its numbers are `u64`s, and that is refused
  otherwise (`JsonReadsBack`); a transaction also if the entries of its map come in
  another order (`JsonInAnyOrder`). That a document is a nested one of the given numbers
  (`Documents`) is a condition on the whole, while a reader sees one level at a time;
  so the induction over the depth is over the codecs and the documents of that
  depth together (`JsonSound`). Entries are found by their names, which are distinct
  (`FieldFound`, `EntriesRead`); an option needs that what it holds is never
  written as `null`.
- `NearProofs`, on the handover. `TransactionsArrive` and `ChangedBytesAreBytes`, for any
  radix above the number of variants, nesting, transactions, front ends and number of
  letters (`HandoverAssumption`: values of the types). The invariant, `HandoverInv`: as
  long as no byte is changed, what is under way is Borsh or JSON of `first`, and the last
  holder has it unless it refused; afterwards it is any bytes, or JSON of a transaction; what
  is held is always a transaction of the type, since readers return nothing else.
  The second theorem follows from `BorshIsCanonical`, `TypesAreTheProtocols` and
  `BuildableIsNotNested`: what the node refuses and the library reads are the transactions
  that `NonDelegateAction::try_from` would have kept a program from building.
- `NearProofs`, on the session. `FreshExactly` and `SessionIsAuthorized`, the refinement
  of `IdealAuthorization`, for any transactions that nest no delegate actions, fields,
  answers, noise and number of requests (`SessionAssumption`). The invariant, `SessionInv`, is the one of
  EVM, except that bytes under way may have been changed and then are any bytes: of
  these a node takes only what was asked for, since it verifies the bytes of what it read, and
  those are of one transaction.
- `WireDeliveryProofs`. `WholeArrives`, `PrefixRefused`, `EachPartReadsBack` and, where
  `UsizeWidth = 8`, `OneEncodingEach`: for every radix above 3 (`RadixAssumption`), every
  `MaxVecSize` and every transaction that can exist with the scripts of its inputs under
  that limit (`TransactionsAssumption`), with any number of inputs, outputs and witness
  elements. The invariant `Delivery` only says which bytes can be under way; the
  argument is about the functions. Of each reader two things are shown. It *reads*: from an
  encoding followed by any tail it returns the value and that tail. What it *took*: if it
  succeeds on any string, then a prefix of the string made it do so, it returns the rest,
  it would return the same value before any other tail, and the prefix is the value's
  encoding where a usize holds every announced length. Both pass from parts to
  sequences (`Then`) and to loops: `LoopReads` and `LoopTook` are proved once,
  for any set of items and any reader given as a function, and used for scripts,
  inputs, outputs, witnesses and the list of witnesses. A prefix of a message cannot be
  accepted, because the reader that accepted it would refuse the whole for the bytes left
  over, and the whole is accepted. `LoopTook` also says that n items take n bytes
  or more, which justifies that `DecodeVec` refuses a count beyond the data at once
  where the code fails at the end of the data. Beneath is the arithmetic of digits
  (`NumberOfDigits`, `DigitsOfNumber`) for any radix, and of the tags: a byte below the
  first tag is a count, and a count has exactly one width (`WidthFacts`).
- `BitcoinPartsProofs`, on builders. `BuilderIsFaithful`, with no assumption on fields or
  values. The invariant: the builder is the last assignment of each field, and what was
  built last is still what `build` would return; the property alone says nothing of the
  next build.
- `BitcoinPartsProofs`, on amounts. `LedgerIsExact`, under `AmountAssumption` (operands are
  `u64`). The three functions return the integer if it fits and `None` otherwise
  (`FunctionsAgree`); whether a caller unwraps or looks at the result, that carries
  over to the total and to what it has been told.
- `BitcoinPartsProofs`, on documents. `DocumentIsMeant` and `DocumentReadIfFits`, for all
  widths, thresholds and hash lengths under `WidthAssumption`, and for all orders under
  `OrdersAssumption`, which says no more than that an order means integers and
  byte strings of any length and that hexadecimal says bytes. Each visitor's result is
  characterised in every form of its value (`VersionRead`, `VoutRead`, `LockTimeRead`,
  `BytesReadJson`, `TxidReadJson`). `Visited` says what `visit_map` holds after k
  entries; it passes from one entry to the next (`VisitKeeps`), so an outpoint is read
  exactly if both keys and no other are among the entries, in whatever order and however
  often (`OutPointReadJson`). A list or a struct is read if all its items are, which
  gives the whole document (`DocumentRead`). The invariant, `HandoverInv`, says that
  every reading comes to the same verdict; it is inductive because what was read
  is itself an order the library writes in its own style, with nothing left to
  lose (`KeptAgain`).
- `BitcoinPartsProofs`, on the signature script. `AnswerArrives` and `OnlyPaddingFails`, under
  `ScriptSigAssumption`: components of up to 32 bytes, keys of up to 65, a signer that
  divides the 65 bytes equally (the code asserts only their sum). The longest
  signature has 2 * 33 + 7 bytes, so that no length byte is cut and both pushes are
  of the direct kind; from the position of everything in the concatenation
  (`Layout`) follows what the node's reader cuts out (`SignatureReads`,
  `PushesRead`), and from it that `SignatureIsDer` fails at a component's padding and
  nowhere else.
- `EvmProofs`, on bytes. `BytesReadBack` and `ListsMatch`, for any transaction of the
  code's type with inputs, access lists and numbers of any size
  (`EncodingAssumption`: r and s have no leading zeros, as the node demands; no
  transaction is longer than 2^64 bytes, where RLP has no header). There are two halves,
  which never mention each other's functions. The node's half reads: `BigEndian` and
  `NumberOf` are inverse (`NumberReadsBack`), an item is read from the front of any
  bytes whatever follows it (`ItemReadsBack`), so a list is read as its items
  (`ListReadsBack`, by induction over the items) and a transaction as its
  fields (`SigningReadsBack`, `SignedReadsBack`); hence two transactions with the same
  bytes to sign are one (`SigningInjective`). The library's half writes: calls *emit* bytes
  if they append them to the buffer of any stream, open lists or not, and
  leave these as they were (`Emits`). What emits can be put one behind the other
  (`EmitsBoth`), and between `begin` and `finalize` it gets the header of its length
  (`EmitsList`): with that the calls of an access, of the access list and of the fields are taken
  together, and the builders write what the node's encoder writes (`SigningIsWritten`,
  `SignedIsWritten`). The inductive invariant, `EncodingInv`, is about a
  stream in the middle of this, where nothing is readable yet: the calls that are
  left turn it into the final one, and find a list open when they close one.
- `EvmProofs`, on the session. `FreshExactly` and `SessionIsAuthorized`, the refinement of
  `IdealAuthorization`, for any transactions, fields that are assigned, answers and
  number of requests (`SessionAssumption`: values of the code's types, shorter than
  2^64 bytes). `AcceptedExactlyIfFresh` is not inductive: it needs that what is under way was
  made of the answer to one request, that each request is the encoding of
  its transaction, and that no two requests have the same answer (`SessionInv`). A step of the
  session is `Ask`, `Execute` or nothing to the ideal one; that the node executes
  nothing else follows from `SigningInjective`, since the node verifies
  bytes and not transactions.
- `EvmProofs`, on JSON. `FieldsAsWritten`, under `DocumentsAssumption` (a field has at most
  one text, widths are numbers). What a numeral
  says is stated without the arithmetic of the reader: `WrittenIn` takes the digits
  off a number by division, from the end, where `FromStrRadix` multiplies and adds from the
  front and stops when the type is full. `NumeralRead` says that the two agree in both
  directions for digits of any number, in decimal and hexadecimal: `ReadIsWritten`
  follows the digits backwards from what was read, `WrittenIsRead` forwards from the
  most significant one, where every prefix is at most the whole and so never too large.
  Bytes are two digits each (`ByteWritten`, `DecodedIsWritten`). The invariant,
  `ReaderInv`, is that the values so far are those of the first fields in their
  order and that the reader stops only at a field without a value.
- `SequenceInduction`. Induction over a natural number, stated with a set in place of
  a predicate (`SetInduction`), from the least element of a set of naturals; a
  function that is iterated; `FlattenSeq` of a sequence with one more element. The
  library's theorems with a predicate as parameter cannot be instantiated by the
  installed provers; a set of the numbers for which something holds can be.

Model-checked only: liveness and everything under fairness (`Termination`), which is out
of the provers' reach. Every invariant and every other action property of a passing run
is a theorem.

## Findings

1. `encode_for_sighash_for_segwit` (`bitcoin_transaction.rs:203-209`) writes the
   segwit marker and flag into the preimage if any input has a witness. BIP 143
   has neither, and `tests/bitcoin_integration_test.rs:827` asserts equality with
   rust-bitcoin's preimage; the tests take all preimages before they attach. A
   caller that signs input by input gets signatures no node accepts.
   (`SigningStepwise`, five states.) `SigningCollect` shows that the order of the
   tests is safe.
2. `Witness::decode` (`witness.rs:172-177`) casts the count to `usize` before it
   compares it with `MAX_VEC_SIZE`. Where `usize` has 32 bits, which the
   repository checks its build for (`justfile:17-19`), a count of 2^32 + n is read
   as n, against the comment above the check. (`WitnessCount32`.) The proofs show
   that nothing is written out of bounds even so. `Vec<u8>::decode`
   (`decode.rs:30`) has the same cast: `Encoding` with `UsizeWidth = 4` breaks
   `AcceptedIsCanonical`.
3. `U128` is written as a JSON number of any size (`near/types/integers.rs:6-22`;
   the reader is `:60-101`); `serde_json` holds numbers in 64 bits and
   hands a larger one over as a float, which the reader refuses. The round trip that
   `near/types/actions.rs:428-431` asserts fails for a deposit above `u64::MAX`, that
   is of about 0.00002 NEAR. (`NearLargeAmount`.) As a string the amount is read.
4. `encode_signature_as_der` (`bitcoin/utils.rs:2-34`) puts a zero byte before a number
   that would be negative but leaves the leading zeros of the 32 bytes the signer
   answers. A number that has one and goes on below 128 is no DER integer, against the
   comment at `:50` ("Encode the signature as DER format") and the equality with
   rust-bitcoin that the test at `:83-104` asserts for one answer; BIP 66 refuses it.
   With numbers that are spread evenly this is one signature in 256.
   (`SignaturePadded`, two states.) `OnlyPaddingFails` proves that no other answers fail.

Where the code departs from what one might expect and no text of the repository
says otherwise, the properties of the passing runs state exactly what it does:

- EVM `r` and `s` keep leading zeros (`evm_transaction.rs:75`): `AcceptedExactlyIfFresh`.
- A recipient or input without the prefix is taken for none, and no recipient for
  the zero address (`evm_transaction.rs:121`): `AsWritten`.
- `vout` and `lock_time` in numerals lose their upper half (`outpoint.rs:141`,
  `lock_time.rs:129`), and one kind of lock time panics: `ReadIsMeant`,
  `ReadExactlyIfFits`.
- A delegate action inside another is read from JSON and Borsh although
  `NonDelegateAction::try_from` refuses it (`actions.rs:318`), and is written again in
  bytes that no node reads: `ChangedBytesHaveOneMeaning`.
- A JSON ed25519 signature of fewer than 32 bytes panics (`signature.rs:79`):
  `TravelsUnchanged` is about values that nobody spoilt.

## Not modelled, and plan

Not modelled: the derived Borsh forms of Bitcoin values (a `Witness` carries its
packed fields there as they are); texts that are only shown (`Display`, `Hash`
in hexadecimal), the constants of `Sequence`; JSON schemas; build, CI and the
test infrastructure; hashing and elliptic curves; that a `String` is UTF-8. The derived serializers and
the `rlp` crate are external and modelled only as far as they are used.

Next, in this order:

1. VarInts at the boundaries of 4 and 8 bytes in a run (the proofs cover them); the Borsh
   form of a packed witness.
