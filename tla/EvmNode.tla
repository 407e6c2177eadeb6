------------------------------ MODULE EvmNode ------------------------------
(***************************************************************************)
(* A node that reads a type 2 transaction (EIP-2718, EIP-1559) from its    *)
(* bytes.  External: the tests of evm_transaction.rs take alloy for it.    *)
(* RLP has one encoding per value: headers and numbers are as short as     *)
(* possible, and anything else is malformed.                               *)
(***************************************************************************)
EXTENDS EvmTransaction

\* The value of bytes, the most significant first.
NumberOf(bytes) ==
  LET value[k \in 0 .. Len(bytes)] == IF k = 0 THEN 0 ELSE 256 * value[k - 1] + bytes[k]
  IN value[Len(bytes)]

\* An item of a list: a byte string, or a list with the bytes of its items.
Bytes(bytes) == [item |-> "bytes", bytes |-> bytes]
List(bytes) == [item |-> "list", bytes |-> bytes]
Malformed == [item |-> "malformed", bytes |-> << >>]

IsBytes(item) == item.item = "bytes"
IsList(item) == item.item = "list"

\* The item at the start of b, and the bytes behind it.
FirstItem(b) ==
  IF b[1] < 128 THEN [item |-> Bytes(<<b[1]>>), rest |-> Tail(b)]
  ELSE
  LET base   == IF b[1] < 192 THEN 128 ELSE 192
      sizes  == IF b[1] - base <= 55 THEN 0 ELSE b[1] - base - 55
      len    == IF sizes = 0 THEN b[1] - base ELSE NumberOf(SubSeq(b, 2, 1 + sizes))
      end    == 1 + sizes + len
      data   == SubSeq(b, 2 + sizes, end)
  IN IF \/ sizes >= Len(b)
        \/ end > Len(b)
        \/ SubSeq(b, 1, 1 + sizes) # Header(base, len)
        \/ base = 128 /\ len = 1 /\ data[1] < 128
     THEN [item |-> Malformed, rest |-> << >>]
     ELSE [item |-> IF base = 128 THEN Bytes(data) ELSE List(data),
           rest |-> SubSeq(b, end + 1, Len(b))]

\* One more item, if there is one.
ReadItem(read) ==
  IF read.rest = << >> THEN read
  ELSE LET first == FirstItem(read.rest)
       IN [items |-> Append(read.items, first.item), rest |-> first.rest]

\* The items that make up b, each at least a byte; the last one is Malformed if b is.
ReadItems(b) ==
  LET read[k \in 0 .. Len(b)] ==
        IF k = 0 THEN [items |-> << >>, rest |-> b] ELSE ReadItem(read[k - 1])
  IN read[Len(b)].items

IsNumber(item) == IsBytes(item) /\ (item.bytes # << >> => item.bytes[1] # 0)
IsAddress(item) == IsBytes(item) /\ Len(item.bytes) = 20
IsKey(item) == IsBytes(item) /\ Len(item.bytes) = 32

ItemsOf(item) == ReadItems(item.bytes)

IsAccess(item) ==
  /\ IsList(item)
  /\ Len(ItemsOf(item)) = 2
  /\ IsAddress(ItemsOf(item)[1])
  /\ IsList(ItemsOf(item)[2])
  /\ \A key \in ToSet(ItemsOf(ItemsOf(item)[2])) : IsKey(key)

AccessOf(item) ==
  LET keys == ItemsOf(ItemsOf(item)[2])
  IN [address |-> ItemsOf(item)[1].bytes, keys |-> [i \in DOMAIN keys |-> keys[i].bytes]]

\* The fields in the order of EIP-1559, with or without a signature.
IsFields(fields) ==
  /\ Len(fields) \in {9, 12}
  /\ \A i \in {1, 2, 3, 4, 5, 7, 10, 11, 12} \cap DOMAIN fields : IsNumber(fields[i])
  /\ IsAddress(fields[6]) \/ fields[6] = Bytes(<< >>)
  /\ IsBytes(fields[8])
  /\ IsList(fields[9])
  /\ \A access \in ToSet(ItemsOf(fields[9])) : IsAccess(access)

Fields(fields) ==
  LET accesses == ItemsOf(fields[9])
  IN [chain_id |-> NumberOf(fields[1].bytes), nonce |-> NumberOf(fields[2].bytes),
      max_priority_fee_per_gas |-> NumberOf(fields[3].bytes),
      max_fee_per_gas |-> NumberOf(fields[4].bytes),
      gas_limit |-> NumberOf(fields[5].bytes),
      to |-> IF fields[6].bytes = << >> THEN << >> ELSE <<fields[6].bytes>>,
      value |-> NumberOf(fields[7].bytes), input |-> fields[8].bytes,
      access_list |-> [i \in DOMAIN accesses |-> AccessOf(accesses[i])]]

SignatureOf(fields) ==
  IF Len(fields) = 9 THEN << >>
  ELSE <<[v |-> NumberOf(fields[10].bytes), r |-> fields[11].bytes, s |-> fields[12].bytes]>>

\* What a node reads: << >> if it refuses the bytes.
ReadTransaction(bytes) ==
  LET items  == IF bytes = << >> THEN << >> ELSE ReadItems(Tail(bytes))
      fields == IF items = << >> THEN << >> ELSE ItemsOf(items[1])
  IN IF /\ Len(items) = 1
        /\ bytes[1] = EIP_1559_TYPE
        /\ IsList(items[1])
        /\ IsFields(fields)
     THEN <<[tx |-> Fields(fields), signature |-> SignatureOf(fields)]>>
     ELSE << >>

-----------------------------------------------------------------------------
(* The node's own encoding, which a signature is verified against.         *)

Encoded(item) ==
  IF IsBytes(item) THEN EncodeValue(item.bytes)
  ELSE Header(192, Len(item.bytes)) \o item.bytes

ListOf(items) == List(FlattenSeq([i \in DOMAIN items |-> Encoded(items[i])]))

Number(n) == Bytes(BigEndian[n])

AccessItem(access) ==
  ListOf(<<Bytes(access.address),
           ListOf([j \in DOMAIN access.keys |-> Bytes(access.keys[j])])>>)

FieldItems(tx) ==
  <<Number(tx.chain_id), Number(tx.nonce), Number(tx.max_priority_fee_per_gas),
    Number(tx.max_fee_per_gas), Number(tx.gas_limit), Bytes(FlattenSeq(tx.to)),
    Number(tx.value), Bytes(tx.input),
    ListOf([i \in DOMAIN tx.access_list |-> AccessItem(tx.access_list[i])])>>

SigningBytes(tx) == <<EIP_1559_TYPE>> \o Encoded(ListOf(FieldItems(tx)))

-----------------------------------------------------------------------------
(* The values of the code's types.                                         *)

Byte == 0 .. 255
Address == {a \in Seq(Byte) : Len(a) = 20}
Key == {k \in Seq(Byte) : Len(k) = 32}

EVMTransaction ==
  [chain_id : Nat, nonce : Nat, to : {a \in Seq(Address) : Len(a) <= 1}, value : Nat,
   input : Seq(Byte), gas_limit : Nat, max_fee_per_gas : Nat,
   max_priority_fee_per_gas : Nat,
   access_list : Seq([address : Address, keys : Seq(Key)])]

Signature == [v : Nat, r : Seq(Byte), s : Seq(Byte)]

\* r and s are numbers without leading zeros.
Unpadded(signature) ==
  \A number \in {signature.r, signature.s} : number # << >> => number[1] # 0

\* RLP has lengths of at most eight bytes: enough for all that is in memory.
IsLength(n) == Len(BigEndian[n]) <= 8
=============================================================================
