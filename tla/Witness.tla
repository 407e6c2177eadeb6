------------------------------ MODULE Witness ------------------------------
(***************************************************************************)
(* The packed representation of a witness (tx_in/witness.rs): the elements *)
(* with their sizes, one after the other, and behind them an index area    *)
(* that holds the position of each.  Two witnesses are equal when their    *)
(* packed forms are, so every way to build one has to pack alike.          *)
(*                                                                         *)
(* A byte is a cell <<kind, value, n>>: the n-th byte of an index or of a  *)
(* size, or the n-th byte of an element.                                   *)
(***************************************************************************)
EXTENDS Naturals, SequencesExt

CONSTANTS
  IndexWidth,  \* bytes of an index, 4 in the code
  OneByteMax,  \* largest VarInt of one byte, 0xFC
  ThreeByteMax,\* largest VarInt of three bytes, 0xFFFF
  FiveByteMax, \* largest VarInt of five bytes, 0xFFFFFFFF
  UsizeMax     \* largest usize: FiveByteMax on wasm32, u64::MAX elsewhere

ASSUME WidthAssumption == /\ IndexWidth \in Nat \ {0}
                          /\ OneByteMax \in Nat
                          /\ ThreeByteMax \in Nat
                          /\ FiveByteMax \in Nat
                          /\ UsizeMax \in Nat

Cell == {"zero", "index", "size", "data"} \X Nat \X Nat

VarIntSize(n) == CASE n <= OneByteMax -> 1
                   [] n > OneByteMax /\ n <= ThreeByteMax -> 3
                   [] n > ThreeByteMax /\ n > OneByteMax /\ n <= FiveByteMax -> 5
                   [] OTHER -> 9

\* What "as usize" keeps of a VarInt.
AsUsize(n) == n % (UsizeMax + 1)

Zeros(n) == [k \in 1 .. n |-> <<"zero", 0, 0>>]
IndexCells(position) == [k \in 1 .. IndexWidth |-> <<"index", position, k>>]
SizeCells(n) == [k \in 1 .. VarIntSize(n) |-> <<"size", n, k>>]
DataCells(id, n) == [k \in 1 .. n |-> <<"data", id, k>>]

\* content[position ..].copy_from_slice(cells)
Put(content, position, cells) ==
  [k \in 1 .. Len(content) |->
     IF k > position /\ k <= position + Len(cells)
     THEN cells[k - position]
     ELSE content[k]]

\* A faulty variant: truncated after the rotation.
Faulty_TruncateAndRotate(content, cursor, n) ==
  SubSeq(SubSeq(content, n + 1, Len(content)) \o SubSeq(content, 1, n), 1, cursor)

\* content.truncate(cursor); content.rotate_left(n)
TruncateAndRotate(content, cursor, n) ==
  SubSeq(content, n + 1, cursor) \o SubSeq(content, 1, n)

-----------------------------------------------------------------------------

Default == [content |-> << >>, witness_elements |-> 0, indices_start |-> 0]

\* The elements with their sizes.
Serialized(slice) ==
  FlattenSeq([i \in 1 .. Len(slice) |-> SizeCells(Len(slice[i])) \o slice[i]])

FromSlice(slice) ==
  LET positions == [i \in 1 .. Len(slice) |-> Len(Serialized(SubSeq(slice, 1, i - 1)))]
      indices   == [i \in 1 .. Len(slice) |-> IndexCells(positions[i])]
  IN [content          |-> Serialized(slice) \o FlattenSeq(indices),
      witness_elements |-> Len(slice),
      indices_start    |-> Len(Serialized(slice))]

\* A faulty variant: the whole vector is written, indices included.
Faulty_Encode(w) == SizeCells(w.witness_elements) \o w.content

Encode(w) ==
  SizeCells(w.witness_elements)
    \o SubSeq(w.content, 1, Len(w.content) - w.witness_elements * IndexWidth)

\* size_hint: the items an iterator has left at the start.
SizeHint(w) == (Len(w.content) - w.indices_start) \div IndexWidth

\* A faulty variant: every size is taken for one byte.
Faulty_Item(w, i) ==
  LET index == w.content[w.indices_start + i * IndexWidth + 1][2]
      size  == w.content[index + 1][2]
  IN SubSeq(w.content, index + 2, index + 1 + size)

\* Iter::next with current_index = i; it ends when i reaches SizeHint.
Item(w, i) ==
  LET index  == w.content[w.indices_start + i * IndexWidth + 1][2]
      varint == w.content[index + 1][2]
      start  == index + VarIntSize(varint)
  IN SubSeq(w.content, start + 1, start + AsUsize(varint))

ToVec(w) == [k \in 1 .. SizeHint(w) |-> Item(w, k - 1)]
=============================================================================
