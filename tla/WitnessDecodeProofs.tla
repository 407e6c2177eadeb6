------------------------ MODULE WitnessDecodeProofs ------------------------
(***************************************************************************)
(* Witness::decode for every stream and every setting of its limits, in    *)
(* three layers: the lengths (no slice out of bounds, memory bounded), the *)
(* cells (every element stands where its index says, so that the iterator  *)
(* gives back what was read), and, where usize holds the sizes announced,  *)
(* the whole vector (the packed form of from_slice).                       *)
(***************************************************************************)
EXTENDS WitnessDecode, SequenceInduction

\* The lengths, at each point of the loop: the gap lies inside the vector,
\* what is stored stays within the limit, and the vector is never more than
\* one doubling ahead of what the limit allows.
LengthInv ==
  /\ pc \in {"count", "element", "resize", "data", "ok", "error"}
  /\ witness_elements \in Nat /\ i \in Nat /\ cursor \in Nat
  /\ element_size_varint \in Nat
  /\ content \in Seq(Cell)
  /\ pc \in {"element", "resize", "data"} =>
       /\ witness_index_space <= cursor
       /\ cursor <= MaxVecSize + witness_index_space
       /\ witness_index_space <= Len(content)
       /\ Len(content) # 0
  /\ pc = "element" => cursor <= Len(content)
  /\ pc \in {"resize", "data"} =>
       RequiredLen(element_size_varint) <= MaxVecSize + witness_index_space
  /\ pc = "data" => RequiredLen(element_size_varint) < Len(content)
  /\ BoundedMemory

LEMMA VarIntSizeNat ==
  ASSUME NEW n \in Nat
  PROVE  VarIntSize(n) \in Nat \ {0}
  BY WidthAssumption DEF VarIntSize

LEMMA AsUsizeNat ==
  ASSUME NEW n \in Nat
  PROVE  AsUsize(n) \in Nat
  BY WidthAssumption DEF AsUsize

LEMMA SpaceNat ==
  ASSUME LengthInv
  PROVE  witness_index_space \in Nat
  BY WidthAssumption DEF LengthInv, witness_index_space

\* Cells are cells, and as many as they should be.
LEMMA CellTypes ==
  ASSUME NEW n \in Nat
  PROVE  /\ Zeros(n) \in Seq(Cell) /\ Len(Zeros(n)) = n
         /\ IndexCells(n) \in Seq(Cell)
         /\ SizeCells(n) \in Seq(Cell)
         /\ \A id \in Nat : DataCells(id, n) \in Seq(Cell)
<1>1. ASSUME NEW m \in Nat, NEW kind \in {"zero", "index", "size", "data"},
             NEW v \in Nat
      PROVE  [k \in 1 .. m |-> <<kind, v, k>>] \in Seq(Cell)
  BY <1>1, SeqDef DEF Cell
<1>2. [k \in 1 .. n |-> <<"zero", 0, 0>>] \in Seq(Cell)
  BY SeqDef DEF Cell
<1>3. Len([k \in 1 .. n |-> <<"zero", 0, 0>>]) = n
  OBVIOUS
<1>4. IndexCells(n) \in Seq(Cell)
  <2>1. IndexWidth \in Nat
    BY WidthAssumption
  <2> QED  BY <1>1, <2>1 DEF IndexCells
<1>5. SizeCells(n) \in Seq(Cell)
  <2>1. VarIntSize(n) \in Nat
    BY VarIntSizeNat
  <2> QED  BY <1>1, <2>1 DEF SizeCells
<1>6. ASSUME NEW id \in Nat  PROVE DataCells(id, n) \in Seq(Cell)
  BY <1>1 DEF DataCells
<1> QED  BY <1>2, <1>3, <1>4, <1>5, <1>6 DEF Zeros

\* Writing into a vector keeps its length.
LEMMA PutType ==
  ASSUME NEW c \in Seq(Cell), NEW p \in Nat, NEW cells \in Seq(Cell)
  PROVE  Put(c, p, cells) \in Seq(Cell) /\ Len(Put(c, p, cells)) = Len(c)
<1>1. Len(c) \in Nat /\ Len(cells) \in Nat
  BY LenProperties
<1>2. ASSUME NEW k \in 1 .. Len(c)
      PROVE  (IF k > p /\ k <= p + Len(cells) THEN cells[k - p] ELSE c[k]) \in Cell
  <2>1. CASE k > p /\ k <= p + Len(cells)
    <3>1. k - p \in 1 .. Len(cells)
      BY <1>1, <2>1
    <3> QED  BY <2>1, <3>1, ElementOfSeq
  <2>2. CASE ~(k > p /\ k <= p + Len(cells))
    BY <2>2, ElementOfSeq
  <2> QED  BY <2>1, <2>2
<1>3. Put(c, p, cells) \in [1 .. Len(c) -> Cell]
  BY <1>2 DEF Put
<1> QED  BY <1>1, <1>3, SeqDef, LenProperties

-----------------------------------------------------------------------------

LEMMA LengthInit == Init => LengthInv
  BY EmptySeq, DecodeAssumption, WidthAssumption
  DEF Init, LengthInv, BoundedMemory, witness_index_space

\* An error returns: nothing is said of the vector after it but its bound.
LEMMA FailLength == LengthInv /\ Fail => LengthInv'
  BY DEF LengthInv, Fail, BoundedMemory, witness_index_space

LEMMA ReadCountLength ==
  ASSUME LengthInv, NEW n \in Counts, ReadCount(n)
  PROVE  LengthInv'
<1> DEFINE elements == AsUsize(n)
<1>1. elements \in Nat
  BY AsUsizeNat, DecodeAssumption
<1> HIDE DEF elements
<1>2. CASE Fail
  BY <1>2, FailLength
<1>3. CASE /\ elements = 0
           /\ pc' = "ok"
           /\ UNCHANGED <<witness_elements, i, cursor, element_size_varint, content>>
  BY <1>3 DEF LengthInv, BoundedMemory, witness_index_space
<1>4. CASE /\ elements \in 1 .. MaxVecSize
           /\ pc' = "element"
           /\ witness_elements' = elements
           /\ cursor' = elements * IndexWidth
           /\ content' = Zeros(elements * IndexWidth + Slack)
           /\ UNCHANGED <<i, element_size_varint>>
  <2>1. elements * IndexWidth \in Nat /\ Slack \in Nat \ {0} /\ MaxVecSize \in Nat
    BY <1>1, WidthAssumption, DecodeAssumption
  <2>2. content' \in Seq(Cell) /\ Len(content') = elements * IndexWidth + Slack
    <3> DEFINE m == elements * IndexWidth + Slack
    <3>1. m \in Nat /\ content' = Zeros(m)
      BY <1>4, <2>1
    <3> HIDE DEF m
    <3>2. content' \in Seq(Cell) /\ Len(content') = m
      BY <3>1, CellTypes
    <3> QED  BY <3>2 DEF m
  <2>3. witness_index_space' = elements * IndexWidth
    BY <1>4 DEF witness_index_space
  <2>4. BoundedMemory'
    BY <2>1, <2>2, <2>3 DEF BoundedMemory
  <2> QED  BY <1>1, <1>4, <2>1, <2>2, <2>3, <2>4 DEF LengthInv
<1> QED  BY <1>2, <1>3, <1>4 DEF ReadCount, elements

LEMMA ReadSizeLength ==
  ASSUME LengthInv, NEW varint \in Sizes, ReadSize(varint)
  PROVE  LengthInv'
<1>1. CASE Fail
  BY <1>1, FailLength
<1>2. CASE /\ ~Oversized(varint)
           /\ pc' = "resize"
           /\ element_size_varint' = varint
           /\ content' = Put(content, i * IndexWidth,
                             IndexCells(cursor - witness_index_space))
           /\ UNCHANGED <<witness_elements, i, cursor>>
  <2>1. /\ varint \in Nat /\ MaxVecSize \in Nat
        /\ witness_index_space \in Nat /\ witness_index_space' = witness_index_space
        /\ i * IndexWidth \in Nat
        /\ VarIntSize(varint) \in Nat /\ AsUsize(varint) \in Nat
    BY <1>2, SpaceNat, VarIntSizeNat, AsUsizeNat, WidthAssumption, DecodeAssumption
       DEF LengthInv, witness_index_space
  <2>2. cursor - witness_index_space \in Nat
    BY <2>1 DEF LengthInv, ReadSize
  <2>3. content' \in Seq(Cell) /\ Len(content') = Len(content)
    BY <1>2, <2>1, <2>2, CellTypes, PutType DEF LengthInv
  <2>4. RequiredLen(element_size_varint)' = RequiredLen(varint)
    BY <1>2 DEF RequiredLen
  <2>5. RequiredLen(varint) <= MaxVecSize + witness_index_space
    BY <1>2, <2>1 DEF Oversized, RequiredLen, LengthInv
  <2>6. BoundedMemory'
    BY <1>2, <2>1, <2>3 DEF BoundedMemory, LengthInv
  <2> QED  BY <1>2, <2>1, <2>3, <2>4, <2>5, <2>6 DEF LengthInv, ReadSize
<1> QED  BY <1>1, <1>2 DEF ReadSize

\* The vector is doubled only while it is not longer than what is required,
\* so that it never grows beyond twice the limit.
LEMMA DoubleLength == LengthInv /\ Double => LengthInv'
<1> SUFFICES ASSUME LengthInv, Double PROVE LengthInv'
  OBVIOUS
<1>1. /\ Len(content) \in Nat /\ witness_index_space \in Nat
      /\ witness_index_space' = witness_index_space
      /\ MaxVecSize \in Nat
  BY SpaceNat, LenProperties, DecodeAssumption
     DEF LengthInv, Double, witness_index_space
<1>2. content' \in Seq(Cell) /\ Len(content') = Len(content) + Len(content)
  BY <1>1, CellTypes, ConcatProperties DEF LengthInv, Double
<1>3. /\ RequiredLen(element_size_varint)' = RequiredLen(element_size_varint)
      /\ RequiredLen(element_size_varint) \in Nat
      /\ RequiredLen(element_size_varint) >= Len(content)
      /\ RequiredLen(element_size_varint) <= MaxVecSize + witness_index_space
  <2>1. VarIntSize(element_size_varint) \in Nat /\ AsUsize(element_size_varint) \in Nat
    BY VarIntSizeNat, AsUsizeNat DEF LengthInv
  <2>2. /\ cursor' = cursor /\ element_size_varint' = element_size_varint /\ pc = "resize"
        /\ RequiredLen(element_size_varint) >= Len(content)
    BY DEF Double
  <2>3. RequiredLen(element_size_varint)' = RequiredLen(element_size_varint)
    BY <2>2 DEF RequiredLen
  <2>4. RequiredLen(element_size_varint) \in Nat
    BY <2>1 DEF RequiredLen, LengthInv
  <2> QED  BY <2>2, <2>3, <2>4 DEF LengthInv
<1>4. Len(content') <= 2 * (MaxVecSize + witness_index_space)
  BY <1>1, <1>2, <1>3
<1>5. BoundedMemory'
  BY <1>1, <1>4 DEF BoundedMemory
<1> QED  BY <1>1, <1>2, <1>3, <1>5 DEF LengthInv, Double

LEMMA ResizedLength == LengthInv /\ Resized => LengthInv'
  BY DEF LengthInv, Resized, BoundedMemory, RequiredLen, witness_index_space

LEMMA ReadDataLength == LengthInv /\ ReadData => LengthInv'
<1> SUFFICES ASSUME LengthInv, ReadData PROVE LengthInv'
  OBVIOUS
<1> DEFINE c == Put(content, cursor, SizeCells(element_size_varint))
<1>1. /\ witness_index_space \in Nat /\ witness_index_space' = witness_index_space
      /\ VarIntSize(element_size_varint) \in Nat /\ MaxVecSize \in Nat
      /\ Len(content) \in Nat
      /\ cursor \in Nat /\ element_size \in Nat /\ i \in Nat
  BY SpaceNat, VarIntSizeNat, AsUsizeNat, LenProperties, DecodeAssumption
     DEF LengthInv, ReadData, element_size, witness_index_space
<1>2. c \in Seq(Cell) /\ Len(c) = Len(content)
  BY <1>1, CellTypes, PutType DEF LengthInv
<1>3. /\ content' = Put(c, cursor + VarIntSize(element_size_varint),
                        DataCells(i, element_size))
      /\ cursor' = cursor + VarIntSize(element_size_varint) + element_size
      /\ i' = i + 1 /\ pc' = "element"
      /\ UNCHANGED <<witness_elements, element_size_varint>>
  BY DEF ReadData
<1>4. content' \in Seq(Cell) /\ Len(content') = Len(content)
  <2> DEFINE p == cursor + VarIntSize(element_size_varint)
             d == DataCells(i, element_size)
  <2>1. p \in Nat
    BY <1>1
  <2>2. d \in Seq(Cell)
    BY <1>1, CellTypes
  <2>3. content' = Put(c, p, d)
    BY <1>3
  <2> HIDE DEF c, p, d
  <2>4. Put(c, p, d) \in Seq(Cell) /\ Len(Put(c, p, d)) = Len(c)
    BY <1>2, <2>1, <2>2, PutType
  <2> QED  BY <1>2, <2>3, <2>4
<1>5. cursor' = RequiredLen(element_size_varint)
  BY <1>1, <1>3 DEF RequiredLen, element_size
<1>6. BoundedMemory'
  BY <1>1, <1>4 DEF BoundedMemory, LengthInv
<1>7. /\ cursor' <= Len(content) /\ cursor' <= MaxVecSize + witness_index_space
      /\ witness_index_space <= cursor'
      /\ witness_index_space <= Len(content) /\ Len(content) # 0
  BY <1>1, <1>3, <1>5 DEF LengthInv, ReadData, RequiredLen, element_size
<1> HIDE DEF c
<1> QED  BY <1>1, <1>3, <1>4, <1>6, <1>7 DEF LengthInv

LEMMA LengthStep == LengthInv /\ [Next]_vars => LengthInv'
<1> SUFFICES ASSUME LengthInv, [Next]_vars PROVE LengthInv'
  OBVIOUS
<1>1. CASE ReadError
  BY <1>1, FailLength DEF ReadError
<1>2. CASE \E n \in Counts : ReadCount(n)
  BY <1>2, ReadCountLength
<1>3. CASE \E varint \in Sizes : ReadSize(varint)
  BY <1>3, ReadSizeLength
<1>4. CASE Return
  BY <1>4 DEF LengthInv, Return, BoundedMemory, witness_index_space
<1>5. CASE UNCHANGED vars
  BY <1>5 DEF LengthInv, vars, BoundedMemory, RequiredLen, witness_index_space
<1> QED
  BY <1>1, <1>2, <1>3, <1>4, <1>5, DoubleLength, ResizedLength, ReadDataLength
  DEF Next, Finished

THEOREM LengthInvariant == Spec => []LengthInv
  BY LengthInit, LengthStep, PTL DEF Spec

\* No announcement makes decode allocate more than twice its limit.
THEOREM MemoryIsBounded == Spec => []BoundedMemory
<1>1. LengthInv => BoundedMemory
  BY DEF LengthInv
<1> QED  BY <1>1, LengthInvariant, PTL

\* No slice of decode is out of bounds and no index too wide for its bytes.
THEOREM SlicesAreInBounds == Spec => []SlicesInBounds
<1>1. LengthInv => SlicesInBounds
  <2> SUFFICES ASSUME LengthInv PROVE SlicesInBounds
    OBVIOUS
  <2>1. /\ witness_index_space \in Nat /\ Len(content) \in Nat
        /\ MaxVecSize \in Nat /\ IndexMax \in Nat /\ MaxVecSize <= IndexMax
        /\ IndexWidth \in Nat
    BY SpaceNat, LenProperties, WidthAssumption, DecodeAssumption DEF LengthInv
  <2>2. ASSUME pc = "element", i < witness_elements
        PROVE  (i + 1) * IndexWidth <= Len(content)
    <3>1. i + 1 <= witness_elements
      BY <2>2 DEF LengthInv
    <3>2. (i + 1) * IndexWidth <= witness_elements * IndexWidth
      BY <2>1, <3>1 DEF LengthInv
    <3> QED  BY <2>1, <2>2, <3>2 DEF LengthInv, witness_index_space
  <2>3. pc = "element" => cursor - witness_index_space <= IndexMax
    BY <2>1 DEF LengthInv
  <2>4. pc = "data" => RequiredLen(element_size_varint) <= Len(content)
    <3>1. VarIntSize(element_size_varint) \in Nat /\ AsUsize(element_size_varint) \in Nat
      BY VarIntSizeNat, AsUsizeNat DEF LengthInv
    <3> QED  BY <2>1, <3>1 DEF LengthInv, RequiredLen
  <2>5. pc = "element" => /\ witness_index_space <= cursor
                          /\ cursor <= Len(content)
    BY DEF LengthInv
  <2> QED  BY <2>2, <2>3, <2>4, <2>5 DEF SlicesInBounds
<1> QED  BY <1>1, LengthInvariant, PTL

-----------------------------------------------------------------------------
(* What the vector holds.                                                  *)

\* The cells stand behind position p.
Holds(c, p, cells) == \A k \in 1 .. Len(cells) : c[p + k] = cells[k]

\* What is written stands where it was written.
LEMMA PutHolds ==
  ASSUME NEW c \in Seq(Cell), NEW p \in Nat, NEW cells \in Seq(Cell), p + Len(cells) <= Len(c)
  PROVE  Holds(Put(c, p, cells), p, cells)
<1>1. Len(c) \in Nat /\ Len(cells) \in Nat
  BY LenProperties
<1> SUFFICES ASSUME NEW k \in 1 .. Len(cells)
             PROVE  Put(c, p, cells)[p + k] = cells[k]
  BY DEF Holds
<1>2. p + k \in 1 .. Len(c) /\ p + k > p /\ p + k <= p + Len(cells) /\ (p + k) - p = k
  BY <1>1
<1> QED  BY <1>2 DEF Put

\* What stands before or behind the cells that are written stays.
LEMMA PutKeeps ==
  ASSUME NEW c \in Seq(Cell), NEW p \in Nat, NEW cells \in Seq(Cell),
         NEW q \in Nat, NEW others \in Seq(Cell), q + Len(others) <= Len(c),
         Holds(c, q, others),
         q + Len(others) <= p \/ p + Len(cells) <= q
  PROVE  Holds(Put(c, p, cells), q, others)
<1>1. Len(c) \in Nat /\ Len(cells) \in Nat /\ Len(others) \in Nat
  BY LenProperties
<1> SUFFICES ASSUME NEW k \in 1 .. Len(others)
             PROVE  Put(c, p, cells)[q + k] = others[k]
  BY DEF Holds
<1>2. q + k \in 1 .. Len(c) /\ ~ (q + k > p /\ q + k <= p + Len(cells))
  BY <1>1
<1>3. Put(c, p, cells)[q + k] = c[q + k]
  BY <1>2 DEF Put
<1> QED  BY <1>3 DEF Holds

\* The number of cells of width w in a * w cells.
LEMMA DivExact ==
  ASSUME NEW a \in Nat, NEW w \in Nat \ {0}
  PROVE  (a * w) \div w = a
<1>1. a * w \in Nat
  OBVIOUS
<1> QED  BY <1>1

\* A longer vector holds what the shorter one held.
LEMMA GrowingKeeps ==
  ASSUME NEW c \in Seq(Cell), NEW more \in Seq(Cell),
         NEW q \in Nat, NEW others \in Seq(Cell), q + Len(others) <= Len(c),
         Holds(c, q, others)
  PROVE  Holds(c \o more, q, others)
<1>1. Len(c) \in Nat /\ Len(more) \in Nat /\ Len(others) \in Nat
  BY LenProperties
<1> SUFFICES ASSUME NEW k \in 1 .. Len(others)
             PROVE  (c \o more)[q + k] = others[k]
  BY DEF Holds
<1>2. q + k \in 1 .. Len(c)
  BY <1>1
<1>3. (c \o more)[q + k] = c[q + k]
  BY <1>1, <1>2, ConcatProperties
<1> QED  BY <1>3 DEF Holds

\* How many cells there are, and what the first ones say.
LEMMA CellLengths ==
  ASSUME NEW n \in Nat
  PROVE  /\ Len(IndexCells(n)) = IndexWidth /\ IndexCells(n)[1][2] = n
         /\ Len(SizeCells(n)) = VarIntSize(n) /\ SizeCells(n)[1][2] = n
         /\ \A id \in Nat : Len(DataCells(id, n)) = n
<1>1. IndexWidth \in Nat \ {0} /\ VarIntSize(n) \in Nat \ {0}
  BY WidthAssumption, VarIntSizeNat
<1>2. Len(IndexCells(n)) = IndexWidth /\ IndexCells(n)[1][2] = n
  BY <1>1 DEF IndexCells
<1>3. Len(SizeCells(n)) = VarIntSize(n) /\ SizeCells(n)[1][2] = n
  BY <1>1 DEF SizeCells
<1>4. \A id \in Nat : Len(DataCells(id, n)) = n
  BY DEF DataCells
<1> QED  BY <1>2, <1>3, <1>4

-----------------------------------------------------------------------------
(* The elements, each at its index.                                        *)

\* Element j was announced with n bytes and packed at index p of c.
StoredAt(c, j, p, n) ==
  /\ AsUsize(n) = Len(received[j])
  /\ witness_index_space + p + VarIntSize(n) + Len(received[j]) <= cursor
  /\ Holds(c, (j - 1) * IndexWidth, IndexCells(p))
  /\ Holds(c, witness_index_space + p, SizeCells(n))
  /\ Holds(c, witness_index_space + p + VarIntSize(n), received[j])

StoredInv ==
  /\ received \in Seq(Seq(Cell))
  /\ pc = "count" => received = << >> /\ i = 0
  /\ pc \in {"count", "element", "resize", "data"} => result = Default
  /\ pc \in {"element", "resize", "data"} =>
       /\ Len(received) = i /\ i <= witness_elements
       /\ cursor <= Len(content)
       /\ \A j \in 1 .. i : \E p \in 0 .. cursor, n \in Sizes : StoredAt(content, j, p, n)
  /\ pc \in {"resize", "data"} =>
       /\ i < witness_elements /\ element_size_varint \in Sizes
       /\ Holds(content, i * IndexWidth, IndexCells(cursor - witness_index_space))
  /\ pc = "ok" => IteratesReceived

LEMMA StoredStart == Init => StoredInv
<1> SUFFICES ASSUME Init PROVE StoredInv
  OBVIOUS
<1>1. received \in Seq(Seq(Cell))
  BY EmptySeq DEF Init
<1> QED  BY <1>1 DEF Init, StoredInv

\* An index that comes before the gap's end leaves room for its cells.
LEMMA IndexRoom ==
  ASSUME LengthInv, NEW j \in Nat, j < witness_elements
  PROVE  /\ j * IndexWidth \in Nat
         /\ j * IndexWidth + IndexWidth <= witness_index_space
         /\ (j + 1) * IndexWidth = j * IndexWidth + IndexWidth
<1>1. IndexWidth \in Nat /\ witness_elements \in Nat
  BY WidthAssumption DEF LengthInv
<1>2. (j + 1) * IndexWidth <= witness_elements * IndexWidth
  <2>1. j + 1 <= witness_elements
    BY <1>1
  <2> QED  BY <1>1, <2>1
<1>3. (j + 1) * IndexWidth = j * IndexWidth + IndexWidth /\ j * IndexWidth \in Nat
  BY <1>1
<1> QED  BY <1>2, <1>3 DEF witness_index_space

\* What ends at the cursor at the latest is apart from what is written.
LEMMA Apart ==
  ASSUME NEW space \in Nat, NEW p \in Nat, NEW v \in Nat, NEW l \in Nat, NEW end \in Nat,
         NEW len \in Nat, NEW q \in Nat, NEW m \in Nat,
         space + p + v + l <= end, end <= len, q + m <= space \/ end <= q
  PROVE  /\ space + p + v \in Nat /\ space + p + v + l <= len
         /\ space + p + v + l <= q \/ q + m <= space + p + v
  OBVIOUS

\* What is written into the gap behind the last index, or behind the cursor,
\* disturbs no element.
LEMMA StoredKept ==
  ASSUME LengthInv, StoredInv, pc \in {"element", "resize", "data"},
         NEW j \in 1 .. i, NEW p \in 0 .. cursor, NEW n \in Sizes,
         NEW c \in Seq(Cell), cursor <= Len(c), StoredAt(c, j, p, n),
         NEW q \in Nat, NEW cells \in Seq(Cell),
         \/ i * IndexWidth <= q /\ q + Len(cells) <= witness_index_space
         \/ cursor <= q
  PROVE  StoredAt(Put(c, q, cells), j, p, n)
<1> DEFINE space == witness_index_space
           b == (j - 1) * IndexWidth
<1>1. /\ space \in Nat /\ cursor \in Nat /\ i \in Nat /\ space <= cursor
      /\ Len(c) \in Nat /\ Len(cells) \in Nat /\ p \in Nat /\ n \in Nat /\ IndexWidth \in Nat
  BY SpaceNat, LenProperties, DecodeAssumption, WidthAssumption DEF LengthInv
<1>2. /\ received[j] \in Seq(Cell) /\ Len(received[j]) \in Nat
      /\ VarIntSize(n) \in Nat
      /\ IndexCells(p) \in Seq(Cell) /\ Len(IndexCells(p)) = IndexWidth
      /\ SizeCells(n) \in Seq(Cell) /\ Len(SizeCells(n)) = VarIntSize(n)
  <2>1. received[j] \in Seq(Cell)
    BY <1>1, ElementOfSeq DEF StoredInv
  <2>2. IndexCells(p) \in Seq(Cell) /\ Len(IndexCells(p)) = IndexWidth
    BY <1>1, CellTypes, CellLengths
  <2>3. SizeCells(n) \in Seq(Cell) /\ Len(SizeCells(n)) = VarIntSize(n)
    BY <1>1, CellTypes, CellLengths
  <2> QED  BY <1>1, <2>1, <2>2, <2>3, VarIntSizeNat, LenProperties
<1>3. b \in Nat /\ b + IndexWidth <= i * IndexWidth /\ i * IndexWidth <= space
  <2>1. j - 1 \in Nat /\ j - 1 < witness_elements /\ (j - 1) + 1 = j
    BY <1>1 DEF StoredInv, LengthInv
  <2>2. b \in Nat /\ j * IndexWidth = b + IndexWidth
    BY <2>1, IndexRoom
  <2>3. j * IndexWidth <= i * IndexWidth
    BY <1>1
  <2>4. i * IndexWidth <= witness_elements * IndexWidth
    BY <1>1 DEF StoredInv, LengthInv
  <2> QED  BY <2>2, <2>3, <2>4 DEF witness_index_space
<1>4. Holds(Put(c, q, cells), b, IndexCells(p))
  <2>1. Holds(c, b, IndexCells(p))
    BY DEF StoredAt
  <2> HIDE DEF space, b
  <2>2. b + Len(IndexCells(p)) <= Len(c) /\ b + Len(IndexCells(p)) <= q
    BY <1>1, <1>2, <1>3 DEF space
  <2> QED  BY <1>1, <1>2, <1>3, <2>1, <2>2, PutKeeps
<1>5. Holds(Put(c, q, cells), space + p, SizeCells(n))
  <2>1. Holds(c, space + p, SizeCells(n))
        /\ space + p + VarIntSize(n) + Len(received[j]) <= cursor
    BY DEF StoredAt
  <2> HIDE DEF b
  <2>2. /\ space + p \in Nat /\ space + p + Len(SizeCells(n)) <= Len(c)
        /\ \/ space + p + Len(SizeCells(n)) <= q
           \/ q + Len(cells) <= space + p
    BY <1>1, <1>2, <2>1
  <2> QED  BY <1>1, <1>2, <2>1, <2>2, PutKeeps
<1>6. Holds(Put(c, q, cells), space + p + VarIntSize(n), received[j])
  <2>1. Holds(c, space + p + VarIntSize(n), received[j])
        /\ space + p + VarIntSize(n) + Len(received[j]) <= cursor
    BY DEF StoredAt
  <2> HIDE DEF b, space
  <2> DEFINE v == VarIntSize(n)
             l == Len(received[j])
  <2>3. v \in Nat /\ l \in Nat /\ space + p + v + l <= cursor
    BY <1>2, <2>1
  <2> HIDE DEF v, l
  <2>4. /\ space + p + v \in Nat /\ space + p + v + l <= Len(c)
        /\ space + p + v + l <= q \/ q + Len(cells) <= space + p + v
    <3>1. q + Len(cells) <= space \/ cursor <= q
      BY DEF space
    <3> QED  BY <1>1, <2>3, <3>1, Apart
  <2>5. Holds(c, space + p + v, received[j]) /\ received[j] \in Seq(Cell)
    BY <1>2, <2>1 DEF v
  <2>6. Holds(Put(c, q, cells), space + p + v, received[j])
    BY <2>4, <2>5, PutKeeps DEF l
  <2> QED  BY <2>6 DEF v
<1> QED  BY <1>4, <1>5, <1>6 DEF StoredAt

\* The default witness has no items.
LEMMA NothingIterates == received = << >> => ToVec(Default) = received
<1>1. SizeHint(Default) = 0
  <2>1. Len(<< >>) = 0 /\ IndexWidth \in Nat \ {0}
    BY WidthAssumption
  <2>2. 0 \div IndexWidth = 0
    BY <2>1
  <2> QED  BY <2>1, <2>2 DEF SizeHint, Default
<1>2. ToVec(Default) = [k \in 1 .. 0 |-> Item(Default, k - 1)]
  BY <1>1 DEF ToVec
<1> QED  BY <1>2

LEMMA ReadCountStored ==
  ASSUME LengthInv, StoredInv, NEW n \in Counts, ReadCount(n)
  PROVE  StoredInv'
<1>1. pc = "count" /\ received = << >> /\ i = 0 /\ result = Default
  BY DEF ReadCount, StoredInv
<1>2. received \in Seq(Seq(Cell)) /\ ToVec(Default) = received
  BY <1>1, NothingIterates DEF StoredInv
<1>3. CASE Fail
  BY <1>2, <1>3 DEF Fail, StoredInv
<1>4. CASE pc' = "ok" /\ UNCHANGED <<received, result>>
  BY <1>1, <1>2, <1>4 DEF StoredInv, IteratesReceived
<1>5. CASE /\ AsUsize(n) \in 1 .. MaxVecSize
           /\ pc' = "element" /\ witness_elements' = AsUsize(n)
           /\ UNCHANGED <<i, received, result>>
  <2>1. Len(received) = 0 /\ i <= AsUsize(n)
    BY <1>1, <1>5
  <2>2. 1 .. i' = {}
    BY <1>1, <1>5
  <2>3. cursor' <= Len(content')
    <3>1. LengthInv'
      BY ReadCountLength
    <3> QED  BY <1>5, <3>1 DEF LengthInv
  <2> QED  BY <1>1, <1>2, <1>5, <2>1, <2>2, <2>3 DEF StoredInv
<1> QED  BY <1>3, <1>4, <1>5 DEF ReadCount

LEMMA ReadSizeStored ==
  ASSUME LengthInv, StoredInv, NEW varint \in Sizes, ReadSize(varint)
  PROVE  StoredInv'
<1>1. CASE Fail
  BY <1>1 DEF Fail, StoredInv
<1>2. CASE /\ pc' = "resize" /\ element_size_varint' = varint
           /\ content' = Put(content, i * IndexWidth, IndexCells(cursor - witness_index_space))
           /\ UNCHANGED <<announced, witness_elements, i, cursor, result, received>>
  <2> DEFINE cells == IndexCells(cursor - witness_index_space)
  <2>1. /\ pc = "element" /\ i < witness_elements /\ i \in Nat
        /\ cursor - witness_index_space \in Nat /\ cursor <= Len(content)
        /\ witness_index_space \in Nat /\ witness_index_space <= Len(content)
        /\ content \in Seq(Cell) /\ IndexWidth \in Nat /\ Len(content) \in Nat
    BY SpaceNat, WidthAssumption, LenProperties DEF ReadSize, LengthInv
  <2>2. cells \in Seq(Cell) /\ Len(cells) = IndexWidth
    BY <2>1, CellTypes, CellLengths
  <2>3. i * IndexWidth \in Nat /\ i * IndexWidth + IndexWidth <= witness_index_space
    BY <2>1, IndexRoom
  <2> HIDE DEF cells
  <2>4. Holds(content', i * IndexWidth, cells)
    <3>1. i * IndexWidth + Len(cells) <= Len(content)
      BY <2>1, <2>2, <2>3
    <3>2. content' = Put(content, i * IndexWidth, cells)
      BY <1>2 DEF cells
    <3> QED  BY <2>1, <2>2, <2>3, <3>1, <3>2, PutHolds
  <2>5. ASSUME NEW j \in 1 .. i
        PROVE  \E p \in 0 .. cursor, n \in Sizes : StoredAt(content, j, p, n)'
    <3>1. PICK p \in 0 .. cursor, n \in Sizes : StoredAt(content, j, p, n)
      BY <2>1 DEF StoredInv
    <3>2. StoredAt(Put(content, i * IndexWidth, cells), j, p, n)
      <4>1. i * IndexWidth <= i * IndexWidth /\ i * IndexWidth + Len(cells) <= witness_index_space
        BY <2>2, <2>3
      <4>2. i * IndexWidth \in Nat
        BY <2>3
      <4> QED  BY <2>1, <2>2, <3>1, <4>1, <4>2, StoredKept
    <3>3. StoredAt(content, j, p, n)'
      BY <1>2, <3>2 DEF StoredAt, witness_index_space, cells
    <3> QED  BY <3>3
  <2>6. witness_index_space' = witness_index_space
    BY <1>2 DEF witness_index_space
  <2>7. cursor <= Len(content')
    <3>1. Len(Put(content, i * IndexWidth, cells)) = Len(content)
      BY <2>1, <2>2, <2>3, PutType
    <3> QED  BY <1>2, <2>1, <3>1 DEF cells
  <2> QED  BY <1>2, <2>1, <2>4, <2>5, <2>6, <2>7 DEF StoredInv, cells
<1> QED  BY <1>1, <1>2 DEF ReadSize

\* Doubling the vector disturbs no element.
LEMMA StoredGrown ==
  ASSUME LengthInv, StoredInv, pc \in {"element", "resize", "data"},
         NEW j \in 1 .. i, NEW p \in 0 .. cursor, NEW n \in Sizes,
         StoredAt(content, j, p, n), NEW more \in Seq(Cell)
  PROVE  StoredAt(content \o more, j, p, n)
<1> DEFINE b == (j - 1) * IndexWidth
           s == witness_index_space + p
           d == witness_index_space + p + VarIntSize(n)
<1>1. /\ witness_index_space \in Nat /\ cursor \in Nat /\ i \in Nat /\ Len(content) \in Nat
      /\ p \in Nat /\ n \in Nat /\ cursor <= Len(content) /\ VarIntSize(n) \in Nat
      /\ witness_index_space <= Len(content)
  BY SpaceNat, LenProperties, VarIntSizeNat, DecodeAssumption DEF LengthInv, StoredInv
<1>2. received[j] \in Seq(Cell) /\ Len(received[j]) \in Nat
  <2>1. received[j] \in Seq(Cell)
    BY <1>1, ElementOfSeq DEF StoredInv
  <2> QED  BY <2>1, LenProperties
<1>3. /\ IndexCells(p) \in Seq(Cell) /\ Len(IndexCells(p)) = IndexWidth
      /\ SizeCells(n) \in Seq(Cell) /\ Len(SizeCells(n)) = VarIntSize(n)
  BY <1>1, CellTypes, CellLengths
<1>4. b \in Nat /\ b + IndexWidth <= Len(content)
  <2>1. j - 1 \in Nat /\ j - 1 < witness_elements
    BY <1>1 DEF StoredInv, LengthInv
  <2>2. b \in Nat /\ b + IndexWidth <= witness_index_space
    BY <2>1, IndexRoom
  <2> QED  BY <1>1, <2>2, WidthAssumption
<1>5. /\ s \in Nat /\ s + VarIntSize(n) <= Len(content)
      /\ d \in Nat /\ d + Len(received[j]) <= Len(content)
  <2>1. s + VarIntSize(n) + Len(received[j]) <= cursor
    BY DEF StoredAt
  <2>2. d = s + VarIntSize(n) /\ s \in Nat
    BY <1>1
  <2> DEFINE v == VarIntSize(n)
             l == Len(received[j])
  <2> HIDE DEF s, d, v, l
  <2>3. v \in Nat /\ l \in Nat /\ s + v + l <= cursor /\ d = s + v
    BY <1>1, <1>2, <2>1, <2>2 DEF v, l
  <2>4. s \in Nat /\ s + v <= Len(content) /\ d \in Nat /\ d + l <= Len(content)
    BY <1>1, <2>2, <2>3
  <2> QED  BY <2>4 DEF v, l
<1>6. Holds(content, b, IndexCells(p)) /\ Holds(content, s, SizeCells(n)) /\ Holds(content, d, received[j])
  BY DEF StoredAt
<1>7. content \in Seq(Cell)
  BY DEF LengthInv
<1> HIDE DEF b, s, d
<1>8. Holds(content \o more, b, IndexCells(p))
  BY <1>3, <1>4, <1>6, <1>7, GrowingKeeps
<1>9. Holds(content \o more, s, SizeCells(n))
  BY <1>3, <1>5, <1>6, <1>7, GrowingKeeps
<1>10. Holds(content \o more, d, received[j])
  BY <1>2, <1>5, <1>6, <1>7, GrowingKeeps
<1> QED  BY <1>8, <1>9, <1>10 DEF StoredAt, b, s, d

LEMMA DoubleStored == LengthInv /\ StoredInv /\ Double => StoredInv'
<1> SUFFICES ASSUME LengthInv, StoredInv, Double PROVE StoredInv'
  OBVIOUS
<1> DEFINE more == Zeros(Len(content))
<1>1. /\ content \in Seq(Cell) /\ Len(content) \in Nat /\ i \in Nat /\ cursor \in Nat
      /\ witness_index_space \in Nat
  BY LenProperties, SpaceNat DEF LengthInv
<1>2. more \in Seq(Cell) /\ Len(more) = Len(content)
  BY <1>1, CellTypes
<1>3. /\ pc = "resize" /\ content' = content \o more
      /\ UNCHANGED <<pc, witness_elements, i, cursor, element_size_varint, result, received>>
      /\ witness_index_space' = witness_index_space
  BY DEF Double, witness_index_space
<1> HIDE DEF more
<1>4. Len(content') = Len(content) + Len(content)
  <2>1. Len(content \o more) = Len(content) + Len(more)
    BY <1>1, <1>2, ConcatProperties
  <2> QED  BY <1>2, <1>3, <2>1
<1>5. ASSUME NEW j \in 1 .. i
      PROVE  \E p \in 0 .. cursor, n \in Sizes : StoredAt(content, j, p, n)'
  <2>1. PICK p \in 0 .. cursor, n \in Sizes : StoredAt(content, j, p, n)
    BY <1>3 DEF StoredInv
  <2>2. StoredAt(content \o more, j, p, n)
    BY <1>2, <1>3, <2>1, StoredGrown
  <2>3. StoredAt(content, j, p, n)'
    BY <1>3, <2>2 DEF StoredAt
  <2> QED  BY <2>3
<1>6. Holds(content, i * IndexWidth, IndexCells(cursor - witness_index_space))'
  <2> DEFINE cells == IndexCells(cursor - witness_index_space)
             b == i * IndexWidth
  <2>1. cells \in Seq(Cell) /\ Len(cells) = IndexWidth
    <3>1. cursor - witness_index_space \in Nat
      BY <1>1, <1>3 DEF LengthInv
    <3> QED  BY <3>1, CellTypes, CellLengths
  <2>2. b \in Nat /\ b + IndexWidth <= Len(content)
    <3>1. i < witness_elements
      BY <1>3 DEF StoredInv
    <3>2. b \in Nat /\ b + IndexWidth <= witness_index_space
      BY <1>1, <3>1, IndexRoom
    <3>3. witness_index_space <= Len(content)
      BY <1>3 DEF LengthInv
    <3> QED  BY <1>1, <3>2, <3>3, WidthAssumption
  <2>3. Holds(content, b, cells)
    BY <1>3 DEF StoredInv
  <2>4. Holds(content, b, cells)' <=> Holds(content', b, cells)
    BY <1>3
  <2> HIDE DEF cells, b
  <2>5. Holds(content', b, cells)
    BY <1>1, <1>2, <1>3, <2>1, <2>2, <2>3, GrowingKeeps
  <2> QED  BY <1>3, <2>5 DEF cells, b
<1>7. cursor' <= Len(content')
  BY <1>1, <1>3, <1>4 DEF StoredInv
<1> QED  BY <1>3, <1>5, <1>6, <1>7 DEF StoredInv

LEMMA ResizedStored == LengthInv /\ StoredInv /\ Resized => StoredInv'
<1> SUFFICES ASSUME LengthInv, StoredInv, Resized PROVE StoredInv'
  OBVIOUS
<1>1. /\ pc = "resize" /\ pc' = "data"
      /\ UNCHANGED <<witness_elements, i, cursor, element_size_varint, content, result, received>>
      /\ witness_index_space' = witness_index_space
  BY DEF Resized, witness_index_space
<1>2. ASSUME NEW j \in 1 .. i
      PROVE  \E p \in 0 .. cursor, n \in Sizes : StoredAt(content, j, p, n)'
  <2>1. PICK p \in 0 .. cursor, n \in Sizes : StoredAt(content, j, p, n)
    BY <1>1 DEF StoredInv
  <2>2. StoredAt(content, j, p, n)'
    BY <1>1, <2>1 DEF StoredAt
  <2> QED  BY <2>2
<1> QED  BY <1>1, <1>2 DEF StoredInv

\* What the bytes of an element, read at the cursor, make of the vector.
LEMMA DataWritten ==
  ASSUME LengthInv, StoredInv, ReadData
  PROVE  /\ element_size \in Nat /\ element_size_varint \in Sizes
         /\ DataCells(i, element_size) \in Seq(Cell)
         /\ Len(DataCells(i, element_size)) = element_size
         /\ cursor' = cursor + VarIntSize(element_size_varint) + element_size
         /\ Len(content') = Len(content) /\ cursor' <= Len(content)
         /\ Holds(content', i * IndexWidth, IndexCells(cursor - witness_index_space))
         /\ Holds(content', cursor, SizeCells(element_size_varint))
         /\ Holds(content', cursor + VarIntSize(element_size_varint), DataCells(i, element_size))
         /\ \A q \in Nat, others \in Seq(Cell) :
              Holds(content, q, others) /\ q + Len(others) <= cursor => Holds(content', q, others)
<1> DEFINE v == element_size_varint
           size == VarIntSize(v)
           bytes == DataCells(i, element_size)
           head == SizeCells(v)
           first == Put(content, cursor, head)
           last == i * IndexWidth
           p == cursor - witness_index_space
           index == IndexCells(p)
<1>1. /\ content \in Seq(Cell) /\ Len(content) \in Nat /\ i \in Nat /\ cursor \in Nat
      /\ witness_index_space \in Nat /\ v \in Nat /\ v \in Sizes /\ element_size \in Nat
      /\ i < witness_elements /\ pc = "data" /\ cursor <= Len(content)
      /\ witness_index_space <= cursor
  <2>1. pc = "data"
    BY DEF ReadData
  <2>2. v \in Sizes /\ v \in Nat
    BY <2>1, DecodeAssumption DEF StoredInv
  <2>3. element_size \in Nat
    BY <2>2, AsUsizeNat DEF element_size
  <2> QED  BY <2>1, <2>2, <2>3, LenProperties, SpaceNat DEF LengthInv, StoredInv
<1>2. size \in Nat
  BY <1>1, VarIntSizeNat
<1>3. /\ head \in Seq(Cell) /\ Len(head) = size
      /\ bytes \in Seq(Cell) /\ Len(bytes) = element_size
  BY <1>1, CellTypes, CellLengths
<1>4. p \in Nat /\ index \in Seq(Cell) /\ Len(index) = IndexWidth
  <2>1. p \in Nat
    BY <1>1
  <2> QED  BY <2>1, CellTypes, CellLengths
<1>5. cursor + size + element_size <= Len(content)
  <2>1. RequiredLen(v) < Len(content) /\ RequiredLen(v) = cursor + element_size + size
    BY <1>1 DEF LengthInv, RequiredLen, element_size
  <2> HIDE DEF size
  <2> QED  BY <1>1, <1>2, <2>1
<1>6. content' = Put(first, cursor + size, bytes) /\ cursor' = cursor + size + element_size
  BY DEF ReadData
<1>7. last \in Nat /\ last + IndexWidth <= witness_index_space /\ IndexWidth \in Nat
  BY <1>1, IndexRoom, WidthAssumption
<1>8. Holds(content, last, index)
  BY <1>1 DEF StoredInv
<1>9. first \in Seq(Cell) /\ Len(first) = Len(content)
  BY <1>1, <1>3, PutType
<1>10. cursor + size \in Nat /\ cursor <= cursor + size /\ cursor' <= Len(content)
  <2> HIDE DEF size
  <2> QED  BY <1>1, <1>2, <1>5, <1>6
<1> HIDE DEF size, bytes, head, first, last, p, index
<1>11. Len(content') = Len(content)
  <2>1. Len(Put(first, cursor + size, bytes)) = Len(first)
    BY <1>3, <1>9, <1>10, PutType
  <2> QED  BY <1>6, <1>9, <2>1
<1>12. ASSUME NEW q \in Nat, NEW others \in Seq(Cell),
              Holds(content, q, others), q + Len(others) <= cursor
       PROVE  Holds(content', q, others)
  <2>1. Len(others) \in Nat
    BY LenProperties
  <2>2. q + Len(others) <= Len(content) /\ q + Len(others) <= cursor + size
    BY <1>1, <1>2, <1>12, <2>1
  <2>3. Holds(first, q, others)
    BY <1>1, <1>3, <1>12, <2>2, PutKeeps DEF first
  <2> QED  BY <1>3, <1>6, <1>9, <1>10, <2>2, <2>3, PutKeeps
<1>13. Holds(content', last, index)
  <2>1. last + Len(index) <= cursor
    BY <1>1, <1>4, <1>7
  <2> QED  BY <1>4, <1>7, <1>8, <1>12, <2>1
<1>14. Holds(content', cursor, head)
  <2>1. cursor + Len(head) <= Len(content) /\ cursor + Len(head) <= cursor + size
    BY <1>1, <1>2, <1>3, <1>5
  <2>2. Holds(first, cursor, head)
    BY <1>1, <1>3, <2>1, PutHolds DEF first
  <2> QED  BY <1>1, <1>3, <1>6, <1>9, <1>10, <2>1, <2>2, PutKeeps
<1>15. Holds(content', cursor + size, bytes)
  <2>1. cursor + size + Len(bytes) <= Len(first)
    BY <1>3, <1>5, <1>9
  <2> QED  BY <1>3, <1>6, <1>9, <1>10, <2>1, PutHolds
<1> QED
  BY <1>1, <1>3, <1>6, <1>10, <1>11, <1>12, <1>13, <1>14, <1>15
  DEF size, bytes, head, last, p, index

LEMMA ReadDataStored == LengthInv /\ StoredInv /\ ReadData => StoredInv'
<1> SUFFICES ASSUME LengthInv, StoredInv, ReadData PROVE StoredInv'
  OBVIOUS
<1> DEFINE v == element_size_varint
           size == VarIntSize(v)
           bytes == DataCells(i, element_size)
<1>1. /\ i \in Nat /\ cursor \in Nat /\ Len(content) \in Nat
      /\ witness_index_space \in Nat /\ witness_index_space <= cursor
      /\ i < witness_elements /\ pc = "data" /\ result = Default
      /\ Len(received) = i /\ received \in Seq(Seq(Cell))
  <2>1. pc = "data"
    BY DEF ReadData
  <2> QED  BY <2>1, LenProperties, SpaceNat DEF LengthInv, StoredInv
<1>2. /\ v \in Sizes /\ v \in Nat /\ size \in Nat /\ element_size \in Nat
      /\ bytes \in Seq(Cell) /\ Len(bytes) = element_size
  <2>1. v \in Sizes /\ v \in Nat
    BY DataWritten, DecodeAssumption
  <2> QED  BY <2>1, DataWritten, VarIntSizeNat
<1>3. /\ cursor' = cursor + size + element_size
      /\ Len(content') = Len(content) /\ cursor' <= Len(content)
      /\ Holds(content', i * IndexWidth, IndexCells(cursor - witness_index_space))
      /\ Holds(content', cursor, SizeCells(v))
      /\ Holds(content', cursor + size, bytes)
      /\ \A q \in Nat, others \in Seq(Cell) :
           Holds(content, q, others) /\ q + Len(others) <= cursor => Holds(content', q, others)
  BY DataWritten
<1>4. /\ i' = i + 1 /\ received' = Append(received, bytes) /\ pc' = "element"
      /\ UNCHANGED <<witness_elements, element_size_varint, result>>
      /\ witness_index_space' = witness_index_space
  BY DEF ReadData, witness_index_space
<1> HIDE DEF size, bytes
<1>5. /\ received'[i + 1] = bytes /\ \A j \in 1 .. i : received'[j] = received[j]
      /\ received' \in Seq(Seq(Cell)) /\ Len(received') = i + 1
  <2>1. received \in Seq(Seq(Cell)) /\ bytes \in Seq(Cell) /\ received' = Append(received, bytes)
        /\ Len(received) = i /\ i \in Nat
    BY <1>1, <1>2, <1>4
  <2> QED  BY <2>1, AppendProperties
<1>6. cursor <= cursor' /\ cursor' \in Nat
  BY <1>1, <1>2, <1>3
<1>7. \A j \in 1 .. i : \E q \in 0 .. cursor, n \in Sizes : StoredAt(content, j, q, n)
  BY <1>1 DEF StoredInv
<1>8. ASSUME NEW j \in 1 .. i
      PROVE  \E q \in 0 .. cursor', n \in Sizes : StoredAt(content, j, q, n)'
  <2>1. PICK q \in 0 .. cursor, n \in Sizes : StoredAt(content, j, q, n)
    BY <1>7
  <2>2. /\ received[j] \in Seq(Cell) /\ Len(received[j]) \in Nat
        /\ q \in Nat /\ n \in Nat /\ VarIntSize(n) \in Nat
    <3>1. received[j] \in Seq(Cell) /\ q \in Nat /\ n \in Nat
      BY <1>1, ElementOfSeq, DecodeAssumption
    <3>2. Len(received[j]) \in Nat
      BY <3>1, LenProperties
    <3>3. VarIntSize(n) \in Nat
      BY <3>1, VarIntSizeNat
    <3> QED  BY <3>1, <3>2, <3>3
  <2>3. /\ IndexCells(q) \in Seq(Cell) /\ Len(IndexCells(q)) = IndexWidth
        /\ SizeCells(n) \in Seq(Cell) /\ Len(SizeCells(n)) = VarIntSize(n)
    BY <2>2, CellTypes, CellLengths
  <2>4. (j - 1) * IndexWidth \in Nat /\ (j - 1) * IndexWidth + IndexWidth <= cursor
    <3>1. j - 1 \in Nat /\ j - 1 < witness_elements
      BY <1>1 DEF LengthInv
    <3>2. (j - 1) * IndexWidth \in Nat /\ (j - 1) * IndexWidth + IndexWidth <= witness_index_space
      BY <3>1, IndexRoom
    <3> QED  BY <1>1, <3>2, WidthAssumption
  <2> DEFINE b == (j - 1) * IndexWidth
             s == witness_index_space + q
             k == VarIntSize(n)
             l == Len(received[j])
  <2>5. s + k + l <= cursor /\ s \in Nat /\ k \in Nat /\ l \in Nat
    <3>1. s + k + l <= cursor
      BY <2>1 DEF StoredAt
    <3> QED  BY <1>1, <2>2, <3>1
  <2>6. Holds(content, b, IndexCells(q)) /\ Holds(content, s, SizeCells(n))
        /\ Holds(content, s + k, received[j])
    BY <2>1 DEF StoredAt
  <2> HIDE DEF b, s, k, l
  <2>7. s + k \in Nat /\ s + k <= cursor /\ s + k + l <= cursor' /\ q \in 0 .. cursor'
    BY <1>1, <1>6, <2>2, <2>5
  <2>8. Holds(content', b, IndexCells(q))
    BY <1>3, <2>3, <2>4, <2>6 DEF b
  <2>9. Holds(content', s, SizeCells(n))
    BY <1>3, <2>3, <2>5, <2>6, <2>7 DEF k
  <2>10. Holds(content', s + k, received[j])
    BY <1>3, <2>2, <2>5, <2>6, <2>7 DEF l
  <2>11. AsUsize(n) = Len(received[j])
    BY <2>1 DEF StoredAt
  <2>12. StoredAt(content, j, q, n)'
    BY <1>4, <1>5, <2>7, <2>8, <2>9, <2>10, <2>11 DEF StoredAt, b, s, k, l
  <2> QED  BY <2>7, <2>12
<1>9. ASSUME NEW j, j = i + 1
      PROVE  \E q \in 0 .. cursor', n \in Sizes : StoredAt(content, j, q, n)'
  <2> DEFINE p == cursor - witness_index_space
  <2>1. witness_index_space + p = cursor /\ p \in 0 .. cursor'
    BY <1>1, <1>6
  <2>2. ASSUME NEW q, q = p, NEW n, n = v
        PROVE  StoredAt(content, j, q, n)'
    <3>1. AsUsize(n) = Len(bytes)
      BY <1>2, <2>2 DEF element_size
    <3>2. j - 1 = i
      BY <1>1, <1>9
    <3>3. Holds(content', (j - 1) * IndexWidth, IndexCells(q))
      BY <1>3, <2>2, <3>2
    <3>4. Holds(content', witness_index_space + q, SizeCells(n))
      BY <1>3, <2>1, <2>2
    <3>5. Holds(content', witness_index_space + q + VarIntSize(n), bytes)
      BY <1>3, <2>1, <2>2 DEF size
    <3>6. witness_index_space + q + VarIntSize(n) + Len(bytes) <= cursor'
      <4>1. cursor + size + Len(bytes) <= cursor'
        BY <1>1, <1>2, <1>3
      <4> QED  BY <2>1, <2>2, <4>1 DEF size
    <3>7. received'[j] = bytes
      BY <1>5, <1>9
    <3> QED  BY <1>4, <3>1, <3>3, <3>4, <3>5, <3>6, <3>7 DEF StoredAt
  <2> QED  BY <1>2, <2>1, <2>2
<1>10. \A j \in 1 .. i' : \E q \in 0 .. cursor', n \in Sizes : StoredAt(content, j, q, n)'
  <2> TAKE j \in 1 .. i'
  <2>1. j \in 1 .. i \/ j = i + 1
    BY <1>1, <1>4
  <2> QED  BY <1>8, <1>9, <2>1
<1>11. i' <= witness_elements' /\ cursor' <= Len(content')
  BY <1>1, <1>3, <1>4 DEF LengthInv
<1> QED  BY <1>1, <1>4, <1>5, <1>10, <1>11 DEF StoredInv

\* The gap in front becomes the index area behind.
LEMMA Rotated ==
  ASSUME NEW c \in Seq(Cell), NEW n \in Nat, NEW e \in Nat, n <= e, e <= Len(c)
  PROVE  /\ TruncateAndRotate(c, e, n) \in Seq(Cell)
         /\ Len(TruncateAndRotate(c, e, n)) = e
         /\ \A k \in 1 .. e - n : TruncateAndRotate(c, e, n)[k] = c[n + k]
         /\ \A k \in 1 .. n : TruncateAndRotate(c, e, n)[(e - n) + k] = c[k]
<1> DEFINE back == SubSeq(c, n + 1, e)
           front == SubSeq(c, 1, n)
<1>1. Len(c) \in Nat
  BY LenProperties
<1>2. /\ back \in Seq(Cell) /\ Len(back) = e - n
      /\ \A k \in 1 .. e - n : back[k] = c[n + k]
  <2>1. \A k \in n + 1 .. e : c[k] \in Cell
    BY <1>1, ElementOfSeq
  <2>2. n + 1 \in Int /\ e \in Int
    OBVIOUS
  <2>3. back \in Seq(Cell) /\ Len(back) = IF n + 1 <= e THEN e - (n + 1) + 1 ELSE 0
    BY <2>1, <2>2, SubSeqProperties
  <2>4. \A k \in 1 .. e - n : back[k] = c[n + k]
    OBVIOUS
  <2> QED  BY <2>3, <2>4
<1>3. /\ front \in Seq(Cell) /\ Len(front) = n
      /\ \A k \in 1 .. n : front[k] = c[k]
  <2>1. \A k \in 1 .. n : c[k] \in Cell
    BY <1>1, ElementOfSeq
  <2>2. front \in Seq(Cell) /\ Len(front) = IF 1 <= n THEN n - 1 + 1 ELSE 0
    BY <2>1, SubSeqProperties
  <2>3. \A k \in 1 .. n : front[k] = c[k]
    OBVIOUS
  <2> QED  BY <2>2, <2>3
<1> HIDE DEF back, front
<1>4. /\ back \o front \in Seq(Cell) /\ Len(back \o front) = e
      /\ \A k \in 1 .. e : (back \o front)[k] = IF k <= e - n THEN back[k] ELSE front[k - (e - n)]
  <2>1. /\ back \o front \in Seq(Cell) /\ Len(back \o front) = Len(back) + Len(front)
        /\ \A k \in 1 .. Len(back) + Len(front) :
             (back \o front)[k] = IF k <= Len(back) THEN back[k] ELSE front[k - Len(back)]
    BY <1>2, <1>3, ConcatProperties
  <2>2. Len(back) + Len(front) = e
    BY <1>2, <1>3
  <2> QED  BY <1>2, <2>1, <2>2
<1>5. \A k \in 1 .. n : (back \o front)[(e - n) + k] = c[k]
  <2> TAKE k \in 1 .. n
  <2>1. (e - n) + k \in 1 .. e /\ ~ ((e - n) + k <= e - n) /\ ((e - n) + k) - (e - n) = k
    OBVIOUS
  <2> QED  BY <1>3, <1>4, <2>1
<1>6. \A k \in 1 .. e - n : (back \o front)[k] = c[n + k]
  BY <1>2, <1>4
<1>7. TruncateAndRotate(c, e, n) = back \o front
  BY DEF TruncateAndRotate, back, front
<1> DEFINE turned == back \o front
<1> HIDE DEF turned
<1>8. /\ turned \in Seq(Cell) /\ Len(turned) = e
      /\ \A k \in 1 .. e - n : turned[k] = c[n + k]
      /\ \A k \in 1 .. n : turned[(e - n) + k] = c[k]
  BY <1>4, <1>5, <1>6 DEF turned
<1>9. TruncateAndRotate(c, e, n) = turned
  BY <1>7 DEF turned
<1> QED  BY <1>8, <1>9

\* An element that was packed is the item at its index.
LEMMA StoredIsItem ==
  ASSUME LengthInv, StoredInv, pc = "element", i = witness_elements, NEW j \in 1 .. i, NEW w,
         w.content = TruncateAndRotate(content, cursor, witness_index_space),
         w.indices_start = cursor - witness_index_space
  PROVE  Item(w, j - 1) = received[j]
<1> DEFINE W == w.content
           space == witness_index_space
           b == (j - 1) * IndexWidth
<1>1. /\ content \in Seq(Cell) /\ Len(content) \in Nat /\ i \in Nat /\ cursor \in Nat
      /\ space \in Nat /\ space <= cursor /\ cursor <= Len(content)
  BY LenProperties, SpaceNat DEF LengthInv, StoredInv
<1>2. /\ W \in Seq(Cell) /\ Len(W) = cursor
      /\ \A k \in 1 .. cursor - space : W[k] = content[space + k]
      /\ \A k \in 1 .. space : W[(cursor - space) + k] = content[k]
  <2>1. W = TruncateAndRotate(content, cursor, space)
    OBVIOUS
  <2> DEFINE turned == TruncateAndRotate(content, cursor, space)
  <2> HIDE DEF W, space
  <2>2. /\ turned \in Seq(Cell) /\ Len(turned) = cursor
        /\ \A k \in 1 .. cursor - space : turned[k] = content[space + k]
        /\ \A k \in 1 .. space : turned[(cursor - space) + k] = content[k]
    BY <1>1, Rotated
  <2> HIDE DEF turned
  <2>3. W = turned
    BY <2>1 DEF turned
  <2> QED  BY <2>2, <2>3
<1>3. PICK p \in 0 .. cursor, n \in Sizes : StoredAt(content, j, p, n)
  BY DEF StoredInv
<1>4. p \in Nat /\ n \in Nat /\ VarIntSize(n) \in Nat \ {0} /\ IndexWidth \in Nat \ {0}
  <2>1. p \in Nat /\ n \in Nat
    BY <1>1, DecodeAssumption
  <2> QED  BY <2>1, VarIntSizeNat, WidthAssumption
<1>5. received[j] \in Seq(Cell) /\ Len(received[j]) \in Nat
  <2>1. received[j] \in Seq(Cell)
    BY ElementOfSeq DEF StoredInv
  <2> QED  BY <2>1, LenProperties
<1>6. /\ Len(IndexCells(p)) = IndexWidth /\ IndexCells(p)[1][2] = p
      /\ Len(SizeCells(n)) = VarIntSize(n) /\ SizeCells(n)[1][2] = n
  BY <1>4, CellLengths
<1>7. b \in Nat /\ b + IndexWidth <= space
  <2>1. j - 1 \in Nat /\ j - 1 < witness_elements
    BY <1>1
  <2> QED  BY <2>1, IndexRoom
<1>8. W[w.indices_start + b + 1][2] = p
  <2>1. content[b + 1] = IndexCells(p)[1]
    <3>1. 1 \in 1 .. IndexWidth
      BY <1>4
    <3> QED  BY <1>3, <1>6, <3>1 DEF StoredAt, Holds
  <2>2. b + 1 \in 1 .. space /\ w.indices_start + b + 1 = (cursor - space) + (b + 1)
    <3> HIDE DEF b, space, W
    <3>1. w.indices_start = cursor - space
      BY DEF space
    <3> QED  BY <1>1, <1>4, <1>7, <3>1
  <2>3. W[(cursor - space) + (b + 1)] = content[b + 1]
    <3> HIDE DEF b, space, W
    <3> QED  BY <1>2, <2>2
  <2> QED  BY <1>6, <2>1, <2>2, <2>3
<1> DEFINE l == Len(received[j])
           v == VarIntSize(n)
<1>9. space + p + v + l <= cursor /\ AsUsize(n) = l /\ l \in Nat /\ v \in Nat \ {0}
  BY <1>3, <1>4, <1>5 DEF StoredAt
<1>10. W[p + 1][2] = n
  <2>1. content[space + p + 1] = SizeCells(n)[1]
    <3>1. 1 \in 1 .. v
      BY <1>4
    <3> QED  BY <1>3, <1>6, <3>1 DEF StoredAt, Holds
  <2>2. p + 1 \in 1 .. cursor - space /\ space + (p + 1) = space + p + 1
    <3> HIDE DEF l, v, space, W
    <3> QED  BY <1>1, <1>4, <1>9
  <2>3. W[p + 1] = content[space + (p + 1)]
    <3> HIDE DEF l, v, space, W
    <3> QED  BY <1>2, <2>2
  <2> QED  BY <1>6, <2>1, <2>2, <2>3
<1>11. \A k \in 1 .. l : W[p + v + k] = received[j][k]
  <2> TAKE k \in 1 .. l
  <2>1. content[space + p + v + k] = received[j][k]
    BY <1>3 DEF StoredAt, Holds
  <2>2. p + v + k \in 1 .. cursor - space /\ space + (p + v + k) = space + p + v + k
    <3> HIDE DEF l, v, space, W
    <3> QED  BY <1>1, <1>4, <1>9
  <2>3. W[p + v + k] = content[space + (p + v + k)]
    <3> HIDE DEF l, v, space, W
    <3> QED  BY <1>2, <2>2
  <2> QED  BY <2>1, <2>2, <2>3
<1>12. SubSeq(W, p + v + 1, p + v + l) = received[j]
  <2> HIDE DEF l, v, W
  <2> DEFINE sub == SubSeq(W, p + v + 1, p + v + l)
  <2>1. \A k \in p + v + 1 .. p + v + l : W[k] \in Cell
    <3> TAKE k \in p + v + 1 .. p + v + l
    <3>1. k \in 1 .. Len(W)
      BY <1>1, <1>2, <1>4, <1>9
    <3> QED  BY <1>2, <3>1, ElementOfSeq
  <2>2. /\ sub \in Seq(Cell)
        /\ Len(sub) = IF p + v + 1 <= p + v + l THEN (p + v + l) - (p + v + 1) + 1 ELSE 0
    <3>1. p + v + 1 \in Int /\ p + v + l \in Int
      BY <1>4, <1>9
    <3> QED  BY <2>1, <3>1, SubSeqProperties
  <2>3. Len(sub) = l
    BY <1>4, <1>9, <2>2
  <2>4. \A k \in 1 .. l : sub[k] = W[p + v + k]
    <3> TAKE k \in 1 .. l
    <3>1. sub[k] = W[(p + v + 1) + k - 1]
      BY <1>4, <1>9, <2>3
    <3>2. (p + v + 1) + k - 1 = p + v + k
      BY <1>4, <1>9
    <3> QED  BY <3>1, <3>2
  <2> HIDE DEF sub
  <2>5. \A k \in 1 .. Len(sub) : sub[k] = received[j][k]
    BY <1>11, <2>3, <2>4
  <2>6. Len(received[j]) = l
    BY DEF l
  <2>7. sub = received[j]
    BY <1>5, <2>2, <2>3, <2>5, <2>6, SeqEqual
  <2> QED  BY <2>7 DEF sub
<1>13. Item(w, j - 1) = SubSeq(W, p + v + 1, p + v + l)
  BY <1>8, <1>9, <1>10 DEF Item
<1> QED  BY <1>12, <1>13

LEMMA ReturnStored == LengthInv /\ StoredInv /\ Return => StoredInv'
<1> SUFFICES ASSUME LengthInv, StoredInv, Return PROVE StoredInv'
  OBVIOUS
<1> DEFINE w == [content          |-> TruncateAndRotate(content, cursor, witness_index_space),
                 witness_elements |-> witness_elements,
                 indices_start    |-> cursor - witness_index_space]
<1>1. /\ pc = "element" /\ i = witness_elements /\ result' = w /\ pc' = "ok"
      /\ UNCHANGED <<received, i>>
  BY DEF Return
<1>2. /\ w.content = TruncateAndRotate(content, cursor, witness_index_space)
      /\ w.indices_start = cursor - witness_index_space
  OBVIOUS
<1>3. /\ content \in Seq(Cell) /\ Len(content) \in Nat /\ i \in Nat /\ cursor \in Nat
      /\ witness_index_space \in Nat /\ witness_index_space <= cursor /\ cursor <= Len(content)
      /\ received \in Seq(Seq(Cell)) /\ Len(received) = i
  BY <1>1, LenProperties, SpaceNat DEF LengthInv, StoredInv
<1>4. SizeHint(w) = i
  <2>1. Len(w.content) = cursor
    <3> HIDE DEF w
    <3> QED  BY <1>2, <1>3, Rotated
  <2>2. SizeHint(w) = (cursor - (cursor - witness_index_space)) \div IndexWidth
    <3> HIDE DEF w
    <3> QED  BY <1>2, <2>1 DEF SizeHint
  <2>3. cursor - (cursor - witness_index_space) = i * IndexWidth
    BY <1>1, <1>3 DEF witness_index_space
  <2>4. (i * IndexWidth) \div IndexWidth = i
    BY <1>3, WidthAssumption, DivExact
  <2> QED  BY <2>2, <2>3, <2>4
<1>5. \A j \in 1 .. i : Item(w, j - 1) = received[j]
  <2> HIDE DEF w
  <2> QED  BY <1>1, <1>2, StoredIsItem
<1>6. ToVec(w) = received
  <2> HIDE DEF w
  <2>1. ToVec(w) = [k \in 1 .. i |-> received[k]]
    BY <1>4, <1>5 DEF ToVec
  <2> QED  BY <1>3, <2>1
<1> HIDE DEF w
<1>7. IteratesReceived'
  BY <1>1, <1>6 DEF IteratesReceived
<1> QED  BY <1>1, <1>3, <1>7 DEF StoredInv

LEMMA FailStored == StoredInv /\ Fail => StoredInv'
  BY DEF StoredInv, Fail

LEMMA StoredStep == LengthInv /\ StoredInv /\ [Next]_vars => StoredInv'
<1> SUFFICES ASSUME LengthInv, StoredInv, [Next]_vars PROVE StoredInv'
  OBVIOUS
<1>1. CASE ReadError
  BY <1>1, FailStored DEF ReadError
<1>2. CASE \E n \in Counts : ReadCount(n)
  BY <1>2, ReadCountStored
<1>3. CASE \E varint \in Sizes : ReadSize(varint)
  BY <1>3, ReadSizeStored
<1>4. CASE UNCHANGED vars
  <2>1. /\ UNCHANGED vars /\ witness_index_space' = witness_index_space
    BY <1>4 DEF vars, witness_index_space
  <2>2. \A j, p, n : StoredAt(content, j, p, n)' <=> StoredAt(content, j, p, n)
    BY <2>1 DEF vars, StoredAt
  <2>3. IteratesReceived' <=> IteratesReceived
    BY <2>1 DEF vars, IteratesReceived
  <2> QED  BY <2>1, <2>2, <2>3 DEF StoredInv, vars
<1> QED
  BY <1>1, <1>2, <1>3, <1>4, DoubleStored, ResizedStored, ReadDataStored, ReturnStored
  DEF Next, Finished

\* The elements of the packed form stand where their indices say, at every
\* point of the loop.
THEOREM StoredInvariant == Spec => []StoredInv
  BY StoredStart, StoredStep, LengthInvariant, PTL DEF Spec

\* Whatever a stream announces and however wide the indices and sizes are, a
\* witness that decode returns iterates over the elements the stream held.
THEOREM DecodedIterates == Spec => []IteratesReceived
<1>1. LengthInv /\ StoredInv => IteratesReceived
  BY DEF StoredInv, IteratesReceived
<1> QED  BY <1>1, LengthInvariant, StoredInvariant, PTL

-----------------------------------------------------------------------------
(* The packed form is the one from_slice builds.                           *)

\* usize holds every size a stream may announce, as it does on a 64-bit
\* build.
SizesFit == \A n \in Sizes : n <= UsizeMax

\* The index area that from_slice appends.
Positions(slice) == [j \in 1 .. Len(slice) |-> Len(Serialized(SubSeq(slice, 1, j - 1)))]
Indices(slice) == [j \in 1 .. Len(slice) |-> IndexCells(Positions(slice)[j])]
Sized(slice) == [j \in 1 .. Len(slice) |-> SizeCells(Len(slice[j])) \o slice[j]]

PackedInv ==
  /\ Len(FlattenSeq(Indices(received))) = Len(received) * IndexWidth
  /\ pc \in {"element", "resize", "data"} =>
       /\ cursor = witness_index_space + Len(Serialized(received))
       /\ Holds(content, witness_index_space, Serialized(received))
       /\ Holds(content, 0, FlattenSeq(Indices(received)))
  /\ PacksLikeFromSlice

\* A function on 1 .. n is a sequence.
LEMMA FunctionIsSeq ==
  ASSUME NEW T, NEW n \in Nat, NEW f \in [1 .. n -> T]
  PROVE  f \in Seq(T)
  BY SeqDef

\* The two parts of the packed form are sequences of cells.
LEMMA PackedTypes ==
  ASSUME NEW slice \in Seq(Seq(Cell))
  PROVE  /\ Sized(slice) \in Seq(Seq(Cell))
         /\ Serialized(slice) \in Seq(Cell) /\ Len(Serialized(slice)) \in Nat
         /\ Indices(slice) \in Seq(Seq(Cell))
         /\ FlattenSeq(Indices(slice)) \in Seq(Cell)
         /\ Len(FlattenSeq(Indices(slice))) \in Nat
<1>1. ASSUME NEW s \in Seq(Seq(Cell))
      PROVE  Sized(s) \in Seq(Seq(Cell)) /\ Serialized(s) \in Seq(Cell) /\ Len(Serialized(s)) \in Nat
  <2>1. Len(s) \in Nat
    BY LenProperties
  <2>2. \A j \in 1 .. Len(s) : SizeCells(Len(s[j])) \o s[j] \in Seq(Cell)
    <3> TAKE j \in 1 .. Len(s)
    <3>1. s[j] \in Seq(Cell)
      BY ElementOfSeq
    <3>2. Len(s[j]) \in Nat
      BY <3>1, LenProperties
    <3>3. SizeCells(Len(s[j])) \in Seq(Cell)
      BY <3>2, CellTypes
    <3> QED  BY <3>1, <3>3, ConcatProperties
  <2>3. Sized(s) \in [1 .. Len(s) -> Seq(Cell)]
    BY <2>2 DEF Sized
  <2>4. Sized(s) \in Seq(Seq(Cell))
    BY <2>1, <2>3, FunctionIsSeq
  <2>5. Serialized(s) = FlattenSeq(Sized(s))
    BY DEF Serialized, Sized
  <2>6. Serialized(s) \in Seq(Cell)
    BY <2>4, <2>5, FlattenType
  <2> QED  BY <2>4, <2>6, LenProperties
<1>2. Len(slice) \in Nat
  BY LenProperties
<1>3. \A j \in 1 .. Len(slice) : IndexCells(Positions(slice)[j]) \in Seq(Cell)
  <2> TAKE j \in 1 .. Len(slice)
  <2>1. SubSeq(slice, 1, j - 1) \in Seq(Seq(Cell))
    <3>1. \A k \in 1 .. j - 1 : slice[k] \in Seq(Cell)
      BY <1>2, ElementOfSeq
    <3>2. j - 1 \in Int
      BY <1>2
    <3> QED  BY <3>1, <3>2, SubSeqProperties
  <2>2. Positions(slice)[j] \in Nat
    BY <1>1, <2>1 DEF Positions
  <2> QED  BY <2>2, CellTypes
<1>4. Indices(slice) \in [1 .. Len(slice) -> Seq(Cell)]
  BY <1>3 DEF Indices
<1>5. Indices(slice) \in Seq(Seq(Cell))
  BY <1>2, <1>4, FunctionIsSeq
<1>6. FlattenSeq(Indices(slice)) \in Seq(Cell)
  BY <1>5, FlattenType
<1>7. Len(FlattenSeq(Indices(slice))) \in Nat
  BY <1>6, LenProperties
<1> QED  BY <1>1, <1>5, <1>6, <1>7

\* What one more element adds to either part.
LEMMA SerializedAppend ==
  ASSUME NEW slice \in Seq(Seq(Cell)), NEW x \in Seq(Cell)
  PROVE  Serialized(Append(slice, x)) = Serialized(slice) \o (SizeCells(Len(x)) \o x)
<1> DEFINE t == Append(slice, x)
           n == Len(slice)
           more == SizeCells(Len(x)) \o x
<1>1. /\ t \in Seq(Seq(Cell)) /\ Len(t) = n + 1 /\ n \in Nat /\ t[n + 1] = x
      /\ \A j \in 1 .. n : t[j] = slice[j]
  BY LenProperties, AppendProperties
<1>2. more \in Seq(Cell)
  <2>1. Len(x) \in Nat
    BY LenProperties
  <2>2. SizeCells(Len(x)) \in Seq(Cell)
    BY <2>1, CellTypes
  <2> QED  BY <2>2, ConcatProperties
<1>3. /\ Sized(slice) \in Seq(Seq(Cell)) /\ Sized(t) \in Seq(Seq(Cell))
      /\ Len(Sized(slice)) = n /\ Len(Sized(t)) = n + 1
  <2>1. Len(Sized(slice)) = n /\ Len(Sized(t)) = n + 1
    BY <1>1 DEF Sized
  <2> HIDE DEF t
  <2> QED  BY <1>1, <2>1, PackedTypes
<1> HIDE DEF t
<1>4. \A j \in 1 .. n : Sized(t)[j] = Sized(slice)[j]
  <2> TAKE j \in 1 .. n
  <2>1. j \in 1 .. Len(t) /\ j \in 1 .. Len(slice) /\ t[j] = slice[j]
    BY <1>1
  <2>2. Sized(t)[j] = SizeCells(Len(t[j])) \o t[j]
    BY <2>1 DEF Sized
  <2>3. Sized(slice)[j] = SizeCells(Len(slice[j])) \o slice[j]
    BY <2>1 DEF Sized
  <2> QED  BY <2>1, <2>2, <2>3
<1>5. Sized(t)[n + 1] = more
  <2>1. n + 1 \in 1 .. Len(t)
    BY <1>1
  <2>2. Sized(t)[n + 1] = SizeCells(Len(t[n + 1])) \o t[n + 1]
    BY <2>1 DEF Sized
  <2> QED  BY <1>1, <2>2
<1> HIDE DEF more, n
<1>6. Sized(t) = Append(Sized(slice), more)
  <2> DEFINE u == Append(Sized(slice), more)
  <2>1. u \in Seq(Seq(Cell)) /\ Len(u) = n + 1 /\ u[n + 1] = more
        /\ \A j \in 1 .. n : u[j] = Sized(slice)[j]
    BY <1>1, <1>2, <1>3, AppendProperties
  <2> HIDE DEF u
  <2>2. \A j \in 1 .. Len(Sized(t)) : Sized(t)[j] = u[j]
    <3> TAKE j \in 1 .. Len(Sized(t))
    <3>1. j \in 1 .. n \/ j = n + 1
      BY <1>1, <1>3
    <3> QED  BY <1>4, <1>5, <2>1, <3>1
  <2>3. Sized(t) = u
    BY <1>3, <2>1, <2>2, SeqEqual
  <2> QED  BY <2>3 DEF u
<1>7. FlattenSeq(Sized(t)) = FlattenSeq(Sized(slice)) \o more
  BY <1>2, <1>3, <1>6, FlattenAppend
<1> QED  BY <1>7 DEF Serialized, Sized, t, more

LEMMA IndicesAppend ==
  ASSUME NEW slice \in Seq(Seq(Cell)), NEW x \in Seq(Cell)
  PROVE  FlattenSeq(Indices(Append(slice, x)))
           = FlattenSeq(Indices(slice)) \o IndexCells(Len(Serialized(slice)))
<1> DEFINE t == Append(slice, x)
           n == Len(slice)
           more == IndexCells(Len(Serialized(slice)))
<1>1. /\ t \in Seq(Seq(Cell)) /\ Len(t) = n + 1 /\ n \in Nat /\ t[n + 1] = x
      /\ \A j \in 1 .. n : t[j] = slice[j]
  BY LenProperties, AppendProperties
<1>2. more \in Seq(Cell)
  BY PackedTypes, CellTypes
<1> HIDE DEF t
<1>3. \A j \in 1 .. n + 1 : SubSeq(t, 1, j - 1) = SubSeq(slice, 1, j - 1)
  <2> TAKE j \in 1 .. n + 1
  <2>1. \A k \in 1 .. j - 1 : t[k] = slice[k] /\ t[k] \in Seq(Cell)
    <3> TAKE k \in 1 .. j - 1
    <3>1. k \in 1 .. n
      BY <1>1
    <3>2. slice[k] \in Seq(Cell)
      BY <3>1, ElementOfSeq
    <3> QED  BY <1>1, <3>1, <3>2
  <2>2. /\ SubSeq(t, 1, j - 1) = [k \in 1 .. j - 1 |-> t[k]]
        /\ SubSeq(slice, 1, j - 1) = [k \in 1 .. j - 1 |-> slice[k]]
    BY <1>1
  <2> QED  BY <2>1, <2>2
<1>4. SubSeq(slice, 1, n) = slice
  BY SubSeqFull
<1>5. /\ \A j \in 1 .. n : Positions(t)[j] = Positions(slice)[j]
      /\ Positions(t)[n + 1] = Len(Serialized(slice))
  <2>1. \A j \in 1 .. n + 1 : Positions(t)[j] = Len(Serialized(SubSeq(slice, 1, j - 1)))
    BY <1>1, <1>3 DEF Positions
  <2>2. \A j \in 1 .. n : Positions(slice)[j] = Len(Serialized(SubSeq(slice, 1, j - 1)))
    BY DEF Positions
  <2>3. n + 1 \in 1 .. n + 1 /\ (n + 1) - 1 = n
    BY <1>1
  <2>4. Positions(t)[n + 1] = Len(Serialized(slice))
    BY <1>4, <2>1, <2>3
  <2>5. \A j \in 1 .. n : j \in 1 .. n + 1
    BY <1>1
  <2> QED  BY <2>1, <2>2, <2>4, <2>5
<1>6. /\ Indices(slice) \in Seq(Seq(Cell)) /\ Indices(t) \in Seq(Seq(Cell))
      /\ Len(Indices(slice)) = n /\ Len(Indices(t)) = n + 1
  <2>1. Len(Indices(slice)) = n /\ Len(Indices(t)) = n + 1
    BY <1>1 DEF Indices
  <2> QED  BY <1>1, <2>1, PackedTypes
<1>7. \A j \in 1 .. n : Indices(t)[j] = Indices(slice)[j]
  BY <1>1, <1>5 DEF Indices
<1>8. Indices(t)[n + 1] = more
  BY <1>1, <1>5 DEF Indices
<1> HIDE DEF more, n
<1>9. Indices(t) = Append(Indices(slice), more)
  <2> DEFINE u == Append(Indices(slice), more)
  <2>1. u \in Seq(Seq(Cell)) /\ Len(u) = n + 1 /\ u[n + 1] = more
        /\ \A j \in 1 .. n : u[j] = Indices(slice)[j]
    BY <1>1, <1>2, <1>6, AppendProperties
  <2> HIDE DEF u
  <2>2. \A j \in 1 .. Len(Indices(t)) : Indices(t)[j] = u[j]
    <3> TAKE j \in 1 .. Len(Indices(t))
    <3>1. j \in 1 .. n \/ j = n + 1
      BY <1>1, <1>6
    <3> QED  BY <1>7, <1>8, <2>1, <3>1
  <2>3. Indices(t) = u
    BY <1>6, <2>1, <2>2, SeqEqual
  <2> QED  BY <2>3 DEF u
<1>10. FlattenSeq(Indices(t)) = FlattenSeq(Indices(slice)) \o more
  BY <1>2, <1>6, <1>9, FlattenAppend
<1> QED  BY <1>10 DEF t, more

\* The packed form of no element is the default witness.
LEMMA NothingPacked ==
  /\ Serialized(<< >>) = << >> /\ FlattenSeq(Indices(<< >>)) = << >>
  /\ FromSlice(<< >>) = Default
<1>1. Sized(<< >>) = << >> /\ Indices(<< >>) = << >>
  BY DEF Sized, Indices
<1>2. Serialized(<< >>) = << >> /\ FlattenSeq(Indices(<< >>)) = << >>
  BY <1>1, FlattenEmpty DEF Serialized, Sized
<1>3. FromSlice(<< >>).content = << >> \o << >>
  BY <1>2 DEF FromSlice, Indices, Positions
<1>4. << >> \o << >> = << >>
  BY ConcatEmptySeq, EmptySeq
<1> QED  BY <1>2, <1>3, <1>4 DEF FromSlice, Default

\* from_slice, in terms of the two parts.
LEMMA FromSliceForm ==
  ASSUME NEW slice
  PROVE  FromSlice(slice) = [content          |-> Serialized(slice) \o FlattenSeq(Indices(slice)),
                             witness_elements |-> Len(slice),
                             indices_start    |-> Len(Serialized(slice))]
  BY DEF FromSlice, Indices, Positions

\* Two runs of cells, one behind the other.
LEMMA HoldsBoth ==
  ASSUME NEW c \in Seq(Cell), NEW p \in Nat, NEW a \in Seq(Cell), NEW b \in Seq(Cell),
         Holds(c, p, a), Holds(c, p + Len(a), b)
  PROVE  Holds(c, p, a \o b)
<1>1. Len(a) \in Nat /\ Len(b) \in Nat
  BY LenProperties
<1>2. /\ Len(a \o b) = Len(a) + Len(b)
      /\ \A k \in 1 .. Len(a) + Len(b) : (a \o b)[k] = IF k <= Len(a) THEN a[k] ELSE b[k - Len(a)]
  BY ConcatProperties
<1> SUFFICES ASSUME NEW k \in 1 .. Len(a) + Len(b)
             PROVE  c[p + k] = (a \o b)[k]
  BY <1>2 DEF Holds
<1>3. CASE k <= Len(a)
  BY <1>1, <1>2, <1>3 DEF Holds
<1>4. CASE ~ (k <= Len(a))
  <2>1. k - Len(a) \in 1 .. Len(b) /\ p + k = p + Len(a) + (k - Len(a))
    BY <1>1, <1>4
  <2>2. c[p + Len(a) + (k - Len(a))] = b[k - Len(a)]
    BY <2>1 DEF Holds
  <2> QED  BY <1>2, <1>4, <2>1, <2>2
<1> QED  BY <1>3, <1>4

LEMMA PackedStart == Init => PackedInv
<1> SUFFICES ASSUME Init PROVE PackedInv
  OBVIOUS
<1>1. received = << >> /\ pc = "count"
  BY DEF Init
<1>2. Len(FlattenSeq(Indices(received))) = 0 /\ Len(received) * IndexWidth = 0
  BY <1>1, NothingPacked, WidthAssumption
<1> QED  BY <1>1, <1>2 DEF PackedInv, PacksLikeFromSlice

LEMMA ReadCountPacked ==
  ASSUME StoredInv, PackedInv, NEW n \in Counts, ReadCount(n)
  PROVE  PackedInv'
<1>1. pc = "count" /\ received = << >> /\ result = Default
  BY DEF ReadCount, StoredInv
<1>2. received' = received /\ result' = result
  BY DEF ReadCount, Fail
<1>3. PacksLikeFromSlice'
  BY <1>1, <1>2, NothingPacked DEF PacksLikeFromSlice
<1>4. Len(FlattenSeq(Indices(received')) ) = Len(received') * IndexWidth
  BY <1>2 DEF PackedInv
<1>5. CASE pc' \notin {"element", "resize", "data"}
  BY <1>3, <1>4, <1>5 DEF PackedInv
<1>6. CASE pc' \in {"element", "resize", "data"}
  <2>1. /\ witness_elements' = AsUsize(n) /\ cursor' = AsUsize(n) * IndexWidth
    BY <1>6 DEF ReadCount, Fail
  <2>2. witness_index_space' = cursor' /\ cursor' \in Nat
    <3>1. AsUsize(n) \in Nat
      BY AsUsizeNat, DecodeAssumption
    <3> QED  BY <2>1, <3>1, WidthAssumption DEF witness_index_space
  <2>3. Serialized(received') = << >> /\ FlattenSeq(Indices(received')) = << >>
    BY <1>1, <1>2, NothingPacked
  <2>4. Holds(content', witness_index_space', << >>) /\ Holds(content', 0, << >>)
    BY DEF Holds
  <2>5. cursor' = witness_index_space' + Len(Serialized(received'))
    <3>1. Len(Serialized(received')) = 0
      <4>1. Len(<< >>) = 0
        OBVIOUS
      <4> QED  BY <2>3, <4>1
    <3>2. \A n1 \in Nat : n1 = n1 + 0
      OBVIOUS
    <3>3. witness_index_space' = witness_index_space' + 0
      BY <2>2, <3>2
    <3> QED  BY <2>2, <3>1, <3>3, Zenon
  <2> QED  BY <1>3, <1>4, <2>3, <2>4, <2>5 DEF PackedInv
<1> QED  BY <1>5, <1>6

\* Where the two parts stand in the vector during the loop.
LEMMA PartsInside ==
  ASSUME LengthInv, StoredInv, PackedInv, pc \in {"element", "resize", "data"}
  PROVE  /\ content \in Seq(Cell) /\ Len(content) \in Nat /\ cursor \in Nat /\ i \in Nat
         /\ witness_index_space \in Nat /\ IndexWidth \in Nat \ {0}
         /\ received \in Seq(Seq(Cell)) /\ Len(received) = i
         /\ Serialized(received) \in Seq(Cell)
         /\ witness_index_space + Len(Serialized(received)) = cursor
         /\ cursor <= Len(content)
         /\ FlattenSeq(Indices(received)) \in Seq(Cell)
         /\ Len(FlattenSeq(Indices(received))) = i * IndexWidth
         /\ i * IndexWidth \in Nat
         /\ i * IndexWidth <= witness_index_space
         /\ witness_index_space <= cursor
<1>1. received \in Seq(Seq(Cell)) /\ Len(received) = i /\ i \in Nat /\ i <= witness_elements
  BY DEF StoredInv, LengthInv
<1>2. i * IndexWidth \in Nat /\ i * IndexWidth <= witness_index_space
  <2>1. witness_elements \in Nat
    BY DEF LengthInv
  <2> QED  BY <1>1, <2>1, WidthAssumption DEF witness_index_space
<1>3. /\ Serialized(received) \in Seq(Cell)
      /\ FlattenSeq(Indices(received)) \in Seq(Cell)
  BY <1>1, PackedTypes
<1>4. Len(FlattenSeq(Indices(received))) = i * IndexWidth
  BY <1>1 DEF PackedInv
<1>5. content \in Seq(Cell) /\ Len(content) \in Nat
  BY LenProperties DEF LengthInv
<1>6. witness_index_space + Len(Serialized(received)) = cursor
  BY DEF PackedInv
<1> QED
  BY <1>1, <1>2, <1>3, <1>4, <1>5, <1>6, SpaceNat, WidthAssumption DEF LengthInv, StoredInv

LEMMA ReadSizePacked ==
  ASSUME LengthInv, StoredInv, PackedInv, NEW varint \in Sizes, ReadSize(varint)
  PROVE  PackedInv'
<1>1. CASE Fail
  BY <1>1 DEF Fail, PackedInv, PacksLikeFromSlice
<1>2. CASE /\ pc' = "resize"
           /\ content' = Put(content, i * IndexWidth, IndexCells(cursor - witness_index_space))
           /\ UNCHANGED <<witness_elements, i, cursor, result, received>>
  <2> DEFINE cells == IndexCells(cursor - witness_index_space)
             at == i * IndexWidth
             ser == Serialized(received)
             ind == FlattenSeq(Indices(received))
  <2>1. pc = "element" /\ i < witness_elements
    BY DEF ReadSize
  <2>2. /\ content \in Seq(Cell) /\ Len(content) \in Nat /\ cursor \in Nat /\ i \in Nat
        /\ witness_index_space \in Nat /\ IndexWidth \in Nat
        /\ ser \in Seq(Cell) /\ witness_index_space + Len(ser) = cursor /\ cursor <= Len(content)
        /\ ind \in Seq(Cell) /\ Len(ind) = at /\ at \in Nat /\ witness_index_space <= cursor
    BY <2>1, PartsInside
  <2>3. cells \in Seq(Cell) /\ Len(cells) = IndexWidth
    <3>1. cursor - witness_index_space \in Nat
      BY <2>2
    <3> QED  BY <3>1, CellTypes, CellLengths
  <2>4. at + IndexWidth <= witness_index_space
    BY <2>1, <2>2, IndexRoom
  <2>5. Holds(content, witness_index_space, ser) /\ Holds(content, 0, ind)
    BY <2>1 DEF PackedInv
  <2>6. content' = Put(content, at, cells)
    BY <1>2
  <2>7. witness_index_space' = witness_index_space
    BY <1>2 DEF witness_index_space
  <2> HIDE DEF cells, at, ser, ind
  <2>8. Holds(content', witness_index_space, ser)
    <3>1. /\ witness_index_space + Len(ser) <= Len(content)
          /\ at + Len(cells) <= witness_index_space
      BY <2>2, <2>3, <2>4
    <3> QED  BY <2>2, <2>3, <2>5, <2>6, <3>1, PutKeeps
  <2>9. Holds(content', 0, ind)
    <3>1. 0 + Len(ind) <= Len(content) /\ 0 + Len(ind) <= at
      BY <2>2, <2>4
    <3> QED  BY <2>2, <2>3, <2>5, <2>6, <3>1, PutKeeps
  <2>10. PacksLikeFromSlice'
    BY <1>2 DEF PacksLikeFromSlice
  <2> QED  BY <1>2, <2>2, <2>7, <2>8, <2>9, <2>10 DEF PackedInv, ser, ind
<1> QED  BY <1>1, <1>2 DEF ReadSize

LEMMA DoublePacked == LengthInv /\ StoredInv /\ PackedInv /\ Double => PackedInv'
<1> SUFFICES ASSUME LengthInv, StoredInv, PackedInv, Double PROVE PackedInv'
  OBVIOUS
<1> DEFINE more == Zeros(Len(content))
           ser == Serialized(received)
           ind == FlattenSeq(Indices(received))
<1>1. pc = "resize"
  BY DEF Double
<1>2. /\ content \in Seq(Cell) /\ Len(content) \in Nat /\ cursor \in Nat
      /\ witness_index_space \in Nat
      /\ ser \in Seq(Cell) /\ witness_index_space + Len(ser) = cursor /\ cursor <= Len(content)
      /\ ind \in Seq(Cell) /\ Len(ind) = i * IndexWidth /\ i * IndexWidth \in Nat
      /\ i * IndexWidth <= witness_index_space /\ witness_index_space <= cursor
  BY <1>1, PartsInside
<1>3. more \in Seq(Cell)
  BY <1>2, CellTypes
<1>4. /\ content' = content \o more
      /\ UNCHANGED <<pc, witness_elements, i, cursor, result, received>>
      /\ witness_index_space' = witness_index_space
  BY DEF Double, witness_index_space
<1>5. Holds(content, witness_index_space, ser) /\ Holds(content, 0, ind)
  BY <1>1 DEF PackedInv
<1> HIDE DEF more, ser, ind
<1>6. Holds(content', witness_index_space, ser)
  <2>1. witness_index_space + Len(ser) <= Len(content)
    BY <1>2
  <2> QED  BY <1>2, <1>3, <1>4, <1>5, <2>1, GrowingKeeps
<1>7. Holds(content', 0, ind)
  <2>1. 0 + Len(ind) <= Len(content)
    <3> DEFINE w == i * IndexWidth
    <3>1. Len(ind) = w /\ w \in Nat /\ w <= witness_index_space
      BY <1>2
    <3> HIDE DEF w
    <3> QED  BY <1>2, <3>1
  <2> QED  BY <1>2, <1>3, <1>4, <1>5, <2>1, GrowingKeeps
<1> QED  BY <1>1, <1>2, <1>4, <1>6, <1>7 DEF PackedInv, PacksLikeFromSlice, ser, ind

LEMMA ResizedPacked == PackedInv /\ Resized => PackedInv'
<1> SUFFICES ASSUME PackedInv, Resized PROVE PackedInv'
  OBVIOUS
<1>1. /\ pc = "resize" /\ pc' = "data" /\ witness_index_space' = witness_index_space
      /\ UNCHANGED <<cursor, content, result, received>>
  BY DEF Resized, witness_index_space
<1> QED  BY <1>1 DEF PackedInv, PacksLikeFromSlice

\* A size that usize holds is written as it was read.
LEMMA ReadDataPacked ==
  ASSUME SizesFit, LengthInv, StoredInv, PackedInv, ReadData
  PROVE  PackedInv'
<1> DEFINE v == element_size_varint
           size == VarIntSize(v)
           bytes == DataCells(i, element_size)
           ser == Serialized(received)
           ind == FlattenSeq(Indices(received))
           index == IndexCells(Len(ser))
           head == SizeCells(v)
<1>1. pc = "data"
  BY DEF ReadData
<1>2. /\ content \in Seq(Cell) /\ Len(content) \in Nat /\ cursor \in Nat /\ i \in Nat
      /\ witness_index_space \in Nat /\ IndexWidth \in Nat
      /\ received \in Seq(Seq(Cell)) /\ Len(received) = i
      /\ ser \in Seq(Cell) /\ witness_index_space + Len(ser) = cursor /\ cursor <= Len(content)
      /\ ind \in Seq(Cell) /\ Len(ind) = i * IndexWidth /\ i * IndexWidth \in Nat
      /\ i * IndexWidth <= witness_index_space /\ witness_index_space <= cursor
  BY <1>1, PartsInside
<1>3. v \in Nat /\ v <= UsizeMax
  BY DataWritten, DecodeAssumption DEF SizesFit
<1>4. /\ size \in Nat /\ head \in Seq(Cell) /\ Len(head) = size
      /\ Len(ser) \in Nat /\ index \in Seq(Cell) /\ Len(index) = IndexWidth
  <2>1. Len(ser) \in Nat
    BY <1>2, LenProperties
  <2> QED  BY <1>3, <2>1, VarIntSizeNat, CellTypes, CellLengths
<1>5. element_size = v
  <2>1. v % (UsizeMax + 1) = v
    BY <1>3, WidthAssumption
  <2> QED  BY <2>1 DEF element_size, AsUsize
<1>6. bytes \in Seq(Cell) /\ Len(bytes) = v
  BY <1>5, DataWritten
<1>7. /\ cursor' = cursor + size + v
      /\ Holds(content', i * IndexWidth, index)
      /\ Holds(content', cursor, head)
      /\ Holds(content', cursor + size, bytes)
  <2>1. cursor - witness_index_space = Len(ser)
    BY <1>2, <1>4
  <2> QED  BY <1>5, <2>1, DataWritten
<1>8. \A q \in Nat, others \in Seq(Cell) :
        Holds(content, q, others) /\ q + Len(others) <= cursor => Holds(content', q, others)
  BY DataWritten
<1>9. /\ i' = i + 1 /\ received' = Append(received, bytes) /\ pc' = "element"
      /\ witness_index_space' = witness_index_space
  BY DEF ReadData, witness_index_space
<1>10. content' \in Seq(Cell)
  <2>1. LengthInv'
    BY ReadDataLength
  <2> QED  BY <2>1 DEF LengthInv
<1>11. Holds(content, witness_index_space, ser) /\ Holds(content, 0, ind)
  BY <1>1 DEF PackedInv
<1>12. /\ Serialized(received') = ser \o (head \o bytes)
       /\ FlattenSeq(Indices(received')) = ind \o index
  <2> HIDE DEF bytes
  <2>1. Serialized(Append(received, bytes)) = ser \o (head \o bytes)
    BY <1>2, <1>6, SerializedAppend
  <2>2. FlattenSeq(Indices(Append(received, bytes))) = ind \o index
    BY <1>2, <1>6, IndicesAppend
  <2> QED  BY <1>9, <2>1, <2>2
<1> HIDE DEF size, bytes, ser, ind, index, head
<1>13. head \o bytes \in Seq(Cell) /\ Len(head \o bytes) = size + v
  BY <1>4, <1>6, ConcatProperties
<1>14. Len(ser \o (head \o bytes)) = Len(ser) + (size + v)
  BY <1>2, <1>13, ConcatProperties
<1>15. Holds(content', witness_index_space, ser \o (head \o bytes))
  <2>1. Holds(content', witness_index_space, ser)
    <3>1. witness_index_space + Len(ser) <= cursor
      BY <1>2
    <3> QED  BY <1>2, <1>8, <1>11, <3>1
  <2>2. Holds(content', cursor, head \o bytes)
    <3>1. Holds(content', cursor + Len(head), bytes)
      BY <1>4, <1>7
    <3> QED  BY <1>2, <1>4, <1>6, <1>7, <1>10, <3>1, HoldsBoth
  <2>3. Holds(content', witness_index_space + Len(ser), head \o bytes)
    BY <1>2, <2>2
  <2> QED  BY <1>2, <1>10, <1>13, <2>1, <2>3, HoldsBoth
<1>16. Holds(content', 0, ind \o index)
  <2> DEFINE w == i * IndexWidth
  <2>1. Len(ind) = w /\ w \in Nat /\ w <= cursor
    BY <1>2
  <2>2. Holds(content', w, index)
    BY <1>7
  <2> HIDE DEF w
  <2>3. Holds(content', 0, ind)
    <3>1. 0 + Len(ind) <= cursor
      BY <2>1
    <3> QED  BY <1>2, <1>8, <1>11, <3>1
  <2>4. Holds(content', 0 + Len(ind), index)
    <3>1. 0 + Len(ind) = w
      BY <2>1
    <3> QED  BY <2>2, <3>1
  <2> QED  BY <1>2, <1>4, <1>10, <2>3, <2>4, HoldsBoth
<1>17. cursor' = witness_index_space + Len(ser \o (head \o bytes))
  <2>1. /\ cursor = witness_index_space + Len(ser) /\ cursor' = cursor + size + v
        /\ witness_index_space \in Nat /\ Len(ser) \in Nat /\ size \in Nat /\ v \in Nat
    BY <1>2, <1>3, <1>4, <1>7
  <2> HIDE DEF v
  <2> QED  BY <1>14, <2>1
<1>18. Len(ind \o index) = Len(received') * IndexWidth
  <2>1. Len(ind \o index) = i * IndexWidth + IndexWidth
    <3>1. Len(ind \o index) = Len(ind) + Len(index)
      BY <1>2, <1>4, ConcatProperties
    <3> QED  BY <1>2, <1>4, <3>1
  <2>2. Len(received') = i + 1
    BY <1>2, <1>6, <1>9, AppendProperties
  <2>3. (i + 1) * IndexWidth = i * IndexWidth + IndexWidth
    BY <1>2
  <2> QED  BY <2>1, <2>2, <2>3
<1>19. PacksLikeFromSlice'
  BY <1>9 DEF PacksLikeFromSlice
<1> QED  BY <1>9, <1>12, <1>15, <1>16, <1>17, <1>18, <1>19 DEF PackedInv

LEMMA ReturnPacked == LengthInv /\ StoredInv /\ PackedInv /\ Return => PackedInv'
<1> SUFFICES ASSUME LengthInv, StoredInv, PackedInv, Return PROVE PackedInv'
  OBVIOUS
<1> DEFINE ser == Serialized(received)
           ind == FlattenSeq(Indices(received))
           turned == TruncateAndRotate(content, cursor, witness_index_space)
<1>1. /\ pc = "element" /\ i = witness_elements /\ pc' = "ok" /\ received' = received
      /\ result' = [content          |-> turned,
                    witness_elements |-> witness_elements,
                    indices_start    |-> cursor - witness_index_space]
  BY DEF Return
<1>2. /\ content \in Seq(Cell) /\ Len(content) \in Nat /\ cursor \in Nat
      /\ witness_index_space \in Nat /\ witness_index_space <= cursor /\ cursor <= Len(content)
      /\ ser \in Seq(Cell) /\ witness_index_space + Len(ser) = cursor
      /\ ind \in Seq(Cell) /\ Len(ind) = i * IndexWidth /\ Len(received) = i
  BY <1>1, PartsInside
<1>3. Len(ind) = witness_index_space /\ Len(ser) \in Nat
  BY <1>1, <1>2, LenProperties DEF witness_index_space
<1>4. /\ turned \in Seq(Cell) /\ Len(turned) = cursor
      /\ \A k \in 1 .. cursor - witness_index_space : turned[k] = content[witness_index_space + k]
      /\ \A k \in 1 .. witness_index_space :
           turned[(cursor - witness_index_space) + k] = content[k]
  <2> DEFINE space == witness_index_space
  <2>1. space \in Nat /\ space <= cursor /\ content \in Seq(Cell) /\ cursor \in Nat
        /\ cursor <= Len(content)
    BY <1>2
  <2> HIDE DEF ser, ind, space
  <2>2. LET t == TruncateAndRotate(content, cursor, space)
        IN /\ t \in Seq(Cell) /\ Len(t) = cursor
           /\ \A k \in 1 .. cursor - space : t[k] = content[space + k]
           /\ \A k \in 1 .. space : t[(cursor - space) + k] = content[k]
    BY <2>1, Rotated
  <2> QED  BY <2>2 DEF space
<1>5. Holds(content, witness_index_space, ser) /\ Holds(content, 0, ind)
  BY <1>1 DEF PackedInv
<1> HIDE DEF ser, ind, turned
<1>6. cursor - witness_index_space = Len(ser)
  BY <1>2, <1>3
<1>7. turned = ser \o ind
  <2>1. /\ ser \o ind \in Seq(Cell) /\ Len(ser \o ind) = Len(ser) + Len(ind)
        /\ \A k \in 1 .. Len(ser) + Len(ind) :
             (ser \o ind)[k] = IF k <= Len(ser) THEN ser[k] ELSE ind[k - Len(ser)]
    BY <1>2, ConcatProperties
  <2>2. Len(turned) = Len(ser) + Len(ind)
    BY <1>2, <1>3, <1>4
  <2>3. \A k \in 1 .. Len(turned) : turned[k] = (ser \o ind)[k]
    <3> TAKE k \in 1 .. Len(turned)
    <3>1. CASE k <= Len(ser)
      <4>1. k \in 1 .. Len(ser)
        BY <1>3, <2>2, <3>1
      <4>2. turned[k] = content[witness_index_space + k]
        BY <1>4, <1>6, <4>1
      <4>3. content[witness_index_space + k] = ser[k]
        BY <1>5, <4>1 DEF Holds
      <4> QED  BY <2>1, <2>2, <3>1, <4>2, <4>3
    <3>2. CASE ~ (k <= Len(ser))
      <4>1. k - Len(ser) \in 1 .. witness_index_space /\ Len(ser) + (k - Len(ser)) = k
        BY <1>2, <1>3, <2>2, <3>2
      <4>2. turned[Len(ser) + (k - Len(ser))] = content[k - Len(ser)]
        BY <1>4, <1>6, <4>1
      <4>3. content[0 + (k - Len(ser))] = ind[k - Len(ser)]
        BY <1>3, <1>5, <4>1 DEF Holds
      <4>4. 0 + (k - Len(ser)) = k - Len(ser)
        BY <4>1
      <4> QED  BY <2>1, <2>2, <3>2, <4>1, <4>2, <4>3, <4>4
    <3> QED  BY <3>1, <3>2
  <2> QED  BY <1>4, <2>1, <2>2, <2>3, SeqEqual
<1>8. result' = FromSlice(received)
  <2>1. witness_elements = Len(received)
    BY <1>1, <1>2
  <2>2. FromSlice(received) = [content |-> ser \o ind, witness_elements |-> Len(received),
                               indices_start |-> Len(ser)]
    BY FromSliceForm DEF ser, ind
  <2> QED  BY <1>1, <1>6, <1>7, <2>1, <2>2
<1>9. PacksLikeFromSlice'
  BY <1>1, <1>8 DEF PacksLikeFromSlice
<1> QED  BY <1>1, <1>9 DEF PackedInv

LEMMA PackedStep ==
  ASSUME SizesFit
  PROVE  LengthInv /\ StoredInv /\ PackedInv /\ [Next]_vars => PackedInv'
<1> SUFFICES ASSUME LengthInv, StoredInv, PackedInv, [Next]_vars PROVE PackedInv'
  OBVIOUS
<1>1. CASE ReadError
  BY <1>1 DEF ReadError, Fail, PackedInv, PacksLikeFromSlice
<1>2. CASE \E n \in Counts : ReadCount(n)
  BY <1>2, ReadCountPacked
<1>3. CASE \E varint \in Sizes : ReadSize(varint)
  BY <1>3, ReadSizePacked
<1>4. CASE UNCHANGED vars
  <2>1. UNCHANGED vars /\ witness_index_space' = witness_index_space
    BY <1>4 DEF vars, witness_index_space
  <2> QED  BY <2>1 DEF PackedInv, PacksLikeFromSlice, vars
<1> QED
  BY <1>1, <1>2, <1>3, <1>4, DoublePacked, ResizedPacked, ReadDataPacked, ReturnPacked
  DEF Next, Finished

\* Where usize holds the sizes, the two parts of the vector are at every point
\* of the loop those that from_slice builds of the elements read so far.
THEOREM PackedInvariant == ASSUME SizesFit PROVE Spec => []PackedInv
<1>1. LengthInv /\ StoredInv /\ PackedInv /\ [Next]_vars => PackedInv'
  BY PackedStep
<1> QED  BY <1>1, PackedStart, LengthInvariant, StoredInvariant, PTL DEF Spec

\* A decoded witness is the representation from_slice builds of the elements
\* of the stream, so that the derived equality compares elements.
THEOREM DecodedIsPacked == ASSUME SizesFit PROVE Spec => []PacksLikeFromSlice
<1>1. PackedInv => PacksLikeFromSlice
  BY DEF PackedInv
<1> QED  BY <1>1, PackedInvariant, PTL

\* Encoding a decoded witness writes the stream it was decoded from.
THEOREM DecodedReencodes == ASSUME SizesFit PROVE Spec => []ReencodesReceived
<1>1. StoredInv /\ PackedInv => ReencodesReceived
  <2> SUFFICES ASSUME StoredInv, PackedInv, pc = "ok"
               PROVE  Encode(result) = SizeCells(Len(received)) \o Serialized(received)
    BY DEF ReencodesReceived
  <2> DEFINE ser == Serialized(received)
             ind == FlattenSeq(Indices(received))
  <2>1. /\ result = [content |-> ser \o ind, witness_elements |-> Len(received),
                     indices_start |-> Len(ser)]
    BY FromSliceForm DEF PackedInv, PacksLikeFromSlice
  <2>2. /\ ser \in Seq(Cell) /\ Len(ser) \in Nat /\ ind \in Seq(Cell) /\ Len(ind) \in Nat
        /\ Len(ind) = Len(received) * IndexWidth
    BY PackedTypes DEF StoredInv, PackedInv
  <2> HIDE DEF ser, ind
  <2>3. /\ ser \o ind \in Seq(Cell) /\ Len(ser \o ind) = Len(ser) + Len(ind)
        /\ \A k \in 1 .. Len(ser) + Len(ind) :
             (ser \o ind)[k] = IF k <= Len(ser) THEN ser[k] ELSE ind[k - Len(ser)]
    BY <2>2, ConcatProperties
  <2>4. Len(ser \o ind) - Len(received) * IndexWidth = Len(ser)
    <3> DEFINE w == Len(received) * IndexWidth
    <3>1. Len(ind) = w
      BY <2>2
    <3> HIDE DEF w
    <3>2. Len(ser \o ind) - w = Len(ser)
      BY <2>2, <2>3, <3>1
    <3> QED  BY <3>2 DEF w
  <2>5. SubSeq(ser \o ind, 1, Len(ser)) = ser
    <3> DEFINE sub == SubSeq(ser \o ind, 1, Len(ser))
    <3>1. \A k \in 1 .. Len(ser) : (ser \o ind)[k] = ser[k] /\ (ser \o ind)[k] \in Cell
      BY <2>2, <2>3, ElementOfSeq
    <3>2. sub \in Seq(Cell) /\ Len(sub) = IF 1 <= Len(ser) THEN Len(ser) - 1 + 1 ELSE 0
      BY <2>2, <3>1, SubSeqProperties
    <3>3. Len(sub) = Len(ser)
      BY <2>2, <3>2
    <3>4. \A k \in 1 .. Len(ser) : sub[k] = (ser \o ind)[k]
      BY <2>2
    <3> HIDE DEF sub
    <3>5. sub = ser
      BY <2>2, <3>1, <3>2, <3>3, <3>4, SeqEqual
    <3> QED  BY <3>5 DEF sub
  <2>6. Encode(result) = SizeCells(Len(received))
                           \o SubSeq(ser \o ind, 1, Len(ser \o ind) - Len(received) * IndexWidth)
    BY <2>1 DEF Encode
  <2> QED  BY <2>4, <2>5, <2>6 DEF ser
<1> QED  BY <1>1, StoredInvariant, PackedInvariant, PTL
=============================================================================
