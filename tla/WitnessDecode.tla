--------------------------- MODULE WitnessDecode ---------------------------
(***************************************************************************)
(* Witness::decode (tx_in/witness.rs): the elements of a stream are packed *)
(* behind a gap for their indices, into a vector that doubles whenever the *)
(* next element does not fit; at the end the gap is rotated to the back.   *)
(* The stream may announce anything and may end anywhere.                  *)
(***************************************************************************)
EXTENDS Witness

CONSTANTS
  Counts,      \* numbers of elements a stream may announce (u64)
  Sizes,       \* element sizes a stream may announce (u64)
  MaxVecSize,  \* MAX_VEC_SIZE, 4,000,000 in the code
  Slack,       \* room beyond the gap at the start, 128 in the code
  IndexMax     \* largest index, u32::MAX

ASSUME DecodeAssumption ==
  /\ Counts \subseteq Nat /\ Sizes \subseteq Nat
  /\ MaxVecSize \in Nat /\ Slack \in Nat \ {0}
  /\ IndexMax \in Nat
  /\ MaxVecSize <= IndexMax

VARIABLES
  pc,                \* "count", "element", "resize", "data", "ok" or "error"
  announced,         \* the number of elements the stream claims to hold
  witness_elements,  \* what is left of it as a usize
  i,                 \* elements stored
  cursor,
  element_size_varint,
  content,
  result,            \* the Witness returned
  received           \* the elements the stream has held so far

vars == <<pc, announced, witness_elements, i, cursor, element_size_varint, content,
          result, received>>

element_size == AsUsize(element_size_varint)

\* The gap for the indices.
witness_index_space == witness_elements * IndexWidth

RequiredLen(varint) == cursor + AsUsize(varint) + VarIntSize(varint)

Init ==
  /\ pc = "count"
  /\ announced = 0
  /\ witness_elements = 0
  /\ i = 0
  /\ cursor = 0
  /\ element_size_varint = 0
  /\ content = << >>
  /\ result = Default
  /\ received = << >>

Fail ==
  /\ pc' = "error"
  /\ UNCHANGED <<announced, witness_elements, i, cursor, element_size_varint, content,
                 result, received>>

\* The stream ends, or holds a VarInt that is not minimal.
ReadError == pc \in {"count", "element", "data"} /\ Fail

ReadCount(n) ==
  LET elements == AsUsize(n)
  IN /\ pc = "count"
     /\ \/ /\ elements > MaxVecSize
           /\ Fail
        \/ /\ elements = 0
           /\ pc' = "ok"
           /\ announced' = n
           /\ UNCHANGED <<witness_elements, i, cursor, element_size_varint, content,
                          result, received>>
        \/ /\ elements \in 1 .. MaxVecSize
           /\ pc' = "element"
           /\ announced' = n
           /\ witness_elements' = elements
           /\ cursor' = elements * IndexWidth
           /\ content' = Zeros(elements * IndexWidth + Slack)
           /\ UNCHANGED <<i, element_size_varint, result, received>>

\* A faulty variant: each element is compared with the limit on its own.
Faulty_Oversized(varint) ==
  RequiredLen(varint) > UsizeMax \/ AsUsize(varint) > MaxVecSize

Oversized(varint) ==
  \/ RequiredLen(varint) > UsizeMax
  \/ RequiredLen(varint) > MaxVecSize + witness_index_space

ReadSize(varint) ==
  /\ pc = "element" /\ i < witness_elements
  /\ \/ /\ Oversized(varint)
        /\ Fail
     \/ /\ ~Oversized(varint)
        /\ pc' = "resize"
        /\ element_size_varint' = varint
        /\ content' = Put(content, i * IndexWidth,
                          IndexCells(cursor - witness_index_space))
        /\ UNCHANGED <<announced, witness_elements, i, cursor, result, received>>

\* A faulty variant: the vector grows by the element, which may be empty.
Faulty_Double ==
  /\ pc = "resize"
  /\ RequiredLen(element_size_varint) >= Len(content)
  /\ content' = content \o Zeros(element_size)
  /\ UNCHANGED <<pc, announced, witness_elements, i, cursor, element_size_varint, result,
                 received>>

\* One turn of the loop in resize_if_needed.
Double ==
  /\ pc = "resize"
  /\ RequiredLen(element_size_varint) >= Len(content)
  /\ content' = content \o Zeros(Len(content))
  /\ UNCHANGED <<pc, announced, witness_elements, i, cursor, element_size_varint, result,
                 received>>

\* A faulty variant: the vector is long enough for the element, not for its
\* size.
Faulty_Resized ==
  /\ pc = "resize"
  /\ cursor + element_size <= Len(content)
  /\ pc' = "data"
  /\ UNCHANGED <<announced, witness_elements, i, cursor, element_size_varint, content,
                 result, received>>

Resized ==
  /\ pc = "resize"
  /\ RequiredLen(element_size_varint) < Len(content)
  /\ pc' = "data"
  /\ UNCHANGED <<announced, witness_elements, i, cursor, element_size_varint, content,
                 result, received>>

ReadData ==
  LET size  == VarIntSize(element_size_varint)
      bytes == DataCells(i, element_size)
  IN /\ pc = "data"
     /\ content' = Put(Put(content, cursor, SizeCells(element_size_varint)),
                       cursor + size, bytes)
     /\ cursor' = cursor + size + element_size
     /\ i' = i + 1
     /\ received' = Append(received, bytes)
     /\ pc' = "element"
     /\ UNCHANGED <<announced, witness_elements, element_size_varint, result>>

Return ==
  /\ pc = "element" /\ i = witness_elements
  /\ result' = [content          |-> TruncateAndRotate(content, cursor, witness_index_space),
                witness_elements |-> witness_elements,
                indices_start    |-> cursor - witness_index_space]
  /\ pc' = "ok"
  /\ UNCHANGED <<announced, witness_elements, i, cursor, element_size_varint, content,
                 received>>

Finished == pc \in {"ok", "error"} /\ UNCHANGED vars

Next ==
  \/ ReadError
  \/ \E n \in Counts : ReadCount(n)
  \/ \E varint \in Sizes : ReadSize(varint)
  \/ Double
  \/ Resized
  \/ ReadData
  \/ Return
  \/ Finished

Spec == Init /\ [][Next]_vars

\* One call runs until it returns: nothing in it waits.
FairSpec == Spec /\ WF_vars(Next)

-----------------------------------------------------------------------------

\* No slice of the vector panics: an index, a size and an element always lie
\* inside it when they are written, and an index fits its four bytes.
SlicesInBounds ==
  /\ pc = "element" => witness_index_space <= cursor /\ cursor <= Len(content)
  /\ pc = "element" /\ i < witness_elements =>
       /\ (i + 1) * IndexWidth <= Len(content)
       /\ cursor - witness_index_space <= IndexMax
  /\ pc = "data" => RequiredLen(element_size_varint) <= Len(content)

\* Doubling never takes more than twice what the limit allows, whatever the
\* stream announces.
BoundedMemory ==
  \/ Len(content) <= witness_index_space + Slack
  \/ Len(content) <= 2 * (MaxVecSize + witness_index_space)

\* Decoding gives the very representation from_slice builds, so a witness
\* that was decoded equals the one that was attached.
PacksLikeFromSlice == pc = "ok" => result = FromSlice(received)

\* Its iterator gives back the elements of the stream.
IteratesReceived == pc = "ok" => ToVec(result) = received

\* Encoding it writes the stream that was read.
ReencodesReceived ==
  pc = "ok" => Encode(result) = SizeCells(Len(received)) \o Serialized(received)

\* "if the count is greater than MAX_VEC_SIZE we must return an error": a
\* stream that claims more elements is never decoded.
OversizedCountRefused == pc = "ok" => announced <= MaxVecSize

\* decode returns, whatever the stream announces.
Termination == <>(pc \in {"ok", "error"})
=============================================================================
