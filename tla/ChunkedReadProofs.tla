------------------------- MODULE ChunkedReadProofs -------------------------
(***************************************************************************)
(* Safety of ChunkedRead for every chunk size, length and stream.          *)
(***************************************************************************)
EXTENDS ChunkedRead, SequenceTheorems, TLAPS

\* While it reads, the vector is what the stream sent so far, and what is
\* left to read makes up the announced length.
Prefix == Len(ret) = consumed /\ \A k \in 1 .. Len(ret) : ret[k] = k

IInv ==
  /\ TypeOK
  /\ pc \in {"reading", "ok"} => Prefix /\ consumed + len = requested
  /\ pc = "ok" => len = 0
  /\ pc = "error" => /\ available < requested
                     /\ Len(ret) <= consumed + ChunkSize

LEMMA ChunkBounds ==
  ASSUME TypeOK, len > 0
  PROVE  Chunk \in 1 .. len /\ Chunk <= ChunkSize /\ Chunk \in Nat
  BY ChunkAssumption, StreamAssumption DEF TypeOK, Chunk

\* What appending a chunk of bytes to the vector does.
LEMMA AppendChunk ==
  ASSUME NEW r \in Seq(Nat), NEW n \in Nat, NEW f \in [1 .. n -> Nat]
  PROVE  /\ r \o f \in Seq(Nat)
         /\ Len(r \o f) = Len(r) + n
         /\ \A k \in 1 .. Len(r) : (r \o f)[k] = r[k]
         /\ \A k \in Len(r) + 1 .. Len(r) + n : (r \o f)[k] = f[k - Len(r)]
<1>1. f \in Seq(Nat) /\ Len(f) = n
  BY SeqDef
<1>2. Len(r) \in Nat
  BY LenProperties
<1>3. /\ r \o f \in Seq(Nat)
      /\ Len(r \o f) = Len(r) + Len(f)
      /\ \A k \in 1 .. Len(r) + Len(f) :
           (r \o f)[k] = IF k <= Len(r) THEN r[k] ELSE f[k - Len(r)]
  BY <1>1, ConcatProperties
<1>4. ASSUME NEW k \in 1 .. Len(r)  PROVE (r \o f)[k] = r[k]
  BY <1>1, <1>2, <1>3
<1>5. ASSUME NEW k \in Len(r) + 1 .. Len(r) + n
      PROVE  (r \o f)[k] = f[k - Len(r)]
  <2>1. k \in 1 .. Len(r) + Len(f) /\ ~(k <= Len(r))
    BY <1>1, <1>2
  <2> QED  BY <1>3, <2>1
<1> QED  BY <1>1, <1>3, <1>4, <1>5

LEMMA InitInv == ReadInit => IInv
  BY EmptySeq, StreamAssumption, ChunkAssumption DEF ReadInit, IInv, TypeOK, Prefix

LEMMA ReadShortInv == IInv /\ ReadShort => IInv'
<1> SUFFICES ASSUME IInv, ReadShort PROVE IInv'
  OBVIOUS
<1> DEFINE f == [k \in 1 .. Chunk |-> 0]
<1>1. Chunk \in Nat /\ Chunk <= ChunkSize /\ Chunk <= len
  BY ChunkBounds, StreamAssumption DEF ReadShort, IInv, TypeOK
<1>2. f \in [1 .. Chunk -> Nat]
  OBVIOUS
<1>3. ret' \in Seq(Nat) /\ Len(ret') = Len(ret) + Chunk
  <2> HIDE DEF f
  <2>1. ret' = ret \o f
    BY DEF ReadShort, f
  <2> QED  BY <1>1, <1>2, <2>1, AppendChunk DEF IInv, TypeOK
<1>4. /\ requested \in Nat /\ available \in Nat /\ consumed \in 0 .. available
      /\ len \in 0 .. requested
  BY StreamAssumption DEF IInv, TypeOK
<1>5. consumed' \in consumed .. available /\ UNCHANGED <<requested, available, len>>
  BY DEF ReadShort
<1>6. Len(ret') <= consumed' + ChunkSize
  BY <1>1, <1>3, <1>4, <1>5, ChunkAssumption DEF IInv, Prefix, ReadShort
<1>7. available < requested
  BY <1>1, <1>4 DEF IInv, Prefix, ReadShort
<1>8. TypeOK'
  <2>1. consumed' \in 0 .. available'
    BY <1>4, <1>5
  <2>2. requested' \in Lengths /\ available' \in Streams /\ len' \in 0 .. requested'
    BY <1>4, <1>5 DEF IInv, TypeOK
  <2>3. pc' = "error"
    BY DEF ReadShort
  <2> QED  BY <1>3, <2>1, <2>2, <2>3 DEF TypeOK
<1>9. pc' = "error"
  BY DEF ReadShort
<1> QED  BY <1>5, <1>6, <1>7, <1>8, <1>9 DEF IInv

LEMMA ReadChunkInv == IInv /\ ReadChunk => IInv'
<1> SUFFICES ASSUME IInv, ReadChunk PROVE IInv'
  OBVIOUS
<1> DEFINE f == [k \in 1 .. Chunk |-> consumed + k]
<1>1. Chunk \in Nat /\ Chunk <= ChunkSize /\ Chunk <= len
  BY ChunkBounds, StreamAssumption DEF ReadChunk, IInv, TypeOK
<1>2. /\ requested \in Nat /\ available \in Nat /\ consumed \in Nat
      /\ consumed <= available /\ len \in Nat /\ len <= requested
  BY StreamAssumption DEF IInv, TypeOK
<1>3. f \in [1 .. Chunk -> Nat]
  BY <1>1, <1>2
<1>4. /\ ret' \in Seq(Nat)
      /\ Len(ret') = Len(ret) + Chunk
      /\ \A k \in 1 .. Len(ret) : ret'[k] = ret[k]
      /\ \A k \in Len(ret) + 1 .. Len(ret) + Chunk : ret'[k] = f[k - Len(ret)]
  <2> HIDE DEF f
  <2>1. ret' = ret \o f
    BY DEF ReadChunk, f
  <2> QED  BY <1>1, <1>3, <2>1, AppendChunk DEF IInv, TypeOK
<1>5. Prefix /\ consumed + len = requested /\ pc' = "reading"
  BY DEF IInv, ReadChunk
<1>6. Prefix'
  <2>1. Len(ret') = consumed'
    BY <1>4, <1>5 DEF Prefix, ReadChunk
  <2>2. ASSUME NEW k \in 1 .. Len(ret')  PROVE ret'[k] = k
    <3>1. CASE k \in 1 .. Len(ret)
      BY <1>4, <1>5, <3>1 DEF Prefix
    <3>2. CASE k \notin 1 .. Len(ret)
      <4>1. /\ k \in Len(ret) + 1 .. Len(ret) + Chunk
            /\ k - Len(ret) \in 1 .. Chunk
            /\ Len(ret) = consumed
        BY <1>1, <1>2, <1>4, <1>5, <3>2 DEF Prefix
      <4>2. f[k - Len(ret)] = consumed + (k - Len(ret))
        BY <4>1
      <4>3. ret'[k] = f[k - Len(ret)]
        <5> HIDE DEF f
        <5> QED  BY <1>4, <4>1
      <4>4. k \in Nat /\ consumed \in Nat
        BY <1>1, <1>2, <1>4, <1>5 DEF Prefix
      <4> HIDE DEF f
      <4> QED  BY <4>1, <4>2, <4>3, <4>4
    <3> QED  BY <3>1, <3>2
  <2> QED  BY <2>1, <2>2 DEF Prefix
<1>7. /\ consumed' \in 0 .. available' /\ len' \in 0 .. requested'
      /\ consumed' + len' = requested'
  BY <1>1, <1>2, <1>5 DEF ReadChunk
<1> QED  BY <1>4, <1>5, <1>6, <1>7 DEF IInv, TypeOK, ReadChunk

LEMMA InvStep == IInv /\ [ReadNext]_readVars => IInv'
<1> SUFFICES ASSUME IInv, [ReadNext]_readVars PROVE IInv'
  OBVIOUS
<1>1. CASE ReadShort
  BY <1>1, ReadShortInv
<1>2. CASE ReadChunk
  BY <1>2, ReadChunkInv
<1>3. CASE Return
  BY <1>3 DEF IInv, TypeOK, Return, Prefix
<1>4. CASE UNCHANGED readVars
  BY <1>4 DEF IInv, TypeOK, Prefix, readVars
<1> QED  BY <1>1, <1>2, <1>3, <1>4 DEF ReadNext, ReadFinished

LEMMA InvImplies == IInv => BoundedAllocation /\ ReadsExactly /\ RefusesOnlyShort
  BY ChunkAssumption, StreamAssumption
  DEF IInv, TypeOK, Prefix, BoundedAllocation, ReadsExactly, RefusesOnlyShort

THEOREM Invariant == ReadSpec => []IInv
  BY InitInv, InvStep, PTL DEF ReadSpec

\* The allocation is never more than a chunk ahead of the stream.
THEOREM AllocationIsBounded == ReadSpec => []BoundedAllocation
  BY Invariant, InvImplies, PTL

\* A vector that is returned is exactly what the stream sent.
THEOREM ReadIsExact == ReadSpec => []ReadsExactly
  BY Invariant, InvImplies, PTL

\* An error means that the stream was shorter than it claimed.
THEOREM OnlyShortRefused == ReadSpec => []RefusesOnlyShort
  BY Invariant, InvImplies, PTL
=============================================================================
