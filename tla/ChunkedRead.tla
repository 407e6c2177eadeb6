---------------------------- MODULE ChunkedRead ----------------------------
(***************************************************************************)
(* Decoding a Vec<u8> (encoding/decode.rs): the length comes first and is  *)
(* not to be believed, so read_bytes_from_finite_reader takes the bytes    *)
(* chunk by chunk and allocates a chunk only after it has got the last.    *)
(*                                                                         *)
(* A byte is its position in the stream, 0 one that was never read.        *)
(***************************************************************************)
EXTENDS Naturals, Sequences

CONSTANTS
  ChunkSize,  \* opts.chunk_size, 128 KiB in the code
  Lengths,    \* the lengths a stream may announce
  Streams     \* the numbers of bytes a stream may really hold

\* assert_ne!(opts.chunk_size, 0)
ASSUME ChunkAssumption == ChunkSize \in Nat \ {0}

ASSUME StreamAssumption == Lengths \subseteq Nat /\ Streams \subseteq Nat

VARIABLES
  requested,  \* the announced length, as a usize
  available,  \* the bytes the stream holds
  consumed,   \* the bytes taken from it
  len,        \* opts.len: what is still to be read
  ret,        \* the vector, as long as its allocation
  pc          \* "reading", then "ok" or "error"

readVars == <<requested, available, consumed, len, ret, pc>>

ReadInit ==
  /\ requested \in Lengths
  /\ available \in Streams
  /\ consumed = 0
  /\ len = requested
  /\ ret = << >>
  /\ pc = "reading"

\* Faulty variants: the announced length is one chunk; what is left over
\* after whole chunks is read first, even when that is nothing.
Faulty_Chunk == len

Faulty_Chunk_Remainder == IF len < ChunkSize THEN len ELSE len % ChunkSize

Chunk == IF len < ChunkSize THEN len ELSE ChunkSize

\* A faulty variant: a chunk is always a whole one when it is read.
Faulty_ReadShort ==
  /\ pc = "reading" /\ len > 0
  /\ available - consumed < ChunkSize
  /\ ret' = ret \o [k \in 1 .. Chunk |-> 0]
  /\ consumed' \in consumed .. available
  /\ pc' = "error"
  /\ UNCHANGED <<requested, available, len>>

\* resize fills with zeros; read_slice then replaces all of them or fails.
\* How much a failing read takes from the stream is left open.
ReadShort ==
  /\ pc = "reading" /\ len > 0
  /\ available - consumed < Chunk
  /\ ret' = ret \o [k \in 1 .. Chunk |-> 0]
  /\ consumed' \in consumed .. available
  /\ pc' = "error"
  /\ UNCHANGED <<requested, available, len>>

\* Faulty variants: the last chunk is dropped unless it is a whole one; the
\* error of read_slice is not looked at.
Faulty_ReadChunk ==
  /\ pc = "reading" /\ len > 0
  /\ Chunk <= available - consumed
  /\ ret' = ret \o [k \in 1 .. Chunk |-> consumed + k]
  /\ consumed' = consumed + Chunk
  /\ len' = IF len < 2 * ChunkSize THEN 0 ELSE len - ChunkSize
  /\ UNCHANGED <<requested, available, pc>>

ReadChunk ==
  /\ pc = "reading" /\ len > 0
  /\ Chunk <= available - consumed
  /\ ret' = ret \o [k \in 1 .. Chunk |-> consumed + k]
  /\ consumed' = consumed + Chunk
  /\ len' = len - Chunk
  /\ UNCHANGED <<requested, available, pc>>

Return ==
  /\ pc = "reading" /\ len = 0
  /\ pc' = "ok"
  /\ UNCHANGED <<requested, available, consumed, len, ret>>

ReadFinished == pc # "reading" /\ UNCHANGED readVars

ReadNext == ReadShort \/ ReadChunk \/ Return \/ ReadFinished

ReadSpec == ReadInit /\ [][ReadNext]_readVars

-----------------------------------------------------------------------------

TypeOK ==
  /\ requested \in Lengths
  /\ available \in Streams
  /\ consumed \in 0 .. available
  /\ len \in 0 .. requested
  /\ ret \in Seq(Nat)
  /\ pc \in {"reading", "ok", "error"}

\* However long the stream claims to be, the memory in use is never more
\* than a chunk ahead of the bytes it really sent ("OOM protection").
BoundedAllocation == Len(ret) <= consumed + ChunkSize

\* The chunks join without a gap, an overlap or a byte too many: a success
\* is the announced bytes in order, and the reader stands right behind them.
ReadsExactly ==
  pc = "ok" => /\ Len(ret) = requested
               /\ consumed = requested
               /\ \A k \in 1 .. Len(ret) : ret[k] = k

\* Only a stream shorter than it claims is refused.
RefusesOnlyShort == pc = "error" => available < requested

\* The loop ends, whatever was announced.
ReadEnds == <>(pc # "reading")
=============================================================================
