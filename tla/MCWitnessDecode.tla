-------------------------- MODULE MCWitnessDecode --------------------------
(***************************************************************************)
(* WitnessDecode with indices of 2 bytes and VarInts of one byte up to 1,  *)
(* of three up to 2 and of five up to 31: a few elements of 0 to 3 bytes,  *)
(* a limit that some of these exceed, and announcements beyond the limit   *)
(* and beyond usize.                                                       *)
(***************************************************************************)
EXTENDS WitnessDecode

\* usize holds every VarInt (up to 63): a sum of sizes may still overflow.
MCCounts == 0 .. 4 \cup {13}
MCSizes == 0 .. 3 \cup {12, 40, 63}

\* usize holds the VarInts of five bytes (up to 31), as on wasm32: 33 and 45
\* become 1 and 13.
MCCounts32 == 0 .. 3 \cup {13, 33, 45}
MCSizes32 == 0 .. 2 \cup {31, 33, 45}
=============================================================================
