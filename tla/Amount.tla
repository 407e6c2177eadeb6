------------------------------- MODULE Amount -------------------------------
(***************************************************************************)
(* Amounts of satoshis (bitcoin/types/tx_out/amount.rs): functions whose   *)
(* result is << >> when a u64 cannot hold it, a None or a panic there.     *)
(***************************************************************************)
EXTENDS Integers

CONSTANTS
  MaxAmount, \* the largest u64, scaled down
  Btc,      \* satoshis in a bitcoin, 100 000 000 in the code, scaled down
  Amounts,  \* operands, u64
  Coins     \* whole numbers of bitcoins, u64

ASSUME AmountAssumption ==
  /\ MaxAmount \in Nat /\ Btc \in Nat
  /\ Amounts \subseteq 0 .. MaxAmount /\ Coins \subseteq 0 .. MaxAmount

Faulty_CheckedAdd(a, b) == <<(a + b) % (MaxAmount + 1)>>

\* << >> is None.
CheckedAdd(a, b) == IF a + b <= MaxAmount THEN <<a + b>> ELSE << >>
CheckedSub(a, b) == IF b <= a THEN <<a - b>> ELSE << >>

FromIntBtc(n) == IF n * Btc <= MaxAmount THEN <<n * Btc>> ELSE << >>
=============================================================================
