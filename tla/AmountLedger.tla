---------------------------- MODULE AmountLedger ----------------------------
(***************************************************************************)
(* Arithmetic on Amount (bitcoin/types/tx_out/amount.rs): a wallet keeps a *)
(* total, with the operators that panic and the functions that return      *)
(* None.  Beside it an ideal total over the integers, which leaves out     *)
(* exactly the operations that lead out of a u64.                          *)
(***************************************************************************)
EXTENDS Amount

VARIABLES
  total,     \* Amount
  ideal,     \* integer
  left_out,  \* an operation led out of the range of a u64
  none,      \* some checked function returned None
  aborted

ledgerVars == <<total, ideal, left_out, none, aborted>>

LedgerInit ==
  /\ total = 0 /\ ideal = 0
  /\ left_out = FALSE /\ none = FALSE /\ aborted = FALSE

\* The ideal total becomes n if a u64 can hold it.
Ideally(n) ==
  /\ ideal' = IF 0 <= n /\ n <= MaxAmount THEN n ELSE ideal
  /\ left_out' = (left_out \/ n < 0 \/ n > MaxAmount)

\* What is done with an Option: unwrapped or looked at.
Unwrap(result) ==
  /\ aborted' = (result = << >>)
  /\ total' = IF result = << >> THEN total ELSE result[1]
  /\ none' = none

Check(result) ==
  /\ none' = (none \/ result = << >>)
  /\ total' = IF result = << >> THEN total ELSE result[1]
  /\ aborted' = aborted

Add(a)        == Unwrap(CheckedAdd(total, a)) /\ Ideally(ideal + a)
Sub(a)        == Unwrap(CheckedSub(total, a)) /\ Ideally(ideal - a)
TryAdd(a)     == Check(CheckedAdd(total, a)) /\ Ideally(ideal + a)
TrySub(a)     == Check(CheckedSub(total, a)) /\ Ideally(ideal - a)
Exchange(n)   == Unwrap(FromIntBtc(n)) /\ Ideally(n * Btc)

LedgerNext ==
  /\ ~aborted
  /\ \/ \E a \in Amounts : Add(a) \/ Sub(a) \/ TryAdd(a) \/ TrySub(a)
     \/ \E n \in Coins : Exchange(n)

LedgerSpec == LedgerInit /\ [][LedgerNext]_ledgerVars

-----------------------------------------------------------------------------

\* However long the wallet adds and subtracts, its total is that of the
\* integers without the operations that lead out of a u64: none wraps, none
\* that fits is lost, one that is refused leaves the total as it was.  Of
\* those that were left out, and of no other, the wallet is told, by None or
\* by a panic.
TotalIsExact ==
  /\ total = ideal /\ 0 <= total /\ total <= MaxAmount
  /\ none \/ aborted <=> left_out
=============================================================================
