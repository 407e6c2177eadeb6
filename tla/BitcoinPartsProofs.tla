------------------------- MODULE BitcoinPartsProofs -------------------------
(***************************************************************************)
(* Four of the specifications that stand around a Bitcoin transaction: the *)
(* total of AmountLedger is exact, TxBuilders builds what was set last,    *)
(* BitcoinHandover reads what a document means, and the script of          *)
(* ScriptSig holds what the signer answered.                               *)
(***************************************************************************)
EXTENDS AmountLedger, TxBuilders, BitcoinHandover, ScriptSig, SequenceTheorems,
        SequenceInduction, TLAPS

-----------------------------------------------------------------------------
(* The ledger, for every width of a u64, every number of satoshis in a     *)
(* bitcoin and all operands.                                               *)

\* The wallet has been told of what is left out, and total and ideal agree.
LedgerInv ==
  /\ total \in 0 .. MaxAmount /\ ideal = total
  /\ left_out \in BOOLEAN /\ none \in BOOLEAN /\ aborted \in BOOLEAN
  /\ (none \/ aborted) <=> left_out

\* What an operation computes, and what it would compute over the integers,
\* fit together.
Agrees(result, n) ==
  result = IF 0 <= n /\ n <= MaxAmount THEN <<n>> ELSE << >>

\* The three functions return the integer if a u64 holds it and None otherwise.
LEMMA FunctionsAgree ==
  ASSUME NEW a \in 0 .. MaxAmount, NEW b \in 0 .. MaxAmount
  PROVE  /\ Agrees(CheckedAdd(a, b), a + b)
         /\ Agrees(CheckedSub(a, b), a - b)
         /\ Agrees(FromIntBtc(a), a * Btc)
<1>1. a \in Nat /\ b \in Nat /\ a <= MaxAmount /\ b <= MaxAmount /\ MaxAmount \in Nat /\ Btc \in Nat
  BY AmountAssumption
<1>2. Agrees(CheckedAdd(a, b), a + b)
  BY <1>1 DEF Agrees, CheckedAdd
<1>3. Agrees(CheckedSub(a, b), a - b)
  BY <1>1 DEF Agrees, CheckedSub
<1>4. a * Btc \in Nat
  BY <1>1
<1>5. Agrees(FromIntBtc(a), a * Btc)
  BY <1>1, <1>4 DEF Agrees, FromIntBtc
<1>6. QED
  BY <1>2, <1>3, <1>5

\* Unwrapping keeps the invariant: a panic says that something was left out.
LEMMA UnwrapKeeps ==
  ASSUME LedgerInv, ~aborted, NEW STATE result, NEW STATE n, n \in Int, Agrees(result, n), Unwrap(result), Ideally(n)
  PROVE  LedgerInv'
<1>1. MaxAmount \in Nat
  BY AmountAssumption
<1>2. CASE 0 <= n /\ n <= MaxAmount
  <2>1. result = <<n>>
    BY <1>2, Zenon DEF Agrees
  <2>2. result # << >> /\ result[1] = n
    BY <2>1
  <2>3. total' = n /\ ideal' = n
    BY <1>2, <2>2, Zenon DEF Unwrap, Ideally
  <2>4. total' \in 0 .. MaxAmount /\ ~(n < 0) /\ ~(n > MaxAmount)
    BY <1>1, <1>2, <2>3
  <2>5. ~aborted' /\ aborted' \in BOOLEAN /\ none' = none /\ (left_out' <=> left_out) /\ left_out' \in BOOLEAN
    BY <2>2, <2>4, Zenon DEF Unwrap, Ideally
  <2>6. QED
    BY <2>3, <2>4, <2>5, Zenon DEF LedgerInv
<1>3. CASE ~(0 <= n /\ n <= MaxAmount)
  <2>1. result = << >>
    BY <1>3, Zenon DEF Agrees
  <2>2. n < 0 \/ n > MaxAmount
    BY <1>1, <1>3
  <2>3. total' = total /\ ideal' = ideal /\ none' = none
    BY <1>3, <2>1, Zenon DEF Unwrap, Ideally
  <2>4. aborted' /\ aborted' \in BOOLEAN /\ left_out' /\ left_out' \in BOOLEAN
    BY <2>1, <2>2, Zenon DEF Unwrap, Ideally
  <2>5. QED
    BY <2>3, <2>4, Zenon DEF LedgerInv
<1>4. QED
  BY <1>2, <1>3

\* So does looking at the result.
LEMMA CheckKeeps ==
  ASSUME LedgerInv, NEW STATE result, NEW STATE n, n \in Int, Agrees(result, n), Check(result), Ideally(n)
  PROVE  LedgerInv'
<1>1. MaxAmount \in Nat
  BY AmountAssumption
<1>2. CASE 0 <= n /\ n <= MaxAmount
  <2>1. result = <<n>>
    BY <1>2, Zenon DEF Agrees
  <2>2. result # << >> /\ result[1] = n
    BY <2>1
  <2>3. total' = n /\ ideal' = n
    BY <1>2, <2>2, Zenon DEF Check, Ideally
  <2>4. total' \in 0 .. MaxAmount /\ ~(n < 0) /\ ~(n > MaxAmount)
    BY <1>1, <1>2, <2>3
  <2>5. aborted' = aborted /\ (none' <=> none) /\ none' \in BOOLEAN
          /\ (left_out' <=> left_out) /\ left_out' \in BOOLEAN
    BY <2>2, <2>4, Zenon DEF Check, Ideally
  <2>6. QED
    BY <2>3, <2>4, <2>5, Zenon DEF LedgerInv
<1>3. CASE ~(0 <= n /\ n <= MaxAmount)
  <2>1. result = << >>
    BY <1>3, Zenon DEF Agrees
  <2>2. n < 0 \/ n > MaxAmount
    BY <1>1, <1>3
  <2>3. total' = total /\ ideal' = ideal /\ aborted' = aborted
    BY <1>3, <2>1, Zenon DEF Check, Ideally
  <2>4. none' /\ none' \in BOOLEAN /\ left_out' /\ left_out' \in BOOLEAN
    BY <2>1, <2>2, Zenon DEF Check, Ideally
  <2>5. QED
    BY <2>3, <2>4, Zenon DEF LedgerInv
<1>4. QED
  BY <1>2, <1>3

\* An empty ledger satisfies the invariant.
LEMMA LedgerInvInit == LedgerInit => LedgerInv
<1>1. 0 \in 0 .. MaxAmount
  BY AmountAssumption
<1>2. QED
  BY <1>1, Zenon DEF LedgerInit, LedgerInv

\* Every operation keeps it.
LEMMA LedgerInvNext == LedgerInv /\ [LedgerNext]_ledgerVars => LedgerInv'
<1> SUFFICES ASSUME LedgerInv, [LedgerNext]_ledgerVars PROVE LedgerInv'
  OBVIOUS
<1>1. total \in 0 .. MaxAmount /\ ideal = total /\ MaxAmount \in Nat /\ Btc \in Nat
  BY AmountAssumption DEF LedgerInv
<1>2. CASE LedgerNext
  <2>1. ~aborted
    BY <1>2 DEF LedgerNext
  <2>2. CASE \E a \in Amounts : Add(a) \/ Sub(a) \/ TryAdd(a) \/ TrySub(a)
    <3>1. PICK a \in Amounts : Add(a) \/ Sub(a) \/ TryAdd(a) \/ TrySub(a)
      BY <2>2
    <3>2. a \in 0 .. MaxAmount /\ ideal + a \in Int /\ ideal - a \in Int
      BY <1>1, AmountAssumption
    <3>3. Agrees(CheckedAdd(total, a), ideal + a) /\ Agrees(CheckedSub(total, a), ideal - a)
      BY <1>1, <3>2, FunctionsAgree
    <3>4. CASE Add(a)
      BY <2>1, <3>2, <3>3, <3>4, UnwrapKeeps DEF Add
    <3>5. CASE Sub(a)
      BY <2>1, <3>2, <3>3, <3>5, UnwrapKeeps DEF Sub
    <3>6. CASE TryAdd(a)
      BY <3>2, <3>3, <3>6, CheckKeeps DEF TryAdd
    <3>7. CASE TrySub(a)
      BY <3>2, <3>3, <3>7, CheckKeeps DEF TrySub
    <3>8. QED
      BY <3>1, <3>4, <3>5, <3>6, <3>7
  <2>3. CASE \E n \in Coins : Exchange(n)
    <3>1. PICK n \in Coins : Exchange(n)
      BY <2>3
    <3>2. n \in 0 .. MaxAmount /\ n * Btc \in Int
      BY <1>1, AmountAssumption
    <3>3. Agrees(FromIntBtc(n), n * Btc)
      BY <3>2, FunctionsAgree
    <3>4. QED
      BY <2>1, <3>1, <3>2, <3>3, UnwrapKeeps DEF Exchange
  <2>4. QED
    BY <1>2, <2>2, <2>3 DEF LedgerNext
<1>3. CASE UNCHANGED ledgerVars
  BY <1>3 DEF LedgerInv, ledgerVars
<1>4. QED
  BY <1>2, <1>3

\* It holds of every session.
LEMMA LedgerInvHolds == LedgerSpec => []LedgerInv
  BY LedgerInvInit, LedgerInvNext, PTL DEF LedgerSpec

\* No sequence of additions, subtractions and conversions lets the total of
\* amounts wrap or differ from that of the integers, and exactly those that
\* lead out of a u64 return None or panic (amount.rs).
THEOREM LedgerIsExact == LedgerSpec => []TotalIsExact
<1>1. LedgerInv => TotalIsExact
  <2> SUFFICES ASSUME LedgerInv PROVE TotalIsExact
    OBVIOUS
  <2>1. total = ideal /\ 0 <= total /\ total <= MaxAmount
    BY AmountAssumption DEF LedgerInv
  <2>2. QED
    BY <2>1, Zenon DEF LedgerInv, TotalIsExact
<1>2. QED
  BY LedgerInvHolds, <1>1, PTL

-----------------------------------------------------------------------------
(* The builders: whatever was called before, a transaction is made of what *)
(* was set last.  The invariant says that a builder is the last assignment *)
(* of each field and that the latest transaction is still the one build    *)
(* would return.                                                           *)

Chains == {"BITCOIN", "EVM", "NEAR"}

AllFields == DOMAIN NewBitcoin \cup DOMAIN NewEvm \cup DOMAIN NewNear

Options == {<< >>} \cup {<<v>> : v \in UNION {Settable[f] : f \in AllFields}}

BuilderTyped ==
  /\ chain \in Chains
  /\ builder \in [DOMAIN New(chain) -> Options]
  /\ calls \in [DOMAIN New(chain) -> Seq(Options)]
  /\ panicked \in BOOLEAN

BuilderIsLast == \A f \in DOMAIN New(chain) : builder[f] = LastSet(f)

BuiltIsCurrent == /\ built # << >> => built = Result
                  /\ panicked => Result = << >>

BuilderInv == BuilderTyped /\ BuilderIsLast /\ BuiltIsCurrent

\* The fields of each builder are fields that can be set.
LEMMA FieldsSettable ==
  ASSUME chain \in Chains, NEW f \in DOMAIN New(chain)
  PROVE  f \in AllFields
BY DEF Chains, New, AllFields

\* A new builder has nothing set.
LEMMA BuilderInvInit == BuilderInit => BuilderInv
<1> SUFFICES ASSUME BuilderInit PROVE BuilderInv
  OBVIOUS
<1>1. chain \in Chains /\ builder = New(chain) /\ panicked = FALSE /\ built = << >>
  BY DEF BuilderInit, Chains
<1>2. builder \in [DOMAIN New(chain) -> Options] /\ \A f \in DOMAIN New(chain) : builder[f] = << >>
  BY <1>1 DEF New, NewBitcoin, NewEvm, NewNear, Options, Chains
<1>3. calls = [f \in DOMAIN New(chain) |-> << >>]
  BY <1>1 DEF BuilderInit
<1>4. calls \in [DOMAIN New(chain) -> Seq(Options)]
  BY <1>3
<1>5. QED
  BY <1>1, <1>2, <1>3, <1>4 DEF BuilderInv, BuilderTyped, BuilderIsLast, BuiltIsCurrent, LastSet

\* An assignment becomes the last one of its field and changes no other.
LEMMA AssignInvariant ==
  ASSUME BuilderInv, NEW f \in DOMAIN New(chain), NEW option \in Options, Assign(f, option)
  PROVE  BuilderInv'
<1>1. /\ chain' = chain /\ panicked' = FALSE /\ built' = << >>
      /\ builder' = [builder EXCEPT ![f] = option]
      /\ calls' = [calls EXCEPT ![f] = Append(calls[f], option)]
  BY DEF Assign, BuilderInv, BuilderTyped
<1>2. calls[f] \in Seq(Options)
  BY DEF BuilderInv, BuilderTyped
<1>3. Append(calls[f], option) \in Seq(Options)
  BY <1>2
<1>4. BuilderTyped'
  BY <1>1, <1>3 DEF BuilderInv, BuilderTyped, New
<1>5. ASSUME NEW g \in DOMAIN New(chain) PROVE builder'[g] = LastSet(g)'
  <2>1. CASE g = f
    <3>1. calls'[f] = Append(calls[f], option) /\ builder'[f] = option
      BY <1>1 DEF BuilderInv, BuilderTyped
    <3>2. /\ Append(calls[f], option) # << >>
          /\ Append(calls[f], option)[Len(Append(calls[f], option))] = option
      BY <1>2
    <3>3. QED
      BY <2>1, <3>1, <3>2 DEF LastSet
  <2>2. CASE g # f
    <3>1. calls'[g] = calls[g] /\ builder'[g] = builder[g]
      BY <1>1, <2>2 DEF BuilderInv, BuilderTyped
    <3>2. QED
      BY <3>1 DEF LastSet, BuilderInv, BuilderIsLast
  <2>3. QED
    BY <2>1, <2>2
<1>6. BuilderIsLast'
  BY <1>1, <1>5 DEF BuilderIsLast, New
<1>7. BuiltIsCurrent'
  BY <1>1 DEF BuiltIsCurrent
<1>8. QED
  BY <1>4, <1>6, <1>7 DEF BuilderInv

\* Every step keeps the invariant.
LEMMA BuilderInvNext == BuilderInv /\ [BuilderNext]_builderVars => BuilderInv'
<1> SUFFICES ASSUME BuilderInv, [BuilderNext]_builderVars PROVE BuilderInv'
  OBVIOUS
<1>1. DOMAIN builder = DOMAIN New(chain)
  BY DEF BuilderInv, BuilderTyped
<1>2. ASSUME NEW f \in DOMAIN builder, SetBitcoin(f) \/ SetEvm(f) \/ SetNear(f)
      PROVE BuilderInv'
  <2>1. f \in AllFields
    BY <1>1, FieldsSettable DEF BuilderInv, BuilderTyped
  <2>2. PICK v \in Settable[f] : Assign(f, <<v>>)
    BY <1>2 DEF SetBitcoin, SetEvm, SetNear
  <2>3. <<v>> \in Options
    BY <2>1 DEF Options
  <2>4. QED
    BY <1>1, <2>2, <2>3, AssignInvariant
<1>3. ASSUME NEW f \in DOMAIN builder, AssignNone(f) PROVE BuilderInv'
  <2>1. << >> \in Options /\ Assign(f, << >>)
    BY <1>3 DEF AssignNone, Options
  <2>2. QED
    BY <1>1, <2>1, AssignInvariant
<1>4. CASE Build
  <2>1. Result' = Result
    BY <1>4 DEF Build, Result, BuildBitcoin, BuildEvm, BuildNear, Expect, UnwrapOrDefault
  <2>2. BuilderTyped' /\ BuilderIsLast'
    BY <1>4 DEF Build, BuilderInv, BuilderTyped, BuilderIsLast, LastSet, New
  <2>3. BuiltIsCurrent'
    BY <1>4, <2>1 DEF Build, BuiltIsCurrent
  <2>4. QED
    BY <2>2, <2>3 DEF BuilderInv
<1>5. CASE UNCHANGED builderVars
  <2>1. Result' = Result
    BY <1>5 DEF builderVars, Result, BuildBitcoin, BuildEvm, BuildNear, Expect, UnwrapOrDefault
  <2>2. QED
    BY <1>5, <2>1 DEF builderVars, BuilderInv, BuilderTyped, BuilderIsLast, BuiltIsCurrent, LastSet, New
<1>6. QED
  BY <1>2, <1>3, <1>4, <1>5 DEF BuilderNext

\* The invariant holds of every use of a builder.
LEMMA BuilderInvHolds == BuilderSpec => []BuilderInv
BY BuilderInvInit, BuilderInvNext, PTL DEF BuilderSpec

-----------------------------------------------------------------------------

\* A transaction has in each field what was set last there.
LEMMA BuiltFromLastSet ==
  ASSUME BuilderInv, built # << >>, NEW f \in DOMAIN calls
  PROVE  built[1][f] = ValueAfter(f, LastSet(f)) /\ ~Missing(f)
<1>1. /\ built = Result /\ Result # << >> /\ chain \in Chains
      /\ DOMAIN builder = DOMAIN New(chain) /\ f \in DOMAIN builder
      /\ builder[f] = LastSet(f)
  BY DEF BuilderInv, BuilderTyped, BuilderIsLast, BuiltIsCurrent
<1>2. CASE chain = "BITCOIN"
  BY <1>1, <1>2 DEF Result, BuildBitcoin, Expect, ValueAfter, Missing
<1>3. CASE chain = "NEAR"
  BY <1>1, <1>3 DEF Result, BuildNear, Expect, ValueAfter, Missing
<1>4. CASE chain = "EVM"
  BY <1>1, <1>4 DEF Result, BuildEvm, Expect, EvmDefaults, UnwrapOrDefault, Optional, ValueAfter, Missing
<1>5. QED
  BY <1>1, <1>2, <1>3, <1>4 DEF Chains

\* build panics only for a field that is missing or an account that is none.
LEMMA PanicHasCause ==
  ASSUME BuilderInv, panicked
  PROVE  \E f \in DOMAIN calls : Missing(f) \/ NotAnAccount(f)
<1>1. /\ Result = << >> /\ chain \in Chains
      /\ DOMAIN builder = DOMAIN New(chain) /\ DOMAIN calls = DOMAIN New(chain)
      /\ \A f \in DOMAIN New(chain) : builder[f] = LastSet(f)
  BY DEF BuilderInv, BuilderTyped, BuilderIsLast, BuiltIsCurrent
<1>2. CASE chain = "BITCOIN"
  BY <1>1, <1>2 DEF Result, BuildBitcoin, Expect, Optional, Missing
<1>3. CASE chain = "NEAR"
  <2>1. "signer_id" \in DOMAIN New(chain) /\ "receiver_id" \in DOMAIN New(chain)
    BY <1>3 DEF New, NewNear
  <2>2. QED
    BY <1>1, <1>3, <2>1 DEF Result, BuildNear, Expect, Optional, Missing, NotAnAccount
<1>4. CASE chain = "EVM"
  BY <1>1, <1>4 DEF Result, BuildEvm, Expect, EvmDefaults, Optional, Missing
<1>5. QED
  BY <1>1, <1>2, <1>3, <1>4 DEF Chains

\* For any values and any number of calls of the setters and of build, in any
\* order, a transaction is made of what was set last, and build panics only
\* for what is missing or no account.
THEOREM BuilderIsFaithful == BuilderSpec => []BuildsWhatWasSet
<1>1. BuilderInv => BuildsWhatWasSet
  BY BuiltFromLastSet, PanicHasCause DEF BuildsWhatWasSet
<1>2. QED
  BY BuilderInvHolds, <1>1, PTL

-----------------------------------------------------------------------------
(* The documents, for all widths, thresholds and hash lengths, all         *)
(* transactions a front end may mean and all styles: first each reader,    *)
(* then the document of them, then the handover. Numbers:                  *)

\* The lower half is a u32 and its own lower half.
LEMMA LowerHalf ==
  ASSUME NEW n \in Int, 0 <= n
  PROVE  /\ Kept(n) \in 0 .. MaxU32 /\ AsU32(n) = Kept(n)
         /\ n <= MaxU32 => Kept(n) = n
<1>1. \A m \in Nat \ {0} : n % m \in 0 .. m - 1 /\ (n < m => n % m = n)
  OBVIOUS
<1>2. MaxU32 + 1 \in Nat \ {0}
  BY WidthAssumption
<1>3. n % (MaxU32 + 1) \in 0 .. MaxU32 /\ (n < MaxU32 + 1 => n % (MaxU32 + 1) = n)
  BY <1>1, <1>2, WidthAssumption
<1> QED  BY <1>3, WidthAssumption DEF Kept, AsU32

\* The three ways to write a number.
LEMMA NumberForms ==
  ASSUME NEW n \in Int
  PROVE  /\ LET doc == NumberIn("number", n)
            IN /\ ~IsString(doc) /\ Is(doc, "number") /\ doc.number = n
         /\ LET doc == NumberIn("decimal", n)
            IN /\ IsString(doc) /\ ~Is(doc, "number") /\ Is(doc, "decimal")
               /\ doc.decimal = n /\ ~doc.padded /\ Trim(doc) = doc
         /\ LET doc == NumberIn("padded", n)
            IN /\ IsString(doc) /\ ~Is(doc, "number") /\ Is(doc, "decimal")
               /\ doc.decimal = n /\ doc.padded /\ Trim(doc) = NumberIn("decimal", n)
<1>1. /\ NumberIn("number", n) = [number |-> n]
      /\ NumberIn("decimal", n) = [decimal |-> n, padded |-> FALSE]
      /\ NumberIn("padded", n) = [decimal |-> n, padded |-> TRUE]
  BY DEF NumberIn
<1>2. ~Is([number |-> n], "hex") /\ ~Is([number |-> n], "decimal") /\ ~Is([number |-> n], "word")
  BY DEF Is
<1>3. ASSUME NEW b \in BOOLEAN
      PROVE  LET doc == [decimal |-> n, padded |-> b]
             IN /\ IsString(doc) /\ ~Is(doc, "number") /\ Is(doc, "decimal")
                /\ Trim(doc) = [decimal |-> n, padded |-> FALSE]
  BY DEF Is, IsString, Trim
<1>4. Is([number |-> n], "number")
  BY DEF Is
<1>5. /\ ~IsString(NumberIn("number", n)) /\ Is(NumberIn("number", n), "number")
      /\ NumberIn("number", n).number = n
  BY <1>1, <1>2, <1>4 DEF IsString
<1>6. LET doc == NumberIn("decimal", n)
      IN /\ IsString(doc) /\ ~Is(doc, "number") /\ Is(doc, "decimal")
         /\ doc.decimal = n /\ ~doc.padded /\ Trim(doc) = doc
  <2>1. NumberIn("decimal", n).decimal = n /\ NumberIn("decimal", n).padded = FALSE
    BY <1>1
  <2>2. FALSE \in BOOLEAN
    OBVIOUS
  <2> QED  BY <1>1, <1>3, <2>1, <2>2, Zenon
<1>7. LET doc == NumberIn("padded", n)
      IN /\ IsString(doc) /\ ~Is(doc, "number") /\ Is(doc, "decimal")
         /\ doc.decimal = n /\ doc.padded /\ Trim(doc) = NumberIn("decimal", n)
  <2>1. NumberIn("padded", n).decimal = n /\ NumberIn("padded", n).padded = TRUE
    BY <1>1
  <2>2. TRUE \in BOOLEAN
    OBVIOUS
  <2> QED  BY <1>1, <1>3, <2>1, <2>2, Zenon
<1> QED  BY <1>5, <1>6, <1>7

\* An integer in JSON is read up to the reader's bound.
LEMMA NumberRead ==
  ASSUME NEW n \in Int, NEW max \in Nat, max <= MaxU64
  PROVE  Number([number |-> n], max) = IF 0 <= n /\ n <= max THEN <<n>> ELSE << >>
  BY WidthAssumption DEF Number, IsU64, Is

\* A reader of numbers takes 64 bits, one of decimals 32 and no blanks.
LEMMA NumeralRead ==
  ASSUME NEW n \in Int
  PROVE  /\ Number(NumberIn("number", n), MaxU64) = IF 0 <= n /\ n <= MaxU64 THEN <<n>> ELSE << >>
         /\ ParseU32(NumberIn("decimal", n)) = IF 0 <= n /\ n <= MaxU32 THEN <<n>> ELSE << >>
         /\ ParseU32(NumberIn("padded", n)) = << >>
<1>1. MaxU64 \in Nat /\ NumberIn("number", n) = [number |-> n]
  BY WidthAssumption DEF NumberIn
<1> QED  BY <1>1, NumberRead, NumberForms DEF ParseU32

\* Both ways of reading a version take 1 and 2 and nothing else (version.rs).
LEMMA VersionRead ==
  ASSUME NEW form \in Numerals, NEW n \in Int
  PROVE  VersionFromJson(NumberIn(form, n)) = IF n \in {1, 2} THEN <<n>> ELSE << >>
<1>1. CASE form = "number"
  <2>1. VersionFromJson(NumberIn("number", n)) = Only(Number(NumberIn("number", n), MaxU64), LAMBDA m : m \in {1, 2})
    BY NumberForms DEF VersionFromJson
  <2> QED  BY <1>1, <2>1, NumeralRead, WidthAssumption DEF Only
<1>2. CASE form \in {"decimal", "padded"}
  <2>1. VersionFromJson(NumberIn(form, n)) = Only(ParseU32(NumberIn("decimal", n)), LAMBDA m : m \in {1, 2})
    BY <1>2, NumberForms DEF VersionFromJson
  <2> QED  BY <2>1, NumeralRead, WidthAssumption DEF Only
<1> QED  BY <1>1, <1>2 DEF Numerals

\* A vout that came as a number is cut to 32 bits (outpoint.rs).
LEMMA VoutRead ==
  ASSUME NEW form \in Numerals, NEW n \in Int
  PROVE  VoutFromJson(NumberIn(form, n)) = IF FitsU32(n, form) THEN <<Kept(n)>> ELSE << >>
<1>1. CASE form = "number"
  <2>1. VoutFromJson(NumberIn("number", n)) = IF 0 <= n /\ n <= MaxU64 THEN <<AsU32(n)>> ELSE << >>
    <3>1. ~Is(NumberIn("number", n), "decimal")
      BY DEF NumberIn, Is
    <3> QED  BY <3>1, NumberForms DEF VoutFromJson, IsU64, ParseU32
  <2> QED  BY <1>1, <2>1, LowerHalf DEF FitsU32
<1>2. CASE form \in {"decimal", "padded"}
  <2>1. VoutFromJson(NumberIn(form, n)) = ParseU32(NumberIn(form, n))
    BY <1>2, NumberForms DEF VoutFromJson, IsU64
  <2> QED  BY <1>2, <2>1, NumeralRead, LowerHalf DEF FitsU32
<1> QED  BY <1>1, <1>2 DEF Numerals

\* A time of which a height is left.
Loses(n) == n >= LOCK_TIME_THRESHOLD /\ Kept(n) < LOCK_TIME_THRESHOLD

\* A lock time that came as a number is cut likewise, and the reader stops if its
\* kind is lost (lock_time.rs).
LEMMA LockTimeRead ==
  ASSUME NEW form \in Numerals, NEW n \in Int
  PROVE  LET read == LockTimeFromJson(NumberIn(form, n))
         IN /\ read.value = IF FitsU32(n, form) /\ ~Loses(n) THEN <<Kept(n)>> ELSE << >>
            /\ read.panicked = (FitsU32(n, form) /\ Loses(n))
<1> DEFINE doc == NumberIn(form, n)
           got == IF IsString(doc) THEN ParseU32(doc) ELSE Number(doc, MaxU64)
           made == IF n < LOCK_TIME_THRESHOLD THEN FromHeight(AsU32(n)) ELSE FromTime(AsU32(n))
<1>1. got = IF FitsU32(n, form) THEN <<n>> ELSE << >>
  <2>1. CASE form = "number"
    BY <2>1, NumberForms, NumeralRead DEF FitsU32
  <2>2. CASE form = "decimal"
    BY <2>2, NumberForms, NumeralRead DEF FitsU32
  <2>3. CASE form = "padded"
    BY <2>3, NumberForms, NumeralRead DEF FitsU32
  <2> QED  BY <2>1, <2>2, <2>3 DEF Numerals
<1>2. FitsU32(n, form) => made = IF Loses(n) THEN << >> ELSE <<Kept(n)>>
  <2> SUFFICES ASSUME FitsU32(n, form) PROVE made = IF Loses(n) THEN << >> ELSE <<Kept(n)>>
    OBVIOUS
  <2>1. 0 <= n
    BY DEF FitsU32
  <2>2. Kept(n) \in 0 .. MaxU32 /\ AsU32(n) = Kept(n) /\ (n <= MaxU32 => Kept(n) = n)
    BY <2>1, LowerHalf
  <2>3. CASE n < LOCK_TIME_THRESHOLD
    <3>1. n <= MaxU32 /\ ~Loses(n)
      BY <2>3, WidthAssumption DEF Loses
    <3> QED  BY <2>2, <2>3, <3>1 DEF FromHeight, IsHeight
  <2>4. CASE ~ (n < LOCK_TIME_THRESHOLD)
    BY <2>2, <2>4, WidthAssumption DEF FromTime, IsTime, Loses
  <2> QED  BY <2>3, <2>4
<1>3. LockTimeFromJson(doc) =
        [value    |-> IF got = << >> THEN << >>
                      ELSE IF got[1] < LOCK_TIME_THRESHOLD THEN FromHeight(AsU32(got[1])) ELSE FromTime(AsU32(got[1])),
         panicked |-> /\ got # << >>
                      /\ (IF got[1] < LOCK_TIME_THRESHOLD THEN FromHeight(AsU32(got[1]))
                          ELSE FromTime(AsU32(got[1]))) = << >>]
  BY DEF LockTimeFromJson
<1> HIDE DEF got
<1>4. CASE ~FitsU32(n, form)
  <2>1. LockTimeFromJson(doc) = [value |-> << >>, panicked |-> FALSE]
    BY <1>1, <1>3, <1>4
  <2>2. LockTimeFromJson(doc).value = << >> /\ ~LockTimeFromJson(doc).panicked
        /\ LockTimeFromJson(doc).panicked = FALSE
    BY <2>1
  <2>3. (FitsU32(n, form) /\ Loses(n)) = FALSE
    BY <1>4
  <2> QED  BY <1>4, <2>2, <2>3, Zenon
<1>5. CASE FitsU32(n, form)
  <2>1. got # << >> /\ got[1] = n
    BY <1>1, <1>5
  <2>2. LockTimeFromJson(doc) = [value |-> made, panicked |-> made = << >>]
    BY <1>3, <2>1
  <2> HIDE DEF made
  <2> QED  BY <1>2, <1>5, <2>2
<1> QED  BY <1>4, <1>5
-----------------------------------------------------------------------------
(* Bytes.                                                                  *)

\* Bytes are read in either form, and nothing else is.
LEMMA BytesReadJson ==
  ASSUME NEW form \in {"hex", "array"}, NEW bytes \in Seq(Int), form = "hex" => IsBytes(bytes)
  PROVE  ScriptBufFromJson(BytesIn(form, bytes)) = IF IsBytes(bytes) THEN <<bytes>> ELSE << >>
<1>1. CASE form = "hex"
  BY <1>1 DEF BytesIn, ScriptBufFromJson, Is
<1>2. CASE form = "array"
  <2> DEFINE docs == [i \in DOMAIN bytes |-> [number |-> bytes[i]]]
             doc  == [array |-> docs]
  <2>1. BytesIn(form, bytes) = doc /\ doc.array = docs /\ DOMAIN docs = DOMAIN bytes
    BY <1>2 DEF BytesIn
  <2>2. \A i \in DOMAIN bytes : docs[i].number = bytes[i] /\ docs[i] = [number |-> bytes[i]]
    OBVIOUS
  <2>3. \A i \in DOMAIN bytes : Number(docs[i], 255) # << >> <=> 0 <= bytes[i] /\ bytes[i] <= 255
    <3> TAKE i \in DOMAIN bytes
    <3>1. bytes[i] \in Int /\ 255 \in Nat /\ 255 <= MaxU64
      BY WidthAssumption
    <3>2. Number([number |-> bytes[i]], 255) = IF 0 <= bytes[i] /\ bytes[i] <= 255 THEN <<bytes[i]>> ELSE << >>
      BY <3>1, NumberRead
    <3>3. docs[i] = [number |-> bytes[i]]
      BY <2>2
    <3>4. CASE 0 <= bytes[i] /\ bytes[i] <= 255
      <4>1. Number(docs[i], 255) = <<bytes[i]>>
        BY <3>2, <3>3, <3>4
      <4>2. <<bytes[i]>> # << >>
        OBVIOUS
      <4> QED  BY <3>4, <4>1, <4>2, Zenon
    <3>5. CASE ~ (0 <= bytes[i] /\ bytes[i] <= 255)
      BY <3>2, <3>3, <3>5
    <3> QED  BY <3>4, <3>5
  <2>4. [i \in DOMAIN bytes |-> docs[i].number] = bytes
    BY <2>2
  <2>5. ScriptBufFromJson(doc) = ByteArray(doc)
    BY DEF ScriptBufFromJson, Is
  <2> HIDE DEF docs
  <2>6. ByteArray(doc) = IF \A i \in DOMAIN bytes : Number(docs[i], 255) # << >>
                         THEN <<[i \in DOMAIN bytes |-> docs[i].number]>> ELSE << >>
    BY <2>1, Zenon DEF ByteArray
  <2> HIDE DEF doc
  <2>7. IsBytes(bytes) <=> \A i \in DOMAIN bytes : Number(docs[i], 255) # << >>
    BY <2>3 DEF IsBytes
  <2> QED  BY <2>1, <2>4, <2>5, <2>6, <2>7, Zenon
<1> QED  BY <1>1, <1>2

\* A hash has its length besides.
TxidFits(bytes) == Len(bytes) = HashLength /\ IsBytes(bytes)

LEMMA TxidReadJson ==
  ASSUME NEW form \in {"hex", "array"}, NEW bytes \in Seq(Int), form = "hex" => IsBytes(bytes)
  PROVE  TxidFromJson(BytesIn(form, bytes)) = IF TxidFits(bytes) THEN <<bytes>> ELSE << >>
<1>1. ScriptBufFromJson(BytesIn(form, bytes)) = IF IsBytes(bytes) THEN <<bytes>> ELSE << >>
  BY BytesReadJson
<1> QED  BY <1>1 DEF TxidFromJson, Only, TxidFits

\* The elements of a witness are always read.
LEMMA WitnessReadJson ==
  ASSUME NEW w \in Seq(Seq(Int))
  PROVE  WitnessFromJson([array |-> [k \in DOMAIN w |-> [hex |-> w[k]]]]) = <<w>>
<1> DEFINE docs == [k \in DOMAIN w |-> [hex |-> w[k]]]
<1>1. \A k \in DOMAIN w : docs[k].hex = w[k] /\ Is(docs[k], "hex")
  BY DEF Is
<1>2. [k \in DOMAIN w |-> docs[k].hex] = w
  BY <1>1
<1>3. DOMAIN docs = DOMAIN w
  OBVIOUS
<1> HIDE DEF docs
<1>4. Is([array |-> docs], "array")
  BY DEF Is
<1>5. [array |-> docs].array = docs
  OBVIOUS
<1>6. WitnessFromJson([array |-> docs]) = <<w>>
  BY <1>1, <1>2, <1>3, <1>4, <1>5, Zenon DEF WitnessFromJson
<1> QED  BY <1>6 DEF docs

-----------------------------------------------------------------------------
(* Outpoints.                                                              *)

\* What a key's value is read as.
KeyRead(style, outpoint, name) ==
  IF name = "txid" THEN TxidFromJson(BytesIn(style.txid, outpoint.txid))
  ELSE IF name = "vout" THEN VoutFromJson(NumberIn(style.vout, outpoint.vout))
  ELSE << >>

Visitor(txid, vout) == [txid |-> txid, vout |-> vout]

\* One entry either fills its key's place in the visitor or ends the visit.
LEMMA VisitorTurn ==
  ASSUME NEW style, NEW outpoint, NEW k \in DOMAIN style.keys, NEW x, NEW v
  PROVE  LET read  == KeyRead(style, outpoint, style.keys[k])
             entry == OutPointIn(style, outpoint).entries[k]
         IN /\ VisitEntry(<< >>, entry) = << >>
            /\ read = << >> => VisitEntry(<<Visitor(x, v)>>, entry) = << >>
            /\ read # << >> /\ style.keys[k] = "txid" =>
                 VisitEntry(<<Visitor(x, v)>>, entry) = <<Visitor(read, v)>>
            /\ read # << >> /\ style.keys[k] = "vout" =>
                 VisitEntry(<<Visitor(x, v)>>, entry) = <<Visitor(x, read)>>
<1> DEFINE name  == style.keys[k]
           doc   == CASE name = "txid" -> BytesIn(style.txid, outpoint.txid)
                      [] name = "vout" -> NumberIn(style.vout, outpoint.vout)
                      [] OTHER -> [word |-> 0]
           entry == [key |-> name, doc |-> doc]
           value == CASE entry.key = "txid" -> TxidFromJson(entry.doc)
                      [] entry.key = "vout" -> VoutFromJson(entry.doc)
                      [] OTHER -> << >>
           read  == KeyRead(style, outpoint, name)
<1>1. OutPointIn(style, outpoint).entries[k] = entry
  BY DEF OutPointIn
<1>2. entry.key = name /\ entry.doc = doc
  OBVIOUS
<1>3. \A got : VisitEntry(got, entry) = IF got = << >> \/ value = << >> THEN << >>
                                       ELSE <<[got[1] EXCEPT ![entry.key] = value]>>
  BY DEF VisitEntry
<1> HIDE DEF entry
<1>4. value = read
  BY <1>2 DEF KeyRead
<1> HIDE DEF value, read, doc
<1>5. <<Visitor(x, v)>> # << >> /\ <<Visitor(x, v)>>[1] = Visitor(x, v)
  OBVIOUS
<1>6. VisitEntry(<< >>, entry) = << >>
  BY <1>3
<1>7. read = << >> => VisitEntry(<<Visitor(x, v)>>, entry) = << >>
  BY <1>3, <1>4
<1>8. ASSUME read # << >>
      PROVE  VisitEntry(<<Visitor(x, v)>>, entry) = <<[Visitor(x, v) EXCEPT ![name] = read]>>
  BY <1>2, <1>3, <1>4, <1>5, <1>8
<1>9. [Visitor(x, v) EXCEPT !.txid = read] = Visitor(read, v)
  BY DEF Visitor
<1>10. [Visitor(x, v) EXCEPT !.vout = read] = Visitor(x, read)
  BY DEF Visitor
<1> QED  BY <1>1, <1>6, <1>7, <1>8, <1>9, <1>10 DEF read

\* An outpoint is read if both its values are there.
LEMMA OutPointStruct ==
  ASSUME NEW x, NEW v
  PROVE  Struct(Visitor(x, v)) = IF x = << >> \/ v = << >> THEN << >> ELSE <<Visitor(x[1], v[1])>>
<1>1. DOMAIN Visitor(x, v) = {"txid", "vout"} /\ Visitor(x, v).txid = x /\ Visitor(x, v).vout = v
  BY DEF Visitor
<1>2. (\E f \in DOMAIN Visitor(x, v) : Visitor(x, v)[f] = << >>) <=> (x = << >> \/ v = << >>)
  BY <1>1
<1>3. [f \in DOMAIN Visitor(x, v) |-> Visitor(x, v)[f][1]] = Visitor(x[1], v[1])
  BY <1>1 DEF Visitor
<1> QED  BY <1>2, <1>3, Zenon DEF Struct

\* What the visitor has after k entries.
Visited(style, outpoint, k, got) ==
  LET Got(name) == KeyRead(style, outpoint, name)
      Seen(name) == \E j \in 1 .. k : style.keys[j] = name
  IN IF \E j \in 1 .. k : Got(style.keys[j]) = << >> THEN got = << >>
     ELSE got = <<Visitor(IF Seen("txid") THEN Got("txid") ELSE << >>,
                          IF Seen("vout") THEN Got("vout") ELSE << >>)>>

\* The next entry makes of that what the visitor has after it.
LEMMA VisitKeeps ==
  ASSUME NEW style, style.keys \in Seq(KeyNames), NEW outpoint, NEW k \in Nat, k + 1 \in DOMAIN style.keys,
         NEW got, Visited(style, outpoint, k, got)
  PROVE  Visited(style, outpoint, k + 1, VisitEntry(got, OutPointIn(style, outpoint).entries[k + 1]))
<1> DEFINE Got(name) == KeyRead(style, outpoint, name)
           Seen(name, m) == \E j \in 1 .. m : style.keys[j] = name
           name == style.keys[k + 1]
           next == VisitEntry(got, OutPointIn(style, outpoint).entries[k + 1])
           Bad(m) == \E j \in 1 .. m : Got(style.keys[j]) = << >>
           x(m) == IF Seen("txid", m) THEN Got("txid") ELSE << >>
           v(m) == IF Seen("vout", m) THEN Got("vout") ELSE << >>
<1>1. \A j : j \in 1 .. k + 1 <=> j \in 1 .. k \/ j = k + 1
  OBVIOUS
<1>2. Bad(k + 1) <=> Bad(k) \/ Got(name) = << >>
  BY <1>1
<1>3. \A s : Seen(s, k + 1) <=> Seen(s, k) \/ s = name
  BY <1>1
<1>4. \A m, g : Visited(style, outpoint, m, g) <=> IF Bad(m) THEN g = << >> ELSE g = <<Visitor(x(m), v(m))>>
  BY DEF Visited
<1>5. name # "txid" /\ name # "vout" => Got(name) = << >>
  BY DEF KeyRead
<1> HIDE DEF Bad, Seen, Got
<1>6. CASE Bad(k)
  <2>1. got = << >> /\ Bad(k + 1)
    BY <1>2, <1>4, <1>6
  <2>2. next = << >>
    BY <2>1, VisitorTurn DEF Got
  <2> QED  BY <1>4, <2>1, <2>2
<1>7. CASE ~Bad(k) /\ Got(name) = << >>
  <2>1. got = <<Visitor(x(k), v(k))>> /\ Bad(k + 1)
    BY <1>2, <1>4, <1>7
  <2> HIDE DEF x, v
  <2>2. next = << >>
    BY <1>7, <2>1, VisitorTurn DEF Got
  <2> QED  BY <1>4, <2>1, <2>2
<1>8. CASE ~Bad(k) /\ Got(name) # << >> /\ name = "txid"
  <2>1. got = <<Visitor(x(k), v(k))>> /\ ~Bad(k + 1)
    BY <1>2, <1>4, <1>8
  <2>2. x(k + 1) = Got(name) /\ v(k + 1) = v(k)
    BY <1>3, <1>8
  <2> HIDE DEF x, v
  <2>3. next = <<Visitor(Got(name), v(k))>>
    BY <1>8, <2>1, VisitorTurn DEF Got
  <2> QED  BY <1>4, <2>1, <2>2, <2>3
<1>9. CASE ~Bad(k) /\ Got(name) # << >> /\ name = "vout"
  <2>1. got = <<Visitor(x(k), v(k))>> /\ ~Bad(k + 1)
    BY <1>2, <1>4, <1>9
  <2>2. v(k + 1) = Got(name) /\ x(k + 1) = x(k)
    BY <1>3, <1>9
  <2> HIDE DEF x, v
  <2>3. next = <<Visitor(x(k), Got(name))>>
    BY <1>9, <2>1, VisitorTurn DEF Got
  <2> QED  BY <1>4, <2>1, <2>2, <2>3
<1> QED  BY <1>5, <1>6, <1>7, <1>8, <1>9

\* The visitor's values exist for every number of entries.
LEMMA VisitsExist ==
  ASSUME NEW style \in Styles, NEW outpoint
  PROVE  \E f : f = [k \in 0 .. Len(style.keys) |->
                       IF k = 0 THEN <<Visitor(<< >>, << >>)>>
                       ELSE VisitEntry(f[k - 1], OutPointIn(style, outpoint).entries[k])]
<1> DEFINE base    == <<Visitor(<< >>, << >>)>>
           n       == Len(style.keys)
           entries == OutPointIn(style, outpoint).entries
           Got(name) == KeyRead(style, outpoint, name)
           V == {<< >>} \cup {<<Visitor(x, v)>> : x \in {<< >>, Got("txid")}, v \in {<< >>, Got("vout")}}
           h == [p \in (1 .. n) \X V |-> VisitEntry(p[2], entries[p[1]])]
<1>1. n \in Nat /\ DOMAIN style.keys = 1 .. n
  BY DEF Styles
<1>2. ASSUME NEW k \in 1 .. n, NEW got \in V
      PROVE  VisitEntry(got, entries[k]) \in V
  <2> DEFINE name == style.keys[k]
  <2>1. k \in DOMAIN style.keys
    BY <1>1
  <2>2. CASE got = << >>
    <3>1. \A entry : VisitEntry(<< >>, entry) = << >>
      BY DEF VisitEntry
    <3> QED  BY <2>2, <3>1
  <2>3. CASE got # << >>
    <3>1. PICK x \in {<< >>, Got("txid")}, v \in {<< >>, Got("vout")} : got = <<Visitor(x, v)>>
      BY <2>3
    <3>2. /\ Got(name) = << >> => VisitEntry(got, entries[k]) = << >>
          /\ Got(name) # << >> /\ name = "txid" => VisitEntry(got, entries[k]) = <<Visitor(Got(name), v)>>
          /\ Got(name) # << >> /\ name = "vout" => VisitEntry(got, entries[k]) = <<Visitor(x, Got(name))>>
      BY <2>1, <3>1, VisitorTurn
    <3>3. name # "txid" /\ name # "vout" => Got(name) = << >>
      BY DEF KeyRead
    <3> HIDE DEF Got, entries, name
    <3>4. CASE Got(name) = << >>
      BY <3>2, <3>4
    <3>5. CASE Got(name) # << >> /\ name = "txid"
      BY <3>2, <3>5
    <3>6. CASE Got(name) # << >> /\ name = "vout"
      BY <3>2, <3>6
    <3> QED  BY <3>3, <3>4, <3>5, <3>6
  <2> QED  BY <2>2, <2>3
<1>3. base \in V
  OBVIOUS
<1> HIDE DEF V, entries, n
<1>4. h \in [(1 .. n) \X V -> V]
  BY <1>2
<1>5. \A k \in 1 .. n, got \in V : h[<<k, got>>] = VisitEntry(got, entries[k])
  OBVIOUS
<1> HIDE DEF h
<1>6. PICK f \in [0 .. n -> V] : Iterated(f, base, n, h)
  BY <1>1, <1>3, <1>4, IterationExists
<1>7. \A k \in 0 .. n : (IF k = 0 THEN base ELSE h[<<k, f[k - 1]>>])
                          = (IF k = 0 THEN base ELSE VisitEntry(f[k - 1], entries[k]))
  <2> TAKE k \in 0 .. n
  <2>1. CASE k = 0
    BY <2>1
  <2>2. CASE k # 0
    <3>1. k \in 1 .. n /\ k - 1 \in 0 .. n
      BY <1>1, <2>2
    <3>2. f[k - 1] \in V
      BY <3>1
    <3> QED  BY <1>5, <2>2, <3>1, <3>2
  <2> QED  BY <2>1, <2>2
<1>8. f = [k \in 0 .. n |-> IF k = 0 THEN base ELSE VisitEntry(f[k - 1], entries[k])]
  BY <1>6, <1>7, Zenon DEF Iterated
<1> QED  BY <1>8 DEF n, entries

\* The library can hold the outpoint that is written.
OutPointFits(style, outpoint) ==
  /\ ToSet(style.keys) = {"txid", "vout"}
  /\ FitsU32(outpoint.vout, style.vout)
  /\ TxidFits(outpoint.txid)

\* An outpoint is read whatever the order of its keys, also if one comes again.
LEMMA OutPointReadJson ==
  ASSUME NEW style \in Styles, NEW outpoint \in [txid : Seq(Int), vout : Int],
         style.txid = "hex" => IsBytes(outpoint.txid)
  PROVE  OutPointFromJson(OutPointIn(style, outpoint))
           = IF OutPointFits(style, outpoint) THEN <<Visitor(outpoint.txid, Kept(outpoint.vout))>> ELSE << >>
<1> DEFINE n       == Len(style.keys)
           doc     == OutPointIn(style, outpoint)
           base    == <<Visitor(<< >>, << >>)>>
           Got(name) == KeyRead(style, outpoint, name)
           F(f) == [k \in 0 .. Len(doc.entries) |-> IF k = 0 THEN base ELSE VisitEntry(f[k - 1], doc.entries[k])]
           g == CHOOSE f : f = F(f)
<1>1. style.keys \in Seq(KeyNames) /\ n \in Nat /\ DOMAIN style.keys = 1 .. n
  BY DEF Styles
<1>2. Len(doc.entries) = n
  <2> DEFINE list == [k \in DOMAIN style.keys |-> doc.entries[k]]
  <2>1. doc.entries = list
    BY DEF OutPointIn
  <2> HIDE DEF doc
  <2>2. list \in Seq({doc.entries[k] : k \in 1 .. n}) /\ Len(list) = n
    BY <1>1
  <2> QED  BY <2>1, <2>2
<1>3. OutPointFromJson(doc) = IF g[n] = << >> THEN << >> ELSE Struct(g[n][1])
  <2>1. OutPointFromJson(doc) = IF g[Len(doc.entries)] = << >> THEN << >> ELSE Struct(g[Len(doc.entries)][1])
    BY Zenon DEF OutPointFromJson, Visitor
  <2> HIDE DEF g, doc
  <2> QED  BY <1>2, <2>1
<1>4. \E f : f = F(f)
  <2>1. PICK f : f = [k \in 0 .. n |-> IF k = 0 THEN base ELSE VisitEntry(f[k - 1], doc.entries[k])]
    BY <1>1, VisitsExist, Zenon
  <2>2. f = F(f)
    BY <1>2, <2>1, Zenon
  <2> QED  BY <2>2
<1>5. g = F(g)
  BY <1>4, Zenon
<1> HIDE DEF g
<1> DEFINE S == {k \in Nat : k <= n => Visited(style, outpoint, k, g[k])}
<1>6. 0 \in S
  <2>1. g[0] = base
    BY <1>1, <1>2, <1>5
  <2>2. ~ (\E j \in 1 .. 0 : TRUE)
    OBVIOUS
  <2>3. Visited(style, outpoint, 0, base)
    BY <2>2, Zenon DEF Visited
  <2> QED  BY <2>1, <2>3
<1>7. \A k \in S : k + 1 \in S
  <2> SUFFICES ASSUME NEW k \in S, k + 1 <= n PROVE Visited(style, outpoint, k + 1, g[k + 1])
    OBVIOUS
  <2>1. k \in Nat /\ k + 1 \in DOMAIN style.keys /\ Visited(style, outpoint, k, g[k])
    BY <1>1
  <2>2. k + 1 \in 0 .. Len(doc.entries) /\ k + 1 # 0 /\ (k + 1) - 1 = k
    BY <1>1, <1>2, <2>1
  <2>3. g[k + 1] = VisitEntry(g[k], doc.entries[k + 1])
    BY <1>5, <2>2
  <2> QED  BY <1>1, <2>1, <2>3, VisitKeeps
<1>8. Visited(style, outpoint, n, g[n])
  <2> HIDE DEF S
  <2>1. S \in SUBSET Nat
    BY DEF S
  <2>2. S = Nat
    BY <1>6, <1>7, <2>1, SetInduction
  <2>3. n \in S
    BY <1>1, <2>2
  <2> QED  BY <1>1, <2>3 DEF S
<1>9. /\ Got("txid") = IF TxidFits(outpoint.txid) THEN <<outpoint.txid>> ELSE << >>
      /\ Got("vout") = IF FitsU32(outpoint.vout, style.vout) THEN <<Kept(outpoint.vout)>> ELSE << >>
  <2>1. outpoint.txid \in Seq(Int) /\ outpoint.vout \in Int
        /\ style.txid \in {"hex", "array"} /\ style.vout \in Numerals
    BY DEF Styles
  <2> QED  BY <2>1, TxidReadJson, VoutRead DEF KeyRead
<1>10. \A name : name # "txid" /\ name # "vout" => Got(name) = << >>
  BY DEF KeyRead
<1>11. ToSet(style.keys) = {style.keys[j] : j \in 1 .. n}
  BY <1>1 DEF ToSet
<1> HIDE DEF Got, doc
<1> DEFINE Bad == \E j \in 1 .. n : Got(style.keys[j]) = << >>
           Seen(name) == \E j \in 1 .. n : style.keys[j] = name
           x == IF Seen("txid") THEN Got("txid") ELSE << >>
           v == IF Seen("vout") THEN Got("vout") ELSE << >>
<1>12. IF Bad THEN g[n] = << >> ELSE g[n] = <<Visitor(x, v)>>
  BY <1>8 DEF Visited, Got
<1>13. OutPointFits(style, outpoint) <=> ~Bad /\ x # << >> /\ v # << >>
  <2>1. ASSUME OutPointFits(style, outpoint)
        PROVE  ~Bad /\ x # << >> /\ v # << >>
    <3>1. Got("txid") # << >> /\ Got("vout") # << >>
      <4>1. \A z : <<z>> # << >>
        OBVIOUS
      <4> QED  BY <1>9, <2>1, <4>1, Zenon DEF OutPointFits
    <3>2. Seen("txid") /\ Seen("vout") /\ \A j \in 1 .. n : style.keys[j] \in {"txid", "vout"}
      BY <1>11, <2>1 DEF OutPointFits
    <3> QED  BY <3>1, <3>2
  <2>2. ASSUME ~Bad, x # << >>, v # << >>
        PROVE  OutPointFits(style, outpoint)
    <3>1. Seen("txid") /\ Seen("vout") /\ Got("txid") # << >> /\ Got("vout") # << >>
      BY <2>2
    <3>2. \A j \in 1 .. n : style.keys[j] \in {"txid", "vout"}
      BY <1>10, <2>2
    <3>3. ToSet(style.keys) = {"txid", "vout"}
      BY <1>11, <3>1, <3>2
    <3> QED  BY <1>9, <3>1, <3>3 DEF OutPointFits
  <2> QED  BY <2>1, <2>2
<1>14. CASE OutPointFits(style, outpoint)
  <2>1. x = <<outpoint.txid>> /\ v = <<Kept(outpoint.vout)>>
    <3>1. x = Got("txid") /\ v = Got("vout")
      BY <1>13, <1>14
    <3> HIDE DEF x, v
    <3> QED  BY <1>9, <1>14, <3>1 DEF OutPointFits
  <2>2. g[n] = <<Visitor(x, v)>>
    BY <1>12, <1>13, <1>14
  <2> HIDE DEF x, v
  <2>3. Struct(Visitor(x, v)) = <<Visitor(outpoint.txid, Kept(outpoint.vout))>>
    BY <2>1, OutPointStruct
  <2>4. g[n] # << >> /\ g[n][1] = Visitor(x, v)
    BY <2>2
  <2> QED  BY <1>3, <1>14, <2>3, <2>4 DEF doc
<1>15. CASE ~OutPointFits(style, outpoint)
  <2>1. CASE Bad
    BY <1>3, <1>12, <1>15, <2>1 DEF doc
  <2>2. CASE ~Bad
    <3>1. g[n] = <<Visitor(x, v)>> /\ (x = << >> \/ v = << >>)
      BY <1>12, <1>13, <1>15, <2>2
    <3> HIDE DEF x, v
    <3>2. Struct(Visitor(x, v)) = << >>
      BY <3>1, OutPointStruct
    <3>3. g[n] # << >> /\ g[n][1] = Visitor(x, v)
      BY <3>1
    <3> QED  BY <1>3, <1>15, <3>2, <3>3 DEF doc
  <2> QED  BY <2>1, <2>2
<1> QED  BY <1>14, <1>15 DEF doc

-----------------------------------------------------------------------------
(* Inputs and outputs.                                                     *)

\* The parts of a transaction, meant and held.
MeantInputs ==
  [previous_output : [txid : Seq(Int), vout : Int], script_sig : Seq(Int), sequence : Int,
   witness : Seq(Seq(Int))]
MeantOutputs == [value : Int, script_pubkey : Seq(Int)]

InputOf(previous_output, sig, sequence, witness) ==
  [previous_output |-> previous_output, script_sig |-> sig, sequence |-> sequence,
   witness |-> witness]
OutputOf(value, script_pubkey) == [value |-> value, script_pubkey |-> script_pubkey]

\* A struct is read if all its fields are.
LEMMA InputStruct ==
  ASSUME NEW a, NEW b, NEW c, NEW d
  PROVE  Struct(InputOf(a, b, c, d)) =
           IF a = << >> \/ b = << >> \/ c = << >> \/ d = << >> THEN << >>
           ELSE <<InputOf(a[1], b[1], c[1], d[1])>>
<1> DEFINE r == InputOf(a, b, c, d)
<1>1. /\ DOMAIN r = {"previous_output", "script_sig", "sequence", "witness"}
      /\ r["previous_output"] = a /\ r["script_sig"] = b /\ r["sequence"] = c /\ r["witness"] = d
  BY DEF InputOf
<1>2. (\E f \in DOMAIN r : r[f] = << >>) <=> (a = << >> \/ b = << >> \/ c = << >> \/ d = << >>)
  BY <1>1
<1>3. [f \in DOMAIN r |-> r[f][1]] = InputOf(a[1], b[1], c[1], d[1])
  BY <1>1 DEF InputOf
<1> QED  BY <1>2, <1>3, Zenon DEF Struct

\* An output has two fields.
LEMMA OutputStruct ==
  ASSUME NEW a, NEW b
  PROVE  Struct(OutputOf(a, b)) = IF a = << >> \/ b = << >> THEN << >> ELSE <<OutputOf(a[1], b[1])>>
<1> DEFINE r == OutputOf(a, b)
<1>1. DOMAIN r = {"value", "script_pubkey"} /\ r["value"] = a /\ r["script_pubkey"] = b
  BY DEF OutputOf
<1>2. (\E f \in DOMAIN r : r[f] = << >>) <=> (a = << >> \/ b = << >>)
  BY <1>1
<1>3. [f \in DOMAIN r |-> r[f][1]] = OutputOf(a[1], b[1])
  BY <1>1 DEF OutputOf
<1> QED  BY <1>2, <1>3, Zenon DEF Struct

\* How ToJson writes them.
InputIn(style, in) ==
  InputOf(OutPointIn(style, in.previous_output), BytesIn(style.script, in.script_sig),
          [number |-> in.sequence],
          [array |-> [k \in DOMAIN in.witness |-> [hex |-> in.witness[k]]]])
OutputIn(style, out) == OutputOf([number |-> out.value], BytesIn(style.script, out.script_pubkey))

\* The library can hold them.
InputFits(style, in) ==
  /\ OutPointFits(style, in.previous_output)
  /\ 0 <= in.sequence /\ in.sequence <= MaxU32
  /\ IsBytes(in.script_sig)
OutputFits(out) == 0 <= out.value /\ out.value <= MaxU64 /\ IsBytes(out.script_pubkey)

\* An input is read exactly if it fits, and as what is kept of it.
LEMMA InputRead ==
  ASSUME NEW style \in Styles, NEW in \in MeantInputs,
         style.txid = "hex" => IsBytes(in.previous_output.txid),
         style.script = "hex" => IsBytes(in.script_sig)
  PROVE  TxInFromJson(InputIn(style, in)) = IF InputFits(style, in) THEN <<InputKept(in)>> ELSE << >>
<1> DEFINE doc == InputIn(style, in)
           o   == in.previous_output
           a   == OutPointFromJson(OutPointIn(style, o))
           b   == ScriptBufFromJson(BytesIn(style.script, in.script_sig))
           c   == Number([number |-> in.sequence], MaxU32)
           d   == WitnessFromJson([array |-> [k \in DOMAIN in.witness |-> [hex |-> in.witness[k]]]])
<1>1. /\ o \in [txid : Seq(Int), vout : Int] /\ in.script_sig \in Seq(Int) /\ in.sequence \in Int
      /\ in.witness \in Seq(Seq(Int)) /\ style.script \in {"hex", "array"}
  BY DEF MeantInputs, Styles
<1>2. a = IF OutPointFits(style, o) THEN <<Visitor(o.txid, Kept(o.vout))>> ELSE << >>
  BY <1>1, OutPointReadJson
<1>3. b = IF IsBytes(in.script_sig) THEN <<in.script_sig>> ELSE << >>
  BY <1>1, BytesReadJson
<1>4. c = IF 0 <= in.sequence /\ in.sequence <= MaxU32 THEN <<in.sequence>> ELSE << >>
  BY <1>1, NumberRead, WidthAssumption
<1>5. d = <<in.witness>>
  BY <1>1, WitnessReadJson
<1>6. TxInFromJson(doc) = Struct(InputOf(a, b, c, d))
  <2>1. /\ doc.previous_output = OutPointIn(style, o)
        /\ doc.script_sig = BytesIn(style.script, in.script_sig)
        /\ doc.sequence = [number |-> in.sequence]
        /\ doc.witness = [array |-> [k \in DOMAIN in.witness |-> [hex |-> in.witness[k]]]]
    BY DEF InputIn, InputOf
  <2> HIDE DEF doc
  <2> QED  BY <2>1, Zenon DEF TxInFromJson, InputOf
<1>7. InputKept(in) = InputOf(Visitor(o.txid, Kept(o.vout)), in.script_sig, in.sequence, in.witness)
  <2>1. in = InputOf([txid |-> o.txid, vout |-> o.vout], in.script_sig, in.sequence, in.witness)
    BY DEF MeantInputs, InputOf
  <2> QED  BY <2>1 DEF InputKept, InputOf, Visitor
<1> HIDE DEF a, b, c, d, doc, o
<1>8. \A z : <<z>> # << >> /\ <<z>>[1] = z
  OBVIOUS
<1>9. CASE InputFits(style, in)
  <2>1. /\ a = <<Visitor(o.txid, Kept(o.vout))>> /\ b = <<in.script_sig>> /\ c = <<in.sequence>>
    BY <1>2, <1>3, <1>4, <1>9, Zenon DEF InputFits, o
  <2>2. /\ a # << >> /\ b # << >> /\ c # << >> /\ d # << >>
        /\ a[1] = Visitor(o.txid, Kept(o.vout)) /\ b[1] = in.script_sig /\ c[1] = in.sequence
        /\ d[1] = in.witness
    BY <1>5, <1>8, <2>1, Zenon
  <2>3. Struct(InputOf(a, b, c, d)) = <<InputOf(a[1], b[1], c[1], d[1])>>
    BY <2>2, InputStruct
  <2> QED  BY <1>6, <1>7, <1>9, <2>2, <2>3, Zenon DEF doc
<1>10. CASE ~InputFits(style, in)
  <2>1. a = << >> \/ b = << >> \/ c = << >>
    BY <1>2, <1>3, <1>4, <1>10, Zenon DEF InputFits, o
  <2>2. Struct(InputOf(a, b, c, d)) = << >>
    BY <2>1, InputStruct
  <2> QED  BY <1>6, <1>10, <2>2, Zenon DEF doc
<1> QED  BY <1>9, <1>10

\* An output is read exactly if it fits.
LEMMA OutputRead ==
  ASSUME NEW style \in Styles, NEW out \in MeantOutputs,
         style.script = "hex" => IsBytes(out.script_pubkey)
  PROVE  TxOutFromJson(OutputIn(style, out)) = IF OutputFits(out) THEN <<out>> ELSE << >>
<1> DEFINE doc == OutputIn(style, out)
           a   == Number([number |-> out.value], MaxU64)
           b   == ScriptBufFromJson(BytesIn(style.script, out.script_pubkey))
<1>1. /\ out.value \in Int /\ out.script_pubkey \in Seq(Int) /\ style.script \in {"hex", "array"}
      /\ out = OutputOf(out.value, out.script_pubkey)
  BY DEF MeantOutputs, Styles, OutputOf
<1>2. a = IF 0 <= out.value /\ out.value <= MaxU64 THEN <<out.value>> ELSE << >>
  BY <1>1, NumberRead, WidthAssumption
<1>3. b = IF IsBytes(out.script_pubkey) THEN <<out.script_pubkey>> ELSE << >>
  BY <1>1, BytesReadJson
<1>4. TxOutFromJson(doc) = Struct(OutputOf(a, b))
  <2>1. doc.value = [number |-> out.value] /\ doc.script_pubkey = BytesIn(style.script, out.script_pubkey)
    BY DEF OutputIn, OutputOf
  <2> HIDE DEF doc
  <2> QED  BY <2>1, Zenon DEF TxOutFromJson, OutputOf
<1> HIDE DEF a, b, doc
<1>5. \A z : <<z>> # << >> /\ <<z>>[1] = z
  OBVIOUS
<1>6. CASE OutputFits(out)
  <2>1. a = <<out.value>> /\ b = <<out.script_pubkey>>
    BY <1>2, <1>3, <1>6, Zenon DEF OutputFits
  <2>2. a # << >> /\ b # << >> /\ a[1] = out.value /\ b[1] = out.script_pubkey
    BY <1>5, <2>1, Zenon
  <2>3. Struct(OutputOf(a, b)) = <<OutputOf(a[1], b[1])>>
    BY <2>2, OutputStruct
  <2> QED  BY <1>1, <1>4, <1>6, <2>2, <2>3, Zenon DEF doc
<1>7. CASE ~OutputFits(out)
  <2>1. a = << >> \/ b = << >>
    BY <1>2, <1>3, <1>7, Zenon DEF OutputFits
  <2>2. Struct(OutputOf(a, b)) = << >>
    BY <2>1, OutputStruct
  <2> QED  BY <1>4, <1>7, <2>2, Zenon DEF doc
<1> QED  BY <1>6, <1>7

-----------------------------------------------------------------------------
(* Transactions.                                                           *)

\* A list is read if all its items are: those in fits, whose values are in values.
LEMMA InputsRead ==
  ASSUME NEW docs, NEW fits, NEW values, values = [i \in DOMAIN docs |-> values[i]],
         \A i \in DOMAIN docs :
           TxInFromJson(docs[i]) = IF i \in fits THEN <<values[i]>> ELSE << >>
  PROVE  List(docs, TxInFromJson) = IF DOMAIN docs \subseteq fits THEN <<values>> ELSE << >>
<1> DEFINE read == [i \in DOMAIN docs |-> TxInFromJson(docs[i])]
<1>1. DOMAIN read = DOMAIN docs /\ \A i \in DOMAIN docs : read[i] = IF i \in fits THEN <<values[i]>> ELSE << >>
  OBVIOUS
<1>2. List(docs, TxInFromJson) = IF \E i \in DOMAIN read : read[i] = << >> THEN << >>
                                 ELSE <<[i \in DOMAIN read |-> read[i][1]]>>
  BY DEF List
<1> HIDE DEF read
<1>3. \A z : <<z>> # << >> /\ <<z>>[1] = z
  OBVIOUS
<1>4. CASE DOMAIN docs \subseteq fits
  <2>1. [i \in DOMAIN read |-> read[i][1]] = [i \in DOMAIN docs |-> values[i]]
    BY <1>1, <1>3, <1>4
  <2> QED  BY <1>1, <1>2, <1>3, <1>4, <2>1
<1>5. CASE ~ (DOMAIN docs \subseteq fits)
  BY <1>1, <1>2, <1>5
<1> QED  BY <1>4, <1>5

\* The same of outputs.
LEMMA OutputsRead ==
  ASSUME NEW docs, NEW fits, NEW values, values = [i \in DOMAIN docs |-> values[i]],
         \A i \in DOMAIN docs :
           TxOutFromJson(docs[i]) = IF i \in fits THEN <<values[i]>> ELSE << >>
  PROVE  List(docs, TxOutFromJson) = IF DOMAIN docs \subseteq fits THEN <<values>> ELSE << >>
<1> DEFINE read == [i \in DOMAIN docs |-> TxOutFromJson(docs[i])]
<1>1. DOMAIN read = DOMAIN docs /\ \A i \in DOMAIN docs : read[i] = IF i \in fits THEN <<values[i]>> ELSE << >>
  OBVIOUS
<1>2. List(docs, TxOutFromJson) = IF \E i \in DOMAIN read : read[i] = << >> THEN << >>
                                  ELSE <<[i \in DOMAIN read |-> read[i][1]]>>
  BY DEF List
<1> HIDE DEF read
<1>3. \A z : <<z>> # << >> /\ <<z>>[1] = z
  OBVIOUS
<1>4. CASE DOMAIN docs \subseteq fits
  <2>1. [i \in DOMAIN read |-> read[i][1]] = [i \in DOMAIN docs |-> values[i]]
    BY <1>1, <1>3, <1>4
  <2> QED  BY <1>1, <1>2, <1>3, <1>4, <2>1
<1>5. CASE ~ (DOMAIN docs \subseteq fits)
  BY <1>1, <1>2, <1>5
<1> QED  BY <1>4, <1>5

\* A transaction of four fields, documents or values.
TransactionOf(version, lock_time, input, output) ==
  [version |-> version, lock_time |-> lock_time, input |-> input, output |-> output]

\* It is read if all four are.
LEMMA TransactionStruct ==
  ASSUME NEW a, NEW b, NEW c, NEW d
  PROVE  Struct(TransactionOf(a, b, c, d)) =
           IF a = << >> \/ b = << >> \/ c = << >> \/ d = << >> THEN << >>
           ELSE <<TransactionOf(a[1], b[1], c[1], d[1])>>
<1> DEFINE r == TransactionOf(a, b, c, d)
<1>1. /\ DOMAIN r = {"version", "lock_time", "input", "output"}
      /\ r["version"] = a /\ r["lock_time"] = b /\ r["input"] = c /\ r["output"] = d
  BY DEF TransactionOf
<1>2. (\E f \in DOMAIN r : r[f] = << >>) <=> (a = << >> \/ b = << >> \/ c = << >> \/ d = << >>)
  BY <1>1
<1>3. [f \in DOMAIN r |-> r[f][1]] = TransactionOf(a[1], b[1], c[1], d[1])
  BY <1>1 DEF TransactionOf
<1> QED  BY <1>2, <1>3, Zenon DEF Struct

\* What a document says, what of it fits, what the reader stops over and what
\* is kept.
VersionOk(t) == t.version \in {1, 2}
Stops(style, t) == VersionOk(t) /\ FitsU32(t.lock_time, style.lock_time) /\ Loses(t.lock_time)
FitsAs(style, t) ==
  /\ VersionOk(t) /\ FitsU32(t.lock_time, style.lock_time)
  /\ \A i \in DOMAIN t.input : InputFits(style, t.input[i])
  /\ \A i \in DOMAIN t.output : OutputFits(t.output[i])
Keeps(t) == TransactionOf(t.version, Kept(t.lock_time), [i \in DOMAIN t.input |-> InputKept(t.input[i])], t.output)

\* What ToJson writes.
LEMMA DocumentForm ==
  ASSUME NEW style, NEW t
  PROVE  ToJson(style, t) =
           TransactionOf(NumberIn(style.version, t.version), NumberIn(style.lock_time, t.lock_time),
                         [i \in DOMAIN t.input |-> InputIn(style, t.input[i])],
                         [i \in DOMAIN t.output |-> OutputIn(style, t.output[i])])
  BY DEF ToJson, TransactionOf, InputIn, OutputIn, InputOf, OutputOf

\* A document in any style is read exactly if what it means fits and no lock time
\* stops the reader.
LEMMA DocumentRead ==
  ASSUME NEW style \in Styles, NEW t \in Meanings, Writable(t, style)
  PROVE  LET read == BitcoinFromJson(ToJson(style, t))
         IN /\ read.panicked <=> Stops(style, t)
            /\ read.value = IF FitsAs(style, t) /\ ~Stops(style, t) THEN <<Keeps(t)>> ELSE << >>
<1> DEFINE doc == ToJson(style, t)
           ins  == [i \in DOMAIN t.input |-> InputIn(style, t.input[i])]
           outs == [i \in DOMAIN t.output |-> OutputIn(style, t.output[i])]
           kept == [i \in DOMAIN t.input |-> InputKept(t.input[i])]
           locked == LockTimeFromJson(NumberIn(style.lock_time, t.lock_time))
           a == VersionFromJson(NumberIn(style.version, t.version))
           b == locked.value
           c == List(ins, TxInFromJson)
           d == List(outs, TxOutFromJson)
<1>1. /\ t.version \in Int /\ t.lock_time \in Int /\ t.input \in Seq(MeantInputs)
      /\ t.output \in Seq(MeantOutputs)
      /\ style.version \in Numerals /\ style.lock_time \in Numerals
  BY DEF Meanings, MeantInputs, MeantOutputs, Styles
<1>2. a = IF VersionOk(t) THEN <<t.version>> ELSE << >>
  BY <1>1, VersionRead DEF VersionOk
<1>3. /\ b = IF FitsU32(t.lock_time, style.lock_time) /\ ~Loses(t.lock_time) THEN <<Kept(t.lock_time)>> ELSE << >>
      /\ locked.panicked = (FitsU32(t.lock_time, style.lock_time) /\ Loses(t.lock_time))
  BY <1>1, LockTimeRead, Zenon
<1>4. c = IF \A i \in DOMAIN t.input : InputFits(style, t.input[i]) THEN <<kept>> ELSE << >>
  <2> DEFINE fits == {i \in DOMAIN t.input : InputFits(style, t.input[i])}
  <2>1. ASSUME NEW i \in DOMAIN ins
        PROVE  TxInFromJson(ins[i]) = IF i \in fits THEN <<kept[i]>> ELSE << >>
    <3>1. i \in DOMAIN t.input /\ t.input[i] \in MeantInputs /\ t.input[i] \in ToSet(t.input)
      BY <1>1 DEF ToSet
    <3>2. /\ style.txid = "hex" => IsBytes(t.input[i].previous_output.txid)
          /\ style.script = "hex" => IsBytes(t.input[i].script_sig)
      BY <3>1 DEF Writable
    <3>3. TxInFromJson(InputIn(style, t.input[i]))
            = IF InputFits(style, t.input[i]) THEN <<InputKept(t.input[i])>> ELSE << >>
      BY <3>1, <3>2, InputRead
    <3>4. ins[i] = InputIn(style, t.input[i]) /\ kept[i] = InputKept(t.input[i])
          /\ (i \in fits <=> InputFits(style, t.input[i]))
      BY <3>1
    <3> HIDE DEF ins, kept, fits
    <3> QED  BY <3>3, <3>4
  <2>2. DOMAIN ins = DOMAIN t.input /\ kept = [i \in DOMAIN ins |-> kept[i]]
    OBVIOUS
  <2>3. DOMAIN ins \subseteq fits <=> \A i \in DOMAIN t.input : InputFits(style, t.input[i])
    OBVIOUS
  <2> HIDE DEF ins, kept, fits
  <2>4. c = IF DOMAIN ins \subseteq fits THEN <<kept>> ELSE << >>
    BY <2>1, <2>2, InputsRead
  <2> QED  BY <2>3, <2>4, Zenon
<1>5. d = IF \A i \in DOMAIN t.output : OutputFits(t.output[i]) THEN <<t.output>> ELSE << >>
  <2> DEFINE fits == {i \in DOMAIN t.output : OutputFits(t.output[i])}
  <2>1. ASSUME NEW i \in DOMAIN outs
        PROVE  TxOutFromJson(outs[i]) = IF i \in fits THEN <<t.output[i]>> ELSE << >>
    <3>1. i \in DOMAIN t.output /\ t.output[i] \in MeantOutputs /\ t.output[i] \in ToSet(t.output)
      BY <1>1 DEF ToSet
    <3>2. style.script = "hex" => IsBytes(t.output[i].script_pubkey)
      BY <3>1 DEF Writable
    <3>3. TxOutFromJson(OutputIn(style, t.output[i]))
            = IF OutputFits(t.output[i]) THEN <<t.output[i]>> ELSE << >>
      BY <3>1, <3>2, OutputRead
    <3>4. outs[i] = OutputIn(style, t.output[i]) /\ (i \in fits <=> OutputFits(t.output[i]))
      BY <3>1
    <3> HIDE DEF outs, fits
    <3> QED  BY <3>3, <3>4
  <2>2. DOMAIN outs = DOMAIN t.output /\ t.output = [i \in DOMAIN outs |-> t.output[i]]
    BY <1>1
  <2>3. DOMAIN outs \subseteq fits <=> \A i \in DOMAIN t.output : OutputFits(t.output[i])
    OBVIOUS
  <2> HIDE DEF outs, fits
  <2>4. d = IF DOMAIN outs \subseteq fits THEN <<t.output>> ELSE << >>
    BY <2>1, <2>2, OutputsRead
  <2> QED  BY <2>3, <2>4, Zenon
<1>6. /\ BitcoinFromJson(doc).value = Struct(TransactionOf(a, b, c, d))
      /\ BitcoinFromJson(doc).panicked = (a # << >> /\ locked.panicked)
  <2>1. /\ doc.version = NumberIn(style.version, t.version)
        /\ doc.lock_time = NumberIn(style.lock_time, t.lock_time)
        /\ doc.input = ins /\ doc.output = outs
    <3>1. doc = TransactionOf(NumberIn(style.version, t.version), NumberIn(style.lock_time, t.lock_time),
                              ins, outs)
      BY DocumentForm
    <3> HIDE DEF doc, ins, outs
    <3> QED  BY <3>1 DEF TransactionOf
  <2> HIDE DEF doc, ins, outs
  <2>2. BitcoinFromJson(doc) = [value |-> Struct(TransactionOf(a, b, c, d)),
                                panicked |-> a # << >> /\ locked.panicked]
    BY <2>1, Zenon DEF BitcoinFromJson, TransactionOf
  <2> HIDE DEF a, b, c, d, locked
  <2>3. BitcoinFromJson(doc).value = Struct(TransactionOf(a, b, c, d))
    BY <2>2
  <2>4. BitcoinFromJson(doc).panicked = (a # << >> /\ locked.panicked)
    BY <2>2
  <2> QED  BY <2>3, <2>4
<1> HIDE DEF a, b, c, d, locked, doc, kept, ins, outs
<1>7. \A z : <<z>> # << >> /\ <<z>>[1] = z
  OBVIOUS
<1>8. BitcoinFromJson(doc).panicked <=> Stops(style, t)
  BY <1>2, <1>3, <1>6, <1>7, Zenon DEF Stops
<1>9. CASE FitsAs(style, t) /\ ~Stops(style, t)
  <2>1. a = <<t.version>> /\ b = <<Kept(t.lock_time)>> /\ c = <<kept>> /\ d = <<t.output>>
    BY <1>2, <1>3, <1>4, <1>5, <1>9, Zenon DEF FitsAs, Stops
  <2>2. /\ a # << >> /\ b # << >> /\ c # << >> /\ d # << >>
        /\ a[1] = t.version /\ b[1] = Kept(t.lock_time) /\ c[1] = kept /\ d[1] = t.output
    BY <1>7, <2>1, Zenon
  <2>3. Struct(TransactionOf(a, b, c, d)) = <<TransactionOf(a[1], b[1], c[1], d[1])>>
    BY <2>2, TransactionStruct
  <2>4. BitcoinFromJson(doc).value = <<Keeps(t)>>
    BY <1>6, <2>2, <2>3, Zenon DEF Keeps, kept
  <2> QED  BY <1>8, <1>9, <2>4, Zenon DEF doc
<1>10. CASE ~ (FitsAs(style, t) /\ ~Stops(style, t))
  <2>1. a = << >> \/ b = << >> \/ c = << >> \/ d = << >>
    BY <1>2, <1>3, <1>4, <1>5, <1>10, Zenon DEF FitsAs, Stops
  <2>2. Struct(TransactionOf(a, b, c, d)) = << >>
    BY <2>1, TransactionStruct
  <2> QED  BY <1>6, <1>8, <1>10, <2>2, Zenon DEF doc
<1> QED  BY <1>9, <1>10

\* What was read is written so that it is read again as the same.
LEMMA KeptAgain ==
  ASSUME NEW style \in Styles, NEW t \in Meanings, Writable(t, style), FitsAs(style, t), ~Stops(style, t)
  PROVE  /\ LibraryStyle \in Styles /\ Keeps(t) \in Meanings /\ Writable(Keeps(t), LibraryStyle)
         /\ FitsAs(LibraryStyle, Keeps(t)) /\ ~Stops(LibraryStyle, Keeps(t))
         /\ Keeps(Keeps(t)) = Keeps(t)
<1> DEFINE u == Keeps(t)
           n == t.lock_time
<1>1. /\ t.version \in Int /\ n \in Int /\ t.input \in Seq(MeantInputs) /\ t.output \in Seq(MeantOutputs)
      /\ Len(t.input) \in Nat /\ DOMAIN t.input = 1 .. Len(t.input)
  BY DEF Meanings, MeantInputs, MeantOutputs
<1>2. /\ u.version = t.version /\ u.lock_time = Kept(n) /\ u.output = t.output
      /\ u.input = [i \in DOMAIN t.input |-> InputKept(t.input[i])]
  BY DEF Keeps, TransactionOf
<1>3. /\ 0 <= n /\ ~Loses(n) /\ t.version \in {1, 2}
  BY DEF FitsAs, Stops, VersionOk, FitsU32
<1>4. ASSUME NEW m \in Int, 0 <= m
      PROVE  Kept(m) \in Int /\ FitsU32(Kept(m), "number") /\ Kept(Kept(m)) = Kept(m)
  <2>1. Kept(m) \in 0 .. MaxU32
    BY <1>4, LowerHalf
  <2>2. Kept(Kept(m)) = Kept(m)
    BY <2>1, LowerHalf, WidthAssumption
  <2> QED  BY <2>1, <2>2, WidthAssumption DEF FitsU32
<1>5. ~Loses(Kept(n))
  <2>1. Kept(n) \in 0 .. MaxU32 /\ (n <= MaxU32 => Kept(n) = n)
    BY <1>1, <1>3, LowerHalf
  <2> QED  BY <1>1, <1>3, <1>4, <2>1, WidthAssumption DEF Loses
<1>6. LibraryStyle \in Styles
  <2>1. <<"txid", "vout">> \in Seq(KeyNames)
    BY DEF KeyNames
  <2> QED  BY <2>1 DEF LibraryStyle, Styles, Numerals
<1>7. ToSet(LibraryStyle.keys) = {"txid", "vout"} /\ LibraryStyle.vout = "number"
      /\ LibraryStyle.lock_time = "number" /\ LibraryStyle.txid = "array" /\ LibraryStyle.script = "array"
  BY DEF LibraryStyle, ToSet
<1>8. ASSUME NEW i \in DOMAIN t.input
      PROVE  /\ InputKept(t.input[i]) \in MeantInputs
             /\ InputFits(LibraryStyle, InputKept(t.input[i]))
             /\ InputKept(InputKept(t.input[i])) = InputKept(t.input[i])
             /\ InputKept(t.input[i]).witness = t.input[i].witness
  <2> DEFINE in == t.input[i]
             o  == in.previous_output
             k  == InputKept(in)
  <2>1. in \in MeantInputs /\ InputFits(style, in)
    BY <1>1 DEF FitsAs
  <2>2. /\ o.vout \in Int /\ 0 <= o.vout /\ TxidFits(o.txid) /\ o.txid \in Seq(Int)
        /\ in.script_sig \in Seq(Int) /\ in.sequence \in Int /\ in.witness \in Seq(Seq(Int))
    BY <2>1 DEF MeantInputs, InputFits, OutPointFits, FitsU32
  <2>3. k = InputOf(Visitor(o.txid, Kept(o.vout)), in.script_sig, in.sequence, in.witness)
    <3>1. in = InputOf([txid |-> o.txid, vout |-> o.vout], in.script_sig, in.sequence, in.witness)
      BY <2>1 DEF MeantInputs, InputOf
    <3> QED  BY <3>1 DEF InputKept, InputOf, Visitor
  <2>4. Kept(o.vout) \in Int /\ FitsU32(Kept(o.vout), "number") /\ Kept(Kept(o.vout)) = Kept(o.vout)
    BY <1>4, <2>2
  <2>5. /\ k.previous_output = Visitor(o.txid, Kept(o.vout)) /\ k.script_sig = in.script_sig
        /\ k.sequence = in.sequence /\ k.witness = in.witness
        /\ k.previous_output.txid = o.txid /\ k.previous_output.vout = Kept(o.vout)
    BY <2>3 DEF InputOf, Visitor
  <2>6. k \in MeantInputs
    BY <2>2, <2>3, <2>4 DEF MeantInputs, InputOf, Visitor
  <2>7. InputKept(k) = k
    <3>1. \A p, q, r, s, v : InputKept(InputOf(Visitor(p, v), q, r, s)) = InputOf(Visitor(p, Kept(v)), q, r, s)
      BY DEF InputKept, InputOf, Visitor
    <3> HIDE DEF k
    <3> QED  BY <2>3, <2>4, <3>1
  <2> HIDE DEF k
  <2>8. InputFits(LibraryStyle, k)
    BY <1>7, <2>1, <2>2, <2>4, <2>5 DEF InputFits, OutPointFits
  <2> QED  BY <2>5, <2>6, <2>7, <2>8 DEF k
<1>9. /\ u.input \in Seq(MeantInputs) /\ DOMAIN u.input = DOMAIN t.input
      /\ \A i \in DOMAIN t.input : u.input[i] = InputKept(t.input[i])
  <2> HIDE DEF u
  <2> QED  BY <1>1, <1>2, <1>8
<1>10. u \in Meanings
  <2>1. Kept(n) \in Int
    BY <1>1, <1>3, <1>4
  <2>2. u = TransactionOf(t.version, Kept(n), u.input, t.output)
    BY <1>2 DEF Keeps
  <2> HIDE DEF u
  <2> QED  BY <1>1, <1>9, <2>1, <2>2 DEF Meanings, MeantInputs, MeantOutputs, TransactionOf
<1> HIDE DEF u
<1>11. FitsAs(LibraryStyle, u)
  BY <1>1, <1>2, <1>3, <1>4, <1>7, <1>8, <1>9 DEF FitsAs, VersionOk
<1>12. ~Stops(LibraryStyle, u)
  BY <1>2, <1>5 DEF Stops
<1>13. Writable(u, LibraryStyle)
  <2>1. ASSUME NEW in \in ToSet(u.input), NEW k \in DOMAIN in.witness
        PROVE  IsBytes(in.witness[k])
    <3>1. PICK i \in DOMAIN t.input : in = InputKept(t.input[i])
      BY <1>9 DEF ToSet
    <3>2. t.input[i] \in ToSet(t.input) /\ in.witness = t.input[i].witness
      BY <1>8, <3>1 DEF ToSet
    <3> QED  BY <2>1, <3>2 DEF Writable
  <2> QED  BY <1>7, <2>1 DEF Writable
<1>14. Keeps(u) = u
  <2>1. [i \in DOMAIN u.input |-> InputKept(u.input[i])] = u.input
    BY <1>2, <1>8, <1>9
  <2>2. Kept(u.lock_time) = u.lock_time
    BY <1>1, <1>2, <1>3, <1>4
  <2>3. Keeps(u) = TransactionOf(u.version, u.lock_time, u.input, u.output)
    BY <2>1, <2>2 DEF Keeps
  <2> QED  BY <1>2, <2>3 DEF u, Keeps
<1> QED  BY <1>6, <1>10, <1>11, <1>12, <1>13, <1>14 DEF u

-----------------------------------------------------------------------------
(* The handover.                                                           *)

\* What every reading of the order's document comes to.
Verdict ==
  IF Stops(order.style, order.meant) THEN "panicked"
  ELSE IF FitsAs(order.style, order.meant) THEN "read" ELSE "refused"

\* Nothing was read yet, or what was meant has been judged, and what the library
\* holds and writes is what is kept of it.
HandoverInv ==
  /\ order \in Orders
  /\ outcome \in {"pending", Verdict}
  /\ tx = IF outcome = "read" THEN <<Keeps(order.meant)>> ELSE << >>
  /\ message # << >> =>
       \/ outcome = "pending" /\ message = <<ToJson(order.style, order.meant)>>
       \/ outcome = "read" /\ message = <<ToJson(LibraryStyle, Keeps(order.meant))>>
  /\ message = << >> => outcome # "pending"

\* The same verdict is reached by the first reading and by every later one of what
\* the library itself wrote (BitcoinTransaction::from_json).
THEOREM HandoverInvariant == HandoverSpec => []HandoverInv
<1>1. HandoverInit => HandoverInv
  BY DEF HandoverInit, HandoverInv
<1>2. HandoverInv /\ [HandoverNext]_handoverVars => HandoverInv'
  <2> SUFFICES ASSUME HandoverInv, [HandoverNext]_handoverVars PROVE HandoverInv'
    OBVIOUS
  <2> DEFINE s == order.style
             t == order.meant
  <2>1. s \in Styles /\ t \in Meanings /\ Writable(t, s)
    BY OrdersAssumption DEF HandoverInv
  <2>2. CASE Read
    <3> DEFINE read == BitcoinFromJson(message[1])
    <3>1. /\ tx' = (IF read.panicked THEN << >> ELSE read.value)
          /\ outcome' = IF read.panicked THEN "panicked" ELSE IF read.value = << >> THEN "refused" ELSE "read"
          /\ message' = << >> /\ order' = order /\ message # << >>
      BY <2>2 DEF Read
    <3>2. Verdict' = Verdict
      BY <3>1 DEF Verdict
    <3>3. ASSUME NEW style \in Styles, NEW u \in Meanings, Writable(u, style),
                 message = <<ToJson(style, u)>>
          PROVE  /\ read.panicked <=> Stops(style, u)
                 /\ read.value = IF FitsAs(style, u) /\ ~Stops(style, u) THEN <<Keeps(u)>> ELSE << >>
      <4>1. message[1] = ToJson(style, u)
        BY <3>3
      <4> QED  BY <3>3, <4>1, DocumentRead, Zenon
    <3> HIDE DEF read
    <3>4. <<Keeps(t)>> # << >>
      OBVIOUS
    <3>5. CASE outcome = "pending" /\ message = <<ToJson(s, t)>>
      <4>1. /\ read.panicked <=> Stops(s, t)
            /\ read.value = IF FitsAs(s, t) /\ ~Stops(s, t) THEN <<Keeps(t)>> ELSE << >>
        BY <2>1, <3>3, <3>5
      <4>2. outcome' = Verdict
        BY <3>1, <3>4, <4>1, Zenon DEF Verdict
      <4>3. tx' = IF outcome' = "read" THEN <<Keeps(t)>> ELSE << >>
        BY <3>1, <3>4, <4>1, <4>2 DEF Verdict
      <4>4. outcome' # "pending"
        BY <3>1
      <4> QED  BY <3>1, <3>2, <4>2, <4>3, <4>4 DEF HandoverInv
    <3>6. CASE outcome = "read" /\ message = <<ToJson(LibraryStyle, Keeps(t))>>
      <4>1. FitsAs(s, t) /\ ~Stops(s, t) /\ Verdict = "read"
        BY <3>6 DEF HandoverInv, Verdict
      <4>2. /\ LibraryStyle \in Styles /\ Keeps(t) \in Meanings /\ Writable(Keeps(t), LibraryStyle)
            /\ FitsAs(LibraryStyle, Keeps(t)) /\ ~Stops(LibraryStyle, Keeps(t))
            /\ Keeps(Keeps(t)) = Keeps(t)
        BY <2>1, <4>1, KeptAgain
      <4>3. ~read.panicked /\ read.value = <<Keeps(t)>>
        BY <3>3, <3>6, <4>2
      <4>4. outcome' = "read" /\ tx' = <<Keeps(t)>>
        BY <3>1, <3>4, <4>3
      <4> QED  BY <3>1, <3>2, <4>1, <4>4 DEF HandoverInv
    <3> QED  BY <3>1, <3>5, <3>6 DEF HandoverInv
  <2>3. CASE Write
    <3>1. /\ message = << >> /\ tx # << >> /\ message' = <<ToJson(LibraryStyle, tx[1])>>
          /\ order' = order /\ tx' = tx /\ outcome' = outcome
      BY <2>3 DEF Write
    <3>2. Verdict' = Verdict
      BY <3>1 DEF Verdict
    <3>3. outcome = "read" /\ tx = <<Keeps(t)>>
      BY <3>1 DEF HandoverInv
    <3>4. message' = <<ToJson(LibraryStyle, Keeps(t))>> /\ message' # << >>
      BY <3>1, <3>3
    <3> QED  BY <3>1, <3>2, <3>3, <3>4 DEF HandoverInv
  <2>4. CASE UNCHANGED handoverVars
    BY <2>4 DEF HandoverInv, handoverVars, Verdict
  <2> QED  BY <2>2, <2>3, <2>4 DEF HandoverNext
<1> QED  BY <1>1, <1>2, PTL DEF HandoverSpec

\* The invariant speaks of documents, the properties of the order.
LEMMA OrderTerms ==
  ASSUME order \in Orders
  PROVE  /\ Fits <=> FitsAs(order.style, order.meant)
         /\ VersionFits /\ LockTimeFits /\ LosesItsKind <=> Stops(order.style, order.meant)
         /\ AsKept = Keeps(order.meant)
<1> DEFINE s == order.style
           t == order.meant
<1>1. s \in Styles /\ t \in Meanings /\ t.input \in Seq(MeantInputs) /\ t.output \in Seq(MeantOutputs)
  BY OrdersAssumption DEF Meanings, MeantInputs, MeantOutputs
<1>2. VersionFits /\ LockTimeFits /\ LosesItsKind <=> Stops(s, t)
  BY DEF VersionFits, LockTimeFits, LosesItsKind, Stops, VersionOk, Loses
<1>3. AsKept = Keeps(t)
  <2>1. t = TransactionOf(t.version, t.lock_time, t.input, t.output)
    BY <1>1 DEF Meanings, TransactionOf
  <2> DEFINE kept == [i \in DOMAIN t.input |-> InputKept(t.input[i])]
  <2>2. AsKept = [t EXCEPT !.lock_time = Kept(t.lock_time), !.input = kept]
    BY DEF AsKept
  <2> HIDE DEF kept
  <2>3. AsKept = TransactionOf(t.version, Kept(t.lock_time), kept, t.output)
    BY <2>1, <2>2 DEF TransactionOf
  <2> QED  BY <2>3 DEF Keeps, kept
<1>4. Fits <=> FitsAs(s, t)
  <2>1. (\A in \in ToSet(t.input) : InputFits(s, in)) <=> \A i \in DOMAIN t.input : InputFits(s, t.input[i])
    BY DEF ToSet
  <2>2. (\A out \in ToSet(t.output) : OutputFits(out)) <=> \A i \in DOMAIN t.output : OutputFits(t.output[i])
    BY DEF ToSet
  <2>3. Fits <=> /\ VersionFits /\ LockTimeFits
                 /\ \A in \in ToSet(t.input) : InputFits(s, in)
                 /\ \A out \in ToSet(t.output) : OutputFits(out)
    BY Zenon DEF Fits, InputFits, OutPointFits, OutputFits, TxidFits
  <2> QED  BY <2>1, <2>2, <2>3 DEF FitsAs, VersionFits, LockTimeFits, VersionOk
<1> QED  BY <1>2, <1>3, <1>4

\* Whatever the form of a document and however often it is written and read again,
\* the library holds what was meant, but for the upper half of a vout or a
\* lock time that came as a number (the visitors of bitcoin/types).
THEOREM DocumentIsMeant == HandoverSpec => []ReadIsMeant
<1>1. HandoverInv => ReadIsMeant
  BY OrderTerms DEF HandoverInv, ReadIsMeant
<1> QED  BY <1>1, HandoverInvariant, PTL

\* Exactly the documents that fit are read, and from_json stops exactly over a
\* lock time whose lower half is of another kind.
THEOREM DocumentReadIfFits == HandoverSpec => []ReadExactlyIfFits
<1>1. HandoverInv => ReadExactlyIfFits
  BY OrderTerms, Zenon DEF HandoverInv, ReadExactlyIfFits, Verdict
<1> QED  BY <1>1, HandoverInvariant, PTL

-----------------------------------------------------------------------------
(* The signature script: for components of any size up to the real one,    *)
(* whatever their bytes, a node finds in the script what the signer        *)
(* answered. No length byte is cut, because the longest signature has      *)
(* 2 * 33 + 7 bytes.                                                       *)

\* A component as it stands in the signature.
Integer(bytes) == IF bytes[1] >= 128 THEN <<0>> \o bytes ELSE bytes

AnswerTyped == answer \in Answers /\ key \in Keys

DerIsEncoding ==
  der # << >> => /\ Assertion
                 /\ der = SerializeEcdsaSignature(SignatureBytes(answer), SIGHASH_ALL)

ScriptIsPushes ==
  script_sig # << >> => der # << >> /\ script_sig = BuildScriptSig(der, key)

ScriptInv == AnswerTyped /\ DerIsEncoding /\ ScriptIsPushes

\* The bytes, as inequalities.
LEMMA Bytes ==
  /\ \A n \in Int : 0 <= n /\ n <= 255 => n \in Byte
  /\ \A n \in Byte : n \in Int /\ 0 <= n /\ n <= 255
  /\ \A n \in Byte : n % 256 = n
BY DEF Byte

\* A length that is a byte, as a byte.
LEMMA ShortLength ==
  ASSUME NEW s \in Seq(Byte), Len(s) <= 255
  PROVE  Len(s) \in Nat /\ Len(s) \in Byte /\ Len(s) % 256 = Len(s)
<1>1. Len(s) \in Nat
  OBVIOUS
<1>2. QED
  BY <1>1, Bytes

\* One byte, and two.
LEMMA Short ==
  ASSUME NEW m \in Byte, NEW n \in Byte
  PROVE  /\ <<m>> \in Seq(Byte) /\ Len(<<m>>) = 1 /\ <<m>>[1] = m
         /\ <<m, n>> \in Seq(Byte) /\ Len(<<m, n>>) = 2 /\ <<m, n>>[1] = m /\ <<m, n>>[2] = n
OBVIOUS

\* u is s with t behind it.
Joins(u, s, t) ==
  /\ u \in Seq(Byte)
  /\ Len(u) = Len(s) + Len(t)
  /\ \A i \in 1 .. Len(s) : u[i] = s[i]
  /\ \A i \in 1 .. Len(t) : u[Len(s) + i] = t[i]

LEMMA Joined ==
  ASSUME NEW s \in Seq(Byte), NEW t \in Seq(Byte)
  PROVE  Joins(s \o t, s, t) /\ Len(s) \in Nat /\ Len(t) \in Nat
BY DEF Joins

\* A part of a byte string is known from its bytes.
LEMMA Part ==
  ASSUME NEW s \in Seq(Byte), NEW t \in Seq(Byte), NEW from \in Nat \ {0},
         from + Len(t) - 1 <= Len(s),
         \A i \in 1 .. Len(t) : s[from - 1 + i] = t[i]
  PROVE  SubSeq(s, from, from + Len(t) - 1) = t
<1> DEFINE p == SubSeq(s, from, from + Len(t) - 1)
<1>1. Len(t) \in Nat /\ Len(s) \in Nat
  OBVIOUS
<1>2. p \in Seq(Byte) /\ Len(p) = Len(t)
  BY <1>1
<1>3. \A i \in 1 .. Len(t) : p[i] = t[i]
  BY <1>1
<1>4. QED
  BY <1>2, <1>3, SeqEqual

\* An integer is a component or one byte longer, and not negative.
LEMMA IntegerBytes ==
  ASSUME NEW bytes \in Seq(Byte), Len(bytes) = ComponentSize
  PROVE  /\ Integer(bytes) \in Seq(Byte)
         /\ Integer(bytes) \in {bytes, <<0>> \o bytes}
         /\ ComponentSize <= Len(Integer(bytes)) /\ Len(Integer(bytes)) <= ComponentSize + 1
         /\ Integer(bytes)[1] < 128
         /\ EncodeAsn1Integer(bytes) = <<2, Len(Integer(bytes))>> \o Integer(bytes)
<1>1. /\ ComponentSize \in Nat /\ 1 <= ComponentSize /\ ComponentSize <= 32
      /\ bytes[1] \in Int
  <2>1. bytes[1] \in Byte
    BY ScriptSigAssumption
  <2>2. QED
    BY <2>1, Bytes, ScriptSigAssumption
<1>2. <<0>> \in Seq(Byte) /\ Len(<<0>>) = 1 /\ <<0>>[1] = 0
  BY Short, Bytes
<1>3. /\ <<0>> \o bytes \in Seq(Byte)
      /\ Len(<<0>> \o bytes) = ComponentSize + 1
      /\ (<<0>> \o bytes)[1] = 0
  BY <1>1, <1>2, Joined DEF Joins
<1>4. /\ Integer(bytes) \in Seq(Byte)
      /\ Integer(bytes) \in {bytes, <<0>> \o bytes}
      /\ ComponentSize <= Len(Integer(bytes)) /\ Len(Integer(bytes)) <= ComponentSize + 1
      /\ Integer(bytes)[1] < 128
  BY <1>1, <1>3 DEF Integer
<1>5. Len(Integer(bytes)) % 256 = Len(Integer(bytes))
  BY <1>1, <1>4, ShortLength
<1>6. EncodeAsn1Integer(bytes) = <<2, Len(Integer(bytes)) % 256>> \o Integer(bytes)
  BY DEF EncodeAsn1Integer, Integer
<1>7. QED
  BY <1>4, <1>5, <1>6

\* Where everything is in a signature d with integers r and s.
IsLayout(d, n, r, s) ==
  /\ d \in Seq(Byte) /\ Len(d) = Len(r) + Len(s) + 7
  /\ d[1] = 48 /\ d[2] = n /\ d[3] = 2 /\ d[4] = Len(r)
  /\ \A i \in 1 .. Len(r) : d[4 + i] = r[i]
  /\ d[5 + Len(r)] = 2 /\ d[6 + Len(r)] = Len(s)
  /\ \A i \in 1 .. Len(s) : d[6 + Len(r) + i] = s[i]
  /\ d[Len(d)] = SIGHASH_ALL

LEMMA Layout ==
  ASSUME NEW r \in Seq(Byte), NEW s \in Seq(Byte), NEW n \in Byte,
         1 <= Len(r) /\ Len(r) <= 33, 1 <= Len(s) /\ Len(s) <= 33
  PROVE  IsLayout(<<48, n>> \o (<<2, Len(r)>> \o r) \o (<<2, Len(s)>> \o s) \o <<SIGHASH_ALL>>, n, r, s)
<1> DEFINE a == <<48, n>>
           b == <<2, Len(r)>> \o r
           c == <<2, Len(s)>> \o s
           e == <<SIGHASH_ALL>>
           ab == a \o b
           abc == ab \o c
           d == abc \o e
<1>1. /\ a \in Seq(Byte) /\ Len(a) = 2 /\ a[1] = 48 /\ a[2] = n
      /\ e \in Seq(Byte) /\ Len(e) = 1 /\ e[1] = SIGHASH_ALL
  BY Short, Bytes DEF SIGHASH_ALL
<1>2. Joins(b, <<2, Len(r)>>, r) /\ Len(<<2, Len(r)>>) = 2
      /\ <<2, Len(r)>>[1] = 2 /\ <<2, Len(r)>>[2] = Len(r)
  <2>1. Len(r) \in Byte /\ 2 \in Byte
    BY ShortLength, Bytes
  <2>2. /\ <<2, Len(r)>> \in Seq(Byte) /\ Len(<<2, Len(r)>>) = 2
        /\ <<2, Len(r)>>[1] = 2 /\ <<2, Len(r)>>[2] = Len(r)
    BY <2>1, Short
  <2>3. QED
    BY <2>2, Joined
<1>3. Joins(c, <<2, Len(s)>>, s) /\ Len(<<2, Len(s)>>) = 2
      /\ <<2, Len(s)>>[1] = 2 /\ <<2, Len(s)>>[2] = Len(s)
  <2>1. Len(s) \in Byte /\ 2 \in Byte
    BY ShortLength, Bytes
  <2>2. /\ <<2, Len(s)>> \in Seq(Byte) /\ Len(<<2, Len(s)>>) = 2
        /\ <<2, Len(s)>>[1] = 2 /\ <<2, Len(s)>>[2] = Len(s)
    BY <2>1, Short
  <2>3. QED
    BY <2>2, Joined
<1>4. b \in Seq(Byte) /\ c \in Seq(Byte) /\ Len(r) \in Nat /\ Len(s) \in Nat
  BY <1>2, <1>3 DEF Joins
<1>5. Joins(ab, a, b)
  BY <1>1, <1>4, Joined
<1>6. Joins(abc, ab, c)
  BY <1>4, <1>5, Joined DEF Joins
<1>7. Joins(d, abc, e)
  <2>1. abc \in Seq(Byte)
    BY <1>6 DEF Joins
  <2>2. QED
    BY <1>1, <2>1, Joined
<1> HIDE DEF a, b, c, e, ab, abc, d
<1>8. /\ Len(b) = Len(r) + 2 /\ b[1] = 2 /\ b[2] = Len(r)
      /\ \A i \in 1 .. Len(r) : b[2 + i] = r[i]
  BY <1>2, <1>4 DEF Joins
<1>9. /\ Len(c) = Len(s) + 2 /\ c[1] = 2 /\ c[2] = Len(s)
      /\ \A i \in 1 .. Len(s) : c[2 + i] = s[i]
  BY <1>3, <1>4 DEF Joins
<1>10. /\ Len(ab) = Len(r) + 4 /\ ab[1] = 48 /\ ab[2] = n
       /\ \A i \in 1 .. Len(b) : ab[2 + i] = b[i]
  BY <1>1, <1>4, <1>5, <1>8 DEF Joins
<1>11. /\ Len(abc) = Len(r) + Len(s) + 6
       /\ \A i \in 1 .. Len(ab) : abc[i] = ab[i]
       /\ \A i \in 1 .. Len(c) : abc[Len(r) + 4 + i] = c[i]
  BY <1>4, <1>6, <1>9, <1>10 DEF Joins
<1>12. /\ d \in Seq(Byte) /\ Len(d) = Len(r) + Len(s) + 7
       /\ \A i \in 1 .. Len(abc) : d[i] = abc[i]
       /\ d[Len(d)] = SIGHASH_ALL
  <2>1. /\ d \in Seq(Byte) /\ Len(d) = Len(abc) + 1
        /\ \A i \in 1 .. Len(abc) : d[i] = abc[i]
        /\ \A i \in 1 .. Len(e) : d[Len(abc) + i] = e[i]
    BY <1>1, <1>7 DEF Joins
  <2>2. 1 \in 1 .. Len(e) /\ Len(abc) + 1 = Len(r) + Len(s) + 7
    BY <1>1, <1>4, <1>11
  <2>3. d[Len(abc) + 1] = SIGHASH_ALL
    BY <1>1, <2>1, <2>2
  <2>4. QED
    BY <2>1, <2>2, <2>3
<1>13. /\ d[1] = 48 /\ d[2] = n
       /\ \A i \in 1 .. Len(b) : d[2 + i] = b[i]
       /\ \A i \in 1 .. Len(c) : d[Len(r) + 4 + i] = c[i]
  <2>1. ASSUME NEW i \in 1 .. Len(ab) PROVE d[i] = ab[i]
    <3>1. i \in 1 .. Len(abc)
      BY <1>4, <1>10, <1>11
    <3>2. QED
      BY <1>11, <1>12, <3>1
  <2>2. d[1] = 48 /\ d[2] = n
    BY <1>4, <1>10, <2>1
  <2>3. ASSUME NEW i \in 1 .. Len(b) PROVE d[2 + i] = b[i]
    <3>1. 2 + i \in 1 .. Len(ab)
      BY <1>4, <1>8, <1>10
    <3>2. QED
      BY <1>10, <2>1, <3>1
  <2>4. ASSUME NEW i \in 1 .. Len(c) PROVE d[Len(r) + 4 + i] = c[i]
    <3>1. Len(r) + 4 + i \in 1 .. Len(abc)
      BY <1>4, <1>9, <1>11
    <3>2. QED
      BY <1>11, <1>12, <3>1
  <2>5. QED
    BY <2>2, <2>3, <2>4
<1>14. d[3] = 2 /\ d[4] = Len(r)
  <2>1. 1 \in 1 .. Len(b) /\ 2 \in 1 .. Len(b) /\ 2 + 1 = 3 /\ 2 + 2 = 4
    BY <1>4, <1>8
  <2>2. d[2 + 1] = b[1] /\ d[2 + 2] = b[2]
    BY <1>13, <2>1
  <2>3. QED
    BY <1>8, <2>1, <2>2
<1>15. ASSUME NEW i \in 1 .. Len(r) PROVE d[4 + i] = r[i]
  <2>1. 2 + i \in 1 .. Len(b) /\ 2 + (2 + i) = 4 + i
    BY <1>4, <1>8
  <2>2. d[2 + (2 + i)] = b[2 + i]
    BY <1>13, <2>1
  <2>3. QED
    BY <1>8, <2>1, <2>2
<1>16. d[5 + Len(r)] = 2 /\ d[6 + Len(r)] = Len(s)
  <2>1. /\ 1 \in 1 .. Len(c) /\ 2 \in 1 .. Len(c)
        /\ Len(r) + 4 + 1 = 5 + Len(r) /\ Len(r) + 4 + 2 = 6 + Len(r)
    BY <1>4, <1>9
  <2>2. d[Len(r) + 4 + 1] = c[1] /\ d[Len(r) + 4 + 2] = c[2]
    BY <1>13, <2>1
  <2>3. QED
    BY <1>9, <2>1, <2>2
<1>17. ASSUME NEW i \in 1 .. Len(s) PROVE d[6 + Len(r) + i] = s[i]
  <2>1. 2 + i \in 1 .. Len(c) /\ Len(r) + 4 + (2 + i) = 6 + Len(r) + i
    BY <1>4, <1>9
  <2>2. d[Len(r) + 4 + (2 + i)] = c[2 + i]
    BY <1>13, <2>1
  <2>3. QED
    BY <1>9, <2>1, <2>2
<1>18. IsLayout(d, n, r, s)
  BY <1>12, <1>13, <1>14, <1>15, <1>16, <1>17 DEF IsLayout
<1>19. QED
  BY <1>18 DEF a, b, c, e, ab, abc, d

\* The signature of an answer of the right length: its two integers.
LEMMA SignatureIntegers ==
  ASSUME NEW a \in Answers, a.big_r # << >>, Len(SignatureBytes(a)) = 2 * ComponentSize,
         NEW d, d = SerializeEcdsaSignature(SignatureBytes(a), SIGHASH_ALL)
  PROVE  /\ d \in Seq(Byte) /\ 9 <= Len(d) /\ Len(d) <= 73
         /\ IsEncoding(d)
         /\ RBytes(d) \in {R(a), <<0>> \o R(a)}
         /\ SBytes(d) \in {a.s, <<0>> \o a.s}
         /\ d[Len(d)] = SIGHASH_ALL
         /\ RBytes(d) = Integer(R(a)) /\ SBytes(d) = Integer(a.s)
         /\ R(a) \in Seq(Byte) /\ Len(R(a)) = ComponentSize
         /\ a.s \in Seq(Byte) /\ Len(a.s) = ComponentSize
<1> DEFINE r == Integer(R(a))
           s == Integer(a.s)
           n == (Len(EncodeAsn1Integer(R(a))) + Len(EncodeAsn1Integer(a.s))) % 256
<1>1. /\ a.big_r \in Seq(Byte) /\ a.s \in Seq(Byte)
      /\ Len(a.big_r) \in Nat \ {0} /\ Len(a.s) \in Nat
      /\ ComponentSize \in Nat /\ 1 <= ComponentSize /\ ComponentSize <= 32
      /\ Len(a.big_r) + Len(a.s) = 2 * ComponentSize + 1 => Len(a.s) = ComponentSize
  <2>1. /\ a.big_r \in Seq(Byte) /\ a.s \in Seq(Byte)
        /\ ComponentSize \in Nat /\ 1 <= ComponentSize /\ ComponentSize <= 32
        /\ Len(a.big_r) + Len(a.s) = 2 * ComponentSize + 1 => Len(a.s) = ComponentSize
    BY ScriptSigAssumption
  <2>2. Len(a.big_r) \in Nat \ {0} /\ Len(a.s) \in Nat
    BY <2>1
  <2>3. QED
    BY <2>1, <2>2
<1>2. R(a) \in Seq(Byte) /\ Len(R(a)) = Len(a.big_r) - 1
  BY <1>1 DEF R
<1>3. SignatureBytes(a) = R(a) \o a.s
  BY DEF SignatureBytes, R
<1>4. /\ Joins(SignatureBytes(a), R(a), a.s)
      /\ Len(R(a)) = ComponentSize /\ Len(a.s) = ComponentSize
  <2>1. Joins(SignatureBytes(a), R(a), a.s)
    BY <1>1, <1>2, <1>3, Joined
  <2>2. Len(SignatureBytes(a)) = Len(a.big_r) - 1 + Len(a.s)
    BY <1>2, <2>1 DEF Joins
  <2>3. Len(a.big_r) \in Int /\ Len(a.s) \in Int /\ 2 * ComponentSize \in Int
    BY <1>1
  <2>4. Len(a.big_r) + Len(a.s) = 2 * ComponentSize + 1
    <3> DEFINE whole == Len(SignatureBytes(a))
               two == 2 * ComponentSize
               x == Len(a.big_r)
               y == Len(a.s)
    <3>1. whole = two
      OBVIOUS
    <3>2. whole = x - 1 + y /\ x \in Int /\ y \in Int /\ two \in Int
      BY <2>2, <2>3
    <3> HIDE DEF whole, two, x, y
    <3>3. x + y = two + 1
      BY <3>1, <3>2
    <3>4. QED
      BY <3>3 DEF two, x, y
  <2>5. Len(a.s) = ComponentSize
    BY <1>1, <2>4
  <2>6. Len(a.big_r) - 1 = ComponentSize
    BY <1>1, <2>3, <2>4, <2>5
  <2>7. QED
    BY <1>2, <2>1, <2>5, <2>6
<1>5. SubSeq(SignatureBytes(a), 1, ComponentSize) = R(a)
  <2>1. \A i \in 1 .. Len(R(a)) : SignatureBytes(a)[1 - 1 + i] = R(a)[i]
    BY <1>4 DEF Joins
  <2>2. 1 + Len(R(a)) - 1 = ComponentSize /\ 1 + Len(R(a)) - 1 <= Len(SignatureBytes(a))
    BY <1>1, <1>4
  <2>3. SubSeq(SignatureBytes(a), 1, 1 + Len(R(a)) - 1) = R(a)
    BY <1>2, <1>4, <2>1, <2>2, Part DEF Joins
  <2>4. QED
    BY <2>2, <2>3
<1>6. SubSeq(SignatureBytes(a), ComponentSize + 1, 2 * ComponentSize) = a.s
  <2>1. \A i \in 1 .. Len(a.s) : SignatureBytes(a)[ComponentSize + 1 - 1 + i] = a.s[i]
    <3>1. ComponentSize + 1 - 1 = Len(R(a))
      BY <1>1, <1>4
    <3>2. QED
      BY <1>4, <3>1 DEF Joins
  <2>2. /\ ComponentSize + 1 + Len(a.s) - 1 = 2 * ComponentSize
        /\ ComponentSize + 1 + Len(a.s) - 1 <= Len(SignatureBytes(a))
        /\ ComponentSize + 1 \in Nat \ {0}
    BY <1>1, <1>4
  <2>3. SubSeq(SignatureBytes(a), ComponentSize + 1, ComponentSize + 1 + Len(a.s) - 1) = a.s
    BY <1>1, <1>4, <2>1, <2>2, Part DEF Joins
  <2>4. QED
    BY <2>2, <2>3
<1>7. /\ r \in Seq(Byte) /\ r \in {R(a), <<0>> \o R(a)}
      /\ ComponentSize <= Len(r) /\ Len(r) <= ComponentSize + 1 /\ r[1] < 128
      /\ EncodeAsn1Integer(R(a)) = <<2, Len(r)>> \o r
  BY <1>2, <1>4, IntegerBytes
<1>8. /\ s \in Seq(Byte) /\ s \in {a.s, <<0>> \o a.s}
      /\ ComponentSize <= Len(s) /\ Len(s) <= ComponentSize + 1 /\ s[1] < 128
      /\ EncodeAsn1Integer(a.s) = <<2, Len(s)>> \o s
  BY <1>1, <1>4, IntegerBytes
<1> HIDE DEF r, s
<1>9. 1 <= Len(r) /\ Len(r) <= 33 /\ 1 <= Len(s) /\ Len(s) <= 33
  <2>1. Len(r) \in Nat /\ ComponentSize <= Len(r) /\ Len(r) <= ComponentSize + 1
    BY <1>7
  <2>2. Len(s) \in Nat /\ ComponentSize <= Len(s) /\ Len(s) <= ComponentSize + 1
    BY <1>8
  <2>3. ComponentSize \in Nat /\ 1 <= ComponentSize /\ ComponentSize <= 32
    BY <1>1
  <2>4. QED
    BY <2>1, <2>2, <2>3
<1>10. n = Len(r) + Len(s) + 4 /\ n \in Byte /\ Len(r) \in Nat /\ Len(s) \in Nat
  <2>1. Len(r) \in Nat /\ Len(s) \in Nat
    BY <1>7, <1>8
  <2>2. Len(<<2, Len(r)>> \o r) = Len(r) + 2 /\ Len(<<2, Len(s)>> \o s) = Len(s) + 2
    BY <1>7, <1>8, <1>9, Joined, ShortLength, Bytes, Short DEF Joins
  <2>3. Len(r) + 2 + (Len(s) + 2) \in Byte /\ Len(r) + 2 + (Len(s) + 2) = Len(r) + Len(s) + 4
    BY <1>9, <2>1, Bytes
  <2>4. (Len(r) + 2 + (Len(s) + 2)) % 256 = Len(r) + 2 + (Len(s) + 2)
    BY <2>3, Bytes
  <2>5. n = (Len(r) + 2 + (Len(s) + 2)) % 256
    BY <1>7, <1>8, <2>2
  <2>6. QED
    BY <2>1, <2>3, <2>4, <2>5
<1>11. d = <<48, n>> \o (<<2, Len(r)>> \o r) \o (<<2, Len(s)>> \o s) \o <<SIGHASH_ALL>>
  BY <1>5, <1>6, <1>7, <1>8 DEF SerializeEcdsaSignature, EncodeSignatureAsDer
<1> HIDE DEF n
<1>12. /\ d \in Seq(Byte) /\ Len(d) = Len(r) + Len(s) + 7
       /\ d[1] = 48 /\ d[2] = n /\ d[3] = 2 /\ d[4] = Len(r)
       /\ \A i \in 1 .. Len(r) : d[4 + i] = r[i]
       /\ d[5 + Len(r)] = 2 /\ d[6 + Len(r)] = Len(s)
       /\ \A i \in 1 .. Len(s) : d[6 + Len(r) + i] = s[i]
       /\ d[Len(d)] = SIGHASH_ALL
  <2>1. IsLayout(d, n, r, s)
    BY <1>7, <1>8, <1>9, <1>10, <1>11, Layout
  <2>2. QED
    BY <2>1 DEF IsLayout
<1>13. RBytes(d) = r
  <2>1. \A i \in 1 .. Len(r) : d[5 - 1 + i] = r[i]
    BY <1>12
  <2>2. 5 + Len(r) - 1 <= Len(d) /\ 5 + Len(r) - 1 = 4 + d[4]
    BY <1>9, <1>10, <1>12
  <2>3. SubSeq(d, 5, 5 + Len(r) - 1) = r
    BY <1>7, <1>12, <2>1, <2>2, Part
  <2>4. QED
    BY <2>2, <2>3 DEF RBytes
<1>14. SBytes(d) = s
  <2> DEFINE from == 7 + Len(r)
  <2>1. /\ from \in Nat \ {0} /\ from - 1 = 6 + Len(r) /\ from + Len(s) - 1 = Len(d) - 1
        /\ from + Len(s) - 1 <= Len(d) /\ 7 + d[4] = from
    BY <1>9, <1>10, <1>12
  <2> HIDE DEF from
  <2>2. \A i \in 1 .. Len(s) : d[from - 1 + i] = s[i]
    BY <1>12, <2>1
  <2>3. SubSeq(d, from, from + Len(s) - 1) = s
    BY <1>8, <1>12, <2>1, <2>2, Part
  <2>4. QED
    BY <2>1, <2>3 DEF SBytes
<1>15. d[5] = r[1] /\ d[7 + Len(r)] = s[1]
  <2>1. d[4 + 1] = r[1] /\ d[6 + Len(r) + 1] = s[1]
    BY <1>9, <1>10, <1>12
  <2>2. QED
    BY <1>9, <1>10, <2>1
<1>16. IsEncoding(d)
  <2>1. d[6 + d[4]] = Len(s) /\ d[5 + d[4]] = 2 /\ d[7 + d[4]] = s[1]
    BY <1>12, <1>15
  <2>2. /\ Len(d) >= 9 /\ d[2] = Len(d) - 3 /\ d[4] >= 1 /\ 5 + d[4] < Len(d)
        /\ Len(s) >= 1 /\ d[4] + Len(s) + 7 = Len(d)
    BY <1>9, <1>10, <1>12
  <2>3. d[5] < 128 /\ d[7 + d[4]] < 128
    BY <1>7, <1>8, <1>15, <2>1
  <2>4. QED
    BY <1>12, <2>1, <2>2, <2>3 DEF IsEncoding
<1>17. 9 <= Len(d) /\ Len(d) <= 73
  BY <1>9, <1>10, <1>12
<1>18. r = Integer(R(a)) /\ s = Integer(a.s)
  BY DEF r, s
<1>19. QED
  BY <1>1, <1>2, <1>4, <1>7, <1>8, <1>12, <1>13, <1>14, <1>16, <1>17, <1>18

\* The signature of an answer of the right length, as a node reads it.
LEMMA SignatureReads ==
  ASSUME NEW a \in Answers, a.big_r # << >>, Len(SignatureBytes(a)) = 2 * ComponentSize,
         NEW d, d = SerializeEcdsaSignature(SignatureBytes(a), SIGHASH_ALL)
  PROVE  /\ d \in Seq(Byte) /\ 9 <= Len(d) /\ Len(d) <= 73
         /\ IsEncoding(d)
         /\ RBytes(d) \in {R(a), <<0>> \o R(a)}
         /\ SBytes(d) \in {a.s, <<0>> \o a.s}
         /\ d[Len(d)] = SIGHASH_ALL
BY SignatureIntegers

\* The byte that keeps a number from being negative is never one too many.
LEMMA IntegerMinimal ==
  ASSUME NEW bytes \in Seq(Byte), Len(bytes) = ComponentSize
  PROVE  IsMinimal(Integer(bytes)) <=> IsMinimal(bytes)
<1>1. CASE bytes[1] >= 128
  <2>1. ComponentSize \in Nat /\ 1 <= ComponentSize /\ bytes[1] # 0
    BY <1>1, ScriptSigAssumption
  <2>2. <<0>> \in Seq(Byte) /\ Len(<<0>>) = 1
    BY Short, Bytes
  <2>3. (<<0>> \o bytes)[2] = bytes[1]
    <3>1. 1 \in 1 .. Len(bytes) /\ 1 + 1 = 2
      BY <2>1
    <3>2. (<<0>> \o bytes)[Len(<<0>>) + 1] = bytes[1]
      BY <2>2, <3>1, Joined DEF Joins
    <3>3. QED
      BY <2>2, <3>1, <3>2
  <2>4. IsMinimal(<<0>> \o bytes)
    <3>1. bytes[1] \in Int
      BY <2>1, Bytes
    <3>2. ~ (bytes[1] < 128)
      BY <1>1, <3>1
    <3>3. QED
      BY <2>3, <3>2 DEF IsMinimal
  <2>5. IsMinimal(bytes)
    BY <2>1 DEF IsMinimal
  <2>6. QED
    BY <1>1, <2>4, <2>5 DEF Integer
<1>2. CASE ~ (bytes[1] >= 128)
  BY <1>2 DEF Integer
<1>3. QED
  BY <1>1, <1>2

\* Two pushes of up to 75 bytes are what a node finds.
LEMMA PushesRead ==
  ASSUME NEW d \in Seq(Byte), 1 <= Len(d) /\ Len(d) <= 75, NEW k \in Seq(Byte), 1 <= Len(k) /\ Len(k) <= 75
  PROVE  BuildScriptSig(d, k) # << >> /\ Stack(BuildScriptSig(d, k)) = <<d, k>>
<1> DEFINE a == <<Len(d)>>
           c == <<Len(k)>>
           ad == a \o d
           adc == ad \o c
           script == adc \o k
<1>1. /\ Len(d) \in Nat /\ Len(d) \in Byte /\ Len(d) % 256 = Len(d)
      /\ Len(k) \in Nat /\ Len(k) \in Byte /\ Len(k) % 256 = Len(k)
  BY ShortLength
<1>2. script = BuildScriptSig(d, k)
  BY <1>1 DEF BuildScriptSig
<1>3. /\ a \in Seq(Byte) /\ Len(a) = 1 /\ a[1] = Len(d)
      /\ c \in Seq(Byte) /\ Len(c) = 1 /\ c[1] = Len(k)
  BY <1>1, Short
<1>4. Joins(ad, a, d)
  BY <1>3, Joined
<1>5. Joins(adc, ad, c)
  BY <1>3, <1>4, Joined DEF Joins
<1>6. Joins(script, adc, k)
  BY <1>5, Joined DEF Joins
<1> HIDE DEF a, c, ad, adc, script
<1>7. Len(ad) = Len(d) + 1 /\ ad[1] = Len(d) /\ \A i \in 1 .. Len(d) : ad[1 + i] = d[i]
  BY <1>1, <1>3, <1>4 DEF Joins
<1>8. Len(adc) = Len(d) + 2 /\ adc[Len(d) + 2] = Len(k) /\ \A i \in 1 .. Len(ad) : adc[i] = ad[i]
  <2>1. 1 \in 1 .. Len(c) /\ Len(ad) + 1 = Len(d) + 2
    BY <1>1, <1>3, <1>7
  <2>2. QED
    BY <1>1, <1>3, <1>5, <1>7, <2>1 DEF Joins
<1>9. /\ script \in Seq(Byte) /\ Len(script) = Len(d) + Len(k) + 2
      /\ script[1] = Len(d) /\ script[Len(d) + 2] = Len(k)
      /\ \A i \in 1 .. Len(d) : script[1 + i] = d[i]
      /\ \A i \in 1 .. Len(k) : script[Len(d) + 2 + i] = k[i]
  <2>1. \A i \in 1 .. Len(adc) : script[i] = adc[i]
    BY <1>6 DEF Joins
  <2>2. \A i \in 1 .. Len(ad) : script[i] = ad[i]
    BY <1>1, <1>7, <1>8, <2>1
  <2>3. script[1] = Len(d) /\ script[Len(d) + 2] = Len(k)
    BY <1>1, <1>7, <1>8, <2>1, <2>2
  <2>4. ASSUME NEW i \in 1 .. Len(d) PROVE script[1 + i] = d[i]
    BY <1>1, <1>7, <2>2
  <2>5. QED
    BY <1>1, <1>6, <1>8, <2>3, <2>4 DEF Joins
<1>10. SubSeq(script, 2, Len(d) + 1) = d
  <2> DEFINE from == 2
  <2>1. /\ from \in Nat \ {0} /\ from - 1 = 1 /\ from + Len(d) - 1 = Len(d) + 1
        /\ from + Len(d) - 1 <= Len(script) /\ from = 2
    BY <1>1, <1>9
  <2> HIDE DEF from
  <2>2. \A i \in 1 .. Len(d) : script[from - 1 + i] = d[i]
    BY <1>9, <2>1
  <2>3. SubSeq(script, from, from + Len(d) - 1) = d
    BY <1>9, <2>1, <2>2, Part
  <2>4. QED
    BY <2>1, <2>3
<1>11. SubSeq(script, Len(d) + 3, Len(script)) = k
  <2> DEFINE from == Len(d) + 3
  <2>1. /\ from \in Nat \ {0} /\ from - 1 = Len(d) + 2 /\ from + Len(k) - 1 = Len(script)
        /\ from + Len(k) - 1 <= Len(script) /\ from = Len(d) + 3
    BY <1>1, <1>9
  <2> HIDE DEF from
  <2>2. \A i \in 1 .. Len(k) : script[from - 1 + i] = k[i]
    BY <1>9, <2>1
  <2>3. SubSeq(script, from, from + Len(k) - 1) = k
    BY <1>9, <2>1, <2>2, Part
  <2>4. QED
    BY <2>1, <2>3
<1>12. Stack(script) = <<d, k>>
  <2>1. /\ script[script[1] + 2] = Len(k) /\ Len(script) >= 2
        /\ 1 <= script[1] /\ script[1] <= 75 /\ Len(script) >= script[1] + 2
        /\ 1 <= Len(k) /\ Len(k) <= 75 /\ Len(script) = script[1] + Len(k) + 2
    BY <1>1, <1>9
  <2>2. SubSeq(script, 2, script[1] + 1) = d /\ SubSeq(script, script[1] + 3, Len(script)) = k
    BY <1>10, <1>11, <1>9
  <2>3. QED
    BY <2>1, <2>2 DEF Stack
<1>13. script # << >>
  BY <1>1, <1>9
<1>14. QED
  BY <1>2, <1>12, <1>13

\* Nothing is serialized or pushed twice, and nothing is changed after it was.
LEMMA ScriptInvariance == ScriptSpec => []ScriptInv
<1>1. ScriptInit => ScriptInv
  BY DEF ScriptInit, ScriptInv, AnswerTyped, DerIsEncoding, ScriptIsPushes
<1>2. ScriptInv /\ [ScriptNext]_scriptVars => ScriptInv'
  <2> SUFFICES ASSUME ScriptInv, [ScriptNext]_scriptVars PROVE ScriptInv'
    OBVIOUS
  <2> USE DEF ScriptInv, AnswerTyped, DerIsEncoding, ScriptIsPushes, Assertion, Unwrapped
  <2>1. CASE Serialize
    BY <2>1 DEF Serialize
  <2>2. CASE Panic
    BY <2>2 DEF Panic
  <2>3. CASE Push
    BY <2>3 DEF Push
  <2>4. CASE UNCHANGED scriptVars
    BY <2>4 DEF scriptVars
  <2>5. QED
    BY <2>1, <2>2, <2>3, <2>4 DEF ScriptNext
<1>3. QED
  BY <1>1, <1>2, PTL DEF ScriptSpec

\* For components of up to 32 bytes, any answer and any key: the script holds
\* the answer, and no length in it is cut.
THEOREM AnswerArrives == ScriptSpec => []NodeReadsAnswer
<1>1. ASSUME ScriptInv, script_sig # << >> PROVE NodeReadsAnswer
  <2>1. /\ answer \in Answers /\ key \in Seq(Byte) /\ 1 <= Len(key) /\ Len(key) <= 75
        /\ answer.big_r # << >> /\ Len(SignatureBytes(answer)) = 2 * ComponentSize
        /\ der = SerializeEcdsaSignature(SignatureBytes(answer), SIGHASH_ALL)
        /\ script_sig = BuildScriptSig(der, key)
    BY <1>1, ScriptSigAssumption DEF ScriptInv, AnswerTyped, DerIsEncoding, ScriptIsPushes, Assertion, Unwrapped
  <2>2. /\ der \in Seq(Byte) /\ 1 <= Len(der) /\ Len(der) <= 75
        /\ IsEncoding(der)
        /\ RBytes(der) \in {R(answer), <<0>> \o R(answer)}
        /\ SBytes(der) \in {answer.s, <<0>> \o answer.s}
        /\ der[Len(der)] = SIGHASH_ALL
    BY <2>1, SignatureReads
  <2>3. Stack(script_sig) = <<der, key>>
    BY <2>1, <2>2, PushesRead
  <2>4. QED
    BY <2>2, <2>3 DEF NodeReadsAnswer
<1>2. ScriptInv => NodeReadsAnswer
  BY <1>1 DEF NodeReadsAnswer
<1>3. QED
  BY ScriptInvariance, <1>2, PTL

\* SignatureIsDer fails for one reason only: a number that was answered with a
\* zero byte it does not need. The encoder does not pad one, and does not mend
\* one, whatever the component size.
THEOREM OnlyPaddingFails ==
  ScriptSpec => [](der # << >> => (SignatureIsDer <=> IsMinimal(R(answer)) /\ IsMinimal(answer.s)))
<1>1. ASSUME ScriptInv, der # << >>
      PROVE  SignatureIsDer <=> IsMinimal(R(answer)) /\ IsMinimal(answer.s)
  <2>1. /\ answer \in Answers /\ answer.big_r # << >>
        /\ Len(SignatureBytes(answer)) = 2 * ComponentSize
        /\ der = SerializeEcdsaSignature(SignatureBytes(answer), SIGHASH_ALL)
    BY <1>1 DEF ScriptInv, AnswerTyped, DerIsEncoding, Assertion, Unwrapped
  <2>2. /\ RBytes(der) = Integer(R(answer)) /\ SBytes(der) = Integer(answer.s)
        /\ R(answer) \in Seq(Byte) /\ Len(R(answer)) = ComponentSize
        /\ answer.s \in Seq(Byte) /\ Len(answer.s) = ComponentSize
    BY <2>1, SignatureIntegers
  <2>3. IsMinimal(RBytes(der)) /\ IsMinimal(SBytes(der)) <=> IsMinimal(R(answer)) /\ IsMinimal(answer.s)
    BY <2>2, IntegerMinimal
  <2>4. IsEncoding(der)
    BY <2>1, SignatureReads
  <2>5. QED
    BY <1>1, <2>3, <2>4 DEF SignatureIsDer
<1>2. ScriptInv => (der # << >> => (SignatureIsDer <=> IsMinimal(R(answer)) /\ IsMinimal(answer.s)))
  BY <1>1
<1>3. QED
  BY ScriptInvariance, <1>2, PTL
=============================================================================
