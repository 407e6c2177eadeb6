----------------------------- MODULE TxBuilders -----------------------------
(***************************************************************************)
(* The builders of the three chains.  A builder is a function from its     *)
(* fields to << >> (None) or <<value>>; setters take the builder and       *)
(* return it, build only reads it and may be called again.  The fields of  *)
(* the Bitcoin and NEAR builders are public and may be assigned None.      *)
(***************************************************************************)
EXTENDS Naturals, Sequences

CONSTANTS
  Settable,     \* field of any builder -> the values it may be set to
  NoAccount,    \* a string that is not an account id
  Default,      \* zero, no bytes, no list
  MaxSets       \* field -> bound on its assignments

VARIABLES
  chain,    \* the type parameter of TransactionBuilder::new
  builder,
  calls,    \* field -> the values set, in order; << >> for an assigned None
  built,    \* the transaction of the last build since a setter, if any
  panicked

builderVars == <<chain, builder, calls, built, panicked>>

NewBitcoin == [f \in {"version", "lock_time", "inputs", "outputs"} |-> << >>]

NewEvm ==
  [f \in {"chain_id", "nonce", "to", "value", "input", "gas_limit", "max_fee_per_gas",
          "max_priority_fee_per_gas", "access_list"} |-> << >>]

NewNear ==
  [f \in {"signer_id", "signer_public_key", "nonce", "receiver_id", "block_hash",
          "actions"} |-> << >>]

New(c) == IF c = "BITCOIN" THEN NewBitcoin ELSE IF c = "EVM" THEN NewEvm ELSE NewNear

Expect(fields) == \A f \in fields : builder[f] # << >>

UnwrapOrDefault(f) == IF builder[f] = << >> THEN Default ELSE builder[f][1]

-----------------------------------------------------------------------------

\* << >> if an expect or unwrap panics, or <<the transaction>>.
BuildBitcoin ==
  IF Expect(DOMAIN builder) THEN <<[f \in DOMAIN builder |-> builder[f][1]]>> ELSE << >>

Faulty_EvmDefaults == {"value", "input", "max_priority_fee_per_gas", "access_list", "nonce"}

EvmDefaults == {"value", "input", "max_priority_fee_per_gas", "access_list"}

BuildEvm ==
  IF Expect(DOMAIN builder \ (EvmDefaults \cup {"to"}))
  THEN <<[f \in DOMAIN builder |->
            IF f = "to" THEN builder[f]
            ELSE IF f \in EvmDefaults THEN UnwrapOrDefault(f) ELSE builder[f][1]]>>
  ELSE << >>

BuildNear ==
  IF /\ Expect(DOMAIN builder)
     /\ builder.signer_id # <<NoAccount>>
     /\ builder.receiver_id # <<NoAccount>>
  THEN <<[f \in DOMAIN builder |-> builder[f][1]]>> ELSE << >>

Result ==
  IF chain = "BITCOIN" THEN BuildBitcoin ELSE IF chain = "EVM" THEN BuildEvm ELSE BuildNear

-----------------------------------------------------------------------------

BuilderInit ==
  /\ chain \in {"BITCOIN", "EVM", "NEAR"}
  /\ builder = New(chain)
  /\ calls = [f \in DOMAIN builder |-> << >>]
  /\ built = << >>
  /\ panicked = FALSE

Assign(f, option) ==
  /\ ~panicked
  /\ Len(calls[f]) < MaxSets[f]
  /\ builder' = [builder EXCEPT ![f] = option]
  /\ calls' = [calls EXCEPT ![f] = Append(@, option)]
  /\ built' = << >>
  /\ UNCHANGED <<chain, panicked>>

SetBitcoin(f) == chain = "BITCOIN" /\ \E v \in Settable[f] : Assign(f, <<v>>)
SetEvm(f)     == chain = "EVM"     /\ \E v \in Settable[f] : Assign(f, <<v>>)
SetNear(f)    == chain = "NEAR"    /\ \E v \in Settable[f] : Assign(f, <<v>>)

\* An assignment to the public field, not a call.
AssignNone(f) == chain # "EVM" /\ Assign(f, << >>)

Build ==
  /\ ~panicked
  /\ built' = Result
  /\ panicked' = (Result = << >>)
  /\ UNCHANGED <<chain, builder, calls>>

BuilderNext ==
  \/ \E f \in DOMAIN builder : SetBitcoin(f) \/ SetEvm(f) \/ SetNear(f) \/ AssignNone(f)
  \/ Build

BuilderSpec == BuilderInit /\ [][BuilderNext]_builderVars

-----------------------------------------------------------------------------

\* What was set last for a field, << >> if that is nothing.
LastSet(f) == IF calls[f] = << >> THEN << >> ELSE calls[f][Len(calls[f])]

Optional == IF chain = "EVM" THEN {"value", "input", "max_priority_fee_per_gas", "access_list"} ELSE {}

\* The value of a built transaction's field that was last set to option.
ValueAfter(f, option) ==
  IF chain = "EVM" /\ f = "to" THEN option
  ELSE IF option = << >> THEN Default ELSE option[1]

Missing(f) == LastSet(f) = << >> /\ f \notin Optional /\ ~(chain = "EVM" /\ f = "to")

NotAnAccount(f) ==
  chain = "NEAR" /\ f \in {"signer_id", "receiver_id"} /\ LastSet(f) = <<NoAccount>>

\* Whatever the order of the setters, how often a field was set and how many
\* builds came before: a transaction has in each field what was set last
\* there, the default only if that is nothing and the field is optional; and
\* build panics only for a field that is missing or a text that is no account.
BuildsWhatWasSet ==
  /\ built # << >> =>
       \A f \in DOMAIN calls : built[1][f] = ValueAfter(f, LastSet(f)) /\ ~Missing(f)
  /\ panicked => \E f \in DOMAIN calls : Missing(f) \/ NotAnAccount(f)
=============================================================================
