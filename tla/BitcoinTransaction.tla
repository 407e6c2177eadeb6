------------------------- MODULE BitcoinTransaction -------------------------
(***************************************************************************)
(* The BitcoinTransaction value of bitcoin_transaction.rs, what its        *)
(* builders write for the signer and for the network, and the two fields   *)
(* its build_with_* functions assign.                                      *)
(*                                                                         *)
(* A transaction is [version, lock_time, input, output]; an input is       *)
(* [previous_output, script_sig, sequence, witness].  Inputs are numbered  *)
(* from 1 (Rust: from 0).  What is written is kept field by field instead  *)
(* of byte by byte: sha256d is injective for this purpose, so a hash of a  *)
(* list is the list.  BitcoinWire models the same writers byte by byte.    *)
(***************************************************************************)
EXTENDS Naturals, Sequences

\* TransactionType, and the two families every match on it distinguishes.
LegacyTypes == {"P2PKH", "P2SH"}
SegwitTypes == {"P2WPKH", "P2WSH"}
TransactionType == LegacyTypes \cup SegwitTypes

\* Version::One and Version::Two.
Version == {1, 2}

\* ScriptBuf::default() and Witness::default(): nothing in it.
Empty == << >>

SighashAll == "All"

-----------------------------------------------------------------------------
(* What the transaction writes.                                            *)

HasWitness(tx) == \E j \in DOMAIN tx.input : tx.input[j].witness # Empty

\* A faulty variant: only the first input decides the format.
Faulty_UsesSegwitSerialization(tx) ==
  \/ \E j \in DOMAIN tx.input : j = 1 /\ tx.input[j].witness # Empty
  \/ DOMAIN tx.input = {}

\* No inputs also means the BIP-144 form, to keep the bytes unambiguous.
UsesSegwitSerialization(tx) == HasWitness(tx) \/ DOMAIN tx.input = {}

\* The witness is not part of an encoded input.
EncodeTxIn(in) ==
  [previous_output |-> in.previous_output,
   script_sig      |-> in.script_sig,
   sequence        |-> in.sequence]

Encode(tx) ==
  [version   |-> tx.version,
   marker    |-> UsesSegwitSerialization(tx),
   input     |-> [j \in DOMAIN tx.input |-> EncodeTxIn(tx.input[j])],
   output    |-> tx.output,
   witness   |-> IF UsesSegwitSerialization(tx)
                 THEN [j \in DOMAIN tx.input |-> tx.input[j].witness]
                 ELSE Empty,
   lock_time |-> tx.lock_time]

\* A faulty variant: an input without a script is written as the first one.
Faulty_LegacyPreimage(tx) ==
  [tx |-> [Encode(tx) EXCEPT !.input =
             [j \in DOMAIN tx.input |->
                IF tx.input[j].script_sig = Empty
                THEN [@[j] EXCEPT !.previous_output = tx.input[1].previous_output]
                ELSE @[j]]],
   sighash_type |-> SighashAll]

\* build_for_signing_legacy: the transaction as it stands, then the type.
LegacyPreimage(tx) == [tx |-> Encode(tx), sighash_type |-> SighashAll]

\* encode_for_sighash_for_segwit, then the type.  The marker and the flag
\* are pushed as soon as some input of the transaction has a witness.
SegwitPreimage(tx, i, script_code, value) ==
  [version      |-> tx.version,
   marker       |-> HasWitness(tx),
   prevouts     |-> [j \in DOMAIN tx.input |-> tx.input[j].previous_output],
   sequences    |-> [j \in DOMAIN tx.input |-> tx.input[j].sequence],
   outpoint     |-> tx.input[i].previous_output,
   script_code  |-> script_code,
   value        |-> value,
   sequence     |-> tx.input[i].sequence,
   outputs      |-> tx.output,
   lock_time    |-> tx.lock_time,
   sighash_type |-> SighashAll]

-----------------------------------------------------------------------------
(* What the build_with_* functions assign.                                 *)

\* Faulty variants: the script is stored behind its length; the script
\* signatures of the other inputs are blanked.
Faulty_WithScriptSig(tx, i, script_sig) ==
  [tx EXCEPT !.input[i].script_sig = <<"len", script_sig>>]

Faulty_WithScriptSig_Blanks(tx, i, script_sig) ==
  [tx EXCEPT !.input = [j \in DOMAIN tx.input |->
     [tx.input[j] EXCEPT !.script_sig = IF j = i THEN script_sig ELSE Empty]]]

WithScriptSig(tx, i, script_sig) ==
  [tx EXCEPT !.input[i].script_sig = script_sig]

\* Faulty variants: the input is rebuilt from the first one; the witness
\* is built and dropped.
Faulty_WithWitness(tx, i, witness) ==
  [tx EXCEPT !.input[i] = [tx.input[1] EXCEPT !.witness = witness]]

Faulty_WithWitness_Drops(tx, i, witness) ==
  [tx EXCEPT !.input[i].witness = Empty]

WithWitness(tx, i, witness) ==
  [tx EXCEPT !.input[i].witness = witness]

-----------------------------------------------------------------------------
(* What the network reads, and what it checks a signature against (outside *)
(* this repository: Bitcoin Core, and rust-bitcoin in the tests).          *)

Received(w) ==
  [version   |-> w.version,
   lock_time |-> w.lock_time,
   input     |-> [j \in DOMAIN w.input |->
                    [previous_output |-> w.input[j].previous_output,
                     script_sig      |-> w.input[j].script_sig,
                     sequence        |-> w.input[j].sequence,
                     witness         |-> IF w.marker THEN w.witness[j] ELSE Empty]],
   output    |-> w.output]

\* The BIP-143 digest: nothing in it depends on a script signature, on a
\* witness, or on whether the transaction has one.
Bip143(tx, i, script_code, value) ==
  [version      |-> tx.version,
   marker       |-> FALSE,
   prevouts     |-> [j \in DOMAIN tx.input |-> tx.input[j].previous_output],
   sequences    |-> [j \in DOMAIN tx.input |-> tx.input[j].sequence],
   outpoint     |-> tx.input[i].previous_output,
   script_code  |-> script_code,
   value        |-> value,
   sequence     |-> tx.input[i].sequence,
   outputs      |-> tx.output,
   lock_time    |-> tx.lock_time,
   sighash_type |-> SighashAll]

\* The legacy digest of input i: every other script signature is blanked,
\* its own is the script code, and witnesses are left out.
LegacySighash(tx, i, script_code) ==
  [tx |-> [version   |-> tx.version,
           marker    |-> FALSE,
           input     |-> [j \in DOMAIN tx.input |->
                            [previous_output |-> tx.input[j].previous_output,
                             script_sig      |-> IF j = i THEN script_code ELSE Empty,
                             sequence        |-> tx.input[j].sequence]],
           output    |-> tx.output,
           witness   |-> Empty,
           lock_time |-> tx.lock_time],
   sighash_type |-> SighashAll]
=============================================================================
