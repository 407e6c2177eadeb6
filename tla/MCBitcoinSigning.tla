-------------------------- MODULE MCBitcoinSigning --------------------------
(***************************************************************************)
(* BitcoinSigning on small instances.                                      *)
(***************************************************************************)
EXTENDS BitcoinSigning, FiniteSets, TLC

\* Outpoints are only compared with each other.
Symmetry == Permutations(OutPoints)

\* Bound: states in which a signature stands in two places are not left.
SignatureUsedOnce ==
  \A k \in signed :
    Cardinality({i \in Inputs : tx.input[i].script_sig = Sig(k)})
      + Cardinality({i \in Inputs : tx.input[i].witness = Sig(k)}) <= 1
=============================================================================
