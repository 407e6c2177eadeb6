----------------------------- MODULE ScriptSig -----------------------------
(***************************************************************************)
(* From the signer's answer to the input of a legacy transaction           *)
(* (bitcoin/utils.rs), and a node that takes its script_sig apart.         *)
(***************************************************************************)
EXTENDS SignatureScript

VARIABLES
  answer,     \* SignatureResponse
  key,        \* the public key of the input
  der,        \* the serialized signature, or << >>
  script_sig, \* the script, or << >>
  asserted

scriptVars == <<answer, key, der, script_sig, asserted>>

-----------------------------------------------------------------------------

ScriptInit ==
  /\ answer \in Answers
  /\ key \in Keys
  /\ der = << >> /\ script_sig = << >> /\ asserted = FALSE

\* unwrap of both strings, and the slice after the compression byte.
Unwrapped == answer.hex /\ answer.big_r # << >>

Assertion == Unwrapped /\ Len(SignatureBytes(answer)) = 2 * ComponentSize

Serialize ==
  /\ der = << >> /\ ~asserted
  /\ Assertion
  /\ der' = SerializeEcdsaSignature(SignatureBytes(answer), SIGHASH_ALL)
  /\ UNCHANGED <<answer, key, script_sig, asserted>>

Panic ==
  /\ der = << >> /\ ~asserted
  /\ ~Assertion
  /\ asserted' = TRUE
  /\ UNCHANGED <<answer, key, der, script_sig>>

Push ==
  /\ der # << >> /\ script_sig = << >>
  /\ script_sig' = BuildScriptSig(der, key)
  /\ UNCHANGED <<answer, key, der, asserted>>

ScriptNext == Serialize \/ Panic \/ Push

ScriptSpec == ScriptInit /\ [][ScriptNext]_scriptVars

-----------------------------------------------------------------------------
\* A node.

\* What a script of pushes of up to 75 bytes leaves on the stack, or << >>.
Stack(script) ==
  LET first == script[1]
      second == script[first + 2]
  IN IF /\ Len(script) >= 2 /\ 1 <= first /\ first <= 75 /\ Len(script) >= first + 2
        /\ 1 <= second /\ second <= 75 /\ Len(script) = first + second + 2
     THEN <<SubSeq(script, 2, first + 1), SubSeq(script, first + 3, Len(script))>>
     ELSE << >>

\* The shape that BIP-66 requires of a signature with its sighash type: the
\* lengths add up, and neither number is negative.
IsEncoding(sig) ==
  LET r == sig[4]
      s == sig[6 + r]
  IN /\ Len(sig) >= 9 /\ sig[1] = 48 /\ sig[2] = Len(sig) - 3
     /\ sig[3] = 2 /\ r >= 1 /\ 5 + r < Len(sig)
     /\ sig[5 + r] = 2 /\ s >= 1 /\ r + s + 7 = Len(sig)
     /\ sig[5] < 128 /\ sig[7 + r] < 128

RBytes(sig) == SubSeq(sig, 5, 4 + sig[4])
SBytes(sig) == SubSeq(sig, 7 + sig[4], Len(sig) - 1)

\* BIP-66 has no zero byte before a byte below 128.
IsMinimal(bytes) == ~(Len(bytes) > 1 /\ bytes[1] = 0 /\ bytes[2] < 128)

-----------------------------------------------------------------------------

R(a) == SubSeq(a.big_r, 2, Len(a.big_r))

\* A node finds the signature and the key in the script, and in the signature
\* the two numbers as they were answered, none of them negative.
NodeReadsAnswer ==
  script_sig # << >> =>
    /\ Stack(script_sig) = <<der, key>>
    /\ IsEncoding(der)
    /\ RBytes(der) \in {R(answer), <<0>> \o R(answer)}
    /\ SBytes(der) \in {answer.s, <<0>> \o answer.s}
    /\ der[Len(der)] = SIGHASH_ALL

\* encode_signature_as_der: what is serialized is DER, as BIP-66 requires it.
SignatureIsDer ==
  der # << >> => IsEncoding(der) /\ IsMinimal(RBytes(der)) /\ IsMinimal(SBytes(der))
=============================================================================
