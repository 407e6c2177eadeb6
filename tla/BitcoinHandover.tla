--------------------------- MODULE BitcoinHandover ---------------------------
(***************************************************************************)
(* A Bitcoin transaction that a front end describes in JSON, in any form   *)
(* the library's readers take and with any numbers, and that the library   *)
(* then writes and reads again.                                            *)
(***************************************************************************)
EXTENDS BitcoinJson

CONSTANTS
  Orders,   \* what a front end may write: what it means and the style it uses
  MaxReads  \* bound on the readings

IsBytes(bytes) == \A i \in DOMAIN bytes : 0 <= bytes[i] /\ bytes[i] <= 255

\* A front end may mean more than the library can hold ...
Meanings ==
  [version : Int, lock_time : Int,
   input : Seq([previous_output : [txid : Seq(Int), vout : Int], script_sig : Seq(Int),
                sequence : Int, witness : Seq(Seq(Int))]),
   output : Seq([value : Int, script_pubkey : Seq(Int)])]

\* ... and writes it in any of these forms, the keys of an outpoint in any order
\* and one among them perhaps that OutPoint does not have.
KeyNames == {"txid", "vout", "n"}
Numerals == {"number", "decimal", "padded"}
Styles ==
  [version : Numerals, lock_time : Numerals, vout : Numerals,
   txid : {"hex", "array"}, script : {"hex", "array"}, keys : Seq(KeyNames)]

\* No hexadecimal says a byte above 255.
Writable(meant, style) ==
  /\ \A in \in ToSet(meant.input) : \A k \in DOMAIN in.witness : IsBytes(in.witness[k])
  /\ style.txid = "hex" => \A in \in ToSet(meant.input) : IsBytes(in.previous_output.txid)
  /\ style.script = "hex" => /\ \A in \in ToSet(meant.input) : IsBytes(in.script_sig)
                             /\ \A out \in ToSet(meant.output) : IsBytes(out.script_pubkey)

ASSUME OrdersAssumption ==
  Orders \subseteq {o \in [meant : Meanings, style : Styles] : Writable(o.meant, o.style)}

VARIABLES
  order,    \* the front end's
  message,  \* << >> or the document under way
  tx,       \* << >> or the transaction read last
  outcome,  \* of the last reading
  reads

handoverVars == <<order, message, tx, outcome, reads>>

HandoverInit ==
  /\ order \in Orders
  /\ message = <<ToJson(order.style, order.meant)>>
  /\ tx = << >> /\ outcome = "pending" /\ reads = 0

Read ==
  /\ message # << >>
  /\ LET read == BitcoinFromJson(message[1]) IN
       /\ tx' = IF read.panicked THEN << >> ELSE read.value
       /\ outcome' = IF read.panicked THEN "panicked" ELSE IF read.value = << >> THEN "refused" ELSE "read"
  /\ message' = << >>
  /\ reads' = reads + 1
  /\ UNCHANGED order

Write ==
  /\ message = << >> /\ tx # << >> /\ reads < MaxReads
  /\ message' = <<ToJson(LibraryStyle, tx[1])>>
  /\ UNCHANGED <<order, tx, outcome, reads>>

HandoverNext == Read \/ Write

HandoverSpec == HandoverInit /\ [][HandoverNext]_handoverVars

-----------------------------------------------------------------------------

\* Written as a number, a vout or a lock time may have up to 64 bits ...
FitsU32(n, form) ==
  /\ 0 <= n /\ form # "padded"
  /\ n <= (IF form = "number" THEN MaxU64 ELSE MaxU32)

\* ... of which 32 are kept.
Kept(n) == n % (MaxU32 + 1)

VersionFits == order.meant.version \in {1, 2}

LockTimeFits == FitsU32(order.meant.lock_time, order.style.lock_time)

\* The document says a transaction that the fields of the library can hold.
Fits ==
  LET t == order.meant IN
  /\ VersionFits /\ LockTimeFits
  /\ \A in \in ToSet(t.input) :
       /\ ToSet(order.style.keys) = {"txid", "vout"}
       /\ FitsU32(in.previous_output.vout, order.style.vout)
       /\ Len(in.previous_output.txid) = HashLength /\ IsBytes(in.previous_output.txid)
       /\ 0 <= in.sequence /\ in.sequence <= MaxU32
       /\ IsBytes(in.script_sig)
  /\ \A out \in ToSet(t.output) : 0 <= out.value /\ out.value <= MaxU64 /\ IsBytes(out.script_pubkey)

\* A time of which a height is left.
LosesItsKind ==
  order.meant.lock_time >= LOCK_TIME_THRESHOLD /\ Kept(order.meant.lock_time) < LOCK_TIME_THRESHOLD

InputKept(in) == [in EXCEPT !.previous_output.vout = Kept(@)]

AsKept ==
  LET t == order.meant IN
  [t EXCEPT !.lock_time = Kept(t.lock_time),
            !.input = [i \in DOMAIN t.input |-> InputKept(t.input[i])]]

\* Whatever the form of each value and however often the transaction was
\* written and read since, the library holds what the front end meant; only
\* the upper half of a vout or of a lock time that came as a number is gone.
ReadIsMeant == outcome = "read" => tx = <<AsKept>>

\* Nothing that fits is refused and nothing else is read; the program stops
\* exactly over a lock time of more than 32 bits whose lower half is no time.
ReadExactlyIfFits ==
  outcome # "pending" =>
    outcome = IF VersionFits /\ LockTimeFits /\ LosesItsKind THEN "panicked"
              ELSE IF Fits THEN "read" ELSE "refused"
=============================================================================
