---------------------------- MODULE NearHandover ----------------------------
(***************************************************************************)
(* A NEAR transaction that is handed on, as Borsh or JSON, before it is    *)
(* signed: each holder writes it, the next one reads it.  A front end      *)
(* writes JSON in other forms and orders, or a transaction of its own;     *)
(* bytes may be changed once.                                              *)
(***************************************************************************)
EXTENDS NearNode, NearJson

CONSTANTS
  Transactions, \* NearTransaction values of the first holder
  Foreign,      \* transactions a front end may write instead
  Forms,        \* sets of types a front end puts into strings
  MaxPosts      \* bound on the letters

\* They are values of the types, as in the code.
ASSUME HandoverAssumption == Transactions \cup Foreign \subseteq Values[MaxDepth]["NearTransaction"]

VARIABLES
  first,   \* what was written first
  held,    \* the NearTransaction that the last holder has
  letter,  \* << >>, or what is under way
  changed, \* a byte of some letter was changed
  refused, \* the last holder could not read
  posts    \* number of letters

handoverVars == <<first, held, letter, changed, refused, posts>>

\* What a program can build: NonDelegateAction::try_from was asked.
Buildable(t) ==
  \A action \in ToSet(t.actions) :
    action.variant = "Delegate" =>
      \A inner \in ToSet(action.value.delegate_action.actions) : NonDelegateTryFrom(inner).value # << >>

HandoverInit ==
  /\ held \in {t \in Transactions : Buildable(t)}
  /\ first = held
  /\ letter = << >>
  /\ changed = FALSE /\ refused = FALSE
  /\ posts = 0

Post(m) ==
  /\ letter = << >> /\ ~refused /\ posts < MaxPosts
  /\ letter' = <<m>>
  /\ posts' = posts + 1
  /\ UNCHANGED <<held, refused>>

Hand(m) == Post(m) /\ UNCHANGED <<first, changed>>

WriteBorsh == Hand([borsh |-> BuildForSigning(held)])
WriteJson  == Hand(JsonOf("NearTransaction", held, {}))

\* Entries in any order: here, the other way round.
FrontEndWrites ==
  \E forms \in Forms : Hand([map |-> Reverse(JsonOf("NearTransaction", held, forms).map)])

ForeignWrites ==
  \E t \in Foreign :
    /\ Post(JsonOf("NearTransaction", t, {}))
    /\ first' = t
    /\ changed' = changed

ChangeLetter ==
  /\ letter # << >> /\ ~changed
  /\ Is(letter[1], "borsh")
  /\ \E i \in DOMAIN letter[1].borsh, byte \in 0 .. Radix - 1 :
       /\ byte # letter[1].borsh[i]
       /\ letter' = <<[borsh |-> [letter[1].borsh EXCEPT ![i] = byte]]>>
  /\ changed' = TRUE
  /\ UNCHANGED <<first, held, refused, posts>>

Understood(m) ==
  IF Is(m, "borsh") THEN BorshFrom(Types, "NearTransaction", m.borsh)
  ELSE JsonFrom("NearTransaction", m)

ReadLetter ==
  /\ letter # << >>
  /\ refused' = (Understood(letter[1]) = << >>)
  /\ held' = IF refused' THEN held ELSE Understood(letter[1])[1]
  /\ letter' = << >>
  /\ UNCHANGED <<first, changed, posts>>

HandoverNext == WriteBorsh \/ WriteJson \/ FrontEndWrites \/ ForeignWrites \/ ChangeLetter \/ ReadLetter

HandoverSpec == HandoverInit /\ [][HandoverNext]_handoverVars

-----------------------------------------------------------------------------

\* Whatever forms it went through, a transaction that nobody changed arrives,
\* a delegate action in another one included; a reader refuses it only if it
\* comes with a number that JSON readers do not hold.
ArrivesUnchanged ==
  ~changed =>
    /\ \A m \in ToSet(letter) :
         Understood(m) =
           IF Is(m, "borsh") \/ m \in Documents(0 .. MaxU64) THEN <<first>> ELSE << >>
    /\ letter = << >> /\ ~refused => held = first

\* Of bytes, changed under way or not, a node reads what the library reads,
\* with one exception: the library also reads, and writes, a delegate action
\* in another one, which NonDelegateAction::try_from and the node refuse.
\* They are the only bytes of what was read.
ChangedBytesHaveOneMeaning ==
  \A m \in ToSet(letter) :
    Is(m, "borsh") =>
      LET read == ToSet(Understood(m)) IN
      /\ NodeReadsTransaction(m.borsh) = {t \in read : Buildable(t)}
      /\ \A t \in read : BuildForSigning(t) = m.borsh

\* What the library, or a front end, writes it reads back.
WrittenIsRead == ~changed => ~refused
=============================================================================
