----------------------------- MODULE NearProofs -----------------------------
(***************************************************************************)
(* NEAR, for any lengths that tell the key types apart, any radix and any  *)
(* nesting of types: keys on their way, Borsh and JSON of every type, a    *)
(* session of signing, and a transaction that is handed on.  Each part has *)
(* its invariant and what follows from it.                                 *)
(***************************************************************************)
EXTENDS NearKeyTravel, NearSession, NearHandover, SequenceInduction, TLAPS

(* Keys, signatures and hashes on their way: theorems of TravelSpec.       *)

Kinds == {"key", "signature", "hash"}

\* What a holder may have.
ValuesOf(k) == IF k = "key" THEN PublicKeys
               ELSE IF k = "signature" THEN Signatures ELSE Hashes

-----------------------------------------------------------------------------
(* What may be under way, spoilt or not.                                   *)

KeyPrefixes == {"ed25519", "secp256k1", "other", "none"}
Names == {"ED25519", "SECP256K1", "other"}

\* A text that is not base58, or the bytes it is base58 of.
Texts == [prefix : KeyPrefixes, data : {<< >>} \cup {<<b>> : b \in Seq(Cells)}]

Entries == [name : Names, bytes : Seq(Cells)]

\* A tag and a content.
Tagged == {b \in Seq(Cells \cup {0, 1}) : b # << >> => Tail(b) \in Seq(Cells)}

TextMessages   == [form : {"text"}, text : Texts]
MapMessages    == [form : {"map"}, entries : Seq(Entries)]
ArrayMessages  == [form : {"array"}, bytes : Seq(Cells)]
TaggedMessages == [form : {"borsh"}, bytes : Tagged]
PlainMessages  == [form : {"borsh"}, bytes : Seq(Cells)]

Messages(k) ==
  TextMessages \cup
    (IF k = "key" THEN MapMessages \cup TaggedMessages
     ELSE IF k = "signature" THEN TaggedMessages
     ELSE ArrayMessages \cup PlainMessages)

-----------------------------------------------------------------------------
(* Byte strings.                                                           *)

\* The arrays of Rust are the byte strings of that length.
LEMMA ArraysAreStrings ==
  ASSUME NEW n \in Nat, NEW T
  PROVE  \A b : b \in [1 .. n -> T] <=> b \in Seq(T) /\ Len(b) = n
OBVIOUS

\* A tag before a content can be taken off again.
LEMMA TagComesOff ==
  ASSUME NEW t \in {0, 1}, NEW b \in Seq(Cells)
  PROVE  /\ <<t>> \o b \in Tagged
         /\ <<t>> \o b # << >>
         /\ (<<t>> \o b)[1] = t
         /\ Tail(<<t>> \o b) = b
         /\ Len(<<t>> \o b) = 1 + Len(b)
<1> DEFINE T == Cells \cup {0, 1}
           c == <<t>> \o b
<1>1. <<t>> \in Seq(T) /\ Len(<<t>>) = 1 /\ b \in Seq(T)
  OBVIOUS
<1>2. c \in Seq(T) /\ Len(c) = 1 + Len(b) /\ c[1] = t
  BY <1>1, ConcatProperties
<1>3. \A i \in 1 .. Len(b) : c[i + 1] = b[i]
  BY <1>1, ConcatProperties
<1>4. c # << >> /\ Len(b) \in Nat
  BY <1>2
<1>5. Tail(c) \in Seq(T) /\ Len(Tail(c)) = Len(b)
      /\ \A i \in 1 .. Len(b) : Tail(c)[i] = c[i + 1]
  BY <1>2, <1>4
<1>6. Tail(c) = b
  BY <1>1, <1>3, <1>5, SeqEqual
<1> QED  BY <1>2, <1>4, <1>6 DEF Tagged

\* ... and what was taken off can be put back.
LEMMA TagGoesBack ==
  ASSUME NEW c \in Tagged, c # << >>
  PROVE  /\ c[1] \in Cells \cup {0, 1}
         /\ Tail(c) \in Seq(Cells)
         /\ <<c[1]>> \o Tail(c) = c
         /\ Len(c) = 1 + Len(Tail(c))
<1> DEFINE T == Cells \cup {0, 1}
           d == <<c[1]>> \o Tail(c)
<1>1. c \in Seq(T) /\ Tail(c) \in Seq(Cells) /\ Len(c) \in Nat /\ Len(c) >= 1
  BY DEF Tagged
<1>2. c[1] \in T /\ Len(Tail(c)) = Len(c) - 1
      /\ \A i \in 1 .. Len(Tail(c)) : Tail(c)[i] = c[i + 1]
  BY <1>1
<1>3. <<c[1]>> \in Seq(T) /\ Len(<<c[1]>>) = 1 /\ Tail(c) \in Seq(T)
  BY <1>1, <1>2
<1>4. d \in Seq(T) /\ Len(d) = 1 + Len(Tail(c)) /\ d[1] = c[1]
      /\ \A i \in 1 .. Len(Tail(c)) : d[i + 1] = Tail(c)[i]
  BY <1>3, ConcatProperties
<1>5. \A i \in 1 .. Len(c) : d[i] = c[i]
  <2> TAKE i \in 1 .. Len(c)
  <2>1. CASE i = 1
    BY <1>4, <2>1
  <2>2. CASE i # 1
    <3>1. i - 1 \in 1 .. Len(Tail(c)) /\ (i - 1) + 1 = i
      BY <1>1, <1>2, <2>2
    <3> QED  BY <1>2, <1>4, <3>1
  <2> QED  BY <2>1, <2>2
<1>6. d = c
  BY <1>1, <1>2, <1>4, <1>5, SeqEqual
<1> QED  BY <1>1, <1>2, <1>6

\* The halves of a signature, cut and joined.
LEMMA HalvesJoin ==
  ASSUME NEW b \in Seq(Cells), Len(b) = ED25519_SIGNATURE_LENGTH
  PROVE  /\ R(b) \in Components /\ S(b) \in Components
         /\ R(b) \o S(b) = b
         /\ Len(S(b)) = COMPONENT_SIZE
<1> DEFINE n == COMPONENT_SIZE
<1>1. n \in Nat /\ Len(b) = n * 2
  BY LengthAssumption DEF ED25519_SIGNATURE_LENGTH
<1> HIDE DEF n
<1>2. R(b) \in Seq(Cells) /\ Len(R(b)) = n /\ \A i \in 1 .. n : R(b)[i] = b[i]
  <2>1. R(b) = SubSeq(b, 1, n)
    BY DEF R, n
  <2> QED  BY <1>1, <2>1
<1>3. S(b) \in Seq(Cells) /\ Len(S(b)) = n /\ \A i \in 1 .. n : S(b)[i] = b[n + i]
  <2>1. S(b) = SubSeq(b, n + 1, 2 * n)
    BY <1>1 DEF S, n
  <2> QED  BY <1>1, <2>1
<1>4. R(b) \o S(b) \in Seq(Cells) /\ Len(R(b) \o S(b)) = n + n
  BY <1>1, <1>2, <1>3, ConcatProperties, ZenonT(60)
<1>5. \A i \in 1 .. n + n : (R(b) \o S(b))[i] = b[i]
  <2> TAKE i \in 1 .. n + n
  <2>1. CASE i <= n
    <3>1. i \in 1 .. Len(R(b))
      BY <1>1, <1>2, <2>1
    <3> QED  BY <1>2, <1>3, <3>1, ConcatProperties
  <2>2. CASE ~ (i <= n)
    <3>1. i - n \in 1 .. n /\ n + (i - n) = i
      BY <1>1, <2>2
    <3>2. (R(b) \o S(b))[n + (i - n)] = S(b)[i - n]
      BY <1>1, <1>2, <1>3, <3>1, ConcatProperties
    <3> QED  BY <1>3, <3>1, <3>2
  <2> QED  BY <2>1, <2>2
<1>6. R(b) \o S(b) = b
  <2> DEFINE c == R(b) \o S(b)
  <2>1. n + n = Len(b)
    BY <1>1
  <2>2. c \in Seq(Cells) /\ Len(c) = Len(b) /\ \A i \in 1 .. Len(c) : c[i] = b[i]
    BY <1>4, <1>5, <2>1
  <2> HIDE DEF c
  <2> QED  BY <2>2, SeqEqual DEF c
<1> QED  BY <1>1, <1>2, <1>3, <1>6, ArraysAreStrings DEF Components, n

LEMMA HalvesCut ==
  ASSUME NEW r \in Components, NEW s \in Components
  PROVE  /\ r \o s \in Seq(Cells) /\ Len(r \o s) = ED25519_SIGNATURE_LENGTH
         /\ R(r \o s) = r /\ S(r \o s) = s
<1> DEFINE n == COMPONENT_SIZE
           b == r \o s
<1>1. n \in Nat /\ r \in Seq(Cells) /\ s \in Seq(Cells) /\ Len(r) = n /\ Len(s) = n
  BY LengthAssumption, ArraysAreStrings DEF Components
<1>2. b \in Seq(Cells) /\ Len(b) = n + n
      /\ \A i \in 1 .. n : b[i] = r[i] /\ b[n + i] = s[i]
  <2>1. b \in Seq(Cells)
    BY <1>1, ConcatProperties
  <2>2. Len(b) = n + n
    BY <1>1, ConcatProperties
  <2>3. \A i \in 1 .. n : b[i] = r[i] /\ b[n + i] = s[i]
    BY <1>1, ConcatProperties
  <2> HIDE DEF b
  <2> QED  BY <2>1, <2>2, <2>3
<1>3. Len(b) = ED25519_SIGNATURE_LENGTH
  BY <1>1, <1>2 DEF ED25519_SIGNATURE_LENGTH
<1>4. R(b) \in Seq(Cells) /\ Len(R(b)) = n /\ \A i \in 1 .. n : R(b)[i] = b[i]
  <2> HIDE DEF b
  <2> QED  BY <1>1, <1>2 DEF R
<1>5. S(b) \in Seq(Cells) /\ Len(S(b)) = n /\ \A i \in 1 .. n : S(b)[i] = b[n + i]
  <2> HIDE DEF b
  <2>1. S(b) = SubSeq(b, n + 1, n + n)
    BY <1>2 DEF S
  <2> HIDE DEF n
  <2> DEFINE k == n + 1
             h == n + n
             c == SubSeq(b, k, h)
  <2>2. /\ k \in Int /\ h \in Int /\ k <= h + 1 /\ (h - k) + 1 = n
        /\ \A i \in k .. h : i \in 1 .. Len(b)
        /\ \A i \in 1 .. n : (k + i) - 1 = n + i
    BY <1>1, <1>2
  <2>3. S(b) = c
    BY <2>1
  <2> HIDE DEF k, h
  <2>4. \A i \in k .. h : b[i] \in Cells
    BY <1>2, <2>2
  <2>5. c \in Seq(Cells)
    BY <2>2, <2>4, SubSeqProperties
  <2>6. Len(c) = IF k <= h THEN (h - k) + 1 ELSE 0
    BY <2>2, <2>4, SubSeqProperties
  <2>7. \A i \in 1 .. (h - k) + 1 : c[i] = b[(k + i) - 1]
    BY <2>2, <2>4, SubSeqProperties
  <2> HIDE DEF c
  <2>8. Len(c) = n
    BY <1>1, <2>2, <2>6
  <2>9. \A i \in 1 .. n : c[i] = b[n + i]
    BY <2>2, <2>7
  <2> QED  BY <2>3, <2>5, <2>8, <2>9
<1>6. R(b) = r /\ S(b) = s
  <2> HIDE DEF b, n
  <2> QED  BY <1>1, <1>2, <1>4, <1>5, SeqEqual
<1> QED  BY <1>2, <1>3, <1>6

-----------------------------------------------------------------------------
(* What is written is read back.                                           *)

LEMMA KeyContent ==
  ASSUME NEW v
  PROVE  v \in PublicKeys <=>
           \E b \in Seq(Cells) :
             \/ v = Ed25519(b) /\ Len(b) = ED25519_PUBLIC_KEY_LENGTH
             \/ v = Secp256k1(b) /\ Len(b) = SECP256K1_PUBLIC_KEY_LENGTH
BY ArraysAreStrings, LengthAssumption DEF PublicKeys

LEMMA SignatureContent ==
  ASSUME NEW v
  PROVE  v \in Signatures <=>
           \/ \E r, s \in Components : v = Ed25519(<<r, s>>)
           \/ \E b \in Seq(Cells) :
                v = Secp256k1(b) /\ Len(b) = SECP256K1_SIGNATURE_LENGTH
<1> DEFINE Eds == {Ed25519(halves) : halves \in Components \X Components}
           Secps == {Secp256k1(b) : b \in [1 .. SECP256K1_SIGNATURE_LENGTH -> Cells]}
<1>1. v \in Eds <=> \E r, s \in Components : v = Ed25519(<<r, s>>)
  <2>1. ASSUME NEW halves \in Components \X Components
        PROVE  \E r, s \in Components : halves = <<r, s>>
    OBVIOUS
  <2>2. ASSUME NEW r \in Components, NEW s \in Components
        PROVE  <<r, s>> \in Components \X Components
    OBVIOUS
  <2>3. v \in Eds <=> \E halves \in Components \X Components : v = Ed25519(halves)
    OBVIOUS
  <2>4. ASSUME v \in Eds
        PROVE  \E r, s \in Components : v = Ed25519(<<r, s>>)
    <3>1. PICK halves \in Components \X Components : v = Ed25519(halves)
      BY <2>3, <2>4
    <3>2. PICK r \in Components, s \in Components : halves = <<r, s>>
      BY <2>1
    <3> QED  BY <3>1, <3>2
  <2>5. ASSUME NEW r \in Components, NEW s \in Components, v = Ed25519(<<r, s>>)
        PROVE  v \in Eds
    <3>1. <<r, s>> \in Components \X Components
      BY <2>2
    <3> QED  BY <2>3, <2>5, <3>1
  <2> HIDE DEF Eds
  <2> QED  BY <2>4, <2>5
<1>2. v \in Secps <=> \E b \in Seq(Cells) :
                         v = Secp256k1(b) /\ Len(b) = SECP256K1_SIGNATURE_LENGTH
  BY ArraysAreStrings, LengthAssumption
<1>3. Signatures = Eds \cup Secps
  BY DEF Signatures
<1> QED  BY <1>1, <1>2, <1>3

\* A signature is told from its variant.
LEMMA SignatureVariant ==
  ASSUME NEW v \in Signatures
  PROVE  /\ v.variant = "ED25519" =>
              \E r, s \in Components : v = Ed25519(<<r, s>>) /\ v.value[1] = r /\ v.value[2] = s
         /\ v.variant # "ED25519" =>
              \E b \in Seq(Cells) : /\ v = Secp256k1(b) /\ v.value = b
                                    /\ Len(b) = SECP256K1_SIGNATURE_LENGTH
<1>1. ASSUME NEW r \in Components, NEW s \in Components, v = Ed25519(<<r, s>>)
      PROVE  v.variant = "ED25519" /\ v.value[1] = r /\ v.value[2] = s
  BY <1>1 DEF Ed25519
<1>2. ASSUME NEW b \in Seq(Cells), v = Secp256k1(b)
      PROVE  v.variant # "ED25519" /\ v.value = b
  BY <1>2 DEF Secp256k1
<1> QED  BY <1>1, <1>2, SignatureContent

LEMMA ComponentIsString ==
  ASSUME NEW r \in Components
  PROVE  r \in Seq(Cells) /\ Len(r) = COMPONENT_SIZE
BY ArraysAreStrings, LengthAssumption DEF Components

\* In each of its forms, a public key is a message and is read back.
LEMMA KeyReadBack ==
  ASSUME NEW v \in PublicKeys, NEW m \in Spellings("key", v)
  PROVE  m \in Messages("key") /\ Parsed("key", m) = Ok(v)
<1> USE LengthAssumption DEF Ed25519, Secp256k1, Ok, Error, Panic
<1>1. PICK b \in Seq(Cells) :
        \/ v = Ed25519(b) /\ Len(b) = ED25519_PUBLIC_KEY_LENGTH
        \/ v = Secp256k1(b) /\ Len(b) = SECP256K1_PUBLIC_KEY_LENGTH
  BY KeyContent
<1>2. v.value = b /\ v.variant \in {"ED25519", "SECP256K1"}
  BY <1>1
<1>3. CASE m = Json("key", v)
  <2> DEFINE e == [name |-> v.variant, bytes |-> b]
  <2>1. m = [form |-> "map", entries |-> <<e>>]
    BY <1>2, <1>3 DEF Json, PublicKeyToJson
  <2>2. e \in Entries
    BY <1>2 DEF Entries, Names
  <2>3. m \in MapMessages
    BY <2>1, <2>2 DEF MapMessages
  <2>4. PublicKeyTryFrom(b) = Ok(v)
    BY <1>1 DEF PublicKeyTryFrom
  <2>5. PublicKeyFromJson(m) = PublicKeyTryFrom(b)
    BY <1>2, <2>1 DEF PublicKeyFromJson
  <2>6. Parsed("key", m) = PublicKeyFromJson(m)
    BY <2>1 DEF Parsed
  <2> QED  BY <2>3, <2>4, <2>5, <2>6 DEF Messages
<1>4. CASE m = Borsh("key", v)
  <2> DEFINE t == IF v.variant = "ED25519" THEN 0 ELSE 1
             c == <<t>> \o b
  <2>1. m = [form |-> "borsh", bytes |-> c]
    BY <1>2, <1>4 DEF Borsh, PublicKeyToBorsh
  <2>2. c \in Tagged /\ c # << >> /\ c[1] = t /\ Tail(c) = b /\ Len(c) = 1 + Len(b)
    <3>1. t \in {0, 1}
      OBVIOUS
    <3> QED  BY <3>1, TagComesOff
  <2>3. \/ v = Ed25519(b) /\ Len(b) = ED25519_PUBLIC_KEY_LENGTH /\ t = 0
        \/ v = Secp256k1(b) /\ Len(b) = SECP256K1_PUBLIC_KEY_LENGTH /\ t = 1
    BY <1>1
  <2> HIDE DEF c, t
  <2>4. m \in TaggedMessages
    BY <2>1, <2>2 DEF TaggedMessages
  <2>5. PublicKeyFromBorsh(c) = Ok(v)
    <3>1. CASE v = Ed25519(b) /\ Len(b) = ED25519_PUBLIC_KEY_LENGTH /\ t = 0
      <4>1. c # << >> /\ c[1] = 0 /\ Len(c) = 1 + ED25519_PUBLIC_KEY_LENGTH /\ Tail(c) = b
        BY <2>2, <3>1
      <4> QED  BY <3>1, <4>1 DEF PublicKeyFromBorsh
    <3>2. CASE v = Secp256k1(b) /\ Len(b) = SECP256K1_PUBLIC_KEY_LENGTH /\ t = 1
      <4>1. c # << >> /\ c[1] # 0 /\ c[1] = 1 /\ Len(c) = 1 + SECP256K1_PUBLIC_KEY_LENGTH /\ Tail(c) = b
        BY <2>2, <3>2
      <4> QED  BY <3>2, <4>1 DEF PublicKeyFromBorsh
    <3> QED  BY <2>3, <3>1, <3>2
  <2>6. Parsed("key", m) = PublicKeyFromBorsh(c)
    BY <2>1 DEF Parsed
  <2> QED  BY <2>4, <2>5, <2>6 DEF Messages
<1>5. CASE m = Text("key", v)
  <2> DEFINE t == [prefix |-> IF v.variant = "ED25519" THEN "ed25519" ELSE "secp256k1",
                   data   |-> <<b>>]
  <2>1. m = [form |-> "text", text |-> t]
    BY <1>2, <1>5 DEF Text, TextForm
  <2>2. t \in Texts
    BY DEF Texts, KeyPrefixes
  <2>3. m \in TextMessages
    BY <2>1, <2>2 DEF TextMessages
  <2>4. /\ t.data = <<b>>
        /\ \/ /\ v = Ed25519(b) /\ Len(b) = ED25519_PUBLIC_KEY_LENGTH
              /\ t.prefix = "ed25519"
           \/ /\ v = Secp256k1(b) /\ Len(b) = SECP256K1_PUBLIC_KEY_LENGTH
              /\ t.prefix = "secp256k1"
    BY <1>1
  <2> HIDE DEF t
  <2>5. IsBase58(t) /\ Bytes(t) = b
    BY <2>4 DEF IsBase58, Bytes
  <2>6. ToPublicKeyAsBytes(t) = Ok(b)
    BY <2>4, <2>5 DEF ToPublicKeyAsBytes, Array
  <2>7. ToPublicKey(t) = Ok(v)
    <3>1. /\ ToPublicKeyAsBytes(t).value # << >>
          /\ ToPublicKeyAsBytes(t).value[1] = b
      BY <2>6
    <3> QED  BY <2>4, <3>1 DEF ToPublicKey
  <2>8. Parsed("key", m) = ToPublicKey(t)
    BY <2>1 DEF Parsed, PublicKeyFromJson
  <2> QED  BY <2>3, <2>7, <2>8 DEF Messages
<1> QED  BY <1>3, <1>4, <1>5 DEF Spellings

\* The same of a signature, which the library writes in two forms.
LEMMA SignatureReadBack ==
  ASSUME NEW v \in Signatures, NEW m \in Spellings("signature", v)
  PROVE  m \in Messages("signature") /\ Parsed("signature", m) = Ok(v)
<1> USE LengthAssumption DEF Ed25519, Secp256k1, Ok, Error, Panic
<1> DEFINE ed == v.variant = "ED25519"
           b == IF ed THEN v.value[1] \o v.value[2] ELSE v.value
           t == IF ed THEN 0 ELSE 1
           text == [prefix |-> IF ed THEN "ed25519" ELSE "secp256k1", data |-> <<b>>]
<1>1. /\ b \in Seq(Cells)
      /\ IF ed THEN /\ Len(b) = ED25519_SIGNATURE_LENGTH
                    /\ v = Ed25519(Halves(b))
               ELSE /\ Len(b) = SECP256K1_SIGNATURE_LENGTH
                    /\ v = Secp256k1(b)
  <2>1. CASE ed
    <3>1. PICK r \in Components, s \in Components :
            v = Ed25519(<<r, s>>) /\ v.value[1] = r /\ v.value[2] = s
      BY <2>1, SignatureVariant
    <3>2. b = r \o s
      BY <2>1, <3>1
    <3>3. b \in Seq(Cells) /\ Len(b) = ED25519_SIGNATURE_LENGTH /\ Halves(b) = <<r, s>>
      <4> HIDE DEF b
      <4>1. /\ r \o s \in Seq(Cells) /\ Len(r \o s) = ED25519_SIGNATURE_LENGTH
            /\ R(r \o s) = r /\ S(r \o s) = s
        BY HalvesCut
      <4> QED  BY <3>2, <4>1 DEF Halves
    <3> QED  BY <2>1, <3>1, <3>3
  <2>2. CASE ~ ed
    BY <2>2, SignatureVariant
  <2> QED  BY <2>1, <2>2
<1>2. CASE m = Json("signature", v)
  <2>1. m = [form |-> "text", text |-> text]
    BY <1>2 DEF Json, SignatureToJson
  <2> HIDE DEF b
  <2>2. text \in Texts
    BY <1>1 DEF Texts, KeyPrefixes
  <2>3. /\ text.prefix = IF ed THEN "ed25519" ELSE "secp256k1"
        /\ text.data = <<b>>
    OBVIOUS
  <2> HIDE DEF text
  <2>4. m \in TextMessages
    BY <2>1, <2>2 DEF TextMessages
  <2>5. IsBase58(text) /\ Bytes(text) = b
    BY <2>3 DEF IsBase58, Bytes
  <2>6. SignatureFromJson(m) = Ok(v)
    <3>1. CASE ed
      <4>1. Len(S(b)) = COMPONENT_SIZE
        BY <1>1, <3>1, HalvesJoin
      <4>2. ~ (Len(b) < COMPONENT_SIZE)
        BY <1>1, <3>1 DEF ED25519_SIGNATURE_LENGTH
      <4> QED  BY <1>1, <2>1, <2>3, <2>5, <3>1, <4>1, <4>2 DEF SignatureFromJson
    <3>2. CASE ~ ed
      BY <1>1, <2>1, <2>3, <2>5, <3>2 DEF SignatureFromJson
    <3> QED  BY <3>1, <3>2
  <2>7. Parsed("signature", m) = SignatureFromJson(m)
    BY <2>1 DEF Parsed
  <2> QED  BY <2>4, <2>6, <2>7 DEF Messages
<1>3. CASE m = Borsh("signature", v)
  <2> DEFINE c == <<t>> \o b
  <2>1. m = [form |-> "borsh", bytes |-> c]
    <3>1. SignatureToBorsh(v) = c
      <4>1. CASE ed
        <5>1. PICK r \in Components, s \in Components :
                v = Ed25519(<<r, s>>) /\ v.value[1] = r /\ v.value[2] = s
          BY <4>1, SignatureVariant
        <5>2. r \in Seq(Cells) /\ s \in Seq(Cells)
          BY ComponentIsString
        <5>3. (<<0>> \o r) \o s = <<0>> \o (r \o s)
          <6>1. <<0>> \in Seq(Cells \cup {0}) /\ r \in Seq(Cells \cup {0})
                /\ s \in Seq(Cells \cup {0})
            BY <5>2
          <6> QED  BY <6>1, ConcatAssociative
        <5> QED  BY <4>1, <5>1, <5>3 DEF SignatureToBorsh
      <4>2. CASE ~ ed
        BY <4>2 DEF SignatureToBorsh
      <4> QED  BY <4>1, <4>2
    <3> QED  BY <1>3, <3>1 DEF Borsh
  <2>2. c \in Tagged /\ c # << >> /\ c[1] = t /\ Tail(c) = b /\ Len(c) = 1 + Len(b)
    <3>1. t \in {0, 1}
      OBVIOUS
    <3> QED  BY <1>1, <3>1, TagComesOff
  <2> HIDE DEF c, b
  <2>3. m \in TaggedMessages
    BY <2>1, <2>2 DEF TaggedMessages
  <2>4. SignatureFromBorsh(c) = Ok(v)
    BY <1>1, <2>2 DEF SignatureFromBorsh
  <2>5. Parsed("signature", m) = SignatureFromBorsh(c)
    BY <2>1 DEF Parsed
  <2> QED  BY <2>3, <2>4, <2>5 DEF Messages
<1> QED  BY <1>2, <1>3 DEF Spellings

LEMMA HashReadBack ==
  ASSUME NEW v \in Hashes, NEW m \in Spellings("hash", v)
  PROVE  m \in Messages("hash") /\ Parsed("hash", m) = Ok(v)
<1>1. v \in Seq(Cells) /\ Len(v) = HASH_LENGTH
  BY ArraysAreStrings, LengthAssumption DEF Hashes
<1>2. Array(v, HASH_LENGTH) = Ok(v)
  BY <1>1 DEF Array
<1>3. CASE m = Json("hash", v)
  <2>1. m = [form |-> "array", bytes |-> v]
    BY <1>3 DEF Json, BlockHashToJson
  <2>2. m \in ArrayMessages
    BY <1>1, <2>1 DEF ArrayMessages
  <2> QED  BY <1>2, <2>1, <2>2 DEF Messages, Parsed, BlockHashFromJson
<1>4. CASE m = Borsh("hash", v)
  <2>1. m = [form |-> "borsh", bytes |-> v]
    BY <1>4 DEF Borsh
  <2>2. m \in PlainMessages
    BY <1>1, <2>1 DEF PlainMessages
  <2> QED  BY <1>2, <2>1, <2>2 DEF Messages, Parsed, BlockHashFromBorsh
<1>5. CASE m = Text("hash", v)
  <2> DEFINE t == [prefix |-> "none", data |-> <<v>>]
  <2>1. m = [form |-> "text", text |-> t]
    BY <1>5 DEF Text, TextForm
  <2>2. t \in Texts
    BY <1>1 DEF Texts, KeyPrefixes
  <2>3. m \in TextMessages
    BY <2>1, <2>2 DEF TextMessages
  <2>4. ToBlockHash(t) = Ok(v)
    BY <1>2 DEF ToBlockHash, DecodeBase58ToFixedBytes, IsBase58, Bytes
  <2> QED  BY <2>1, <2>3, <2>4 DEF Messages, Parsed, BlockHashFromJson
<1> QED  BY <1>3, <1>4, <1>5 DEF Spellings

LEMMA ReadBack ==
  ASSUME NEW k \in Kinds, NEW v \in ValuesOf(k), NEW m \in Spellings(k, v)
  PROVE  m \in Messages(k) /\ Parsed(k, m) = Ok(v)
BY KeyReadBack, SignatureReadBack, HashReadBack DEF Kinds, ValuesOf

-----------------------------------------------------------------------------
(* What is accepted.                                                       *)

LEMMA MessageShape ==
  ASSUME NEW k \in Kinds, NEW m \in Messages(k)
  PROVE  \/ m.form = "text" /\ m \in TextMessages
         \/ k = "key" /\ m.form = "map" /\ m \in MapMessages
         \/ k \in {"key", "signature"} /\ m.form = "borsh" /\ m \in TaggedMessages
         \/ k = "hash" /\ m.form = "array" /\ m \in ArrayMessages
         \/ k = "hash" /\ m.form = "borsh" /\ m \in PlainMessages
<1>1. m \in TextMessages => m.form = "text"
  BY DEF TextMessages
<1>2. m \in MapMessages => m.form = "map"
  BY DEF MapMessages
<1>3. m \in TaggedMessages \cup PlainMessages => m.form = "borsh"
  BY DEF TaggedMessages, PlainMessages
<1>4. m \in ArrayMessages => m.form = "array"
  BY DEF ArrayMessages
<1> QED  BY <1>1, <1>2, <1>3, <1>4 DEF Messages, Kinds

LEMMA TextShape ==
  ASSUME NEW m \in TextMessages
  PROVE  /\ m.form = "text"
         /\ m = [form |-> "text", text |-> m.text]
         /\ m.text = [prefix |-> m.text.prefix, data |-> m.text.data]
         /\ IsBase58(m.text) => /\ Bytes(m.text) \in Seq(Cells)
                                /\ m.text.data = <<Bytes(m.text)>>
<1>1. m.form = "text" /\ m.text \in Texts /\ m = [form |-> "text", text |-> m.text]
  BY DEF TextMessages
<1> DEFINE t == m.text
<1> HIDE DEF t
<1>2. t \in Texts
  BY <1>1 DEF t
<1>3. t = [prefix |-> t.prefix, data |-> t.data]
  BY <1>2 DEF Texts
<1>4. IsBase58(t) => Bytes(t) \in Seq(Cells) /\ t.data = <<Bytes(t)>>
  BY <1>2 DEF Texts, IsBase58, Bytes
<1> QED  BY <1>1, <1>3, <1>4 DEF t

\* A public key that is accepted is one, and text and Borsh are its own forms.
LEMMA KeyAccepted ==
  ASSUME NEW m \in Messages("key"), Parsed("key", m).value # << >>
  PROVE  \E v \in PublicKeys :
           /\ Parsed("key", m) = Ok(v)
           /\ m.form \in {"text", "borsh"} => m \in Spellings("key", v)
<1> USE LengthAssumption DEF Ed25519, Secp256k1, Ok, Error, Panic
<1>1. CASE m.form = "text" /\ m \in TextMessages
  <2> DEFINE t == m.text
             b == Bytes(t)
  <2>1. Parsed("key", m) = ToPublicKey(t)
    BY <1>1 DEF Parsed, PublicKeyFromJson
  <2>2. m = [form |-> "text", text |-> t] /\ t = [prefix |-> t.prefix, data |-> t.data]
    BY <1>1, TextShape
  <2>3. IsBase58(t) /\ ToPublicKeyAsBytes(t).value # << >>
    BY <2>1 DEF ToPublicKey, ToPublicKeyAsBytes
  <2>4. b \in Seq(Cells) /\ t.data = <<b>>
    BY <1>1, <2>3, TextShape
  <2> HIDE DEF b, t
  <2>5. /\ ToPublicKeyAsBytes(t).value = <<b>>
        /\ \/ t.prefix = "ed25519" /\ Len(b) = ED25519_PUBLIC_KEY_LENGTH
           \/ t.prefix = "secp256k1" /\ Len(b) = SECP256K1_PUBLIC_KEY_LENGTH
    BY <2>3, <2>4 DEF ToPublicKeyAsBytes, Array, b
  <2>6. CASE t.prefix = "ed25519" /\ Len(b) = ED25519_PUBLIC_KEY_LENGTH
    <3>1. Ed25519(b) \in PublicKeys
      BY <2>4, <2>6, KeyContent
    <3>2. ToPublicKey(t) = Ok(Ed25519(b))
      BY <2>5, <2>6 DEF ToPublicKey
    <3>3. m = Text("key", Ed25519(b))
      BY <2>2, <2>4, <2>6 DEF Text, TextForm
    <3> QED  BY <2>1, <3>1, <3>2, <3>3 DEF Spellings
  <2>7. CASE t.prefix = "secp256k1" /\ Len(b) = SECP256K1_PUBLIC_KEY_LENGTH
    <3>1. Secp256k1(b) \in PublicKeys
      BY <2>4, <2>7, KeyContent
    <3>2. ToPublicKey(t) = Ok(Secp256k1(b))
      BY <2>5, <2>7 DEF ToPublicKey
    <3>3. m = Text("key", Secp256k1(b))
      BY <2>2, <2>4, <2>7 DEF Text, TextForm
    <3> QED  BY <2>1, <3>1, <3>2, <3>3 DEF Spellings
  <2> QED  BY <2>5, <2>6, <2>7
<1>2. CASE m.form = "map" /\ m \in MapMessages
  <2>1. Parsed("key", m) = PublicKeyFromJson(m)
    BY <1>2 DEF Parsed
  <2>2. /\ Len(m.entries) = 1
        /\ PublicKeyFromJson(m) = PublicKeyTryFrom(m.entries[1].bytes)
    BY <1>2, <2>1 DEF PublicKeyFromJson
  <2>3. m.entries[1] \in Entries
    <3>1. m.entries \in Seq(Entries)
      BY <1>2 DEF MapMessages
    <3> QED  BY <2>2, <3>1
  <2>4. PICK b \in Seq(Cells) : b = m.entries[1].bytes
    BY <2>3 DEF Entries
  <2>5. PublicKeyTryFrom(b).value # << >>
    BY <2>1, <2>2, <2>4
  <2>6. \/ PublicKeyTryFrom(b) = Ok(Ed25519(b)) /\ Len(b) = ED25519_PUBLIC_KEY_LENGTH
        \/ PublicKeyTryFrom(b) = Ok(Secp256k1(b)) /\ Len(b) = SECP256K1_PUBLIC_KEY_LENGTH
    BY <2>5 DEF PublicKeyTryFrom
  <2>7. Len(b) = ED25519_PUBLIC_KEY_LENGTH => Ed25519(b) \in PublicKeys
    BY KeyContent
  <2>8. Len(b) = SECP256K1_PUBLIC_KEY_LENGTH => Secp256k1(b) \in PublicKeys
    BY KeyContent
  <2>9. m.form \notin {"text", "borsh"}
    BY <1>2
  <2> QED  BY <2>1, <2>2, <2>4, <2>6, <2>7, <2>8, <2>9
<1>3. CASE m.form = "borsh" /\ m \in TaggedMessages
  <2> DEFINE c == m.bytes
             b == Tail(c)
  <2>1. Parsed("key", m) = PublicKeyFromBorsh(c)
    BY <1>3 DEF Parsed
  <2>2. c \in Tagged /\ m = [form |-> "borsh", bytes |-> c]
    BY <1>3 DEF TaggedMessages
  <2>3. c # << >>
    BY <2>1 DEF PublicKeyFromBorsh
  <2> HIDE DEF c
  <2>4. b \in Seq(Cells) /\ <<c[1]>> \o b = c /\ Len(c) = 1 + Len(b) /\ Len(b) \in Nat
    BY <2>2, <2>3, TagGoesBack
  <2>5. \/ /\ c[1] = 0 /\ Len(c) = 1 + ED25519_PUBLIC_KEY_LENGTH
           /\ PublicKeyFromBorsh(c) = Ok(Ed25519(b))
        \/ /\ c[1] = 1 /\ Len(c) = 1 + SECP256K1_PUBLIC_KEY_LENGTH
           /\ PublicKeyFromBorsh(c) = Ok(Secp256k1(b))
    BY <2>1, <2>3 DEF PublicKeyFromBorsh
  <2> HIDE DEF b
  <2>6. CASE /\ c[1] = 0 /\ Len(c) = 1 + ED25519_PUBLIC_KEY_LENGTH
             /\ PublicKeyFromBorsh(c) = Ok(Ed25519(b))
    <3>1. Len(b) = ED25519_PUBLIC_KEY_LENGTH
      BY <2>4, <2>6
    <3>2. Ed25519(b) \in PublicKeys
      BY <2>4, <3>1, KeyContent
    <3>3. m = Borsh("key", Ed25519(b))
      BY <2>2, <2>4, <2>6 DEF Borsh, PublicKeyToBorsh
    <3> QED  BY <2>1, <2>6, <3>2, <3>3 DEF Spellings
  <2>7. CASE /\ c[1] = 1 /\ Len(c) = 1 + SECP256K1_PUBLIC_KEY_LENGTH
             /\ PublicKeyFromBorsh(c) = Ok(Secp256k1(b))
    <3>1. Len(b) = SECP256K1_PUBLIC_KEY_LENGTH
      BY <2>4, <2>7
    <3>2. Secp256k1(b) \in PublicKeys
      BY <2>4, <3>1, KeyContent
    <3>3. m = Borsh("key", Secp256k1(b))
      BY <2>2, <2>4, <2>7 DEF Borsh, PublicKeyToBorsh
    <3> QED  BY <2>1, <2>7, <3>2, <3>3 DEF Spellings
  <2> QED  BY <2>5, <2>6, <2>7
<1> QED  BY <1>1, <1>2, <1>3, MessageShape DEF Kinds

\* The same of a signature, which is cut into halves.
LEMMA SignatureHalves ==
  ASSUME NEW b \in Seq(Cells), Len(b) = ED25519_SIGNATURE_LENGTH
  PROVE  /\ Ed25519(Halves(b)) \in Signatures
         /\ Ed25519(Halves(b)).variant = "ED25519"
         /\ Ed25519(Halves(b)).value[1] = R(b) /\ Ed25519(Halves(b)).value[2] = S(b)
         /\ R(b) \o S(b) = b
<1>1. R(b) \in Components /\ S(b) \in Components /\ R(b) \o S(b) = b
  BY HalvesJoin
<1> DEFINE v == Ed25519(Halves(b))
<1>2. v = Ed25519(<<R(b), S(b)>>)
  BY DEF Halves
<1>3. v \in Signatures
  <2> HIDE DEF v
  <2> QED  BY <1>1, <1>2, SignatureContent
<1>4. v.variant = "ED25519" /\ v.value[1] = R(b) /\ v.value[2] = S(b)
  BY DEF Halves, Ed25519
<1> QED  BY <1>1, <1>3, <1>4

LEMMA SignatureAccepted ==
  ASSUME NEW m \in Messages("signature"), Parsed("signature", m).value # << >>
  PROVE  \E v \in Signatures :
           /\ Parsed("signature", m) = Ok(v)
           /\ m \in Spellings("signature", v)
<1> USE LengthAssumption DEF Ok, Error, Panic
<1>1. CASE m.form = "text" /\ m \in TextMessages
  <2> DEFINE t == m.text
             b == Bytes(t)
  <2>1. Parsed("signature", m) = SignatureFromJson(m)
    BY <1>1 DEF Parsed
  <2>2. m = [form |-> "text", text |-> t] /\ t = [prefix |-> t.prefix, data |-> t.data]
    BY <1>1, TextShape
  <2>3. IsBase58(t)
    BY <2>1 DEF SignatureFromJson
  <2>4. b \in Seq(Cells) /\ t.data = <<b>> /\ Len(b) \in Nat
    <3>1. b \in Seq(Cells) /\ t.data = <<b>>
      BY <1>1, <2>3, TextShape
    <3> HIDE DEF b
    <3> QED  BY <3>1
  <2>5. \/ /\ t.prefix = "ed25519" /\ ~ (Len(b) < COMPONENT_SIZE)
           /\ Len(S(b)) = COMPONENT_SIZE
           /\ SignatureFromJson(m) = Ok(Ed25519(Halves(b)))
        \/ /\ t.prefix = "secp256k1" /\ Len(b) = SECP256K1_SIGNATURE_LENGTH
           /\ SignatureFromJson(m) = Ok(Secp256k1(b))
    BY <1>1, <2>1, <2>3 DEF SignatureFromJson
  <2> HIDE DEF b, t
  <2>6. CASE /\ t.prefix = "ed25519" /\ ~ (Len(b) < COMPONENT_SIZE)
             /\ Len(S(b)) = COMPONENT_SIZE
             /\ SignatureFromJson(m) = Ok(Ed25519(Halves(b)))
    <3> DEFINE v == Ed25519(Halves(b))
    <3>1. Len(b) = ED25519_SIGNATURE_LENGTH
      BY <2>4, <2>6 DEF S, ED25519_SIGNATURE_LENGTH
    <3>2. /\ v \in Signatures /\ v.variant = "ED25519"
          /\ v.value[1] \o v.value[2] = b
      <4>1. /\ v \in Signatures /\ v.variant = "ED25519"
            /\ v.value[1] = R(b) /\ v.value[2] = S(b) /\ R(b) \o S(b) = b
        BY <2>4, <3>1, SignatureHalves
      <4> QED  BY <4>1
    <3> HIDE DEF v
    <3>3. m = Json("signature", v)
      BY <2>2, <2>4, <2>6, <3>2 DEF Json, SignatureToJson
    <3>4. SignatureFromJson(m) = Ok(v)
      BY <2>6 DEF v
    <3> QED  BY <2>1, <3>2, <3>3, <3>4 DEF Spellings
  <2>7. CASE /\ t.prefix = "secp256k1" /\ Len(b) = SECP256K1_SIGNATURE_LENGTH
             /\ SignatureFromJson(m) = Ok(Secp256k1(b))
    <3> DEFINE v == Secp256k1(b)
    <3>1. v.variant = "SECP256K1" /\ v.value = b
      BY DEF Secp256k1
    <3>2. v \in Signatures
      BY <2>4, <2>7, SignatureContent
    <3> HIDE DEF v
    <3>3. m = Json("signature", v)
      BY <2>2, <2>4, <2>7, <3>1 DEF Json, SignatureToJson
    <3>4. SignatureFromJson(m) = Ok(v)
      BY <2>7 DEF v
    <3> QED  BY <2>1, <3>2, <3>3, <3>4 DEF Spellings
  <2> QED  BY <2>5, <2>6, <2>7
<1>2. CASE m.form = "borsh" /\ m \in TaggedMessages
  <2> DEFINE c == m.bytes
             b == Tail(c)
  <2>1. Parsed("signature", m) = SignatureFromBorsh(c)
    BY <1>2 DEF Parsed
  <2>2. c \in Tagged /\ m = [form |-> "borsh", bytes |-> c]
    BY <1>2 DEF TaggedMessages
  <2>3. c # << >>
    BY <2>1 DEF SignatureFromBorsh
  <2> HIDE DEF c
  <2>4. b \in Seq(Cells) /\ <<c[1]>> \o b = c
    BY <2>2, <2>3, TagGoesBack
  <2>5. \/ /\ c[1] = 0 /\ Len(b) = ED25519_SIGNATURE_LENGTH
           /\ SignatureFromBorsh(c) = Ok(Ed25519(Halves(b)))
        \/ /\ c[1] = 1 /\ Len(b) = SECP256K1_SIGNATURE_LENGTH
           /\ SignatureFromBorsh(c) = Ok(Secp256k1(b))
    BY <2>1, <2>3 DEF SignatureFromBorsh
  <2> HIDE DEF b
  <2>6. CASE /\ c[1] = 0 /\ Len(b) = ED25519_SIGNATURE_LENGTH
             /\ SignatureFromBorsh(c) = Ok(Ed25519(Halves(b)))
    <3> DEFINE v == Ed25519(Halves(b))
    <3>1. /\ v \in Signatures /\ v.variant = "ED25519"
          /\ v.value[1] = R(b) /\ v.value[2] = S(b) /\ R(b) \o S(b) = b
      BY <2>4, <2>6, SignatureHalves
    <3>2. SignatureFromBorsh(c) = Ok(v)
      BY <2>6
    <3> HIDE DEF v
    <3>3. (<<0>> \o v.value[1]) \o v.value[2] = <<0>> \o b
      <4>1. R(b) \in Components /\ S(b) \in Components
        BY <2>4, <2>6, HalvesJoin
      <4>2. R(b) \in Seq(Cells \cup {0}) /\ S(b) \in Seq(Cells \cup {0})
            /\ <<0>> \in Seq(Cells \cup {0})
        BY <4>1, ComponentIsString
      <4>3. (<<0>> \o R(b)) \o S(b) = <<0>> \o (R(b) \o S(b))
        BY <4>2, ConcatAssociative
      <4> QED  BY <3>1, <4>3
    <3>4. m = Borsh("signature", v)
      BY <2>2, <2>4, <2>6, <3>1, <3>3 DEF Borsh, SignatureToBorsh
    <3> QED  BY <2>1, <3>1, <3>2, <3>4 DEF Spellings
  <2>7. CASE /\ c[1] = 1 /\ Len(b) = SECP256K1_SIGNATURE_LENGTH
             /\ SignatureFromBorsh(c) = Ok(Secp256k1(b))
    <3> DEFINE v == Secp256k1(b)
    <3>1. v.variant = "SECP256K1" /\ v.value = b
      BY DEF Secp256k1
    <3>2. v \in Signatures
      BY <2>4, <2>7, SignatureContent
    <3>3. SignatureFromBorsh(c) = Ok(v)
      BY <2>7
    <3> HIDE DEF v
    <3>4. m = Borsh("signature", v)
      BY <2>2, <2>4, <2>7, <3>1 DEF Borsh, SignatureToBorsh
    <3> QED  BY <2>1, <3>2, <3>3, <3>4 DEF Spellings
  <2> QED  BY <2>5, <2>6, <2>7
<1> QED  BY <1>1, <1>2, MessageShape DEF Kinds

LEMMA HashAccepted ==
  ASSUME NEW m \in Messages("hash"), Parsed("hash", m).value # << >>
  PROVE  \E v \in Hashes : Parsed("hash", m) = Ok(v) /\ m \in Spellings("hash", v)
<1> USE LengthAssumption DEF Ok, Error
<1>1. \A b \in Seq(Cells) :
        Array(b, HASH_LENGTH).value # << >> => b \in Hashes /\ Array(b, HASH_LENGTH) = Ok(b)
  BY ArraysAreStrings DEF Array, Hashes
<1>2. CASE m.form = "text" /\ m \in TextMessages
  <2> DEFINE t == m.text
             b == Bytes(t)
  <2>1. Parsed("hash", m) = ToBlockHash(t)
    BY <1>2 DEF Parsed, BlockHashFromJson
  <2>2. m = [form |-> "text", text |-> t] /\ t = [prefix |-> t.prefix, data |-> t.data]
    BY <1>2, TextShape
  <2>3. t.prefix = "none" /\ IsBase58(t) /\ ToBlockHash(t) = Array(b, HASH_LENGTH)
    BY <2>1 DEF ToBlockHash, DecodeBase58ToFixedBytes
  <2>4. b \in Seq(Cells) /\ t.data = <<b>>
    BY <1>2, <2>3, TextShape
  <2> HIDE DEF b, t
  <2>5. b \in Hashes /\ Parsed("hash", m) = Ok(b)
    BY <1>1, <2>1, <2>3, <2>4
  <2>6. m = Text("hash", b)
    BY <2>2, <2>3, <2>4 DEF Text, TextForm
  <2> QED  BY <2>5, <2>6 DEF Spellings
<1>3. CASE m.form = "array" /\ m \in ArrayMessages
  <2>1. m = [form |-> "array", bytes |-> m.bytes] /\ m.bytes \in Seq(Cells)
    BY <1>3 DEF ArrayMessages
  <2>2. Parsed("hash", m) = Array(m.bytes, HASH_LENGTH)
    BY <1>3 DEF Parsed, BlockHashFromJson
  <2>3. m = Json("hash", m.bytes)
    BY <2>1 DEF Json, BlockHashToJson
  <2> QED  BY <1>1, <2>1, <2>2, <2>3 DEF Spellings
<1>4. CASE m.form = "borsh" /\ m \in PlainMessages
  <2>1. m = [form |-> "borsh", bytes |-> m.bytes] /\ m.bytes \in Seq(Cells)
    BY <1>4 DEF PlainMessages
  <2>2. Parsed("hash", m) = Array(m.bytes, HASH_LENGTH)
    BY <1>4 DEF Parsed, BlockHashFromBorsh
  <2>3. m = Borsh("hash", m.bytes)
    BY <2>1 DEF Borsh
  <2> QED  BY <1>1, <2>1, <2>2, <2>3 DEF Spellings
<1> QED  BY <1>2, <1>3, <1>4, MessageShape DEF Kinds

LEMMA MessageAccepted ==
  ASSUME NEW k \in Kinds, NEW m \in Messages(k), Parsed(k, m).value # << >>
  PROVE  \E v \in ValuesOf(k) :
           /\ Parsed(k, m) = Ok(v)
           /\ m.form \in {"text", "borsh"} => m \in Spellings(k, v)
BY KeyAccepted, SignatureAccepted, HashAccepted DEF Kinds, ValuesOf

-----------------------------------------------------------------------------
(* What a message is spoilt into is a message of the same kind.            *)

LEMMA BytesAreStrings == ByteStrings \subseteq Seq(Cells) /\ Seq(Cells) \subseteq Tagged
<1>1. ByteStrings \subseteq Seq(Cells)
  BY DEF ByteStrings
<1>2. ASSUME NEW b \in Seq(Cells)
      PROVE  b \in Tagged
  BY DEF Tagged
<1> QED  BY <1>1, <1>2

LEMMA SpoilingsAreMessages ==
  ASSUME NEW k \in Kinds, NEW v \in ValuesOf(k), NEW m \in Spellings(k, v), NEW n \in Spoilings(m)
  PROVE  n \in Messages(k)
<1>1. m \in Messages(k)
  BY ReadBack
<1>2. CASE m.form = "text" /\ m \in TextMessages
  <2>1. \A prefix \in KeyPrefixes, data \in {<< >>} \cup {<<b>> : b \in Seq(Cells)} :
          TextForm(prefix, data) \in TextMessages
    BY DEF TextForm, TextMessages, Texts
  <2>2. m.text.prefix \in KeyPrefixes /\ m.text.data \in {<< >>} \cup {<<b>> : b \in Seq(Cells)}
    BY <1>2 DEF TextMessages, Texts
  <2>3. {<<b>> : b \in ByteStrings} \subseteq {<<b>> : b \in Seq(Cells)}
    BY BytesAreStrings
  <2>4. n \in TextMessages
    BY <1>2, <2>1, <2>2, <2>3 DEF Spoilings, KeyPrefixes
  <2> QED  BY <2>4 DEF Messages
<1>3. CASE k = "key" /\ m.form = "map" /\ m \in MapMessages
  <2>1. m = Json("key", v)
    BY <1>3 DEF Spellings, Borsh, Text, TextForm
  <2>2. PICK e \in Entries : m.entries = <<e>>
    <3>1. m.entries = <<[name |-> v.variant, bytes |-> v.value]>>
      BY <2>1 DEF Json, PublicKeyToJson
    <3>2. m.entries \in Seq(Entries) /\ 1 \in DOMAIN m.entries
      BY <1>3, <3>1, SMTT(60) DEF MapMessages
    <3>3. m.entries[1] \in Entries
      BY <3>2
    <3> QED  BY <3>1, <3>3
  <2>3. \A x \in Seq(Entries) : MapForm(x) \in MapMessages
    BY DEF MapForm, MapMessages
  <2>4. \A name \in Names, b \in Seq(Cells) : <<KeyEntry(name, b)>> \in Seq(Entries)
    BY DEF KeyEntry, Entries
  <2>5. /\ m.entries[1].name \in Names /\ m.entries[1].bytes \in Seq(Cells)
        /\ << >> \in Seq(Entries) /\ m.entries \o m.entries \in Seq(Entries)
    BY <2>2 DEF Entries
  <2>6. \/ \E name \in Names : n = MapForm(<<KeyEntry(name, m.entries[1].bytes)>>)
        \/ \E b \in Seq(Cells) : n = MapForm(<<KeyEntry(m.entries[1].name, b)>>)
        \/ n = MapForm(<< >>) \/ n = MapForm(m.entries \o m.entries)
    BY <1>3, BytesAreStrings DEF Spoilings, Names
  <2>7. n \in MapMessages
    BY <2>3, <2>4, <2>5, <2>6
  <2> QED  BY <1>3, <2>7 DEF Messages
<1>4. CASE k \in {"key", "signature"} /\ m.form = "borsh" /\ m \in TaggedMessages
  <2>1. n \in TaggedMessages
    BY <1>4, BytesAreStrings DEF Spoilings, TaggedMessages
  <2> QED  BY <1>4, <2>1 DEF Messages
<1>5. CASE k = "hash" /\ m.form = "array" /\ m \in ArrayMessages
  <2>1. n \in ArrayMessages
    BY <1>5, BytesAreStrings DEF Spoilings, ArrayMessages
  <2> QED  BY <1>5, <2>1 DEF Messages
<1>6. CASE k = "hash" /\ m.form = "borsh" /\ m \in PlainMessages
  <2>1. n \in PlainMessages
    BY <1>6, BytesAreStrings DEF Spoilings, PlainMessages
  <2> QED  BY <1>6, <2>1 DEF Messages
<1> QED  BY <1>1, <1>2, <1>3, <1>4, <1>5, <1>6, MessageShape

-----------------------------------------------------------------------------
(* The way.                                                                *)

\* What is under way is a message of its kind, and until somebody spoils one
\* it is a form of what the first holder had.
TravelInv ==
  /\ kind \in Kinds
  /\ value \in ValuesOf(kind)
  /\ message # << >> => \E m \in Messages(kind) : message = <<m>>
  /\ ~spoilt => /\ value = origin /\ ~failed /\ ~panicked
                /\ message # << >> => \E m \in Spellings(kind, value) : message = <<m>>

LEMMA TravelInvStart == TravelInit => TravelInv
BY DEF TravelInit, TravelInv, Kinds, ValuesOf

LEMMA WriteKeeps ==
  ASSUME TravelInv, Write
  PROVE  TravelInv'
<1>1. PICK m \in Spellings(kind, value) : message' = <<m>>
  BY DEF Write
<1>2. kind \in Kinds /\ value \in ValuesOf(kind)
  BY DEF TravelInv
<1>3. m \in Messages(kind)
  BY <1>1, <1>2, ReadBack
<1>4. UNCHANGED <<kind, value, spoilt, failed, panicked, origin>>
  BY DEF Write
<1>5. message' # << >> => \E n \in Messages(kind') : message' = <<n>>
  BY <1>1, <1>3, <1>4
<1>6. \E n \in Spellings(kind', value') : message' = <<n>>
  BY <1>1, <1>4
<1>7. value' \in ValuesOf(kind')
  BY <1>2, <1>4
<1>8. ~spoilt' => value' = origin' /\ ~failed' /\ ~panicked'
  BY <1>4 DEF TravelInv
<1> QED  BY <1>2, <1>4, <1>5, <1>6, <1>7, <1>8 DEF TravelInv

LEMMA SpoilKeeps ==
  ASSUME TravelInv, Spoil
  PROVE  TravelInv'
<1>1. PICK n \in Spoilings(message[1]) : message' = <<n>>
  BY DEF Spoil
<1>2. kind \in Kinds /\ value \in ValuesOf(kind)
  BY DEF TravelInv
<1>3. PICK m \in Spellings(kind, value) : message = <<m>>
  BY DEF TravelInv, Spoil
<1>4. n \in Messages(kind)
  <2>1. message[1] = m
    BY <1>3
  <2> QED  BY <1>1, <1>2, <2>1, SpoilingsAreMessages
<1>5. spoilt' /\ UNCHANGED <<kind, value>>
  BY DEF Spoil
<1>6. \E x \in Messages(kind') : message' = <<x>>
  BY <1>1, <1>4, <1>5
<1>7. value' \in ValuesOf(kind')
  BY <1>2, <1>5
<1> QED  BY <1>2, <1>5, <1>6, <1>7 DEF TravelInv

LEMMA ReadKeeps ==
  ASSUME TravelInv, Read
  PROVE  TravelInv'
<1> DEFINE result == Parsed(kind, message[1])
<1>1. kind \in Kinds /\ value \in ValuesOf(kind)
  BY DEF TravelInv
<1>2. PICK m \in Messages(kind) : message = <<m>>
  BY DEF TravelInv, Read
<1>3. result = Parsed(kind, m)
  BY <1>2
<1>4. /\ failed' = (result.value = << >> /\ ~result.panicked)
      /\ panicked' = result.panicked
      /\ value' = IF result.value = << >> THEN value ELSE result.value[1]
      /\ message' = << >> /\ UNCHANGED <<kind, spoilt, hops, origin>>
  BY DEF Read
<1> HIDE DEF result
<1>5. value' \in ValuesOf(kind)
  <2>1. CASE result.value = << >>
    BY <1>1, <1>4, <2>1
  <2>2. CASE result.value # << >>
    <3>1. PICK v \in ValuesOf(kind) : result = Ok(v)
      BY <1>1, <1>2, <1>3, <2>2, MessageAccepted
    <3>2. result.value[1] = v
      BY <3>1 DEF Ok
    <3> QED  BY <1>4, <2>2, <3>2
  <2> QED  BY <2>1, <2>2
<1>6. ASSUME ~spoilt'
      PROVE  value' = origin' /\ ~failed' /\ ~panicked'
  <2>1. ~spoilt /\ value = origin
    BY <1>4, <1>6 DEF TravelInv
  <2>2. PICK s \in Spellings(kind, value) : message = <<s>>
    BY <1>2, <2>1 DEF TravelInv
  <2>3. m \in Spellings(kind, value)
    BY <1>2, <2>2
  <2>4. result = Ok(value)
    BY <1>1, <1>3, <2>3, ReadBack
  <2>5. result.value # << >> /\ result.value[1] = value /\ result.panicked = FALSE
    BY <2>4 DEF Ok
  <2> QED  BY <1>4, <2>1, <2>5
<1>7. message' = << >>
  BY <1>4
<1>8. value' \in ValuesOf(kind') /\ kind' \in Kinds
  BY <1>1, <1>4, <1>5
<1> QED  BY <1>6, <1>7, <1>8 DEF TravelInv

LEMMA TravelInvKept == TravelInv /\ [TravelNext]_travelVars => TravelInv'
<1> SUFFICES ASSUME TravelInv, [TravelNext]_travelVars
             PROVE  TravelInv'
  OBVIOUS
<1>1. CASE Write
  BY <1>1, WriteKeeps
<1>2. CASE Spoil
  BY <1>2, SpoilKeeps
<1>3. CASE Read
  BY <1>3, ReadKeeps
<1>4. CASE UNCHANGED travelVars
  BY <1>4 DEF travelVars, TravelInv
<1> QED  BY <1>1, <1>2, <1>3, <1>4 DEF TravelNext

\* What is under way is a spelling of what its sender holds, until it is
\* spoilt; every holder has a value of its type.
THEOREM Travelling == TravelSpec => []TravelInv
<1>1. TravelInit => TravelInv
  BY TravelInvStart
<1>2. TravelInv /\ [TravelNext]_travelVars => TravelInv'
  BY TravelInvKept
<1> QED  BY <1>1, <1>2, PTL DEF TravelSpec

\* However often a value changes its form, it stays what it was.
THEOREM NothingIsLost == TravelSpec => []TravelsUnchanged
<1>1. TravelInv => TravelsUnchanged
  BY DEF TravelInv, TravelsUnchanged
<1> QED  BY <1>1, Travelling, PTL

\* A reader returns values of its type only, whatever it is given.
THEOREM ReadersReturnTheirType == TravelSpec => []AcceptedWellFormed
<1>1. TravelInv => AcceptedWellFormed
  BY DEF TravelInv, AcceptedWellFormed, Kinds, ValuesOf
<1> QED  BY <1>1, Travelling, PTL

\* Each value has one text and one Borsh form.
THEOREM OneSpellingEach == TravelSpec => []AcceptedIsCanonical
<1>1. TravelInv => AcceptedIsCanonical
  <2> SUFFICES ASSUME TravelInv, NEW i \in DOMAIN message,
                      Parsed(kind, message[i]).value # << >>,
                      message[i].form \in {"text", "borsh"}
               PROVE  message[i] \in Spellings(kind, Parsed(kind, message[i]).value[1])
    BY DEF AcceptedIsCanonical
  <2>1. message # << >>
    OBVIOUS
  <2>2. PICK m \in Messages(kind) : message = <<m>>
    BY <2>1 DEF TravelInv
  <2>3. message[i] = m
    BY <2>2
  <2>4. PICK v \in ValuesOf(kind) : Parsed(kind, m) = Ok(v) /\ m \in Spellings(kind, v)
    BY <2>3, MessageAccepted DEF TravelInv
  <2>5. Parsed(kind, m).value[1] = v
    BY <2>4 DEF Ok
  <2> QED  BY <2>3, <2>4, <2>5
<1> QED  BY <1>1, Travelling, PTL

-----------------------------------------------------------------------------
(* The readers of a text.                                                  *)

LEMMA KeyReadersAgree ==
  ASSUME NEW m \in TextMessages
  PROVE  LET text == m.text
             key == ToPublicKey(text)
         IN /\ PublicKeyFromJson(m) = key
            /\ ToPublicKeyAsBytes(text) =
                 IF key.value = << >> THEN Error ELSE Ok(key.value[1].value)
            /\ TryEd25519KeyIntoBytes(text) = Only("ED25519", key)
            /\ TrySecp256k1KeyIntoBytes(text) = Only("SECP256K1", key)
<1> USE DEF Ed25519, Secp256k1, Ok, Error, Panic
<1> DEFINE t == m.text
           b == Bytes(t)
           key == ToPublicKey(t)
<1>1. PublicKeyFromJson(m) = key
  BY TextShape DEF PublicKeyFromJson
<1> HIDE DEF t, b
<1>2. CASE IsBase58(t) /\ t.prefix = "ed25519" /\ Len(b) = ED25519_PUBLIC_KEY_LENGTH
  <2>1. ToPublicKeyAsBytes(t) = Ok(b)
    BY <1>2 DEF ToPublicKeyAsBytes, Array, b
  <2>2. key = Ok(Ed25519(b))
    BY <1>2, <2>1 DEF ToPublicKey
  <2>3. TryEd25519KeyIntoBytes(t) = Ok(b) /\ TrySecp256k1KeyIntoBytes(t) = Error
    BY <1>2 DEF TryEd25519KeyIntoBytes, TrySecp256k1KeyIntoBytes, Array, b
  <2>4. /\ key.value # << >> /\ key.value[1].value = b
        /\ Only("ED25519", key) = Ok(b) /\ Only("SECP256K1", key) = Error
    <3> HIDE DEF key
    <3> QED  BY <2>2 DEF Only
  <2> HIDE DEF key
  <2> QED  BY <1>1, <2>1, <2>3, <2>4 DEF t, key
<1>3. CASE IsBase58(t) /\ t.prefix = "secp256k1" /\ Len(b) = SECP256K1_PUBLIC_KEY_LENGTH
  <2>1. ToPublicKeyAsBytes(t) = Ok(b)
    BY <1>3 DEF ToPublicKeyAsBytes, Array, b
  <2>2. key = Ok(Secp256k1(b))
    BY <1>3, <2>1 DEF ToPublicKey
  <2>3. TrySecp256k1KeyIntoBytes(t) = Ok(b) /\ TryEd25519KeyIntoBytes(t) = Error
    BY <1>3 DEF TryEd25519KeyIntoBytes, TrySecp256k1KeyIntoBytes, Array, b
  <2>4. /\ key.value # << >> /\ key.value[1].value = b
        /\ Only("SECP256K1", key) = Ok(b) /\ Only("ED25519", key) = Error
    <3> HIDE DEF key
    <3> QED  BY <2>2 DEF Only
  <2> HIDE DEF key
  <2> QED  BY <1>1, <2>1, <2>3, <2>4 DEF t, key
<1>4. CASE /\ ~ (IsBase58(t) /\ t.prefix = "ed25519" /\ Len(b) = ED25519_PUBLIC_KEY_LENGTH)
           /\ ~ (IsBase58(t) /\ t.prefix = "secp256k1" /\ Len(b) = SECP256K1_PUBLIC_KEY_LENGTH)
  <2>1. ToPublicKeyAsBytes(t) = Error
    BY <1>4 DEF ToPublicKeyAsBytes, Array, b
  <2>2. key = Error
    BY <2>1 DEF ToPublicKey
  <2>3. TryEd25519KeyIntoBytes(t) = Error /\ TrySecp256k1KeyIntoBytes(t) = Error
    BY <1>4 DEF TryEd25519KeyIntoBytes, TrySecp256k1KeyIntoBytes, Array, b
  <2>4. key.value = << >> /\ Only("ED25519", key) = Error /\ Only("SECP256K1", key) = Error
    <3> HIDE DEF key
    <3> QED  BY <2>2 DEF Only
  <2> HIDE DEF key
  <2> QED  BY <1>1, <2>1, <2>3, <2>4 DEF t, key
<1> QED  BY <1>2, <1>3, <1>4

\* JSON does not look at the length of the text, only at that of its halves.
LEMMA SignatureReadersAgree ==
  ASSUME NEW m \in TextMessages
  PROVE  LET text == m.text
             signature == ToSignature(text)
         IN /\ SignatureFromJson(m).value = signature.value
            /\ ToEd25519Signature(text) = Only("ED25519", signature)
            /\ ToSecp256k1Signature(text) = Only("SECP256K1", signature)
<1> USE LengthAssumption DEF Ed25519, Secp256k1, Ok, Error, Panic
<1> DEFINE t == m.text
           b == Bytes(t)
           signature == ToSignature(t)
<1>1. m.form = "text" /\ (IsBase58(t) => b \in Seq(Cells))
  BY TextShape
<1>2. IsBase58(t) => (Len(b) = ED25519_SIGNATURE_LENGTH <=>
                        ~ (Len(b) < COMPONENT_SIZE) /\ Len(S(b)) = COMPONENT_SIZE)
  <2> HIDE DEF b
  <2> QED  BY <1>1 DEF S, ED25519_SIGNATURE_LENGTH
<1> HIDE DEF b
<1>3. CASE IsBase58(t) /\ t.prefix = "ed25519" /\ Len(b) = ED25519_SIGNATURE_LENGTH
  <2>1. ToSignatureAsBytes(t) = Ok(b)
    BY <1>3 DEF ToSignatureAsBytes, Array, b
  <2>2. signature = Ok(Ed25519(Halves(b)))
    BY <1>3, <2>1 DEF ToSignature
  <2>3. SignatureFromJson(m) = Ok(Ed25519(Halves(b)))
    BY <1>1, <1>2, <1>3 DEF SignatureFromJson, b
  <2>4. TryEd25519SignatureIntoBytes(t) = Ok(b) /\ TrySecp256k1SignatureIntoBytes(t) = Error
    BY <1>3, <2>1 DEF TryEd25519SignatureIntoBytes, TrySecp256k1SignatureIntoBytes, Array
  <2>5. ToEd25519Signature(t) = Ok(Halves(b)) /\ ToSecp256k1Signature(t) = Error
    BY <2>4 DEF ToEd25519Signature, ToSecp256k1Signature
  <2>6. Only("ED25519", signature) = Ok(Halves(b)) /\ Only("SECP256K1", signature) = Error
    <3> HIDE DEF signature
    <3> QED  BY <2>2 DEF Only
  <2>7. SignatureFromJson(m).value = signature.value
    <3> HIDE DEF signature
    <3> QED  BY <2>2, <2>3
  <2> QED  BY <2>5, <2>6, <2>7
<1>4. CASE IsBase58(t) /\ t.prefix = "secp256k1" /\ Len(b) = SECP256K1_SIGNATURE_LENGTH
  <2>1. ToSignatureAsBytes(t) = Ok(b)
    BY <1>4 DEF ToSignatureAsBytes, Array, b
  <2>2. signature = Ok(Secp256k1(b))
    BY <1>4, <2>1 DEF ToSignature
  <2>3. SignatureFromJson(m) = Ok(Secp256k1(b))
    BY <1>1, <1>4 DEF SignatureFromJson, b
  <2>4. TrySecp256k1SignatureIntoBytes(t) = Ok(b) /\ TryEd25519SignatureIntoBytes(t) = Error
    BY <1>4, <2>1 DEF TryEd25519SignatureIntoBytes, TrySecp256k1SignatureIntoBytes, Array
  <2>5. ToSecp256k1Signature(t) = Ok(b) /\ ToEd25519Signature(t) = Error
    BY <2>4 DEF ToEd25519Signature, ToSecp256k1Signature
  <2>6. Only("SECP256K1", signature) = Ok(b) /\ Only("ED25519", signature) = Error
    <3> HIDE DEF signature
    <3> QED  BY <2>2 DEF Only
  <2>7. SignatureFromJson(m).value = signature.value
    <3> HIDE DEF signature
    <3> QED  BY <2>2, <2>3
  <2> QED  BY <2>5, <2>6, <2>7
<1>5. CASE /\ ~ (IsBase58(t) /\ t.prefix = "ed25519" /\ Len(b) = ED25519_SIGNATURE_LENGTH)
           /\ ~ (IsBase58(t) /\ t.prefix = "secp256k1" /\ Len(b) = SECP256K1_SIGNATURE_LENGTH)
  <2>1. ToSignatureAsBytes(t) = Error
    BY <1>5 DEF ToSignatureAsBytes, Array, b
  <2>2. signature = Error
    BY <2>1 DEF ToSignature
  <2>3. SignatureFromJson(m).value = << >>
    BY <1>1, <1>2, <1>5 DEF SignatureFromJson, b
  <2>4. TryEd25519SignatureIntoBytes(t) = Error /\ TrySecp256k1SignatureIntoBytes(t) = Error
    BY <2>1 DEF TryEd25519SignatureIntoBytes, TrySecp256k1SignatureIntoBytes
  <2>5. ToEd25519Signature(t) = Error /\ ToSecp256k1Signature(t) = Error
    BY <2>4 DEF ToEd25519Signature, ToSecp256k1Signature
  <2> QED  BY <2>2, <2>3, <2>5 DEF Only
<1> QED  BY <1>3, <1>4, <1>5

\* The functions that read a text do not contradict each other.
THEOREM ReadersNeverDisagree == TravelSpec => []ReadersAgree
<1>1. TravelInv => ReadersAgree
  <2> SUFFICES ASSUME TravelInv, NEW i \in DOMAIN message, message[i].form = "text"
               PROVE  LET text == message[i].text
                          key == ToPublicKey(text)
                          signature == ToSignature(text)
                      IN /\ kind = "key" =>
                              /\ PublicKeyFromJson(message[i]) = key
                              /\ ToPublicKeyAsBytes(text) =
                                   IF key.value = << >> THEN Error ELSE Ok(key.value[1].value)
                              /\ TryEd25519KeyIntoBytes(text) = Only("ED25519", key)
                              /\ TrySecp256k1KeyIntoBytes(text) = Only("SECP256K1", key)
                         /\ kind = "signature" =>
                              /\ SignatureFromJson(message[i]).value = signature.value
                              /\ ToEd25519Signature(text) = Only("ED25519", signature)
                              /\ ToSecp256k1Signature(text) = Only("SECP256K1", signature)
    BY DEF ReadersAgree
  <2>1. message # << >>
    OBVIOUS
  <2>2. PICK m \in Messages(kind) : message = <<m>>
    BY <2>1 DEF TravelInv
  <2>3. message[i] = m /\ m \in TextMessages
    BY <2>2, MessageShape DEF TravelInv
  <2> QED  BY <2>3, KeyReadersAgree, SignatureReadersAgree
<1> QED  BY <1>1, Travelling, PTL

-----------------------------------------------------------------------------
(* Borsh: row of codecs, theorems of the types and of the two builders.    *)

\* Byte strings put behind each other.
LEMMA BytesJoined ==
  /\ << >> \in ByteString
  /\ \A a \in ByteString : << >> \o a = a /\ a \o << >> = a
  /\ \A a, b \in ByteString : a \o b \in ByteString
  /\ \A a, b, c \in ByteString : a \o (b \o c) = (a \o b) \o c
<1>1. << >> \in ByteString
  BY DEF ByteString
<1>2. ASSUME NEW a \in ByteString PROVE << >> \o a = a /\ a \o << >> = a
  BY ConcatEmptySeq DEF ByteString
<1>3. ASSUME NEW a \in ByteString, NEW b \in ByteString PROVE a \o b \in ByteString
  BY DEF ByteString
<1>4. ASSUME NEW a \in ByteString, NEW b \in ByteString, NEW c \in ByteString
      PROVE  a \o (b \o c) = (a \o b) \o c
  <2>1. a \in Seq(Byte) /\ b \in Seq(Byte) /\ c \in Seq(Byte)
    BY DEF ByteString
  <2> QED  BY <2>1, ConcatAssociative
<1> QED  BY <1>1, <1>2, <1>3, <1>4

\* A codec writes byte strings, reads what it wrote, whatever follows, and
\* reads only what it writes.
Sound(codec, values) ==
  /\ \A v \in values : codec.write[v] \in ByteString
  /\ \A v \in values, rest \in ByteString : codec.read[codec.write[v] \o rest] = Got(v, rest)
  /\ \A b \in ByteString :
       \/ codec.read[b] = << >>
       \/ \E v \in values, rest \in ByteString : codec.read[b] = Got(v, rest) /\ b = codec.write[v] \o rest

\* What a codec may read.
Reads(codec, values) ==
  \A b \in ByteString :
    codec.read[b] = << >> \/ \E v \in values, rest \in ByteString : codec.read[b] = Got(v, rest)

\* One value of each of a row of sets.
Row(sets, n, all) == {x \in Seq(all) : Len(x) = n /\ \A i \in 1 .. n : x[i] \in sets[i]}

\* What is written of the first k values.
WriteRun(f, codecs, x, k) ==
  /\ f \in [0 .. k -> ByteString]
  /\ f[0] = << >>
  /\ \A j \in 1 .. k : f[j] = f[j - 1] \o codecs[j].write[x[j]]

Written(codecs, x, k, w) == \E f : WriteRun(f, codecs, x, k) /\ w = f[k]

\* What the first k codecs read.
ReadRun(g, codecs, b, k) ==
  /\ g[0] = Got(<< >>, b)
  /\ \A j \in 1 .. k : g[j] = ReadNext(g[j - 1], codecs[j])

\* An outcome of a reader.
LEMMA GotParts ==
  ASSUME NEW v, NEW rest
  PROVE  Got(v, rest) # << >> /\ Got(v, rest)[1].value = v /\ Got(v, rest)[1].rest = rest
  BY DEF Got

\* The recursion of WriteAll.
LEMMA WriteAllRun ==
  ASSUME NEW n \in Nat, NEW codecs, Len(codecs) = n, NEW x,
         \A i \in 1 .. n : codecs[i].write[x[i]] \in ByteString
  PROVE  Written(codecs, x, n, WriteAll(codecs, x))
<1> DEFINE h == [p \in (1 .. n) \X ByteString |-> p[2] \o codecs[p[1]].write[x[p[1]]]]
           F(w) == [k \in 0 .. n |-> IF k = 0 THEN << >> ELSE w[k - 1] \o codecs[k].write[x[k]]]
           w == CHOOSE w : w = F(w)
<1>1. << >> \in ByteString
  BY DEF ByteString
<1>2. \A k \in 1 .. n, s \in ByteString : s \o codecs[k].write[x[k]] \in ByteString
  <2> TAKE k \in 1 .. n, s \in ByteString
  <2>1. codecs[k].write[x[k]] \in ByteString
    OBVIOUS
  <2> QED  BY <2>1 DEF ByteString
<1>3. h \in [(1 .. n) \X ByteString -> ByteString]
  BY <1>2, SMTT(60)
<1>4. \A k \in 1 .. n, s \in ByteString : h[<<k, s>>] = s \o codecs[k].write[x[k]]
  OBVIOUS
<1> HIDE DEF h
<1>5. PICK f \in [0 .. n -> ByteString] : Iterated(f, << >>, n, h)
  BY <1>1, <1>3, IterationExists
<1>6. \A k \in 0 .. n : (IF k = 0 THEN << >> ELSE h[<<k, f[k - 1]>>])
                          = (IF k = 0 THEN << >> ELSE f[k - 1] \o codecs[k].write[x[k]])
  <2> TAKE k \in 0 .. n
  <2>1. CASE k = 0
    BY <2>1
  <2>2. CASE k # 0
    <3>1. k \in 1 .. n /\ k - 1 \in 0 .. n
      BY <2>2
    <3>2. f[k - 1] \in ByteString
      BY <3>1
    <3> QED  BY <1>4, <2>2, <3>1, <3>2
  <2> QED  BY <2>1, <2>2
<1>7. f = F(f)
  BY <1>5, <1>6, Zenon DEF Iterated
<1>8. w = F(w)
  BY <1>7, Zenon
<1>9. WriteAll(codecs, x) = w[n]
  BY Zenon DEF WriteAll
<1> HIDE DEF w
<1>10. \A k \in 0 .. n : w[k] = IF k = 0 THEN << >> ELSE w[k - 1] \o codecs[k].write[x[k]]
  BY <1>8, Zenon
<1>11. w[0] = << >> /\ \A j \in 1 .. n : w[j] = w[j - 1] \o codecs[j].write[x[j]]
  <2>1. 0 \in 0 .. n /\ \A j \in 1 .. n : j \in 0 .. n /\ j # 0
    OBVIOUS
  <2> QED  BY <1>10, <2>1, Zenon
<1> DEFINE Reached == {k \in Nat : k <= n => w[k] \in ByteString}
<1>12. Reached = Nat
  <2>1. 0 \in Reached
    BY <1>1, <1>11
  <2>2. ASSUME NEW k \in Reached PROVE k + 1 \in Reached
    <3> SUFFICES ASSUME k + 1 <= n PROVE w[k + 1] \in ByteString
      OBVIOUS
    <3>1. k + 1 \in 1 .. n /\ (k + 1) - 1 = k /\ w[k] \in ByteString
      OBVIOUS
    <3>2. w[k + 1] = w[k] \o codecs[k + 1].write[x[k + 1]]
      BY <1>11, <3>1
    <3> QED  BY <1>2, <3>1, <3>2
  <2>3. Reached \in SUBSET Nat
    OBVIOUS
  <2> HIDE DEF Reached
  <2> QED  BY <2>1, <2>2, <2>3, SetInduction
<1>13. w \in [0 .. n -> ByteString]
  <2>1. \A k \in 0 .. n : w[k] \in ByteString
    BY <1>12
  <2>2. w = [k \in 0 .. n |-> w[k]]
    <3>1. DOMAIN w = 0 .. n
      BY <1>8, Zenon
    <3>2. w = [k \in DOMAIN w |-> w[k]]
      BY <1>8, Zenon
    <3> QED  BY <3>1, <3>2
  <2> QED  BY <2>1, <2>2
<1>14. WriteRun(w, codecs, x, n)
  BY <1>11, <1>13 DEF WriteRun
<1> QED  BY <1>9, <1>14 DEF Written

\* It has one result.
LEMMA WrittenOnce ==
  ASSUME NEW n \in Nat, NEW codecs, NEW x, NEW v, NEW w,
         Written(codecs, x, n, v), Written(codecs, x, n, w)
  PROVE  v = w
<1>6. PICK f : WriteRun(f, codecs, x, n) /\ v = f[n]
  BY DEF Written
<1>7. PICK g : WriteRun(g, codecs, x, n) /\ w = g[n]
  BY DEF Written
<1> DEFINE Reached == {k \in Nat : k <= n => f[k] = g[k]}
<1>1. 0 \in Reached
  BY <1>6, <1>7 DEF WriteRun
<1>2. ASSUME NEW k \in Reached PROVE k + 1 \in Reached
  <2> SUFFICES ASSUME k + 1 <= n PROVE f[k + 1] = g[k + 1]
    OBVIOUS
  <2>1. k + 1 \in 1 .. n /\ (k + 1) - 1 = k /\ f[k] = g[k]
    OBVIOUS
  <2>2. f[k + 1] = f[k] \o codecs[k + 1].write[x[k + 1]]
    BY <1>6, <1>7, <2>1 DEF WriteRun
  <2>3. g[k + 1] = g[k] \o codecs[k + 1].write[x[k + 1]]
    BY <1>6, <1>7, <2>1 DEF WriteRun
  <2> QED  BY <2>1, <2>2, <2>3
<1>3. Reached \in SUBSET Nat
  OBVIOUS
<1> HIDE DEF Reached
<1>4. Reached = Nat
  BY <1>1, <1>2, <1>3, SetInduction
<1>5. n \in Reached
  BY <1>4
<1> QED  BY <1>5, <1>6, <1>7 DEF Reached

\* What there is to know of one step of reading.
LEMMA ReadNextForms ==
  ASSUME NEW codec
  PROVE  /\ ReadNext(<< >>, codec) = << >>
         /\ \A s, r : codec.read[r] = << >> => ReadNext(Got(s, r), codec) = << >>
         /\ \A s, r, v, rest : codec.read[r] = Got(v, rest) =>
              ReadNext(Got(s, r), codec) = Got(Append(s, v), rest)
<1>1. ReadNext(<< >>, codec) = << >>
  BY DEF ReadNext
<1>2. ASSUME NEW s, NEW r, codec.read[r] = << >>
      PROVE  ReadNext(Got(s, r), codec) = << >>
  <2>1. Got(s, r) # << >> /\ Got(s, r)[1].rest = r
    BY GotParts
  <2> QED  BY <1>2, <2>1, Zenon DEF ReadNext
<1>3. ASSUME NEW s, NEW r, NEW v, NEW rest, codec.read[r] = Got(v, rest)
      PROVE  ReadNext(Got(s, r), codec) = Got(Append(s, v), rest)
  <2>1. Got(s, r) # << >> /\ Got(s, r)[1].rest = r /\ Got(s, r)[1].value = s
    BY GotParts
  <2>2. Got(v, rest) # << >> /\ Got(v, rest)[1].rest = rest /\ Got(v, rest)[1].value = v
    BY GotParts
  <2> QED  BY <1>3, <2>1, <2>2, Zenon DEF ReadNext
<1> QED  BY <1>1, <1>2, <1>3

\* What a row of readers can come to: nothing, or values and what is left.
Outcomes(all) == {<< >>} \cup {Got(p[1], p[2]) : p \in Seq(all) \X ByteString}

LEMMA OutcomeForms ==
  ASSUME NEW all
  PROVE  /\ << >> \in Outcomes(all)
         /\ \A s \in Seq(all), r \in ByteString : Got(s, r) \in Outcomes(all)
         /\ \A o \in Outcomes(all) :
              o = << >> \/ \E s \in Seq(all), r \in ByteString : o = Got(s, r)
<1>1. << >> \in Outcomes(all)
  BY DEF Outcomes
<1>2. ASSUME NEW s \in Seq(all), NEW r \in ByteString
      PROVE  Got(s, r) \in Outcomes(all)
  <2> DEFINE p == <<s, r>>
  <2>1. p \in Seq(all) \X ByteString /\ p[1] = s /\ p[2] = r
    OBVIOUS
  <2> HIDE DEF p
  <2> QED  BY <2>1, Zenon DEF Outcomes
<1>3. ASSUME NEW o \in Outcomes(all), o # << >>
      PROVE  \E s \in Seq(all), r \in ByteString : o = Got(s, r)
  <2>1. PICK p \in Seq(all) \X ByteString : o = Got(p[1], p[2])
    BY <1>3, Zenon DEF Outcomes
  <2>2. p[1] \in Seq(all) /\ p[2] \in ByteString
    OBVIOUS
  <2> QED  BY <2>1, <2>2, Zenon
<1> QED  BY <1>1, <1>2, <1>3

\* The recursion of ReadAll.
LEMMA ReadAllRun ==
  ASSUME NEW n \in Nat, NEW codecs, Len(codecs) = n, NEW all, NEW b \in ByteString,
         \A i \in 1 .. n : Reads(codecs[i], all)
  PROVE  \E g : ReadRun(g, codecs, b, n) /\ ReadAll(codecs, b) = g[n]
<1> DEFINE V == Outcomes(all)
           h == [p \in (1 .. n) \X V |-> ReadNext(p[2], codecs[p[1]])]
           F(g) == [k \in 0 .. n |-> IF k = 0 THEN Got(<< >>, b) ELSE ReadNext(g[k - 1], codecs[k])]
           g == CHOOSE g : g = F(g)
<1>1. Got(<< >>, b) \in V
  <2>1. << >> \in Seq(all)
    OBVIOUS
  <2> QED  BY <2>1, OutcomeForms
<1>2. ASSUME NEW k \in 1 .. n, NEW so_far \in V
      PROVE  ReadNext(so_far, codecs[k]) \in V
  <2>1. CASE so_far = << >>
    BY <2>1, ReadNextForms
  <2>2. ASSUME NEW s \in Seq(all), NEW r \in ByteString, so_far = Got(s, r)
        PROVE  ReadNext(so_far, codecs[k]) \in V
    <3>1. CASE codecs[k].read[r] = << >>
      <4>1. ReadNext(so_far, codecs[k]) = << >>
        BY <2>2, <3>1, ReadNextForms
      <4> QED  BY <4>1, OutcomeForms
    <3>2. ASSUME NEW v \in all, NEW rest \in ByteString, codecs[k].read[r] = Got(v, rest)
          PROVE  ReadNext(so_far, codecs[k]) \in V
      <4>1. ReadNext(so_far, codecs[k]) = Got(Append(s, v), rest)
        BY <2>2, <3>2, ReadNextForms
      <4>2. Append(s, v) \in Seq(all)
        OBVIOUS
      <4> QED  BY <4>1, <4>2, OutcomeForms, ZenonT(60)
    <3>3. Reads(codecs[k], all)
      OBVIOUS
    <3> QED  BY <3>1, <3>2, <3>3 DEF Reads
  <2> QED  BY <2>1, <2>2, OutcomeForms
<1>3. h \in [(1 .. n) \X V -> V]
  <2> HIDE DEF V
  <2> QED  BY <1>2
<1>4. \A k \in 1 .. n, s \in V : h[<<k, s>>] = ReadNext(s, codecs[k])
  <2> HIDE DEF V
  <2> QED  OBVIOUS
<1> HIDE DEF h, V
<1>5. PICK f \in [0 .. n -> V] : Iterated(f, Got(<< >>, b), n, h)
  BY <1>1, <1>3, IterationExists
<1>6. \A k \in 0 .. n : (IF k = 0 THEN Got(<< >>, b) ELSE h[<<k, f[k - 1]>>])
                          = (IF k = 0 THEN Got(<< >>, b) ELSE ReadNext(f[k - 1], codecs[k]))
  <2> TAKE k \in 0 .. n
  <2>1. CASE k = 0
    BY <2>1
  <2>2. CASE k # 0
    <3>1. k \in 1 .. n /\ k - 1 \in 0 .. n
      BY <2>2
    <3>2. f[k - 1] \in V
      BY <3>1
    <3> QED  BY <1>4, <2>2, <3>1, <3>2
  <2> QED  BY <2>1, <2>2
<1>7. f = F(f)
  BY <1>5, <1>6, Zenon DEF Iterated
<1>8. g = F(g)
  BY <1>7, Zenon
<1>9. ReadAll(codecs, b) = g[n]
  BY Zenon DEF ReadAll
<1> HIDE DEF g
<1>10. \A k \in 0 .. n : g[k] = IF k = 0 THEN Got(<< >>, b) ELSE ReadNext(g[k - 1], codecs[k])
  BY <1>8, Zenon
<1>11. 0 \in 0 .. n /\ \A j \in 1 .. n : j \in 0 .. n /\ j # 0
  OBVIOUS
<1>12. g[0] = Got(<< >>, b) /\ \A j \in 1 .. n : g[j] = ReadNext(g[j - 1], codecs[j])
  BY <1>10, <1>11, Zenon
<1> QED  BY <1>9, <1>12 DEF ReadRun

\* The first k of a row of values.
Begins(s, x, k, all) ==
  s \in Seq(all) /\ Len(s) = k /\ x \in Seq(all) /\ k <= Len(x) /\ \A i \in 1 .. k : s[i] = x[i]

LEMMA BeginsNext ==
  ASSUME NEW all, NEW x, NEW k \in Nat, NEW s, Begins(s, x, k, all), k + 1 <= Len(x)
  PROVE  Begins(Append(s, x[k + 1]), x, k + 1, all)
<1> DEFINE y == x[k + 1]
           a == Append(s, y)
<1>1. y \in all /\ s \in Seq(all) /\ Len(s) = k /\ \A i \in 1 .. k : s[i] = x[i]
  BY DEF Begins
<1> HIDE DEF y
<1>2. a \in Seq(all) /\ Len(a) = k + 1 /\ a[k + 1] = y /\ \A i \in 1 .. k : a[i] = s[i]
  BY <1>1
<1> HIDE DEF a
<1>3. \A i \in 1 .. k + 1 : a[i] = x[i]
  BY <1>1, <1>2 DEF y
<1> USE DEF a, y
<1> HIDE DEF a
<1>4. Begins(a, x, k + 1, all)
  BY <1>2, <1>3 DEF Begins
<1> QED  BY <1>4 DEF a, y

\* What a row of sound codecs writes they read back, whatever follows.
LEMMA RowReads ==
  ASSUME NEW n \in Nat, NEW codecs, NEW sets, NEW all,
         \A i \in 1 .. n : Sound(codecs[i], sets[i]),
         NEW x \in Row(sets, n, all), NEW w, Written(codecs, x, n, w),
         NEW rest \in ByteString, NEW g, ReadRun(g, codecs, w \o rest, n)
  PROVE  g[n] = Got(x, rest)
<1>4. PICK f : WriteRun(f, codecs, x, n) /\ w = f[n]
  BY DEF Written
<1> DEFINE b == w \o rest
           Holds(k) == \A r \in ByteString : f[k] \o r = b =>
                         \E s : Begins(s, x, k, all) /\ g[k] = Got(s, r)
           Reached == {k \in Nat : k <= n => Holds(k)}
<1>0. x \in Seq(all) /\ Len(x) = n /\ \A i \in 1 .. n : x[i] \in sets[i]
  BY DEF Row
<1>1. Holds(0)
  <2> SUFFICES ASSUME NEW r \in ByteString, f[0] \o r = b
               PROVE  \E s : Begins(s, x, 0, all) /\ g[0] = Got(s, r)
    OBVIOUS
  <2>1. r = b
    <3>1. f[0] = << >>
      BY <1>4 DEF WriteRun
    <3>2. << >> \o r = r
      BY ConcatEmptySeq DEF ByteString
    <3> QED  BY <3>1, <3>2
  <2>2. << >> \in Seq(all) /\ Len(<< >>) = 0
    OBVIOUS
  <2>3. g[0] = Got(<< >>, b)
    BY DEF ReadRun
  <2> HIDE DEF b
  <2>4. Begins(<< >>, x, 0, all)
    BY <1>0, <2>2 DEF Begins
  <2> QED  BY <2>1, <2>3, <2>4
<1>2. ASSUME NEW k \in Nat, k + 1 <= n, Holds(k) PROVE Holds(k + 1)
  <2> SUFFICES ASSUME NEW r \in ByteString, f[k + 1] \o r = b
               PROVE  \E s : Begins(s, x, k + 1, all) /\ g[k + 1] = Got(s, r)
    OBVIOUS
  <2>1. k + 1 \in 1 .. n /\ (k + 1) - 1 = k /\ k \in Nat /\ k \in 0 .. n /\ k <= n
    BY <1>2
  <2> DEFINE codec == codecs[k + 1]
             y == codec.write[x[k + 1]]
  <2>2. Sound(codec, sets[k + 1]) /\ x[k + 1] \in sets[k + 1]
    BY <1>0, <2>1
  <2>3. y \in ByteString /\ codec.read[y \o r] = Got(x[k + 1], r)
    BY <2>2 DEF Sound
  <2>4. f[k + 1] = f[k] \o y /\ f[k] \in ByteString
    BY <1>4, <2>1 DEF WriteRun
  <2>5. g[k + 1] = ReadNext(g[k], codec)
    BY <2>1 DEF ReadRun
  <2> HIDE DEF codec, y, b
  <2>6. y \o r \in ByteString /\ f[k] \o (y \o r) = (f[k] \o y) \o r
    BY <2>3, <2>4, BytesJoined, ZenonT(60)
  <2>7. f[k] \o (y \o r) = b
    BY <2>4, <2>6
  <2>8. PICK s : Begins(s, x, k, all) /\ g[k] = Got(s, y \o r)
    BY <1>2, <2>1, <2>6, <2>7
  <2>9. g[k + 1] = Got(Append(s, x[k + 1]), r)
    BY <2>3, <2>5, <2>8, ReadNextForms
  <2>10. Begins(Append(s, x[k + 1]), x, k + 1, all)
    <3>1. k + 1 <= Len(x)
      BY <1>0, <1>2
    <3> QED  BY <2>1, <2>8, <3>1, BeginsNext
  <2> QED  BY <2>9, <2>10
<1>3. Holds(n)
  <2> HIDE DEF Holds
  <2>1. Reached \in SUBSET Nat /\ 0 \in Reached /\ \A k \in Reached : k + 1 \in Reached
    BY <1>1, <1>2
  <2> HIDE DEF Reached
  <2>2. n \in Reached
    BY <2>1, SetInduction
  <2> USE DEF Reached
  <2> QED  BY <2>2
<1>5. PICK s : Begins(s, x, n, all) /\ g[n] = Got(s, rest)
  <2> HIDE DEF b
  <2>1. f[n] \o rest = b
    BY <1>4 DEF b
  <2> QED  BY <1>3, <2>1
<1>6. s = x
  <2>1. s \in Seq(all) /\ Len(s) = n /\ \A i \in 1 .. n : s[i] = x[i]
    BY <1>5 DEF Begins
  <2> QED  BY <1>0, <2>1, SeqEqual
<1> QED  BY <1>5, <1>6

\* What is written of one more value.
LEMMA WriteNext ==
  ASSUME NEW k \in Nat, NEW codecs, NEW all, NEW s \in Seq(all), Len(s) = k, NEW v \in all,
         NEW u, Written(codecs, s, k, u), codecs[k + 1].write[v] \in ByteString
  PROVE  u \in ByteString /\ Written(codecs, Append(s, v), k + 1, u \o codecs[k + 1].write[v])
<1>10. PICK f : WriteRun(f, codecs, s, k) /\ u = f[k]
  BY DEF Written
<1> DEFINE w == codecs[k + 1].write[v]
           a == Append(s, v)
           h == [j \in 0 .. k + 1 |-> IF j = k + 1 THEN f[k] \o w ELSE f[j]]
<1>1. f \in [0 .. k -> ByteString] /\ f[0] = << >>
      /\ \A j \in 1 .. k : f[j] = f[j - 1] \o codecs[j].write[s[j]]
  BY <1>10 DEF WriteRun
<1>2. a[k + 1] = v /\ \A j \in 1 .. k : a[j] = s[j]
  OBVIOUS
<1>3. f[k] \in ByteString /\ w \in ByteString
  BY <1>1
<1> HIDE DEF a, w
<1>4. f[k] \o w \in ByteString
  BY <1>3, BytesJoined
<1>5. h \in [0 .. k + 1 -> ByteString]
  <2>1. \A j \in 0 .. k + 1 : j = k + 1 \/ j \in 0 .. k
    OBVIOUS
  <2> QED  BY <1>1, <1>4, <2>1
<1>6. h[k + 1] = f[k] \o w /\ \A j \in 0 .. k : h[j] = f[j]
  OBVIOUS
<1> HIDE DEF h
<1>7. \A j \in 1 .. k + 1 : h[j] = h[j - 1] \o codecs[j].write[a[j]]
  <2> TAKE j \in 1 .. k + 1
  <2>1. CASE j = k + 1
    <3>1. j - 1 = k /\ k \in 0 .. k
      BY <2>1
    <3> QED  BY <1>2, <1>6, <2>1, <3>1 DEF w
  <2>2. CASE j # k + 1
    <3>1. j \in 1 .. k /\ j \in 0 .. k /\ j - 1 \in 0 .. k
      BY <2>2
    <3> QED  BY <1>1, <1>2, <1>6, <3>1
  <2> QED  BY <2>1, <2>2
<1>8. h[0] = << >>
  BY <1>1, <1>6
<1>9. WriteRun(h, codecs, a, k + 1)
  BY <1>5, <1>7, <1>8 DEF WriteRun
<1>11. k \in 0 .. k /\ u \in ByteString
  BY <1>3, <1>10
<1> QED  BY <1>6, <1>9, <1>10, <1>11 DEF a, w, Written

\* A row of sound codecs reads only what it writes.
Took(o, codecs, n, b, x, rest) ==
  /\ o = Got(x, rest)
  /\ \E w \in ByteString : Written(codecs, x, n, w) /\ b = w \o rest

TookRow(o, codecs, sets, n, all, b) ==
  \/ o = << >>
  \/ \E x \in Row(sets, n, all), rest \in ByteString : Took(o, codecs, n, b, x, rest)

SoundRow(codecs, sets, n, all) ==
  \A i \in 1 .. n : Sound(codecs[i], sets[i]) /\ sets[i] \subseteq all

LEMMA RowTakesOne ==
  ASSUME NEW k \in Nat, NEW codecs, NEW sets, NEW all,
         Sound(codecs[k + 1], sets[k + 1]), sets[k + 1] \subseteq all,
         NEW b \in ByteString, NEW o, TookRow(o, codecs, sets, k, all, b)
  PROVE  TookRow(ReadNext(o, codecs[k + 1]), codecs, sets, k + 1, all, b)
<1> DEFINE codec == codecs[k + 1]
           next == ReadNext(o, codec)
<1>1. CASE o = << >>
  <2>1. next = << >>
    BY <1>1, ReadNextForms
  <2> QED  BY <2>1 DEF TookRow
<1>2. ASSUME NEW x \in Row(sets, k, all), NEW r \in ByteString, Took(o, codecs, k, b, x, r)
      PROVE  TookRow(next, codecs, sets, k + 1, all, b)
  <2>1. o = Got(x, r)
    BY <1>2 DEF Took
  <2>2. PICK u \in ByteString : Written(codecs, x, k, u) /\ b = u \o r
    BY <1>2 DEF Took
  <2>3. CASE codec.read[r] = << >>
    <3>1. next = << >>
      BY <2>1, <2>3, ReadNextForms
    <3> QED  BY <3>1 DEF TookRow
  <2>4. ASSUME NEW v \in sets[k + 1], NEW rest \in ByteString,
               codec.read[r] = Got(v, rest), r = codec.write[v] \o rest
        PROVE  TookRow(next, codecs, sets, k + 1, all, b)
    <3> DEFINE w == codec.write[v]
               y == Append(x, v)
    <3>1. v \in all /\ w \in ByteString
      BY DEF Sound
    <3>2. x \in Seq(all) /\ Len(x) = k /\ \A i \in 1 .. k : x[i] \in sets[i]
      BY DEF Row
    <3>3. Written(codecs, y, k + 1, u \o w)
      BY <2>2, <3>1, <3>2, WriteNext
    <3>4. next = Got(y, rest)
      BY <2>1, <2>4, ReadNextForms
    <3>5. y \in Row(sets, k + 1, all)
      <4>1. y \in Seq(all) /\ Len(y) = k + 1 /\ y[k + 1] = v /\ \A i \in 1 .. k : y[i] = x[i]
        BY <3>1, <3>2
      <4> HIDE DEF y
      <4>2. \A i \in 1 .. k + 1 : i = k + 1 \/ i \in 1 .. k
        OBVIOUS
      <4>3. \A i \in 1 .. k + 1 : y[i] \in sets[i]
        BY <3>2, <4>1, <4>2
      <4> QED  BY <4>1, <4>3 DEF Row
    <3>6. b = (u \o w) \o rest /\ u \o w \in ByteString
      <4>1. b = u \o (w \o rest)
        BY <2>2, <2>4
      <4> HIDE DEF w
      <4>2. u \o (w \o rest) = (u \o w) \o rest /\ u \o w \in ByteString
        BY <3>1, BytesJoined, SMTT(60)
      <4> QED  BY <4>1, <4>2
    <3> HIDE DEF y, w, next
    <3>7. Took(next, codecs, k + 1, b, y, rest)
      BY <3>3, <3>4, <3>6 DEF Took
    <3> QED  BY <3>5, <3>7 DEF TookRow
  <2>5. \/ codec.read[r] = << >>
        \/ \E v \in sets[k + 1], rest \in ByteString :
             codec.read[r] = Got(v, rest) /\ r = codec.write[v] \o rest
    BY DEF Sound
  <2> HIDE DEF next, codec
  <2> QED  BY <2>3, <2>4, <2>5
<1>3. o = << >> \/ \E x \in Row(sets, k, all), r \in ByteString : Took(o, codecs, k, b, x, r)
  BY DEF TookRow
<1>4. CASE \E x \in Row(sets, k, all), r \in ByteString : Took(o, codecs, k, b, x, r)
  <2>1. PICK x \in Row(sets, k, all), r \in ByteString : Took(o, codecs, k, b, x, r)
    BY <1>4
  <2> QED  BY <1>2, <2>1
<1> QED  BY <1>1, <1>3, <1>4

LEMMA RowTook ==
  ASSUME NEW n \in Nat, NEW codecs, NEW sets, NEW all, SoundRow(codecs, sets, n, all),
         NEW b \in ByteString, NEW g, ReadRun(g, codecs, b, n)
  PROVE  TookRow(g[n], codecs, sets, n, all, b)
<1> DEFINE Reached == {k \in Nat : k <= n => TookRow(g[k], codecs, sets, k, all, b)}
<1>1. TookRow(g[0], codecs, sets, 0, all, b)
  <2> DEFINE f == [j \in 0 .. 0 |-> << >>]
  <2>1. WriteRun(f, codecs, << >>, 0) /\ << >> = f[0]
    <3>1. f \in [0 .. 0 -> ByteString]
      BY BytesJoined
    <3> QED  BY <3>1 DEF WriteRun
  <2>2. << >> \in Row(sets, 0, all)
    BY DEF Row
  <2>3. g[0] = Got(<< >>, b)
    BY DEF ReadRun
  <2> HIDE DEF f
  <2>4. << >> \in ByteString /\ b = << >> \o b
    BY BytesJoined
  <2>5. Took(g[0], codecs, 0, b, << >>, b)
    BY <2>1, <2>3, <2>4 DEF Took, Written
  <2> QED  BY <2>2, <2>5 DEF TookRow
<1>2. ASSUME NEW k \in Nat, k + 1 <= n, TookRow(g[k], codecs, sets, k, all, b)
      PROVE  TookRow(g[k + 1], codecs, sets, k + 1, all, b)
  <2>1. k + 1 \in 1 .. n /\ (k + 1) - 1 = k
    BY <1>2
  <2>2. g[k + 1] = ReadNext(g[k], codecs[k + 1])
    BY <2>1 DEF ReadRun
  <2>3. Sound(codecs[k + 1], sets[k + 1]) /\ sets[k + 1] \subseteq all
    BY <2>1 DEF SoundRow
  <2> QED  BY <1>2, <2>2, <2>3, RowTakesOne
<1>3. Reached \in SUBSET Nat /\ 0 \in Reached /\ \A k \in Reached : k + 1 \in Reached
  BY <1>1, <1>2
<1> HIDE DEF Reached
<1>4. n \in Reached
  BY <1>3, SetInduction
<1> USE DEF Reached
<1> QED  BY <1>4

\* What a sound row writes is a byte string, is read back whatever follows, and
\* nothing else is read.
LEMMA RowSound ==
  ASSUME NEW n \in Nat, NEW codecs, Len(codecs) = n, NEW sets, NEW all,
         SoundRow(codecs, sets, n, all)
  PROVE  /\ \A x \in Row(sets, n, all) : WriteAll(codecs, x) \in ByteString
         /\ \A x \in Row(sets, n, all), rest \in ByteString :
              ReadAll(codecs, WriteAll(codecs, x) \o rest) = Got(x, rest)
         /\ \A b \in ByteString :
              \/ ReadAll(codecs, b) = << >>
              \/ \E x \in Row(sets, n, all), rest \in ByteString :
                   ReadAll(codecs, b) = Got(x, rest) /\ b = WriteAll(codecs, x) \o rest
<1>1. ASSUME NEW x \in Row(sets, n, all)
      PROVE  Written(codecs, x, n, WriteAll(codecs, x))
  <2>1. \A i \in 1 .. n : codecs[i].write[x[i]] \in ByteString
    BY DEF Row, Sound, SoundRow
  <2> QED  BY <2>1, WriteAllRun
<1>2. ASSUME NEW b \in ByteString
      PROVE  \E g : ReadRun(g, codecs, b, n) /\ ReadAll(codecs, b) = g[n]
  <2>1. ASSUME NEW i \in 1 .. n
        PROVE  Reads(codecs[i], all)
    <3>1. Sound(codecs[i], sets[i]) /\ sets[i] \subseteq all
      BY DEF SoundRow
    <3> QED  BY <3>1 DEF Sound, Reads
  <2> QED  BY <2>1, ReadAllRun
<1>3. ASSUME NEW x \in Row(sets, n, all)
      PROVE  WriteAll(codecs, x) \in ByteString
  <2>1. PICK f : WriteRun(f, codecs, x, n) /\ WriteAll(codecs, x) = f[n]
    BY <1>1 DEF Written
  <2>2. f \in [0 .. n -> ByteString] /\ n \in 0 .. n
    BY <2>1 DEF WriteRun
  <2> QED  BY <2>1, <2>2
<1>4. ASSUME NEW x \in Row(sets, n, all), NEW rest \in ByteString
      PROVE  ReadAll(codecs, WriteAll(codecs, x) \o rest) = Got(x, rest)
  <2> DEFINE w == WriteAll(codecs, x)
  <2>1. Written(codecs, x, n, w) /\ w \in ByteString
    BY <1>1, <1>3
  <2> HIDE DEF w
  <2>2. w \o rest \in ByteString
    BY <2>1, BytesJoined
  <2>3. PICK g : ReadRun(g, codecs, w \o rest, n) /\ ReadAll(codecs, w \o rest) = g[n]
    BY <1>2, <2>2
  <2>4. \A i \in 1 .. n : Sound(codecs[i], sets[i])
    BY DEF SoundRow
  <2>5. g[n] = Got(x, rest)
    BY <2>1, <2>3, <2>4, RowReads
  <2> QED  BY <2>3, <2>5 DEF w
<1>5. ASSUME NEW b \in ByteString
      PROVE  \/ ReadAll(codecs, b) = << >>
             \/ \E x \in Row(sets, n, all), rest \in ByteString :
                  ReadAll(codecs, b) = Got(x, rest) /\ b = WriteAll(codecs, x) \o rest
  <2>1. PICK g : ReadRun(g, codecs, b, n) /\ ReadAll(codecs, b) = g[n]
    BY <1>2
  <2>2. TookRow(ReadAll(codecs, b), codecs, sets, n, all, b)
    BY <2>1, RowTook
  <2>3. ASSUME NEW x \in Row(sets, n, all), NEW rest \in ByteString,
               Took(ReadAll(codecs, b), codecs, n, b, x, rest)
        PROVE  ReadAll(codecs, b) = Got(x, rest) /\ b = WriteAll(codecs, x) \o rest
    <3>1. PICK w \in ByteString : Written(codecs, x, n, w) /\ b = w \o rest
      BY <2>3 DEF Took
    <3>2. w = WriteAll(codecs, x)
      BY <1>1, <3>1, WrittenOnce
    <3> QED  BY <2>3, <3>1, <3>2 DEF Took
  <2> QED  BY <2>2, <2>3 DEF TookRow
<1> QED  BY <1>3, <1>4, <1>5

-----------------------------------------------------------------------------
(* Borsh of one type, when the codecs of its parts are sound.              *)

SoundType(t, values, inner) ==
  /\ \A v \in values : BorshSerialize(t, v, inner) \in ByteString
  /\ \A v \in values, rest \in ByteString :
       BorshDeserialize(t, BorshSerialize(t, v, inner) \o rest, inner) = Got(v, rest)
  /\ \A b \in ByteString :
       \/ BorshDeserialize(t, b, inner) = << >>
       \/ \E v \in values, rest \in ByteString :
            BorshDeserialize(t, b, inner) = Got(v, rest) /\ b = BorshSerialize(t, v, inner) \o rest

LEMMA CodecSound ==
  ASSUME NEW types, NEW type, NEW values, NEW inner, SoundType(types[type], values, inner)
  PROVE  Sound(Codec(types, type, values, inner), values)
<1> DEFINE codec == Codec(types, type, values, inner)
           t == types[type]
<1>1. \A v \in values : codec.write[v] = BorshSerialize(t, v, inner)
  BY DEF Codec
<1>2. \A b \in ByteString : codec.read[b] = BorshDeserialize(t, b, inner)
  BY DEF Codec
<1> HIDE DEF codec, t
<1>3. SoundType(t, values, inner)
  BY DEF t
<1>4. \A v \in values : codec.write[v] \in ByteString
  BY <1>1, <1>3 DEF SoundType
<1>5. ASSUME NEW v \in values, NEW rest \in ByteString
      PROVE  codec.read[codec.write[v] \o rest] = Got(v, rest)
  <2>1. codec.write[v] \o rest \in ByteString
    BY <1>4, BytesJoined
  <2>2. BorshDeserialize(t, BorshSerialize(t, v, inner) \o rest, inner) = Got(v, rest)
    BY <1>3 DEF SoundType
  <2> QED  BY <1>1, <1>2, <2>1, <2>2
<1>6. ASSUME NEW b \in ByteString
      PROVE  \/ codec.read[b] = << >>
             \/ \E v \in values, rest \in ByteString :
                  codec.read[b] = Got(v, rest) /\ b = codec.write[v] \o rest
  <2>1. \/ BorshDeserialize(t, b, inner) = << >>
        \/ \E v \in values, rest \in ByteString :
             BorshDeserialize(t, b, inner) = Got(v, rest) /\ b = BorshSerialize(t, v, inner) \o rest
    BY <1>3 DEF SoundType
  <2> QED  BY <1>1, <1>2, <2>1
<1>7. Sound(codec, values)
  BY <1>4, <1>5, <1>6 DEF Sound
<1> QED  BY <1>7 DEF codec

\* The names of the parts are different.
Distinct(parts) == \A i, j \in DOMAIN parts : parts[i].name = parts[j].name => i = j

NamesOf(parts) == {parts[i].name : i \in DOMAIN parts}

LEMMA IndexOfPart ==
  ASSUME NEW parts, Distinct(parts), NEW i \in DOMAIN parts
  PROVE  IndexOf(parts, parts[i].name) = i
  BY DEF IndexOf, Distinct

\* The records with a value for each part.
StructOf(values, parts, inner) ==
  \A v : v \in values <=> /\ v = [name \in NamesOf(parts) |-> v[name]]
                          /\ \A i \in DOMAIN parts : v[parts[i].name] \in inner[parts[i].type]

\* Each part has a sound codec.
SoundParts(parts, codecs, inner) ==
  \A i \in DOMAIN parts : Sound(codecs[parts[i].type], inner[parts[i].type])

LEMMA RecordForms ==
  ASSUME NEW parts, Distinct(parts), NEW x
  PROVE  /\ RecordOf(parts, x) = [name \in NamesOf(parts) |-> RecordOf(parts, x)[name]]
         /\ \A i \in DOMAIN parts : RecordOf(parts, x)[parts[i].name] = x[i]
<1> DEFINE f == [name \in NamesOf(parts) |-> x[IndexOf(parts, name)]]
<1>1. RecordOf(parts, x) = f
  BY DEF RecordOf, NamesOf
<1>2. f = [name \in NamesOf(parts) |-> f[name]]
  OBVIOUS
<1>3. ASSUME NEW i \in DOMAIN parts
      PROVE  f[parts[i].name] = x[i]
  <2>1. parts[i].name \in NamesOf(parts)
    BY DEF NamesOf
  <2>2. IndexOf(parts, parts[i].name) = i
    BY IndexOfPart
  <2> QED  BY <2>1, <2>2
<1> HIDE DEF f
<1> QED  BY <1>1, <1>2, <1>3

\* The sets of a row, and all that may stand in one.
SetsOf(parts, inner) == [i \in DOMAIN parts |-> inner[parts[i].type]]
AllOf(parts, inner) == UNION {inner[parts[i].type] : i \in DOMAIN parts}

LEMMA PartsRow ==
  ASSUME NEW parts, NEW n \in Nat, DOMAIN parts = 1 .. n, NEW codecs, NEW inner,
         SoundParts(parts, codecs, inner)
  PROVE  /\ SoundRow(CodecsOf(parts, codecs), SetsOf(parts, inner), n, AllOf(parts, inner))
         /\ Len(CodecsOf(parts, codecs)) = n
<1>1. ASSUME NEW i \in 1 .. n
      PROVE  /\ Sound(CodecsOf(parts, codecs)[i], SetsOf(parts, inner)[i])
             /\ SetsOf(parts, inner)[i] \subseteq AllOf(parts, inner)
  <2>1. CodecsOf(parts, codecs)[i] = codecs[parts[i].type]
    BY DEF CodecsOf
  <2>2. SetsOf(parts, inner)[i] = inner[parts[i].type]
    BY DEF SetsOf
  <2>3. Sound(codecs[parts[i].type], inner[parts[i].type])
    BY DEF SoundParts
  <2>4. inner[parts[i].type] \subseteq AllOf(parts, inner)
    BY DEF AllOf
  <2> QED  BY <2>1, <2>2, <2>3, <2>4
<1>2. Len(CodecsOf(parts, codecs)) = n
  <2> DEFINE T == {codecs[parts[i].type] : i \in DOMAIN parts}
  <2>1. CodecsOf(parts, codecs) \in [1 .. n -> T]
    BY DEF CodecsOf
  <2> HIDE DEF T
  <2> QED  BY <2>1, MadeSequence
<1> QED  BY <1>1, <1>2 DEF SoundRow

\* Records are rows.
LEMMA StructRows ==
  ASSUME NEW parts, NEW n \in Nat, DOMAIN parts = 1 .. n, Distinct(parts), NEW inner,
         NEW values, StructOf(values, parts, inner)
  PROVE  LET row == Row(SetsOf(parts, inner), n, AllOf(parts, inner))
         IN  /\ \A v \in values : FieldsOf(parts, v) \in row /\ RecordOf(parts, FieldsOf(parts, v)) = v
             /\ \A x \in row : RecordOf(parts, x) \in values /\ FieldsOf(parts, RecordOf(parts, x)) = x
<1> DEFINE row == Row(SetsOf(parts, inner), n, AllOf(parts, inner))
<1>1. \A i \in 1 .. n : SetsOf(parts, inner)[i] = inner[parts[i].type]
                        /\ inner[parts[i].type] \subseteq AllOf(parts, inner)
  BY DEF SetsOf, AllOf
<1>2. ASSUME NEW v \in values
      PROVE  FieldsOf(parts, v) \in row /\ RecordOf(parts, FieldsOf(parts, v)) = v
  <2> DEFINE x == FieldsOf(parts, v)
             r == RecordOf(parts, x)
  <2>1. /\ v = [name \in NamesOf(parts) |-> v[name]]
        /\ \A i \in DOMAIN parts : v[parts[i].name] \in inner[parts[i].type]
    BY DEF StructOf
  <2>2. x = [i \in 1 .. n |-> v[parts[i].name]]
    BY DEF FieldsOf
  <2> HIDE DEF x, r
  <2>3. \A i \in 1 .. n : x[i] = v[parts[i].name] /\ x[i] \in inner[parts[i].type]
    BY <2>1, <2>2
  <2>4. x \in [1 .. n -> AllOf(parts, inner)]
    BY <1>1, <2>2, <2>3
  <2>5. x \in Seq(AllOf(parts, inner)) /\ Len(x) = n
    BY <2>4, MadeSequence
  <2>6. x \in row
    BY <1>1, <2>3, <2>5 DEF Row
  <2>7. r = [name \in NamesOf(parts) |-> r[name]] /\ \A i \in DOMAIN parts : r[parts[i].name] = x[i]
    BY RecordForms DEF r
  <2>8. \A name \in NamesOf(parts) : r[name] = v[name]
    BY <2>3, <2>7 DEF NamesOf
  <2>9. r = v
    BY <2>1, <2>7, <2>8
  <2> QED  BY <2>6, <2>9 DEF x, r
<1>3. ASSUME NEW x \in row
      PROVE  RecordOf(parts, x) \in values /\ FieldsOf(parts, RecordOf(parts, x)) = x
  <2> DEFINE r == RecordOf(parts, x)
             y == FieldsOf(parts, r)
  <2>1. r = [name \in NamesOf(parts) |-> r[name]] /\ \A i \in DOMAIN parts : r[parts[i].name] = x[i]
    BY RecordForms
  <2>2. x \in Seq(AllOf(parts, inner)) /\ Len(x) = n /\ \A i \in 1 .. n : x[i] \in inner[parts[i].type]
    BY <1>1 DEF Row
  <2> HIDE DEF r
  <2>3. \A i \in DOMAIN parts : r[parts[i].name] \in inner[parts[i].type]
    BY <2>1, <2>2
  <2>4. r \in values
    BY <2>1, <2>3 DEF StructOf
  <2>5. y = [i \in 1 .. n |-> r[parts[i].name]]
    BY DEF FieldsOf
  <2> HIDE DEF y
  <2>6. x = [i \in 1 .. n |-> x[i]]
    BY <2>2
  <2>7. y = x
    BY <2>1, <2>5, <2>6
  <2> QED  BY <2>4, <2>7 DEF r, y
<1> QED  BY <1>2, <1>3

\* A struct.
LEMMA StructSound ==
  ASSUME NEW parts, NEW n \in Nat, DOMAIN parts = 1 .. n, Distinct(parts), NEW codecs, NEW inner,
         SoundParts(parts, codecs, inner), NEW values, StructOf(values, parts, inner)
  PROVE  SoundType(Struct(parts), values, codecs)
<1> DEFINE t == Struct(parts)
           row == Row(SetsOf(parts, inner), n, AllOf(parts, inner))
           cs == CodecsOf(parts, codecs)
<1>1. t.kind = "struct" /\ t.parts = parts
  BY DEF Struct
<1> HIDE DEF t, cs
<1>2. \A v : BorshSerialize(t, v, codecs) = WriteAll(cs, FieldsOf(parts, v))
  BY <1>1 DEF BorshSerialize, cs
<1>3. \A b : BorshDeserialize(t, b, codecs) = AsStruct(ReadAll(cs, b), parts)
  BY <1>1 DEF BorshDeserialize, cs
<1>4. SoundRow(cs, SetsOf(parts, inner), n, AllOf(parts, inner)) /\ Len(cs) = n
  BY PartsRow DEF cs
<1>5. /\ \A v \in values : FieldsOf(parts, v) \in row /\ RecordOf(parts, FieldsOf(parts, v)) = v
      /\ \A x \in row : RecordOf(parts, x) \in values /\ FieldsOf(parts, RecordOf(parts, x)) = x
  BY StructRows
<1>6. /\ \A x \in row : WriteAll(cs, x) \in ByteString
      /\ \A x \in row, rest \in ByteString : ReadAll(cs, WriteAll(cs, x) \o rest) = Got(x, rest)
      /\ \A b \in ByteString :
           \/ ReadAll(cs, b) = << >>
           \/ \E x \in row, rest \in ByteString :
                ReadAll(cs, b) = Got(x, rest) /\ b = WriteAll(cs, x) \o rest
  BY <1>4, RowSound
<1> HIDE DEF row
<1>7. AsStruct(<< >>, parts) = << >>
      /\ \A x, rest : AsStruct(Got(x, rest), parts) = Got(RecordOf(parts, x), rest)
  <2>1. AsStruct(<< >>, parts) = << >>
    BY DEF AsStruct
  <2>2. ASSUME NEW x, NEW rest
        PROVE  AsStruct(Got(x, rest), parts) = Got(RecordOf(parts, x), rest)
    <3>1. Got(x, rest) # << >> /\ Got(x, rest)[1].value = x /\ Got(x, rest)[1].rest = rest
      BY GotParts
    <3> QED  BY <3>1, Zenon DEF AsStruct
  <2> QED  BY <2>1, <2>2
<1>8. \A v \in values : BorshSerialize(t, v, codecs) \in ByteString
  BY <1>2, <1>5, <1>6
<1>9. ASSUME NEW v \in values, NEW rest \in ByteString
      PROVE  BorshDeserialize(t, BorshSerialize(t, v, codecs) \o rest, codecs) = Got(v, rest)
  <2> DEFINE x == FieldsOf(parts, v)
  <2>1. x \in row /\ RecordOf(parts, x) = v
    BY <1>5
  <2> HIDE DEF x
  <2>2. ReadAll(cs, WriteAll(cs, x) \o rest) = Got(x, rest)
    BY <1>6, <2>1
  <2>3. BorshSerialize(t, v, codecs) = WriteAll(cs, x)
    BY <1>2 DEF x
  <2>4. AsStruct(Got(x, rest), parts) = Got(v, rest)
    BY <1>7, <2>1
  <2> QED  BY <1>3, <2>2, <2>3, <2>4
<1>10. ASSUME NEW b \in ByteString
       PROVE  \/ BorshDeserialize(t, b, codecs) = << >>
              \/ \E v \in values, rest \in ByteString :
                   BorshDeserialize(t, b, codecs) = Got(v, rest) /\ b = BorshSerialize(t, v, codecs) \o rest
  <2>1. CASE ReadAll(cs, b) = << >>
    BY <1>3, <1>7, <2>1
  <2>2. ASSUME NEW x \in row, NEW rest \in ByteString,
               ReadAll(cs, b) = Got(x, rest), b = WriteAll(cs, x) \o rest
        PROVE  \E v \in values, left \in ByteString :
                 BorshDeserialize(t, b, codecs) = Got(v, left) /\ b = BorshSerialize(t, v, codecs) \o left
    <3> DEFINE v == RecordOf(parts, x)
    <3>1. v \in values /\ FieldsOf(parts, v) = x
      BY <1>5
    <3>2. BorshDeserialize(t, b, codecs) = Got(v, rest)
      BY <1>3, <1>7, <2>2
    <3> HIDE DEF v
    <3>3. b = BorshSerialize(t, v, codecs) \o rest
      BY <1>2, <2>2, <3>1
    <3> QED  BY <3>1, <3>2, <3>3
  <2> QED  BY <1>6, <2>1, <2>2
<1>11. SoundType(t, values, codecs)
  BY <1>8, <1>9, <1>10 DEF SoundType
<1> QED  BY <1>11 DEF t

\* What a byte in front of a byte string does.
LEMMA TagInFront ==
  ASSUME NEW k \in Byte, NEW b \in ByteString
  PROVE  /\ <<k>> \in ByteString /\ <<k>> \o b \in ByteString /\ <<k>> \o b # << >>
         /\ (<<k>> \o b)[1] = k /\ Tail(<<k>> \o b) = b
<1>1. <<k>> \in Seq(Byte) /\ Len(<<k>>) = 1 /\ b \in Seq(Byte) /\ <<k>>[1] = k
  BY DEF ByteString
<1> DEFINE one == <<k>>
<1> HIDE DEF one
<1>2. one \in Seq(Byte) /\ Len(one) = 1 /\ one[1] = k
  BY <1>1 DEF one
<1>3. (one \o b)[1] = k /\ Tail(one \o b) = b
  BY <1>1, <1>2, OneInFront
<1>4. one \o b \in ByteString /\ one \in ByteString
  BY <1>1, <1>2 DEF ByteString
<1>5. one \o b # << >>
  <2>1. Len(one \o b) = 1 + Len(b) /\ Len(b) \in Nat
    BY <1>1, <1>2, ConcatParts
  <2>2. Len(one \o b) # 0
    BY <2>1
  <2> QED  BY <2>2, NotEmpty
<1> QED  BY <1>3, <1>4, <1>5 DEF one

\* A byte string that is not empty.
LEMMA TakeTag ==
  ASSUME NEW b \in ByteString, b # << >>
  PROVE  b[1] \in Byte /\ Tail(b) \in ByteString /\ b = <<b[1]>> \o Tail(b)
<1>1. b \in Seq(Byte)
  BY DEF ByteString
<1>2. b[1] \in Byte /\ Tail(b) \in Seq(Byte) /\ Len(b) \in Nat \ {0}
  BY <1>1
<1>3. <<b[1]>> \in Seq(Byte)
  BY <1>2
<1>4. b = <<b[1]>> \o Tail(b)
  BY <1>1, <1>2, <1>3
<1> QED  BY <1>2, <1>4 DEF ByteString

\* The values of the variants, each with its name.
EnumOf(values, parts, inner) ==
  \A v : v \in values <=> \E i \in DOMAIN parts : \E y \in inner[parts[i].type] :
                            v = [variant |-> parts[i].name, value |-> y]

LEMMA EnumSound ==
  ASSUME NEW parts, NEW n \in Nat, DOMAIN parts = 1 .. n, Len(parts) = n, n <= Radix, Distinct(parts),
         NEW codecs, NEW inner, SoundParts(parts, codecs, inner),
         NEW values, EnumOf(values, parts, inner)
  PROVE  SoundType(Enum(parts), values, codecs)
<1> DEFINE t == Enum(parts)
           Put(v) == BorshSerialize(t, v, codecs)
           Take(b) == BorshDeserialize(t, b, codecs)
<1>1. t.kind = "enum" /\ t.parts = parts
  BY SMTT(60) DEF Enum
<1> HIDE DEF t
<1>2. ASSUME NEW i \in 1 .. n, NEW y \in inner[parts[i].type], NEW v,
             v = [variant |-> parts[i].name, value |-> y]
      PROVE  /\ Put(v) = <<i - 1>> \o codecs[parts[i].type].write[y]
             /\ codecs[parts[i].type].write[y] \in ByteString
  <2>1. v.variant = parts[i].name /\ v.value = y
    BY <1>2
  <2>2. IndexOf(parts, v.variant) = i
    BY <2>1, IndexOfPart
  <2>3. Put(v) = <<i - 1>> \o codecs[parts[i].type].write[y]
    BY <1>1, <2>1, <2>2 DEF BorshSerialize
  <2>4. Sound(codecs[parts[i].type], inner[parts[i].type])
    BY DEF SoundParts
  <2> QED  BY <2>3, <2>4 DEF Sound
<1>3. ASSUME NEW i \in 1 .. n
      PROVE  i - 1 \in Byte
  BY RadixAssumption DEF Byte
<1>4. ASSUME NEW b \in ByteString
      PROVE  Take(b) = IF b = << >> \/ b[1] >= n THEN << >>
                       ELSE AsVariant(codecs[parts[b[1] + 1].type].read[Tail(b)], parts[b[1] + 1].name)
  BY <1>1 DEF BorshDeserialize
<1>5. \A name : AsVariant(<< >>, name) = << >>
      /\ \A y, rest : AsVariant(Got(y, rest), name) = Got([variant |-> name, value |-> y], rest)
  <2>1. ASSUME NEW name PROVE AsVariant(<< >>, name) = << >>
    BY DEF AsVariant
  <2>2. ASSUME NEW name, NEW y, NEW rest
        PROVE  AsVariant(Got(y, rest), name) = Got([variant |-> name, value |-> y], rest)
    <3>1. Got(y, rest) # << >> /\ Got(y, rest)[1].value = y /\ Got(y, rest)[1].rest = rest
      BY GotParts
    <3> QED  BY <3>1, Zenon DEF AsVariant
  <2> QED  BY <2>1, <2>2
<1> HIDE DEF Put, Take
<1>6. ASSUME NEW v \in values
      PROVE  \E i \in 1 .. n : \E y \in inner[parts[i].type] : v = [variant |-> parts[i].name, value |-> y]
  BY DEF EnumOf
<1>7. ASSUME NEW v \in values, NEW rest \in ByteString
      PROVE  Put(v) \in ByteString /\ Take(Put(v) \o rest) = Got(v, rest)
  <2>0. PICK i \in 1 .. n : \E y \in inner[parts[i].type] : v = [variant |-> parts[i].name, value |-> y]
    BY <1>6
  <2>1. PICK y \in inner[parts[i].type] : v = [variant |-> parts[i].name, value |-> y]
    BY <2>0
  <2> DEFINE w == codecs[parts[i].type].write[y]
             k == i - 1
             b == <<k>> \o (w \o rest)
  <2>2. k \in Byte /\ k < n /\ k + 1 = i
    BY <1>3
  <2>3. Put(v) = <<k>> \o w /\ w \in ByteString
    BY <1>2, <2>1
  <2>4. Sound(codecs[parts[i].type], inner[parts[i].type])
    BY DEF SoundParts
  <2>5. codecs[parts[i].type].read[w \o rest] = Got(y, rest)
    BY <2>4 DEF Sound
  <2> HIDE DEF k, w
  <2>6. w \o rest \in ByteString /\ <<k>> \in ByteString /\ <<k>> \o w \in ByteString
    BY <2>2, <2>3, TagInFront, BytesJoined
  <2>7. b \in ByteString /\ b # << >> /\ b[1] = k /\ Tail(b) = w \o rest
    BY <2>2, <2>6, TagInFront
  <2>8. (<<k>> \o w) \o rest = b
    BY <2>3, <2>6, BytesJoined
  <2> HIDE DEF b
  <2>9. ~(b[1] >= n)
    BY <2>2, <2>7 DEF Byte
  <2>10. Take(b) = AsVariant(codecs[parts[i].type].read[w \o rest], parts[i].name)
    BY <1>4, <2>2, <2>7, <2>9
  <2>11. Take(b) = Got(v, rest)
    BY <1>5, <2>1, <2>5, <2>10
  <2> QED  BY <2>3, <2>6, <2>8, <2>11
<1>8. ASSUME NEW b \in ByteString, Take(b) # << >>
      PROVE  \E v \in values, rest \in ByteString : Take(b) = Got(v, rest) /\ b = Put(v) \o rest
  <2>1. b # << >> /\ ~(b[1] >= n)
    BY <1>4, <1>8
  <2>2. b[1] \in Byte /\ Tail(b) \in ByteString /\ b = <<b[1]>> \o Tail(b)
    BY <2>1, TakeTag
  <2> DEFINE i == b[1] + 1
             c == codecs[parts[i].type]
  <2>3. i \in 1 .. n /\ i - 1 = b[1]
    BY <2>1, <2>2, RadixAssumption DEF Byte
  <2>4. Take(b) = AsVariant(c.read[Tail(b)], parts[i].name)
    BY <1>4, <2>1
  <2> HIDE DEF i
  <2>5. Sound(c, inner[parts[i].type])
    BY <2>3 DEF SoundParts
  <2>6. c.read[Tail(b)] # << >>
    BY <1>5, <1>8, <2>4
  <2> HIDE DEF c
  <2>7. PICK y \in inner[parts[i].type], rest \in ByteString :
          c.read[Tail(b)] = Got(y, rest) /\ Tail(b) = c.write[y] \o rest
    BY <2>2, <2>5, <2>6 DEF Sound
  <2> DEFINE v == [variant |-> parts[i].name, value |-> y]
  <2>8. v \in values
    BY <2>3 DEF EnumOf
  <2>9. Put(v) = <<i - 1>> \o c.write[y] /\ c.write[y] \in ByteString
    BY <1>2, <2>3 DEF c
  <2>10. Take(b) = Got(v, rest)
    BY <1>5, <2>4, <2>7
  <2>11. i - 1 \in Byte
    BY <1>3, <2>3
  <2> HIDE DEF v
  <2>12. <<i - 1>> \in ByteString
    BY <2>11, <2>2, TagInFront
  <2>13. b = <<i - 1>> \o (c.write[y] \o rest)
    BY <2>2, <2>3, <2>7
  <2>14. b = Put(v) \o rest
    <3> DEFINE one == <<i - 1>>
               w == c.write[y]
    <3>1. one \in ByteString /\ w \in ByteString /\ Put(v) = one \o w /\ b = one \o (w \o rest)
      BY <2>9, <2>12, <2>13
    <3> HIDE DEF one, w, Put
    <3>2. (one \o w) \o rest = one \o (w \o rest)
      BY <3>1, BytesJoined
    <3> QED  BY <3>1, <3>2
  <2> QED  BY <2>8, <2>10, <2>14
<1>9. SoundType(t, values, codecs)
  <2>1. << >> \in ByteString
    BY BytesJoined
  <2> QED  BY <1>7, <1>8, <2>1 DEF SoundType, Put, Take
<1> QED  BY <1>9 DEF t

\* At most so many items.
Items(set, max) == {s \in Seq(set) : Len(s) <= max}

LEMMA CopiesRow ==
  ASSUME NEW n \in Nat, NEW codec, NEW set, Sound(codec, set)
  PROVE  /\ Len(Copies(n, codec)) = n
         /\ SoundRow(Copies(n, codec), [i \in 1 .. n |-> set], n, set)
         /\ \A s : s \in Row([i \in 1 .. n |-> set], n, set) <=> s \in Seq(set) /\ Len(s) = n
<1>1. Copies(n, codec) \in [1 .. n -> {codec}]
  BY DEF Copies
<1>2. Len(Copies(n, codec)) = n
  BY <1>1, MadeSequence
<1>3. \A i \in 1 .. n : Copies(n, codec)[i] = codec
  BY DEF Copies
<1>4. SoundRow(Copies(n, codec), [i \in 1 .. n |-> set], n, set)
  BY <1>3 DEF SoundRow
<1>5. ASSUME NEW s
      PROVE  s \in Row([i \in 1 .. n |-> set], n, set) <=> s \in Seq(set) /\ Len(s) = n
  BY DEF Row
<1> QED  BY <1>2, <1>4, <1>5

\* A number of items, then the items.
SoundItems(codec, set, max) ==
  /\ \A s \in Items(set, max) : WriteItems(codec, s) \in ByteString
  /\ \A s \in Items(set, max), rest \in ByteString :
       ReadItems(codec, max, WriteItems(codec, s) \o rest) = Got(s, rest)
  /\ \A b \in ByteString :
       \/ ReadItems(codec, max, b) = << >>
       \/ \E s \in Items(set, max), rest \in ByteString :
            ReadItems(codec, max, b) = Got(s, rest) /\ b = WriteItems(codec, s) \o rest

LEMMA ItemsSound ==
  ASSUME NEW codec, NEW set, Sound(codec, set), NEW max \in Nat, max < Radix
  PROVE  SoundItems(codec, set, max)
<1>1. ASSUME NEW n \in Nat
      PROVE  /\ \A s \in Seq(set) : Len(s) = n => WriteAll(Copies(n, codec), s) \in ByteString
             /\ \A s \in Seq(set), rest \in ByteString : Len(s) = n =>
                  ReadAll(Copies(n, codec), WriteAll(Copies(n, codec), s) \o rest) = Got(s, rest)
             /\ \A b \in ByteString :
                  \/ ReadAll(Copies(n, codec), b) = << >>
                  \/ \E s \in Seq(set), rest \in ByteString :
                       /\ Len(s) = n
                       /\ ReadAll(Copies(n, codec), b) = Got(s, rest)
                       /\ b = WriteAll(Copies(n, codec), s) \o rest
  <2> DEFINE cs == Copies(n, codec)
             sets == [i \in 1 .. n |-> set]
  <2>1. Len(cs) = n /\ SoundRow(cs, sets, n, set)
        /\ \A s : s \in Row(sets, n, set) <=> s \in Seq(set) /\ Len(s) = n
    BY CopiesRow
  <2> HIDE DEF cs, sets
  <2>2. /\ \A x \in Row(sets, n, set) : WriteAll(cs, x) \in ByteString
        /\ \A x \in Row(sets, n, set), rest \in ByteString :
             ReadAll(cs, WriteAll(cs, x) \o rest) = Got(x, rest)
        /\ \A b \in ByteString :
             \/ ReadAll(cs, b) = << >>
             \/ \E x \in Row(sets, n, set), rest \in ByteString :
                  ReadAll(cs, b) = Got(x, rest) /\ b = WriteAll(cs, x) \o rest
    BY <2>1, RowSound
  <2>3. /\ \A s \in Seq(set) : Len(s) = n => WriteAll(cs, s) \in ByteString
        /\ \A s \in Seq(set), rest \in ByteString : Len(s) = n =>
             ReadAll(cs, WriteAll(cs, s) \o rest) = Got(s, rest)
    BY <2>1, <2>2
  <2>4. ASSUME NEW b \in ByteString
        PROVE  \/ ReadAll(cs, b) = << >>
               \/ \E s \in Seq(set), rest \in ByteString :
                    /\ Len(s) = n
                    /\ ReadAll(cs, b) = Got(s, rest)
                    /\ b = WriteAll(cs, s) \o rest
    BY <2>1, <2>2
  <2> QED  BY <2>3, <2>4 DEF cs
<1>2. ASSUME NEW s \in Items(set, max), NEW rest \in ByteString
      PROVE  WriteItems(codec, s) \in ByteString
             /\ ReadItems(codec, max, WriteItems(codec, s) \o rest) = Got(s, rest)
  <2> DEFINE n == Len(s)
             w == WriteAll(Copies(n, codec), s)
             b == <<n>> \o (w \o rest)
  <2>1. s \in Seq(set) /\ n \in Nat /\ n <= max
    BY DEF Items
  <2>2. n \in Byte
    BY <2>1, RadixAssumption DEF Byte
  <2>3. w \in ByteString /\ ReadAll(Copies(n, codec), w \o rest) = Got(s, rest)
    BY <1>1, <2>1
  <2>4. WriteItems(codec, s) = <<n>> \o w
    BY DEF WriteItems
  <2> HIDE DEF n, w
  <2>5. w \o rest \in ByteString /\ <<n>> \in ByteString /\ <<n>> \o w \in ByteString
    BY <2>2, <2>3, TagInFront, BytesJoined
  <2>6. b \in ByteString /\ b # << >> /\ b[1] = n /\ Tail(b) = w \o rest
    BY <2>2, <2>5, TagInFront
  <2>7. (<<n>> \o w) \o rest = b
    BY <2>3, <2>5, BytesJoined
  <2> HIDE DEF b
  <2>8. ~(b[1] > max)
    BY <2>1, <2>6
  <2>9. ReadItems(codec, max, b) = Got(s, rest)
    BY <2>3, <2>6, <2>8 DEF ReadItems
  <2> QED  BY <2>4, <2>5, <2>7, <2>9
<1>3. ASSUME NEW b \in ByteString, ReadItems(codec, max, b) # << >>
      PROVE  \E s \in Items(set, max), rest \in ByteString :
               ReadItems(codec, max, b) = Got(s, rest) /\ b = WriteItems(codec, s) \o rest
  <2>1. b # << >> /\ ~(b[1] > max)
    BY <1>3 DEF ReadItems
  <2>2. b[1] \in Byte /\ Tail(b) \in ByteString /\ b = <<b[1]>> \o Tail(b)
    BY <2>1, TakeTag
  <2> DEFINE n == b[1]
             cs == Copies(n, codec)
  <2>3. n \in Nat /\ n <= max
    BY <2>1, <2>2 DEF Byte
  <2>4. ReadItems(codec, max, b) = ReadAll(cs, Tail(b))
    BY <2>1 DEF ReadItems
  <2>5. PICK s \in Seq(set), rest \in ByteString :
          Len(s) = n /\ ReadAll(cs, Tail(b)) = Got(s, rest) /\ Tail(b) = WriteAll(cs, s) \o rest
    BY <1>1, <1>3, <2>2, <2>3, <2>4, ZenonT(60)
  <2>6. s \in Items(set, max)
    BY <2>3, <2>5 DEF Items
  <2> DEFINE w == WriteAll(cs, s)
             one == <<n>>
  <2>7. w \in ByteString /\ WriteItems(codec, s) = one \o w
    BY <1>1, <2>3, <2>5 DEF WriteItems
  <2>8. one \in ByteString
    BY <2>2, TagInFront
  <2>9. b = one \o (w \o rest)
    BY <2>2, <2>5
  <2> HIDE DEF w, one
  <2>10. b = WriteItems(codec, s) \o rest
    BY <2>7, <2>8, <2>9, BytesJoined, SMTT(60)
  <2>11. ReadItems(codec, max, b) = Got(s, rest)
    BY <2>4, <2>5
  <2> QED  BY <2>6, <2>10, <2>11
<1>4. << >> \in ByteString
  BY BytesJoined
<1> QED  BY <1>2, <1>3, <1>4 DEF SoundItems

\* A type whose codec is one of items.
LEMMA ItemsType ==
  ASSUME NEW codec, NEW set, NEW max, SoundItems(codec, set, max), NEW t, NEW codecs,
         \A v : BorshSerialize(t, v, codecs) = WriteItems(codec, v),
         \A b : BorshDeserialize(t, b, codecs) = ReadItems(codec, max, b)
  PROVE  SoundType(t, Items(set, max), codecs)
<1> DEFINE values == Items(set, max)
<1>1. \A v \in values : BorshSerialize(t, v, codecs) \in ByteString
  BY DEF SoundItems
<1>2. ASSUME NEW v \in values, NEW rest \in ByteString
      PROVE  BorshDeserialize(t, BorshSerialize(t, v, codecs) \o rest, codecs) = Got(v, rest)
  BY DEF SoundItems
<1>3. ASSUME NEW b \in ByteString
      PROVE  \/ BorshDeserialize(t, b, codecs) = << >>
             \/ \E v \in values, rest \in ByteString :
                  BorshDeserialize(t, b, codecs) = Got(v, rest) /\ b = BorshSerialize(t, v, codecs) \o rest
  <2>1. \/ ReadItems(codec, max, b) = << >>
        \/ \E s \in values, rest \in ByteString :
             ReadItems(codec, max, b) = Got(s, rest) /\ b = WriteItems(codec, s) \o rest
    BY DEF SoundItems
  <2> HIDE DEF values
  <2> QED  BY <2>1
<1> HIDE DEF values
<1>4. SoundType(t, values, codecs)
  BY <1>1, <1>2, <1>3 DEF SoundType
<1> QED  BY <1>4 DEF values

LEMMA ListSound ==
  ASSUME NEW type, NEW codecs, NEW inner, Sound(codecs[type], inner[type])
  PROVE  SoundType(List(type), Short(inner[type]), codecs)
<1> DEFINE t == List(type)
<1>1. t.kind = "list" /\ t.parts[1].type = type
  BY DEF List, Part
<1> HIDE DEF t
<1>2. /\ \A v : BorshSerialize(t, v, codecs) = WriteItems(codecs[type], v)
      /\ \A b : BorshDeserialize(t, b, codecs) = ReadItems(codecs[type], Radix - 1, b)
  BY <1>1 DEF BorshSerialize, BorshDeserialize
<1>3. Short(inner[type]) = Items(inner[type], Radix - 1)
  <2>1. \A s \in Seq(inner[type]) : Len(s) < Radix <=> Len(s) <= Radix - 1
    BY RadixAssumption
  <2> QED  BY <2>1 DEF Short, Items
<1>4. Radix - 1 \in Nat /\ Radix - 1 < Radix
  BY RadixAssumption
<1>5. SoundType(t, Items(inner[type], Radix - 1), codecs)
  <2>1. SoundItems(codecs[type], inner[type], Radix - 1)
    BY <1>4, ItemsSound
  <2> QED  BY <1>2, <2>1, ItemsType
<1> QED  BY <1>3, <1>5 DEF t

LEMMA OptionSound ==
  ASSUME NEW type, NEW codecs, NEW inner, Sound(codecs[type], inner[type])
  PROVE  SoundType(Option(type), Items(inner[type], 1), codecs)
<1> DEFINE t == Option(type)
<1>1. t.kind = "option" /\ t.parts[1].type = type
  BY DEF Option, Part
<1> HIDE DEF t
<1>2. /\ \A v : BorshSerialize(t, v, codecs) = WriteItems(codecs[type], v)
      /\ \A b : BorshDeserialize(t, b, codecs) = ReadItems(codecs[type], 1, b)
  BY <1>1 DEF BorshSerialize, BorshDeserialize
<1>3. 1 \in Nat /\ 1 < Radix
  BY RadixAssumption
<1>4. SoundType(t, Items(inner[type], 1), codecs)
  <2>1. SoundItems(codecs[type], inner[type], 1)
    BY <1>3, ItemsSound
  <2> QED  BY <1>2, <2>1, ItemsType
<1> QED  BY <1>4 DEF t

\* The first bytes of a byte string and the others.
LEMMA FrontOf ==
  ASSUME NEW c \in ByteString, NEW rest \in ByteString
  PROVE  /\ Len(c \o rest) >= Len(c) /\ c \o rest \in ByteString
         /\ SubSeq(c \o rest, 1, Len(c)) = c
         /\ SubSeq(c \o rest, Len(c) + 1, Len(c \o rest)) = rest
<1> DEFINE e == << >>
           n == Len(c)
<1>1. e \in Seq(Byte) /\ c \in Seq(Byte) /\ rest \in Seq(Byte) /\ Len(e) = 0 /\ n \in Nat
  BY DEF ByteString
<1>2. (e \o c) \o rest = c \o rest /\ (c \o rest) \o e = c \o rest
  BY BytesJoined
<1>3. Len(c \o rest) = n + Len(rest) /\ Len(rest) \in Nat
  BY <1>1, ConcatParts
<1> HIDE DEF e
<1>4. SubSeq((e \o c) \o rest, Len(e) + 1, Len(e) + Len(c)) = c
  BY <1>1, Between
<1>5. SubSeq((c \o rest) \o e, Len(c) + 1, Len(c) + Len(rest)) = rest
  BY <1>1, Between
<1>6. SubSeq(c \o rest, 1, n) = c
  <2>1. Len(e) + 1 = 1 /\ Len(e) + Len(c) = n
    BY <1>1
  <2> QED  BY <1>2, <1>4, <2>1
<1>7. SubSeq(c \o rest, n + 1, Len(c \o rest)) = rest
  BY <1>2, <1>3, <1>5
<1>8. c \o rest \in ByteString
  BY BytesJoined
<1> QED  BY <1>1, <1>3, <1>6, <1>7, <1>8

LEMMA FrontTaken ==
  ASSUME NEW b \in ByteString, NEW n \in Nat, ~(Len(b) < n)
  PROVE  /\ SubSeq(b, 1, n) \in ByteString /\ Len(SubSeq(b, 1, n)) = n
         /\ SubSeq(b, n + 1, Len(b)) \in ByteString
         /\ b = SubSeq(b, 1, n) \o SubSeq(b, n + 1, Len(b))
<1> DEFINE c == SubSeq(b, 1, n)
           d == SubSeq(b, n + 1, Len(b))
<1>1. b \in Seq(Byte) /\ Len(b) \in Nat /\ n <= Len(b)
  BY DEF ByteString
<1>2. c \in Seq(Byte) /\ Len(c) = n /\ \A i \in 1 .. n : c[i] = b[i]
  BY <1>1
<1>3. d \in Seq(Byte) /\ Len(d) = Len(b) - n /\ \A i \in 1 .. Len(b) - n : d[i] = b[n + i]
  BY <1>1
<1> HIDE DEF c, d
<1>4. c \o d \in Seq(Byte) /\ Len(c \o d) = Len(b)
      /\ (\A i \in 1 .. n : (c \o d)[i] = c[i])
      /\ \A i \in 1 .. Len(b) - n : (c \o d)[n + i] = d[i]
  BY <1>1, <1>2, <1>3, ConcatParts
<1>5. \A i \in 1 .. Len(b) : (c \o d)[i] = b[i]
  <2> TAKE i \in 1 .. Len(b)
  <2>1. CASE i <= n
    <3>1. i \in 1 .. n
      BY <2>1
    <3> QED  BY <1>2, <1>4, <3>1
  <2>2. CASE ~(i <= n)
    <3>1. i - n \in 1 .. Len(b) - n /\ n + (i - n) = i
      BY <1>1, <2>2
    <3> QED  BY <1>3, <1>4, <3>1
  <2> QED  BY <2>1, <2>2
<1>6. b = c \o d
  BY <1>1, <1>4, <1>5, SeqEqual
<1>7. c \in ByteString /\ d \in ByteString
  BY <1>2, <1>3 DEF ByteString
<1> QED  BY <1>2, <1>6, <1>7 DEF c, d

\* The byte strings of a length.
StringsOf(n) == {b \in ByteString : Len(b) = n}

LEMMA ArraysOfBytes ==
  ASSUME NEW n \in Nat
  PROVE  [1 .. n -> Byte] = StringsOf(n)
<1>1. \A b : b \in [1 .. n -> Byte] <=> b \in Seq(Byte) /\ Len(b) = n
  OBVIOUS
<1> QED  BY <1>1 DEF StringsOf, ByteString

LEMMA FixedForms ==
  ASSUME NEW n \in Nat
  PROVE  /\ \A c \in StringsOf(n), rest \in ByteString : Fixed(c \o rest, n) = Got(c, rest)
         /\ \A b \in ByteString : Fixed(b, n) # << >> =>
              \E c \in StringsOf(n), rest \in ByteString : Fixed(b, n) = Got(c, rest) /\ b = c \o rest
<1>1. ASSUME NEW c \in StringsOf(n), NEW rest \in ByteString
      PROVE  Fixed(c \o rest, n) = Got(c, rest)
  <2>1. c \in ByteString /\ Len(c) = n
    BY DEF StringsOf
  <2>2. /\ Len(c \o rest) >= n /\ c \o rest \in ByteString
        /\ SubSeq(c \o rest, 1, n) = c
        /\ SubSeq(c \o rest, n + 1, Len(c \o rest)) = rest
    BY <2>1, FrontOf
  <2>3. ~(Len(c \o rest) < n)
    <3>1. Len(c \o rest) \in Nat
      BY <2>2 DEF ByteString
    <3> QED  BY <2>2, <3>1
  <2> QED  BY <2>2, <2>3, Zenon DEF Fixed
<1>2. ASSUME NEW b \in ByteString, Fixed(b, n) # << >>
      PROVE  \E c \in StringsOf(n), rest \in ByteString : Fixed(b, n) = Got(c, rest) /\ b = c \o rest
  <2> DEFINE c == SubSeq(b, 1, n)
             d == SubSeq(b, n + 1, Len(b))
  <2>1. ~(Len(b) < n) /\ Fixed(b, n) = Got(c, d)
    BY <1>2 DEF Fixed
  <2>2. c \in StringsOf(n) /\ d \in ByteString /\ b = c \o d
    BY <2>1, FrontTaken DEF StringsOf
  <2> HIDE DEF c, d
  <2> QED  BY <2>1, <2>2
<1> QED  BY <1>1, <1>2

LEMMA BlockHashSound ==
  ASSUME NEW codecs
  PROVE  SoundType(Primitive("BlockHash"), [1 .. HASH_LENGTH -> Byte], codecs)
<1> DEFINE t == Primitive("BlockHash")
           values == StringsOf(HASH_LENGTH)
<1>1. t.kind = "BlockHash"
  BY DEF Primitive
<1> HIDE DEF t
<1>2. \A v : BorshSerialize(t, v, codecs) = v
  BY <1>1 DEF BorshSerialize
<1>3. \A b : BorshDeserialize(t, b, codecs) = Fixed(b, HASH_LENGTH)
  BY <1>1 DEF BorshDeserialize
<1>4. HASH_LENGTH \in Nat
  BY LengthAssumption
<1>5. \A v \in values : v \in ByteString
  BY DEF StringsOf
<1>6. /\ \A c \in values, rest \in ByteString : Fixed(c \o rest, HASH_LENGTH) = Got(c, rest)
      /\ \A b \in ByteString : Fixed(b, HASH_LENGTH) # << >> =>
           \E c \in values, rest \in ByteString : Fixed(b, HASH_LENGTH) = Got(c, rest) /\ b = c \o rest
  BY <1>4, FixedForms
<1>7. [1 .. HASH_LENGTH -> Byte] = values
  BY <1>4, ArraysOfBytes
<1> HIDE DEF values
<1>8. SoundType(t, values, codecs)
  <2>1. \A v \in values : BorshSerialize(t, v, codecs) \in ByteString
    BY <1>2, <1>5
  <2>2. ASSUME NEW v \in values, NEW rest \in ByteString
        PROVE  BorshDeserialize(t, BorshSerialize(t, v, codecs) \o rest, codecs) = Got(v, rest)
    BY <1>2, <1>3, <1>6
  <2>3. ASSUME NEW b \in ByteString, BorshDeserialize(t, b, codecs) # << >>
        PROVE  \E v \in values, rest \in ByteString :
                 BorshDeserialize(t, b, codecs) = Got(v, rest) /\ b = BorshSerialize(t, v, codecs) \o rest
    <3>1. PICK c \in values, rest \in ByteString : Fixed(b, HASH_LENGTH) = Got(c, rest) /\ b = c \o rest
      BY <2>3, <1>3, <1>6
    <3> QED  BY <3>1, <1>2, <1>3
  <2> QED  BY <2>1, <2>2, <2>3 DEF SoundType
<1> QED  BY <1>7, <1>8 DEF t

LEMMA U64Sound ==
  ASSUME NEW codecs
  PROVE  SoundType(Primitive("U64"), Byte, codecs)
<1> DEFINE t == Primitive("U64")
<1>1. t.kind = "U64"
  BY DEF Primitive
<1> HIDE DEF t
<1>2. \A v : BorshSerialize(t, v, codecs) = <<v>>
  BY <1>1 DEF BorshSerialize
<1>3. \A b : BorshDeserialize(t, b, codecs) = IF b = << >> THEN << >> ELSE Got(b[1], Tail(b))
  BY <1>1 DEF BorshDeserialize
<1>4. \A v \in Byte : BorshSerialize(t, v, codecs) \in ByteString
  BY <1>2, TagInFront, BytesJoined
<1>5. ASSUME NEW v \in Byte, NEW rest \in ByteString
      PROVE  BorshDeserialize(t, BorshSerialize(t, v, codecs) \o rest, codecs) = Got(v, rest)
  <2> DEFINE b == <<v>> \o rest
  <2>1. b # << >> /\ b[1] = v /\ Tail(b) = rest
    BY TagInFront
  <2>2. BorshSerialize(t, v, codecs) \o rest = b
    BY <1>2
  <2> HIDE DEF b
  <2> QED  BY <1>3, <2>1, <2>2
<1>6. ASSUME NEW b \in ByteString
      PROVE  \/ BorshDeserialize(t, b, codecs) = << >>
             \/ \E v \in Byte, rest \in ByteString :
                  BorshDeserialize(t, b, codecs) = Got(v, rest) /\ b = BorshSerialize(t, v, codecs) \o rest
  <2>1. CASE b = << >>
    BY <1>3, <2>1
  <2>2. CASE b # << >>
    <3> DEFINE v == b[1]
               rest == Tail(b)
    <3>1. v \in Byte /\ rest \in ByteString /\ b = <<v>> \o rest
      BY <2>2, TakeTag
    <3>2. BorshDeserialize(t, b, codecs) = Got(v, rest)
      BY <1>3, <2>2
    <3> HIDE DEF v, rest
    <3>3. b = BorshSerialize(t, v, codecs) \o rest
      BY <1>2, <3>1
    <3> QED  BY <3>1, <3>2, <3>3
  <2> QED  BY <2>1, <2>2
<1>7. SoundType(t, Byte, codecs)
  BY <1>4, <1>5, <1>6 DEF SoundType
<1> QED  BY <1>7 DEF t

LEMMA UnitSound ==
  ASSUME NEW codecs
  PROVE  SoundType(Primitive("Unit"), {NoFields}, codecs)
<1> DEFINE t == Primitive("Unit")
<1>1. t.kind = "Unit"
  BY DEF Primitive
<1> HIDE DEF t
<1>2. \A v : BorshSerialize(t, v, codecs) = << >>
  BY <1>1 DEF BorshSerialize
<1>3. \A b : BorshDeserialize(t, b, codecs) = Got(NoFields, b)
  BY <1>1 DEF BorshDeserialize
<1>4. << >> \in ByteString /\ \A b \in ByteString : << >> \o b = b
  BY BytesJoined
<1>5. NoFields \in {NoFields} /\ \A v \in {NoFields} : v = NoFields
  OBVIOUS
<1>6. SoundType(t, {NoFields}, codecs)
  BY <1>2, <1>3, <1>4, <1>5 DEF SoundType
<1> QED  BY <1>6 DEF t

\* A length and so many bytes.
LEMMA CountedForms ==
  /\ \A c \in Short(Byte) : <<Len(c)>> \o c \in ByteString
  /\ \A c \in Short(Byte), rest \in ByteString :
       /\ Counted((<<Len(c)>> \o c) \o rest) = Got(c, rest)
       /\ (<<Len(c)>> \o c) \o rest # << >> /\ ((<<Len(c)>> \o c) \o rest)[1] = Len(c)
  /\ \A b \in ByteString : Counted(b) # << >> =>
       \E c \in Short(Byte), rest \in ByteString :
         Counted(b) = Got(c, rest) /\ b = (<<Len(c)>> \o c) \o rest /\ Len(c) = b[1]
<1>1. ASSUME NEW c \in Short(Byte), NEW rest \in ByteString
      PROVE  /\ <<Len(c)>> \o c \in ByteString
             /\ Counted((<<Len(c)>> \o c) \o rest) = Got(c, rest)
             /\ (<<Len(c)>> \o c) \o rest # << >> /\ ((<<Len(c)>> \o c) \o rest)[1] = Len(c)
  <2> DEFINE n == Len(c)
             one == <<n>>
             b == one \o (c \o rest)
  <2>1. c \in ByteString /\ n \in Nat /\ n < Radix
    BY DEF Short, ByteString
  <2>2. n \in Byte
    BY <2>1, RadixAssumption DEF Byte
  <2>3. one \in ByteString /\ one \o c \in ByteString
    BY <2>1, <2>2, TagInFront
  <2>4. c \o rest \in ByteString
    BY <2>1, BytesJoined
  <2>5. b # << >> /\ b[1] = n /\ Tail(b) = c \o rest
    BY <2>2, <2>4, TagInFront
  <2>6. c \in StringsOf(n)
    BY <2>1 DEF StringsOf
  <2> HIDE DEF one, n
  <2>7. (one \o c) \o rest = b
    BY <2>1, <2>3, BytesJoined
  <2> HIDE DEF b
  <2>8. Fixed(c \o rest, n) = Got(c, rest)
    BY <2>1, <2>6, FixedForms
  <2>9. Counted(b) = Got(c, rest)
    BY <2>5, <2>8 DEF Counted
  <2>10. one \o c \in ByteString /\ Counted((one \o c) \o rest) = Got(c, rest)
         /\ (one \o c) \o rest # << >> /\ ((one \o c) \o rest)[1] = n
    BY <2>3, <2>5, <2>7, <2>9
  <2> QED  BY <2>10 DEF one, n
<1>2. ASSUME NEW b \in ByteString, Counted(b) # << >>
      PROVE  \E c \in Short(Byte), rest \in ByteString :
               Counted(b) = Got(c, rest) /\ b = (<<Len(c)>> \o c) \o rest /\ Len(c) = b[1]
  <2>1. b # << >> /\ Counted(b) = Fixed(Tail(b), b[1])
    BY <1>2 DEF Counted
  <2>2. b[1] \in Byte /\ Tail(b) \in ByteString /\ b = <<b[1]>> \o Tail(b)
    BY <2>1, TakeTag
  <2> DEFINE n == b[1]
             one == <<n>>
  <2>3. n \in Nat /\ n < Radix
    BY <2>2, RadixAssumption DEF Byte
  <2>4. PICK c \in StringsOf(n), rest \in ByteString : Fixed(Tail(b), n) = Got(c, rest) /\ Tail(b) = c \o rest
    BY <1>2, <2>1, <2>2, <2>3, FixedForms, ZenonT(60)
  <2>5. c \in ByteString /\ Len(c) = n
    BY DEF StringsOf
  <2>6. c \in Short(Byte)
    BY <2>3, <2>5 DEF Short, ByteString
  <2>7. one \in ByteString /\ b = one \o (c \o rest)
    BY <2>2, <2>4, TagInFront
  <2> HIDE DEF one
  <2>8. b = (one \o c) \o rest
    BY <2>5, <2>7, BytesJoined, SMTT(60)
  <2>9. b = (<<Len(c)>> \o c) \o rest
    BY <2>5, <2>8 DEF one
  <2> QED  BY <2>1, <2>4, <2>5, <2>6, <2>9
<1>3. << >> \in ByteString
  BY BytesJoined
<1> QED  BY <1>1, <1>2, <1>3

\* The byte strings with a length in front.
LEMMA BytesSound ==
  ASSUME NEW codecs, NEW name, name = "Base64VecU8" \/ name = "VecU8" \/ name = "String"
  PROVE  SoundType(Primitive(name), Short(Byte), codecs)
<1> DEFINE t == Primitive(name)
           values == Short(Byte)
<1>1. t.kind = name
  BY SMTT(60) DEF Primitive
<1> HIDE DEF t
<1>2. \A v : BorshSerialize(t, v, codecs) = <<Len(v)>> \o v
  BY <1>1, ZenonT(60) DEF BorshSerialize
<1>3. \A b : BorshDeserialize(t, b, codecs) = Counted(b)
  BY <1>1 DEF BorshDeserialize
<1>4. /\ \A c \in values : <<Len(c)>> \o c \in ByteString
      /\ \A c \in values, rest \in ByteString : Counted((<<Len(c)>> \o c) \o rest) = Got(c, rest)
      /\ \A b \in ByteString : Counted(b) # << >> =>
           \E c \in values, rest \in ByteString : Counted(b) = Got(c, rest) /\ b = (<<Len(c)>> \o c) \o rest
  BY CountedForms
<1> HIDE DEF values
<1>5. SoundType(t, values, codecs)
  <2>1. \A v \in values : BorshSerialize(t, v, codecs) \in ByteString
    BY <1>2, <1>4
  <2>2. ASSUME NEW v \in values, NEW rest \in ByteString
        PROVE  BorshDeserialize(t, BorshSerialize(t, v, codecs) \o rest, codecs) = Got(v, rest)
    <3>1. BorshSerialize(t, v, codecs) \o rest = (<<Len(v)>> \o v) \o rest
      BY <1>2
    <3>2. Counted((<<Len(v)>> \o v) \o rest) = Got(v, rest)
      BY <1>4
    <3> QED  BY <1>3, <3>1, <3>2
  <2>3. ASSUME NEW b \in ByteString, BorshDeserialize(t, b, codecs) # << >>
        PROVE  \E v \in values, rest \in ByteString :
                 BorshDeserialize(t, b, codecs) = Got(v, rest) /\ b = BorshSerialize(t, v, codecs) \o rest
    <3>1. PICK c \in values, rest \in ByteString : Counted(b) = Got(c, rest) /\ b = (<<Len(c)>> \o c) \o rest
      BY <2>3, <1>3, <1>4
    <3> QED  BY <3>1, <1>2, <1>3
  <2> QED  BY <2>1, <2>2, <2>3 DEF SoundType
<1> QED  BY <1>5 DEF t, values

LEMMA AccountIdSound ==
  ASSUME NEW codecs
  PROVE  SoundType(Primitive("AccountId"), Short(Byte) \ {<< >>}, codecs)
<1> DEFINE t == Primitive("AccountId")
           values == Short(Byte) \ {<< >>}
<1>1. t.kind = "AccountId"
  BY DEF Primitive
<1> HIDE DEF t
<1>2. \A v : BorshSerialize(t, v, codecs) = <<Len(v)>> \o v
  BY <1>1 DEF BorshSerialize
<1>3. \A b : BorshDeserialize(t, b, codecs) = IF b = << >> \/ b[1] = 0 THEN << >> ELSE Counted(b)
  BY <1>1 DEF BorshDeserialize
<1>4. \A c \in Short(Byte) : c \in values <=> Len(c) # 0
  <2>1. \A c \in Seq(Byte) : c = << >> <=> Len(c) = 0
    BY EmptySeq
  <2> QED  BY <2>1 DEF Short
<1>5. \A c \in values : c \in Short(Byte)
  OBVIOUS
<1> HIDE DEF values
<1>6. ASSUME NEW v \in values
      PROVE  BorshSerialize(t, v, codecs) \in ByteString
  <2>1. <<Len(v)>> \o v \in ByteString
    BY <1>5, CountedForms
  <2> QED  BY <1>2, <2>1
<1>7. ASSUME NEW v \in values, NEW rest \in ByteString
      PROVE  BorshDeserialize(t, BorshSerialize(t, v, codecs) \o rest, codecs) = Got(v, rest)
  <2> DEFINE b == (<<Len(v)>> \o v) \o rest
  <2>1. Counted(b) = Got(v, rest) /\ b # << >> /\ b[1] = Len(v) /\ Len(v) # 0
    BY <1>4, <1>5, CountedForms
  <2>2. BorshSerialize(t, v, codecs) \o rest = b
    BY <1>2
  <2> HIDE DEF b
  <2> QED  BY <1>3, <2>1, <2>2
<1>8. ASSUME NEW b \in ByteString, BorshDeserialize(t, b, codecs) # << >>
      PROVE  \E v \in values, rest \in ByteString :
               BorshDeserialize(t, b, codecs) = Got(v, rest) /\ b = BorshSerialize(t, v, codecs) \o rest
  <2>1. b[1] # 0 /\ BorshDeserialize(t, b, codecs) = Counted(b) /\ Counted(b) # << >>
    BY <1>3, <1>8
  <2>2. PICK c \in Short(Byte), rest \in ByteString :
          Counted(b) = Got(c, rest) /\ b = (<<Len(c)>> \o c) \o rest /\ Len(c) = b[1]
    BY <2>1, CountedForms
  <2>3. c \in values
    BY <1>4, <2>1, <2>2
  <2> QED  BY <1>2, <2>1, <2>2, <2>3
<1>9. SoundType(t, values, codecs)
  BY <1>6, <1>7, <1>8 DEF SoundType
<1> QED  BY <1>9 DEF t, values

\* Two bytes of a number.
LEMMA TwoBytes ==
  /\ \A v \in 0 .. Radix * Radix - 1 :
       v % Radix \in Byte /\ v \div Radix \in Byte /\ (v % Radix) + Radix * (v \div Radix) = v
  /\ \A low, high \in Byte :
       LET v == low + Radix * high
       IN  v \in 0 .. Radix * Radix - 1 /\ v % Radix = low /\ v \div Radix = high
<1>1. ASSUME NEW v \in 0 .. Radix * Radix - 1
      PROVE  v % Radix \in Byte /\ v \div Radix \in Byte /\ (v % Radix) + Radix * (v \div Radix) = v
  <2>1. v \in Int /\ 0 <= v /\ v <= Radix * Radix - 1 /\ Radix \in Nat /\ Radix > 0
    BY RadixAssumption
  <2>2. v % Radix \in 0 .. Radix - 1 /\ v = Radix * (v \div Radix) + (v % Radix) /\ v \div Radix \in Int
    BY <2>1
  <2> DEFINE q == v \div Radix
             r == v % Radix
  <2>3. q \in Int /\ r \in 0 .. Radix - 1 /\ v = Radix * q + r
    BY <2>2
  <2> HIDE DEF q, r
  <2>4. q >= 0
    <3>1. SUFFICES ASSUME q <= -1 PROVE FALSE
      BY <2>3
    <3>2. Radix * q <= Radix * (-1)
      BY <2>1, <2>3, <3>1
    <3> QED  BY <2>1, <2>3, <3>2
  <2>5. q < Radix
    <3>1. SUFFICES ASSUME q >= Radix PROVE FALSE
      BY <2>1, <2>3
    <3>2. Radix * q >= Radix * Radix
      BY <2>1, <2>3, <3>1
    <3> QED  BY <2>1, <2>3, <3>2
  <2> QED  BY <2>1, <2>2, <2>3, <2>4, <2>5 DEF q, r, Byte
<1>2. ASSUME NEW low \in Byte, NEW high \in Byte
      PROVE  LET v == low + Radix * high
             IN  v \in 0 .. Radix * Radix - 1 /\ v % Radix = low /\ v \div Radix = high
  <2> DEFINE v == low + Radix * high
  <2>1. low \in 0 .. Radix - 1 /\ high \in 0 .. Radix - 1 /\ Radix \in Nat /\ Radix > 0
    BY RadixAssumption DEF Byte
  <2>2. Radix * high <= Radix * (Radix - 1) /\ Radix * high >= 0 /\ Radix * (Radix - 1) = Radix * Radix - Radix
    BY <2>1
  <2>3. v \in 0 .. Radix * Radix - 1
    BY <2>1, <2>2
  <2> DEFINE q == v \div Radix
             r == v % Radix
  <2>4. q \in Int /\ r \in 0 .. Radix - 1 /\ v = Radix * q + r
    BY <2>1, <2>3
  <2> HIDE DEF q, r
  <2>5. Radix * (q - high) = low - r
    BY <2>1, <2>4
  <2>6. q = high
    <3>1. CASE q - high >= 1
      <4>1. Radix * (q - high) >= Radix
        BY <2>1, <2>4, <3>1
      <4> QED  BY <2>1, <2>4, <2>5, <4>1
    <3>2. CASE q - high <= -1
      <4>1. Radix * (q - high) <= -Radix
        BY <2>1, <2>4, <3>2
      <4> QED  BY <2>1, <2>4, <2>5, <4>1
    <3> QED  BY <2>1, <2>4, <3>1, <3>2
  <2>7. r = low
    BY <2>1, <2>4, <2>6
  <2> QED  BY <2>3, <2>6, <2>7 DEF q, r
<1> QED  BY <1>1, <1>2

LEMMA U128Sound ==
  ASSUME NEW codecs
  PROVE  SoundType(Primitive("U128"), 0 .. Radix * Radix - 1, codecs)
<1> DEFINE t == Primitive("U128")
           values == 0 .. Radix * Radix - 1
<1>1. t.kind = "U128"
  BY DEF Primitive
<1> HIDE DEF t
<1>2. \A v : BorshSerialize(t, v, codecs) = <<v % Radix, v \div Radix>>
  BY <1>1 DEF BorshSerialize
<1>3. \A b : BorshDeserialize(t, b, codecs) =
               IF Len(b) < 2 THEN << >> ELSE Got(b[1] + Radix * b[2], SubSeq(b, 3, Len(b)))
  BY <1>1 DEF BorshDeserialize
<1> HIDE DEF values
<1>4. ASSUME NEW v \in values
      PROVE  BorshSerialize(t, v, codecs) \in ByteString
  <2> DEFINE low == v % Radix
             high == v \div Radix
  <2>1. low \in Byte /\ high \in Byte
    BY TwoBytes DEF values
  <2> HIDE DEF low, high
  <2>2. <<low, high>> \in ByteString
    BY <2>1 DEF ByteString
  <2> QED  BY <1>2, <2>2 DEF low, high
<1>5. ASSUME NEW v \in values, NEW rest \in ByteString
      PROVE  BorshDeserialize(t, BorshSerialize(t, v, codecs) \o rest, codecs) = Got(v, rest)
  <2> DEFINE low == v % Radix
             high == v \div Radix
             c == <<low, high>>
             b == c \o rest
  <2>1. low \in Byte /\ high \in Byte /\ low + Radix * high = v
    BY TwoBytes DEF values
  <2> HIDE DEF low, high
  <2>2. c \in Seq(Byte) /\ Len(c) = 2 /\ c[1] = low /\ c[2] = high
    BY <2>1
  <2>3. c \in ByteString /\ rest \in Seq(Byte)
    BY <2>2 DEF ByteString
  <2>4. BorshSerialize(t, v, codecs) = c
    BY <1>2 DEF low, high
  <2> HIDE DEF c
  <2>5. /\ Len(b) >= 2 /\ b \in Seq(Byte) /\ SubSeq(b, 2 + 1, Len(b)) = rest
    BY <2>2, <2>3, FrontOf DEF ByteString
  <2>6. b[1] = low /\ b[2] = high
    <3>1. \A i \in 1 .. Len(c) : (c \o rest)[i] = c[i]
      BY <2>2, <2>3, ConcatParts
    <3>2. 1 \in 1 .. Len(c) /\ 2 \in 1 .. Len(c)
      BY <2>2
    <3> QED  BY <2>2, <3>1, <3>2
  <2> HIDE DEF b
  <2>7. ~(Len(b) < 2) /\ 2 + 1 = 3
    BY <2>5
  <2>8. b[1] + Radix * b[2] = v /\ SubSeq(b, 3, Len(b)) = rest
    BY <2>1, <2>5, <2>6, <2>7
  <2>9. BorshDeserialize(t, b, codecs) = Got(v, rest)
    BY <1>3, <2>7, <2>8
  <2> QED  BY <2>4, <2>9 DEF b
<1>6. ASSUME NEW b \in ByteString, BorshDeserialize(t, b, codecs) # << >>
      PROVE  \E v \in values, rest \in ByteString :
               BorshDeserialize(t, b, codecs) = Got(v, rest) /\ b = BorshSerialize(t, v, codecs) \o rest
  <2> DEFINE low == b[1]
             high == b[2]
             v == low + Radix * high
             rest == SubSeq(b, 3, Len(b))
             c == SubSeq(b, 1, 2)
  <2>1. ~(Len(b) < 2) /\ BorshDeserialize(t, b, codecs) = Got(v, rest)
    BY <1>3, <1>6
  <2>2. 2 \in Nat /\ 2 + 1 = 3
    OBVIOUS
  <2>3. c \in ByteString /\ Len(c) = 2 /\ SubSeq(b, 2 + 1, Len(b)) \in ByteString
        /\ b = c \o SubSeq(b, 2 + 1, Len(b))
    BY <2>1, <2>2, FrontTaken
  <2>4. rest \in ByteString /\ b = c \o rest
    BY <2>2, <2>3
  <2>5. b \in Seq(Byte) /\ low \in Byte /\ high \in Byte
    BY <2>1 DEF ByteString
  <2>6. c = <<low, high>>
    <3>1. c[1] = low /\ c[2] = high
      BY <2>1, <2>5
    <3>2. c \in Seq(Byte)
      BY <2>3 DEF ByteString
    <3> HIDE DEF c, low, high
    <3>3. <<low, high>> \in Seq(Byte) /\ Len(<<low, high>>) = 2
      BY <2>5
    <3> QED  BY <2>3, <3>1, <3>2, <3>3
  <2> HIDE DEF c, rest, low, high
  <2>7. v \in values /\ v % Radix = low /\ v \div Radix = high
    BY <2>5, TwoBytes DEF values
  <2> HIDE DEF v
  <2>8. BorshSerialize(t, v, codecs) = c
    BY <1>2, <2>6, <2>7
  <2> QED  BY <2>1, <2>4, <2>7, <2>8
<1>7. SoundType(t, values, codecs)
  BY <1>4, <1>5, <1>6 DEF SoundType
<1> QED  BY <1>7 DEF t, values

\* The values of a variant.
LEMMA OfForms ==
  \A variant, contents, v :
    v \in Of(variant, contents) <=> \E y \in contents : v = [variant |-> variant, value |-> y]
<1> TAKE variant, contents, v
<1>1. ASSUME v \in Of(variant, contents)
      PROVE  \E y \in contents : v = [variant |-> variant, value |-> y]
  <2>1. v \in [variant : {variant}, value : contents]
    BY <1>1 DEF Of
  <2>2. v.value \in contents /\ v = [variant |-> variant, value |-> v.value]
    BY <2>1
  <2> QED  BY <2>2
<1>2. ASSUME NEW y \in contents, v = [variant |-> variant, value |-> y]
      PROVE  v \in Of(variant, contents)
  BY <1>2 DEF Of
<1> QED  BY <1>1, <1>2

\* A tag and a content of a length.
LEMMA TaggedForms ==
  ASSUME NEW tag \in Byte, NEW n \in Nat, NEW k \in StringsOf(n)
  PROVE  LET b == <<tag>> \o k
         IN  b \in ByteString /\ b # << >> /\ Len(b) = 1 + n /\ b[1] = tag /\ Tail(b) = k
<1> DEFINE b == <<tag>> \o k
<1>1. k \in ByteString /\ Len(k) = n
  BY DEF StringsOf
<1>2. b \in ByteString /\ b # << >> /\ b[1] = tag /\ Tail(b) = k
  BY <1>1, TagInFront
<1>3. Len(b) = 1 + Len(k)
  BY <1>1 DEF ByteString
<1> QED  BY <1>1, <1>2, <1>3

LEMMA TaggedTaken ==
  ASSUME NEW n \in Nat, NEW b \in ByteString, Len(b) = 1 + n
  PROVE  b # << >> /\ b[1] \in Byte /\ Tail(b) \in StringsOf(n) /\ b = <<b[1]>> \o Tail(b)
<1>1. b # << >>
  BY NotEmpty
<1>2. b[1] \in Byte /\ Tail(b) \in ByteString /\ b = <<b[1]>> \o Tail(b)
  BY <1>1, TakeTag
<1>3. Len(Tail(b)) = n
  BY DEF ByteString
<1> QED  BY <1>1, <1>2, <1>3 DEF StringsOf

\* What follows the tag does not change the tag.
LEMMA TagStays ==
  ASSUME NEW c \in ByteString, c # << >>, NEW rest \in ByteString
  PROVE  c \o rest # << >> /\ (c \o rest)[1] = c[1]
<1>1. c \in Seq(Byte) /\ rest \in Seq(Byte) /\ Len(c) \in Nat /\ Len(c) # 0
  BY EmptySeq DEF ByteString
<1>2. Len(c \o rest) = Len(c) + Len(rest) /\ Len(rest) \in Nat /\ \A i \in 1 .. Len(c) : (c \o rest)[i] = c[i]
  BY <1>1, ConcatParts
<1>3. Len(c \o rest) # 0 /\ 1 \in 1 .. Len(c)
  BY <1>1, <1>2
<1> QED  BY <1>2, <1>3, NotEmpty

\* Public keys.
Keys == Of("ED25519", [1 .. ED25519_PUBLIC_KEY_LENGTH -> Byte])
          \cup Of("SECP256K1", [1 .. SECP256K1_PUBLIC_KEY_LENGTH -> Byte])

LEMMA KeyForms ==
  \A v : v \in Keys <=>
    \/ \E k \in StringsOf(ED25519_PUBLIC_KEY_LENGTH) : v = Ed25519(k)
    \/ \E k \in StringsOf(SECP256K1_PUBLIC_KEY_LENGTH) : v = Secp256k1(k)
<1>1. /\ [1 .. ED25519_PUBLIC_KEY_LENGTH -> Byte] = StringsOf(ED25519_PUBLIC_KEY_LENGTH)
      /\ [1 .. SECP256K1_PUBLIC_KEY_LENGTH -> Byte] = StringsOf(SECP256K1_PUBLIC_KEY_LENGTH)
  BY LengthAssumption, ArraysOfBytes
<1>2. Keys = Of("ED25519", StringsOf(ED25519_PUBLIC_KEY_LENGTH))
               \cup Of("SECP256K1", StringsOf(SECP256K1_PUBLIC_KEY_LENGTH))
  BY <1>1 DEF Keys
<1> QED  BY <1>2, OfForms DEF Ed25519, Secp256k1

LEMMA KeyWritten ==
  ASSUME NEW v \in Keys
  PROVE  LET c == PublicKeyToBorsh(v)
         IN  /\ c \in ByteString /\ c # << >> /\ Len(c) = 1 + KeyLength(c[1])
             /\ PublicKeyFromBorsh(c).value = <<v>>
<1>0. /\ ED25519_PUBLIC_KEY_LENGTH \in Nat /\ SECP256K1_PUBLIC_KEY_LENGTH \in Nat
      /\ 0 \in Byte /\ 1 \in Byte
  BY LengthAssumption, RadixAssumption DEF Byte
<1>1. ASSUME NEW k \in StringsOf(ED25519_PUBLIC_KEY_LENGTH), v = Ed25519(k)
      PROVE  LET c == PublicKeyToBorsh(v)
             IN  /\ c \in ByteString /\ c # << >> /\ Len(c) = 1 + KeyLength(c[1])
                 /\ PublicKeyFromBorsh(c).value = <<v>>
  <2> DEFINE c == <<0>> \o k
  <2>1. PublicKeyToBorsh(v) = c
    BY <1>1 DEF PublicKeyToBorsh, Ed25519
  <2>2. c \in ByteString /\ c # << >> /\ Len(c) = 1 + ED25519_PUBLIC_KEY_LENGTH /\ c[1] = 0 /\ Tail(c) = k
    BY <1>0, TaggedForms
  <2> HIDE DEF c
  <2>3. KeyLength(c[1]) = ED25519_PUBLIC_KEY_LENGTH
    BY <2>2 DEF KeyLength
  <2>4. PublicKeyFromBorsh(c) = Ok(v)
    BY <1>1, <2>2 DEF PublicKeyFromBorsh
  <2> QED  BY <2>1, <2>2, <2>3, <2>4 DEF Ok
<1>2. ASSUME NEW k \in StringsOf(SECP256K1_PUBLIC_KEY_LENGTH), v = Secp256k1(k)
      PROVE  LET c == PublicKeyToBorsh(v)
             IN  /\ c \in ByteString /\ c # << >> /\ Len(c) = 1 + KeyLength(c[1])
                 /\ PublicKeyFromBorsh(c).value = <<v>>
  <2> DEFINE c == <<1>> \o k
  <2>1. PublicKeyToBorsh(v) = c
    BY <1>2 DEF PublicKeyToBorsh, Secp256k1
  <2>2. c \in ByteString /\ c # << >> /\ Len(c) = 1 + SECP256K1_PUBLIC_KEY_LENGTH /\ c[1] = 1 /\ Tail(c) = k
    BY <1>0, TaggedForms
  <2> HIDE DEF c
  <2>3. KeyLength(c[1]) = SECP256K1_PUBLIC_KEY_LENGTH
    BY <2>2 DEF KeyLength
  <2>4. c[1] # 0
    BY <2>2
  <2>5. PublicKeyFromBorsh(c) = Ok(v)
    BY <1>2, <2>2, <2>4 DEF PublicKeyFromBorsh
  <2> QED  BY <2>1, <2>2, <2>3, <2>5 DEF Ok
<1> QED  BY <1>1, <1>2, KeyForms

LEMMA KeyRead ==
  ASSUME NEW c \in ByteString, Len(c) = 1 + KeyLength(c[1]), PublicKeyFromBorsh(c).value # << >>
  PROVE  \E v \in Keys : PublicKeyFromBorsh(c).value = <<v>> /\ c = PublicKeyToBorsh(v)
<1>0. ED25519_PUBLIC_KEY_LENGTH \in Nat /\ SECP256K1_PUBLIC_KEY_LENGTH \in Nat
  BY LengthAssumption
<1>1. \/ c[1] = 0 /\ Len(c) = 1 + ED25519_PUBLIC_KEY_LENGTH /\ PublicKeyFromBorsh(c) = Ok(Ed25519(Tail(c)))
      \/ c[1] = 1 /\ Len(c) = 1 + SECP256K1_PUBLIC_KEY_LENGTH /\ PublicKeyFromBorsh(c) = Ok(Secp256k1(Tail(c)))
  <2>1. Error.value = << >>
    BY DEF Error
  <2> QED  BY <2>1 DEF PublicKeyFromBorsh
<1>2. CASE c[1] = 0 /\ Len(c) = 1 + ED25519_PUBLIC_KEY_LENGTH /\ PublicKeyFromBorsh(c) = Ok(Ed25519(Tail(c)))
  <2> DEFINE k == Tail(c)
             v == Ed25519(k)
  <2>1. k \in StringsOf(ED25519_PUBLIC_KEY_LENGTH) /\ c = <<0>> \o k
    BY <1>0, <1>2, TaggedTaken
  <2> HIDE DEF k
  <2>2. PublicKeyToBorsh(v) = <<0>> \o k
    BY DEF PublicKeyToBorsh, Ed25519
  <2>3. v \in Keys
    BY <2>1, KeyForms
  <2>4. PublicKeyFromBorsh(c).value = <<v>>
    BY <1>2 DEF Ok, k
  <2> QED  BY <2>1, <2>2, <2>3, <2>4
<1>3. CASE c[1] = 1 /\ Len(c) = 1 + SECP256K1_PUBLIC_KEY_LENGTH /\ PublicKeyFromBorsh(c) = Ok(Secp256k1(Tail(c)))
  <2> DEFINE k == Tail(c)
             v == Secp256k1(k)
  <2>1. k \in StringsOf(SECP256K1_PUBLIC_KEY_LENGTH) /\ c = <<1>> \o k
    BY <1>0, <1>3, TaggedTaken
  <2> HIDE DEF k
  <2>2. PublicKeyToBorsh(v) = <<1>> \o k
    BY DEF PublicKeyToBorsh, Secp256k1
  <2>3. v \in Keys
    BY <2>1, KeyForms
  <2>4. PublicKeyFromBorsh(c).value = <<v>>
    BY <1>3 DEF Ok, k
  <2> QED  BY <2>1, <2>2, <2>3, <2>4
<1> QED  BY <1>1, <1>2, <1>3

LEMMA PublicKeySound ==
  ASSUME NEW codecs
  PROVE  SoundType(Primitive("PublicKey"), Keys, codecs)
<1> DEFINE t == Primitive("PublicKey")
<1>1. t.kind = "PublicKey"
  BY DEF Primitive
<1> HIDE DEF t
<1>2. \A v : BorshSerialize(t, v, codecs) = PublicKeyToBorsh(v)
  BY <1>1 DEF BorshSerialize
<1>3. \A b : BorshDeserialize(t, b, codecs) =
               IF b = << >> THEN << >>
               ELSE LET n == 1 + KeyLength(b[1])
                    IN  IF Len(b) < n \/ PublicKeyFromBorsh(SubSeq(b, 1, n)).value = << >> THEN << >>
                        ELSE Got(PublicKeyFromBorsh(SubSeq(b, 1, n)).value[1], SubSeq(b, n + 1, Len(b)))
  BY <1>1 DEF BorshDeserialize, First
<1>4. \A v \in Keys : BorshSerialize(t, v, codecs) \in ByteString
  BY <1>2, KeyWritten
<1>5. ASSUME NEW v \in Keys, NEW rest \in ByteString
      PROVE  BorshDeserialize(t, BorshSerialize(t, v, codecs) \o rest, codecs) = Got(v, rest)
  <2> DEFINE c == PublicKeyToBorsh(v)
             b == c \o rest
             n == 1 + KeyLength(b[1])
  <2>1. c \in ByteString /\ c # << >> /\ Len(c) = 1 + KeyLength(c[1]) /\ PublicKeyFromBorsh(c).value = <<v>>
    BY KeyWritten
  <2> HIDE DEF c
  <2>2. b # << >> /\ b[1] = c[1]
    BY <2>1, TagStays
  <2>3. n = Len(c)
    BY <2>1, <2>2
  <2>4. Len(b) >= Len(c) /\ SubSeq(b, 1, Len(c)) = c /\ SubSeq(b, Len(c) + 1, Len(b)) = rest /\ b \in ByteString
    BY <2>1, FrontOf
  <2> HIDE DEF n, b
  <2>5. ~(Len(b) < n)
    BY <2>1, <2>3, <2>4 DEF ByteString
  <2>6. PublicKeyFromBorsh(SubSeq(b, 1, n)).value = <<v>> /\ SubSeq(b, n + 1, Len(b)) = rest
    BY <2>1, <2>3, <2>4
  <2>7. BorshDeserialize(t, b, codecs) = Got(<<v>>[1], rest)
    BY <1>3, <2>2, <2>5, <2>6 DEF n
  <2> QED  BY <1>2, <2>7 DEF b, c
<1>6. ASSUME NEW b \in ByteString, BorshDeserialize(t, b, codecs) # << >>
      PROVE  \E v \in Keys, rest \in ByteString :
               BorshDeserialize(t, b, codecs) = Got(v, rest) /\ b = BorshSerialize(t, v, codecs) \o rest
  <2> DEFINE n == 1 + KeyLength(b[1])
             c == SubSeq(b, 1, n)
             rest == SubSeq(b, n + 1, Len(b))
  <2>1. /\ b # << >> /\ ~(Len(b) < n) /\ PublicKeyFromBorsh(c).value # << >>
        /\ BorshDeserialize(t, b, codecs) = Got(PublicKeyFromBorsh(c).value[1], rest)
    BY <1>3, <1>6
  <2>2. n \in Nat /\ n # 0
    BY LengthAssumption DEF KeyLength
  <2> HIDE DEF n
  <2>3. c \in ByteString /\ Len(c) = n /\ rest \in ByteString /\ b = c \o rest
    BY <2>1, <2>2, FrontTaken
  <2> HIDE DEF c, rest
  <2>4. c # << >>
    BY <2>2, <2>3, NotEmpty
  <2>5. c[1] = b[1]
    BY <2>3, <2>4, TagStays
  <2>6. Len(c) = 1 + KeyLength(c[1])
    BY <2>3, <2>5 DEF n
  <2>7. PICK v \in Keys : PublicKeyFromBorsh(c).value = <<v>> /\ c = PublicKeyToBorsh(v)
    BY <2>1, <2>3, <2>6, KeyRead
  <2>8. BorshDeserialize(t, b, codecs) = Got(v, rest)
    BY <2>1, <2>7
  <2> QED  BY <1>2, <2>3, <2>7, <2>8
<1>7. SoundType(t, Keys, codecs)
  BY <1>4, <1>5, <1>6 DEF SoundType
<1> QED  BY <1>7 DEF t

\* Signatures: two components, or an array.
AllSignatures == Of("ED25519", Component \X Component)
                   \cup Of("SECP256K1", [1 .. SECP256K1_SIGNATURE_LENGTH -> Byte])

LEMMA SignatureForms ==
  \A v : v \in AllSignatures <=>
    \/ \E r, s \in StringsOf(COMPONENT_SIZE) : v = Ed25519(<<r, s>>)
    \/ \E k \in StringsOf(SECP256K1_SIGNATURE_LENGTH) : v = Secp256k1(k)
<1>1. /\ Component = StringsOf(COMPONENT_SIZE)
      /\ [1 .. SECP256K1_SIGNATURE_LENGTH -> Byte] = StringsOf(SECP256K1_SIGNATURE_LENGTH)
  BY LengthAssumption, ArraysOfBytes DEF Component
<1> TAKE v
<1>2. v \in AllSignatures <=>
        \/ \E y \in StringsOf(COMPONENT_SIZE) \X StringsOf(COMPONENT_SIZE) : v = Ed25519(y)
        \/ \E k \in StringsOf(SECP256K1_SIGNATURE_LENGTH) : v = Secp256k1(k)
  BY <1>1, OfForms DEF AllSignatures, Ed25519, Secp256k1
<1>3. ASSUME NEW y \in StringsOf(COMPONENT_SIZE) \X StringsOf(COMPONENT_SIZE), v = Ed25519(y)
      PROVE  \E r, s \in StringsOf(COMPONENT_SIZE) : v = Ed25519(<<r, s>>)
  <2>1. y[1] \in StringsOf(COMPONENT_SIZE) /\ y[2] \in StringsOf(COMPONENT_SIZE) /\ y = <<y[1], y[2]>>
    OBVIOUS
  <2>2. v = Ed25519(<<y[1], y[2]>>)
    BY <1>3, <2>1
  <2> QED  BY <2>1, <2>2
<1>4. ASSUME NEW r \in StringsOf(COMPONENT_SIZE), NEW s \in StringsOf(COMPONENT_SIZE), v = Ed25519(<<r, s>>)
      PROVE  \E y \in StringsOf(COMPONENT_SIZE) \X StringsOf(COMPONENT_SIZE) : v = Ed25519(y)
  <2>1. <<r, s>> \in StringsOf(COMPONENT_SIZE) \X StringsOf(COMPONENT_SIZE)
    OBVIOUS
  <2> QED  BY <1>4, <2>1
<1> QED  BY <1>2, <1>3, <1>4

\* The two components make a content, and a content is two components.
LEMMA HalvesForms ==
  /\ \A r, s \in StringsOf(COMPONENT_SIZE) :
       r \o s \in StringsOf(ED25519_SIGNATURE_LENGTH) /\ Halves(r \o s) = <<r, s>>
  /\ \A k \in StringsOf(ED25519_SIGNATURE_LENGTH) :
       R(k) \in StringsOf(COMPONENT_SIZE) /\ S(k) \in StringsOf(COMPONENT_SIZE) /\ k = R(k) \o S(k)
<1>0. COMPONENT_SIZE \in Nat /\ ED25519_SIGNATURE_LENGTH = COMPONENT_SIZE + COMPONENT_SIZE
  BY LengthAssumption DEF ED25519_SIGNATURE_LENGTH
<1>1. ASSUME NEW r \in StringsOf(COMPONENT_SIZE), NEW s \in StringsOf(COMPONENT_SIZE)
      PROVE  r \o s \in StringsOf(ED25519_SIGNATURE_LENGTH) /\ Halves(r \o s) = <<r, s>>
  <2>1. r \in ByteString /\ s \in ByteString /\ Len(r) = COMPONENT_SIZE /\ Len(s) = COMPONENT_SIZE
    BY DEF StringsOf
  <2>2. r \o s \in ByteString /\ SubSeq(r \o s, 1, Len(r)) = r /\ SubSeq(r \o s, Len(r) + 1, Len(r \o s)) = s
    BY <2>1, FrontOf
  <2>3. Len(r \o s) = Len(r) + Len(s)
    BY <2>1 DEF ByteString
  <2>4. R(r \o s) = r /\ S(r \o s) = s
    BY <2>1, <2>2 DEF R, S
  <2>5. r \o s \in StringsOf(ED25519_SIGNATURE_LENGTH)
    BY <1>0, <2>1, <2>2, <2>3 DEF StringsOf
  <2> QED  BY <2>4, <2>5 DEF Halves
<1>2. ASSUME NEW k \in StringsOf(ED25519_SIGNATURE_LENGTH)
      PROVE  R(k) \in StringsOf(COMPONENT_SIZE) /\ S(k) \in StringsOf(COMPONENT_SIZE) /\ k = R(k) \o S(k)
  <2>1. k \in ByteString /\ Len(k) = COMPONENT_SIZE + COMPONENT_SIZE
    BY <1>0 DEF StringsOf
  <2>2. ~(Len(k) < COMPONENT_SIZE)
    BY <1>0, <2>1
  <2>3. R(k) \in ByteString /\ Len(R(k)) = COMPONENT_SIZE /\ S(k) \in ByteString /\ k = R(k) \o S(k)
    BY <1>0, <2>1, <2>2, FrontTaken DEF R, S
  <2>4. Len(k) = Len(R(k)) + Len(S(k)) /\ Len(S(k)) \in Nat
    BY <2>3, ConcatParts DEF ByteString
  <2>5. Len(S(k)) = COMPONENT_SIZE
    BY <1>0, <2>1, <2>3, <2>4
  <2> QED  BY <2>3, <2>5 DEF StringsOf
<1> QED  BY <1>1, <1>2

LEMMA SignatureWritten ==
  ASSUME NEW v \in AllSignatures
  PROVE  LET c == SignatureToBorsh(v)
         IN  /\ c \in ByteString /\ c # << >> /\ Len(c) = 1 + SignatureLength(c[1])
             /\ SignatureFromBorsh(c).value = <<v>>
<1>0. /\ ED25519_SIGNATURE_LENGTH \in Nat /\ SECP256K1_SIGNATURE_LENGTH \in Nat
      /\ 0 \in Byte /\ 1 \in Byte
  BY LengthAssumption, RadixAssumption DEF Byte, ED25519_SIGNATURE_LENGTH
<1>1. ASSUME NEW r \in StringsOf(COMPONENT_SIZE), NEW s \in StringsOf(COMPONENT_SIZE), v = Ed25519(<<r, s>>)
      PROVE  LET c == SignatureToBorsh(v)
             IN  /\ c \in ByteString /\ c # << >> /\ Len(c) = 1 + SignatureLength(c[1])
                 /\ SignatureFromBorsh(c).value = <<v>>
  <2> DEFINE k == r \o s
             c == <<0>> \o k
  <2>1. SignatureToBorsh(v) = (<<0>> \o r) \o s
    BY <1>1 DEF SignatureToBorsh, Ed25519
  <2>2. SignatureToBorsh(v) = c
    <3>1. <<0>> \in ByteString /\ r \in ByteString /\ s \in ByteString
      BY <1>0, TagInFront DEF StringsOf
    <3> QED  BY <2>1, <3>1, BytesJoined
  <2>3. k \in StringsOf(ED25519_SIGNATURE_LENGTH) /\ Halves(k) = <<r, s>>
    BY HalvesForms
  <2> HIDE DEF k
  <2>4. c \in ByteString /\ c # << >> /\ Len(c) = 1 + ED25519_SIGNATURE_LENGTH /\ c[1] = 0 /\ Tail(c) = k
    BY <1>0, <2>3, TaggedForms
  <2>5. Len(k) = ED25519_SIGNATURE_LENGTH
    BY <2>3 DEF StringsOf
  <2> HIDE DEF c
  <2>6. SignatureLength(c[1]) = ED25519_SIGNATURE_LENGTH
    BY <2>4 DEF SignatureLength
  <2>7. SignatureFromBorsh(c) = Ok(v)
    BY <1>1, <2>3, <2>4, <2>5 DEF SignatureFromBorsh
  <2> QED  BY <2>2, <2>4, <2>6, <2>7 DEF Ok
<1>2. ASSUME NEW k \in StringsOf(SECP256K1_SIGNATURE_LENGTH), v = Secp256k1(k)
      PROVE  LET c == SignatureToBorsh(v)
             IN  /\ c \in ByteString /\ c # << >> /\ Len(c) = 1 + SignatureLength(c[1])
                 /\ SignatureFromBorsh(c).value = <<v>>
  <2> DEFINE c == <<1>> \o k
  <2>1. SignatureToBorsh(v) = c
    BY <1>2 DEF SignatureToBorsh, Secp256k1
  <2>2. c \in ByteString /\ c # << >> /\ Len(c) = 1 + SECP256K1_SIGNATURE_LENGTH /\ c[1] = 1 /\ Tail(c) = k
    BY <1>0, TaggedForms
  <2> HIDE DEF c
  <2>3. SignatureLength(c[1]) = SECP256K1_SIGNATURE_LENGTH
    BY <2>2 DEF SignatureLength
  <2>4. c[1] # 0 /\ Len(k) = SECP256K1_SIGNATURE_LENGTH
    BY <2>2 DEF StringsOf
  <2>5. SignatureFromBorsh(c) = Ok(v)
    BY <1>2, <2>2, <2>4 DEF SignatureFromBorsh
  <2> QED  BY <2>1, <2>2, <2>3, <2>5 DEF Ok
<1> QED  BY <1>1, <1>2, SignatureForms

LEMMA SignatureRead ==
  ASSUME NEW c \in ByteString, Len(c) = 1 + SignatureLength(c[1]), SignatureFromBorsh(c).value # << >>
  PROVE  \E v \in AllSignatures : SignatureFromBorsh(c).value = <<v>> /\ c = SignatureToBorsh(v)
<1>0. ED25519_SIGNATURE_LENGTH \in Nat /\ SECP256K1_SIGNATURE_LENGTH \in Nat /\ 0 \in Byte
  BY LengthAssumption, RadixAssumption DEF ED25519_SIGNATURE_LENGTH, Byte
<1>1. \/ c[1] = 0 /\ SignatureFromBorsh(c) = Ok(Ed25519(Halves(Tail(c))))
      \/ c[1] = 1 /\ SignatureFromBorsh(c) = Ok(Secp256k1(Tail(c)))
  <2>1. Error.value = << >>
    BY DEF Error
  <2> QED  BY <2>1 DEF SignatureFromBorsh
<1>2. CASE c[1] = 0 /\ SignatureFromBorsh(c) = Ok(Ed25519(Halves(Tail(c))))
  <2> DEFINE k == Tail(c)
             v == Ed25519(<<R(k), S(k)>>)
  <2>1. Len(c) = 1 + ED25519_SIGNATURE_LENGTH
    BY <1>2 DEF SignatureLength
  <2>2. k \in StringsOf(ED25519_SIGNATURE_LENGTH) /\ c = <<0>> \o k
    BY <1>0, <1>2, <2>1, TaggedTaken
  <2> HIDE DEF k
  <2>3. R(k) \in StringsOf(COMPONENT_SIZE) /\ S(k) \in StringsOf(COMPONENT_SIZE) /\ k = R(k) \o S(k)
    BY <2>2, HalvesForms
  <2>4. SignatureToBorsh(v) = (<<0>> \o R(k)) \o S(k)
    BY DEF SignatureToBorsh, Ed25519
  <2>5. SignatureToBorsh(v) = c
    <3>1. <<0>> \in ByteString /\ R(k) \in ByteString /\ S(k) \in ByteString
      BY <1>0, <2>2, <2>3, TagInFront, BytesJoined DEF StringsOf
    <3>2. <<0>> \o (R(k) \o S(k)) = (<<0>> \o R(k)) \o S(k)
      BY <3>1, BytesJoined
    <3>3. c = <<0>> \o (R(k) \o S(k))
      BY <2>2, <2>3
    <3> QED  BY <2>4, <3>2, <3>3
  <2>6. v \in AllSignatures
    BY <2>3, SignatureForms
  <2>7. SignatureFromBorsh(c).value = <<v>>
    BY <1>2 DEF Ok, Halves, k
  <2> QED  BY <2>5, <2>6, <2>7
<1>3. CASE c[1] = 1 /\ SignatureFromBorsh(c) = Ok(Secp256k1(Tail(c)))
  <2> DEFINE k == Tail(c)
             v == Secp256k1(k)
  <2>1. Len(c) = 1 + SECP256K1_SIGNATURE_LENGTH
    BY <1>3 DEF SignatureLength
  <2>2. k \in StringsOf(SECP256K1_SIGNATURE_LENGTH) /\ c = <<1>> \o k
    BY <1>0, <1>3, <2>1, TaggedTaken
  <2> HIDE DEF k
  <2>3. SignatureToBorsh(v) = <<1>> \o k
    BY DEF SignatureToBorsh, Secp256k1
  <2>4. v \in AllSignatures
    BY <2>2, SignatureForms
  <2>5. SignatureFromBorsh(c).value = <<v>>
    BY <1>3 DEF Ok, k
  <2> QED  BY <2>2, <2>3, <2>4, <2>5
<1> QED  BY <1>1, <1>2, <1>3

LEMMA SignatureSound ==
  ASSUME NEW codecs
  PROVE  SoundType(Primitive("Signature"), AllSignatures, codecs)
<1> DEFINE t == Primitive("Signature")
<1>1. t.kind = "Signature"
  BY DEF Primitive
<1> HIDE DEF t
<1>2. \A v : BorshSerialize(t, v, codecs) = SignatureToBorsh(v)
  BY <1>1 DEF BorshSerialize
<1>3. \A b : BorshDeserialize(t, b, codecs) =
               IF b = << >> THEN << >>
               ELSE LET n == 1 + SignatureLength(b[1])
                    IN  IF Len(b) < n \/ SignatureFromBorsh(SubSeq(b, 1, n)).value = << >> THEN << >>
                        ELSE Got(SignatureFromBorsh(SubSeq(b, 1, n)).value[1], SubSeq(b, n + 1, Len(b)))
  BY <1>1 DEF BorshDeserialize, First
<1>4. \A v \in AllSignatures : BorshSerialize(t, v, codecs) \in ByteString
  BY <1>2, SignatureWritten
<1>5. ASSUME NEW v \in AllSignatures, NEW rest \in ByteString
      PROVE  BorshDeserialize(t, BorshSerialize(t, v, codecs) \o rest, codecs) = Got(v, rest)
  <2> DEFINE c == SignatureToBorsh(v)
             b == c \o rest
             n == 1 + SignatureLength(b[1])
  <2>1. c \in ByteString /\ c # << >> /\ Len(c) = 1 + SignatureLength(c[1]) /\ SignatureFromBorsh(c).value = <<v>>
    BY SignatureWritten
  <2> HIDE DEF c
  <2>2. b # << >> /\ b[1] = c[1]
    BY <2>1, TagStays
  <2>3. n = Len(c)
    BY <2>1, <2>2
  <2>4. Len(b) >= Len(c) /\ SubSeq(b, 1, Len(c)) = c /\ SubSeq(b, Len(c) + 1, Len(b)) = rest /\ b \in ByteString
    BY <2>1, FrontOf
  <2> HIDE DEF n, b
  <2>5. ~(Len(b) < n)
    BY <2>1, <2>3, <2>4 DEF ByteString
  <2>6. SignatureFromBorsh(SubSeq(b, 1, n)).value = <<v>> /\ SubSeq(b, n + 1, Len(b)) = rest
    BY <2>1, <2>3, <2>4
  <2>7. BorshDeserialize(t, b, codecs) = Got(<<v>>[1], rest)
    BY <1>3, <2>2, <2>5, <2>6 DEF n
  <2> QED  BY <1>2, <2>7 DEF b, c
<1>6. ASSUME NEW b \in ByteString, BorshDeserialize(t, b, codecs) # << >>
      PROVE  \E v \in AllSignatures, rest \in ByteString :
               BorshDeserialize(t, b, codecs) = Got(v, rest) /\ b = BorshSerialize(t, v, codecs) \o rest
  <2> DEFINE n == 1 + SignatureLength(b[1])
             c == SubSeq(b, 1, n)
             rest == SubSeq(b, n + 1, Len(b))
  <2>1. /\ b # << >> /\ ~(Len(b) < n) /\ SignatureFromBorsh(c).value # << >>
        /\ BorshDeserialize(t, b, codecs) = Got(SignatureFromBorsh(c).value[1], rest)
    BY <1>3, <1>6
  <2>2. n \in Nat /\ n # 0
    BY LengthAssumption DEF SignatureLength, ED25519_SIGNATURE_LENGTH
  <2> HIDE DEF n
  <2>3. c \in ByteString /\ Len(c) = n /\ rest \in ByteString /\ b = c \o rest
    BY <2>1, <2>2, FrontTaken
  <2> HIDE DEF c, rest
  <2>4. c # << >>
    BY <2>2, <2>3, NotEmpty
  <2>5. c[1] = b[1]
    BY <2>3, <2>4, TagStays
  <2>6. Len(c) = 1 + SignatureLength(c[1])
    BY <2>3, <2>5 DEF n
  <2>7. PICK v \in AllSignatures : SignatureFromBorsh(c).value = <<v>> /\ c = SignatureToBorsh(v)
    BY <2>1, <2>3, <2>6, SignatureRead
  <2>8. BorshDeserialize(t, b, codecs) = Got(v, rest)
    BY <2>1, <2>7
  <2> QED  BY <1>2, <2>3, <2>7, <2>8
<1>7. SoundType(t, AllSignatures, codecs)
  BY <1>4, <1>5, <1>6 DEF SoundType
<1> QED  BY <1>7 DEF t

-----------------------------------------------------------------------------
(* The types, when the codecs of all types inside them are sound.          *)

AllSound(codecs, inner) == \A type \in TypeNames : Sound(codecs[type], inner[type])

\* The names of the types.
LEMMA TypeNamesAre ==
  \A type : type \in TypeNames <=>
    \/ type = "U64" \/ type = "U128" \/ type = "BlockHash" \/ type = "PublicKey" \/ type = "Signature"
    \/ type = "Base64VecU8" \/ type = "VecU8" \/ type = "String" \/ type = "AccountId" \/ type = "Unit"
    \/ type = "OptionU128" \/ type = "VecString" \/ type = "VecAction" \/ type = "VecNonDelegateAction"
    \/ type = "Action" \/ type = "CreateAccountAction" \/ type = "DeployContractAction"
    \/ type = "FunctionCallAction" \/ type = "TransferAction" \/ type = "StakeAction"
    \/ type = "AddKeyAction" \/ type = "AccessKey" \/ type = "AccessKeyPermission"
    \/ type = "FunctionCallPermission" \/ type = "DeleteKeyAction" \/ type = "DeleteAccountAction"
    \/ type = "DelegateAction" \/ type = "SignedDelegateAction" \/ type = "DeployGlobalContractAction"
    \/ type = "UseGlobalContractAction" \/ type = "GlobalContractDeployMode"
    \/ type = "GlobalContractIdentifier" \/ type = "NearTransaction" \/ type = "SignedTransaction"
  BY DEF TypeNames, Types

\* Parts with different names, and types that there are.
PartsFit(parts, n) ==
  /\ n \in Nat /\ n <= Radix /\ DOMAIN parts = 1 .. n /\ Len(parts) = n /\ Distinct(parts)
  /\ \A i \in DOMAIN parts : parts[i] = Part(parts[i].name, parts[i].type)
  /\ \A i \in 1 .. n : parts[i].type \in TypeNames

\* A type has the values its declaration says.
IsStruct(type, inner) ==
  \E parts, n : /\ Types[type] = Struct(parts) /\ PartsFit(parts, n)
                /\ StructOf(ValuesOver(inner)[type], parts, inner)

IsEnum(type, inner) ==
  \E parts, n : /\ Types[type] = Enum(parts) /\ PartsFit(parts, n)
                /\ EnumOf(ValuesOver(inner)[type], parts, inner)

LEMMA ActionForms ==
  ASSUME NEW inner
  PROVE  IsEnum("Action", inner)
<1> DEFINE parts == <<Part("CreateAccount", "CreateAccountAction"),
                      Part("DeployContract", "DeployContractAction"),
                      Part("FunctionCall", "FunctionCallAction"),
                      Part("Transfer", "TransferAction"), Part("Stake", "StakeAction"),
                      Part("AddKey", "AddKeyAction"), Part("DeleteKey", "DeleteKeyAction"),
                      Part("DeleteAccount", "DeleteAccountAction"),
                      Part("Delegate", "SignedDelegateAction"),
                      Part("DeployGlobalContract", "DeployGlobalContractAction"),
                      Part("UseGlobalContract", "UseGlobalContractAction")>>
           values == Of("CreateAccount", inner.CreateAccountAction) \cup
                     Of("DeployContract", inner.DeployContractAction) \cup
                     Of("FunctionCall", inner.FunctionCallAction) \cup
                     Of("Transfer", inner.TransferAction) \cup
                     Of("Stake", inner.StakeAction) \cup Of("AddKey", inner.AddKeyAction) \cup
                     Of("DeleteKey", inner.DeleteKeyAction) \cup
                     Of("DeleteAccount", inner.DeleteAccountAction) \cup
                     Of("Delegate", inner.SignedDelegateAction) \cup
                     Of("DeployGlobalContract", inner.DeployGlobalContractAction) \cup
                     Of("UseGlobalContract", inner.UseGlobalContractAction)
<1>1. /\ DOMAIN parts = 1 .. 11 /\ Len(parts) = 11
      /\ parts[1].name = "CreateAccount" /\ parts[1].type = "CreateAccountAction"
      /\ parts[2].name = "DeployContract" /\ parts[2].type = "DeployContractAction"
      /\ parts[3].name = "FunctionCall" /\ parts[3].type = "FunctionCallAction"
      /\ parts[4].name = "Transfer" /\ parts[4].type = "TransferAction"
      /\ parts[5].name = "Stake" /\ parts[5].type = "StakeAction"
      /\ parts[6].name = "AddKey" /\ parts[6].type = "AddKeyAction"
      /\ parts[7].name = "DeleteKey" /\ parts[7].type = "DeleteKeyAction"
      /\ parts[8].name = "DeleteAccount" /\ parts[8].type = "DeleteAccountAction"
      /\ parts[9].name = "Delegate" /\ parts[9].type = "SignedDelegateAction"
      /\ parts[10].name = "DeployGlobalContract" /\ parts[10].type = "DeployGlobalContractAction"
      /\ parts[11].name = "UseGlobalContract" /\ parts[11].type = "UseGlobalContractAction"
  BY DEF Part
<1>2. \A i \in DOMAIN parts : parts[i] = Part(parts[i].name, parts[i].type)
  BY DEF Part
<1> HIDE DEF parts
<1>3. \A i : i \in DOMAIN parts <=> i = 1 \/ i = 2 \/ i = 3 \/ i = 4 \/ i = 5 \/ i = 6 \/
                                    i = 7 \/ i = 8 \/ i = 9 \/ i = 10 \/ i = 11
  BY <1>1
<1>4. Distinct(parts)
  BY <1>1, <1>3 DEF Distinct
<1>5. 11 \in Nat /\ 11 <= Radix
  BY RadixAssumption
<1>6. \A i \in 1 .. 11 : parts[i].type \in TypeNames
  BY <1>1, <1>3, TypeNamesAre
<1>7. PartsFit(parts, 11)
  BY <1>1, <1>2, <1>4, <1>5, <1>6 DEF PartsFit
<1>8. ASSUME NEW v
      PROVE  v \in values <=>
               \/ \E y \in inner.CreateAccountAction : v = [variant |-> "CreateAccount", value |-> y]
               \/ \E y \in inner.DeployContractAction : v = [variant |-> "DeployContract", value |-> y]
               \/ \E y \in inner.FunctionCallAction : v = [variant |-> "FunctionCall", value |-> y]
               \/ \E y \in inner.TransferAction : v = [variant |-> "Transfer", value |-> y]
               \/ \E y \in inner.StakeAction : v = [variant |-> "Stake", value |-> y]
               \/ \E y \in inner.AddKeyAction : v = [variant |-> "AddKey", value |-> y]
               \/ \E y \in inner.DeleteKeyAction : v = [variant |-> "DeleteKey", value |-> y]
               \/ \E y \in inner.DeleteAccountAction : v = [variant |-> "DeleteAccount", value |-> y]
               \/ \E y \in inner.SignedDelegateAction : v = [variant |-> "Delegate", value |-> y]
               \/ \E y \in inner.DeployGlobalContractAction : v = [variant |-> "DeployGlobalContract", value |-> y]
               \/ \E y \in inner.UseGlobalContractAction : v = [variant |-> "UseGlobalContract", value |-> y]
  BY OfForms
<1>9. EnumOf(values, parts, inner)
  BY <1>1, <1>3, <1>8 DEF EnumOf
<1>10. Types["Action"] = Enum(parts)
  BY DEF Types, Action, parts
<1>11. ValuesOver(inner)["Action"] = values
  BY DEF ValuesOver
<1> QED  BY <1>7, <1>9, <1>10, <1>11, Zenon DEF IsEnum

LEMMA DeployGlobalContractActionForms ==
  ASSUME NEW inner
  PROVE  IsStruct("DeployGlobalContractAction", inner)
<1> DEFINE parts == <<Part("code", "Base64VecU8"),
                      Part("deploy_mode", "GlobalContractDeployMode")>>
           values == [code : inner.Base64VecU8, deploy_mode : inner.GlobalContractDeployMode]
<1>1. /\ DOMAIN parts = 1 .. 2 /\ Len(parts) = 2
      /\ parts[1].name = "code" /\ parts[1].type = "Base64VecU8"
      /\ parts[2].name = "deploy_mode" /\ parts[2].type = "GlobalContractDeployMode"
  BY DEF Part
<1>2. \A i \in DOMAIN parts : parts[i] = Part(parts[i].name, parts[i].type)
  BY DEF Part
<1> HIDE DEF parts
<1>3. \A i \in DOMAIN parts : i = 1 \/ i = 2
  BY <1>1
<1>4. Distinct(parts)
  BY <1>1, <1>3 DEF Distinct
<1>5. 2 \in Nat /\ 2 <= Radix
  BY RadixAssumption
<1>6. \A i \in 1 .. 2 : parts[i].type \in TypeNames
  BY <1>1, <1>3, TypeNamesAre
<1>7. PartsFit(parts, 2)
  BY <1>1, <1>2, <1>4, <1>5, <1>6 DEF PartsFit
<1>8. \A name : name \in NamesOf(parts) <=>
        name = "code" \/ name = "deploy_mode"
  BY <1>1, <1>3 DEF NamesOf
<1>9. ASSUME NEW v
      PROVE  [name \in NamesOf(parts) |-> v[name]] =
             [code |-> v.code, deploy_mode |-> v.deploy_mode]
  BY <1>8
<1>10. ASSUME NEW v
      PROVE  v \in values <=>
               /\ v = [name \in NamesOf(parts) |-> v[name]]
               /\ v.code \in inner.Base64VecU8
               /\ v.deploy_mode \in inner.GlobalContractDeployMode
  BY <1>9
<1>11. StructOf(values, parts, inner)
  BY <1>1, <1>3, <1>10 DEF StructOf
<1>12. Types["DeployGlobalContractAction"] = Struct(parts)
  BY DEF Types, DeployGlobalContractAction, parts
<1>13. ValuesOver(inner)["DeployGlobalContractAction"] = values
  BY DEF ValuesOver
<1> QED  BY <1>7, <1>11, <1>12, <1>13, Zenon DEF IsStruct

LEMMA UseGlobalContractActionForms ==
  ASSUME NEW inner
  PROVE  IsStruct("UseGlobalContractAction", inner)
<1> DEFINE parts == <<Part("contract_identifier", "GlobalContractIdentifier")>>
           values == [contract_identifier : inner.GlobalContractIdentifier]
<1>1. /\ DOMAIN parts = 1 .. 1 /\ Len(parts) = 1
      /\ parts[1].name = "contract_identifier" /\ parts[1].type = "GlobalContractIdentifier"
  BY DEF Part
<1>2. \A i \in DOMAIN parts : parts[i] = Part(parts[i].name, parts[i].type)
  BY DEF Part
<1> HIDE DEF parts
<1>3. \A i \in DOMAIN parts : i = 1
  BY <1>1
<1>4. Distinct(parts)
  BY <1>1, <1>3 DEF Distinct
<1>5. 1 \in Nat /\ 1 <= Radix
  BY RadixAssumption
<1>6. \A i \in 1 .. 1 : parts[i].type \in TypeNames
  BY <1>1, <1>3, TypeNamesAre
<1>7. PartsFit(parts, 1)
  BY <1>1, <1>2, <1>4, <1>5, <1>6 DEF PartsFit
<1>8. \A name : name \in NamesOf(parts) <=>
        name = "contract_identifier"
  BY <1>1, <1>3 DEF NamesOf
<1>9. ASSUME NEW v
      PROVE  [name \in NamesOf(parts) |-> v[name]] =
             [contract_identifier |-> v.contract_identifier]
  BY <1>8
<1>10. ASSUME NEW v
      PROVE  v \in values <=>
               /\ v = [name \in NamesOf(parts) |-> v[name]]
               /\ v.contract_identifier \in inner.GlobalContractIdentifier
  BY <1>9
<1>11. StructOf(values, parts, inner)
  BY <1>1, <1>3, <1>10 DEF StructOf
<1>12. Types["UseGlobalContractAction"] = Struct(parts)
  BY DEF Types, UseGlobalContractAction, parts
<1>13. ValuesOver(inner)["UseGlobalContractAction"] = values
  BY DEF ValuesOver
<1> QED  BY <1>7, <1>11, <1>12, <1>13, Zenon DEF IsStruct

LEMMA GlobalContractDeployModeForms ==
  ASSUME NEW inner
  PROVE  IsEnum("GlobalContractDeployMode", inner)
<1> DEFINE parts == <<Part("CodeHash", "Unit"), Part("AccountId", "Unit")>>
           values == Of("CodeHash", inner.Unit) \cup Of("AccountId", inner.Unit)
<1>1. /\ DOMAIN parts = 1 .. 2 /\ Len(parts) = 2
      /\ parts[1].name = "CodeHash" /\ parts[1].type = "Unit"
      /\ parts[2].name = "AccountId" /\ parts[2].type = "Unit"
  BY DEF Part
<1>2. \A i \in DOMAIN parts : parts[i] = Part(parts[i].name, parts[i].type)
  BY DEF Part
<1> HIDE DEF parts
<1>3. \A i : i \in DOMAIN parts <=> i = 1 \/ i = 2
  BY <1>1
<1>4. Distinct(parts)
  BY <1>1, <1>3 DEF Distinct
<1>5. 2 \in Nat /\ 2 <= Radix
  BY RadixAssumption
<1>6. \A i \in 1 .. 2 : parts[i].type \in TypeNames
  BY <1>1, <1>3, TypeNamesAre
<1>7. PartsFit(parts, 2)
  BY <1>1, <1>2, <1>4, <1>5, <1>6 DEF PartsFit
<1>8. ASSUME NEW v
      PROVE  v \in values <=>
               \/ \E y \in inner.Unit : v = [variant |-> "CodeHash", value |-> y]
               \/ \E y \in inner.Unit : v = [variant |-> "AccountId", value |-> y]
  BY OfForms
<1>9. EnumOf(values, parts, inner)
  BY <1>1, <1>3, <1>8 DEF EnumOf
<1>10. Types["GlobalContractDeployMode"] = Enum(parts)
  BY DEF Types, GlobalContractDeployMode, parts
<1>11. ValuesOver(inner)["GlobalContractDeployMode"] = values
  BY DEF ValuesOver
<1> QED  BY <1>7, <1>9, <1>10, <1>11, Zenon DEF IsEnum

LEMMA GlobalContractIdentifierForms ==
  ASSUME NEW inner
  PROVE  IsEnum("GlobalContractIdentifier", inner)
<1> DEFINE parts == <<Part("CodeHash", "BlockHash"), Part("AccountId", "AccountId")>>
           values == Of("CodeHash", inner.BlockHash) \cup Of("AccountId", inner.AccountId)
<1>1. /\ DOMAIN parts = 1 .. 2 /\ Len(parts) = 2
      /\ parts[1].name = "CodeHash" /\ parts[1].type = "BlockHash"
      /\ parts[2].name = "AccountId" /\ parts[2].type = "AccountId"
  BY DEF Part
<1>2. \A i \in DOMAIN parts : parts[i] = Part(parts[i].name, parts[i].type)
  BY DEF Part
<1> HIDE DEF parts
<1>3. \A i : i \in DOMAIN parts <=> i = 1 \/ i = 2
  BY <1>1
<1>4. Distinct(parts)
  BY <1>1, <1>3 DEF Distinct
<1>5. 2 \in Nat /\ 2 <= Radix
  BY RadixAssumption
<1>6. \A i \in 1 .. 2 : parts[i].type \in TypeNames
  BY <1>1, <1>3, TypeNamesAre
<1>7. PartsFit(parts, 2)
  BY <1>1, <1>2, <1>4, <1>5, <1>6 DEF PartsFit
<1>8. ASSUME NEW v
      PROVE  v \in values <=>
               \/ \E y \in inner.BlockHash : v = [variant |-> "CodeHash", value |-> y]
               \/ \E y \in inner.AccountId : v = [variant |-> "AccountId", value |-> y]
  BY OfForms
<1>9. EnumOf(values, parts, inner)
  BY <1>1, <1>3, <1>8 DEF EnumOf
<1>10. Types["GlobalContractIdentifier"] = Enum(parts)
  BY DEF Types, GlobalContractIdentifier, parts
<1>11. ValuesOver(inner)["GlobalContractIdentifier"] = values
  BY DEF ValuesOver
<1> QED  BY <1>7, <1>9, <1>10, <1>11, Zenon DEF IsEnum

LEMMA DeployContractActionForms ==
  ASSUME NEW inner
  PROVE  IsStruct("DeployContractAction", inner)
<1> DEFINE parts == <<Part("code", "Base64VecU8")>>
           values == [code : inner.Base64VecU8]
<1>1. /\ DOMAIN parts = 1 .. 1 /\ Len(parts) = 1
      /\ parts[1].name = "code" /\ parts[1].type = "Base64VecU8"
  BY DEF Part
<1>2. \A i \in DOMAIN parts : parts[i] = Part(parts[i].name, parts[i].type)
  BY DEF Part
<1> HIDE DEF parts
<1>3. \A i \in DOMAIN parts : i = 1
  BY <1>1
<1>4. Distinct(parts)
  BY <1>1, <1>3 DEF Distinct
<1>5. 1 \in Nat /\ 1 <= Radix
  BY RadixAssumption
<1>6. \A i \in 1 .. 1 : parts[i].type \in TypeNames
  BY <1>1, <1>3, TypeNamesAre
<1>7. PartsFit(parts, 1)
  BY <1>1, <1>2, <1>4, <1>5, <1>6 DEF PartsFit
<1>8. \A name : name \in NamesOf(parts) <=>
        name = "code"
  BY <1>1, <1>3 DEF NamesOf
<1>9. ASSUME NEW v
      PROVE  [name \in NamesOf(parts) |-> v[name]] =
             [code |-> v.code]
  BY <1>8
<1>10. ASSUME NEW v
      PROVE  v \in values <=>
               /\ v = [name \in NamesOf(parts) |-> v[name]]
               /\ v.code \in inner.Base64VecU8
  BY <1>9
<1>11. StructOf(values, parts, inner)
  BY <1>1, <1>3, <1>10 DEF StructOf
<1>12. Types["DeployContractAction"] = Struct(parts)
  BY DEF Types, DeployContractAction, parts
<1>13. ValuesOver(inner)["DeployContractAction"] = values
  BY DEF ValuesOver
<1> QED  BY <1>7, <1>11, <1>12, <1>13, Zenon DEF IsStruct

LEMMA FunctionCallActionForms ==
  ASSUME NEW inner
  PROVE  IsStruct("FunctionCallAction", inner)
<1> DEFINE parts == <<Part("method_name", "String"), Part("args", "VecU8"), Part("gas", "U64"),
                      Part("deposit", "U128")>>
           values == [method_name : inner.String, args : inner.VecU8, gas : inner.U64,
                      deposit : inner.U128]
<1>1. /\ DOMAIN parts = 1 .. 4 /\ Len(parts) = 4
      /\ parts[1].name = "method_name" /\ parts[1].type = "String"
      /\ parts[2].name = "args" /\ parts[2].type = "VecU8"
      /\ parts[3].name = "gas" /\ parts[3].type = "U64"
      /\ parts[4].name = "deposit" /\ parts[4].type = "U128"
  BY DEF Part
<1>2. \A i \in DOMAIN parts : parts[i] = Part(parts[i].name, parts[i].type)
  BY DEF Part
<1> HIDE DEF parts
<1>3. \A i \in DOMAIN parts : i = 1 \/ i = 2 \/ i = 3 \/ i = 4
  BY <1>1
<1>4. Distinct(parts)
  BY <1>1, <1>3 DEF Distinct
<1>5. 4 \in Nat /\ 4 <= Radix
  BY RadixAssumption
<1>6. \A i \in 1 .. 4 : parts[i].type \in TypeNames
  BY <1>1, <1>3, TypeNamesAre
<1>7. PartsFit(parts, 4)
  BY <1>1, <1>2, <1>4, <1>5, <1>6 DEF PartsFit
<1>8. \A name : name \in NamesOf(parts) <=>
        name = "method_name" \/ name = "args" \/ name = "gas" \/ name = "deposit"
  BY <1>1, <1>3 DEF NamesOf
<1>9. ASSUME NEW v
      PROVE  [name \in NamesOf(parts) |-> v[name]] =
             [method_name |-> v.method_name, args |-> v.args, gas |-> v.gas,
              deposit |-> v.deposit]
  BY <1>8
<1>10. ASSUME NEW v
      PROVE  v \in values <=>
               /\ v = [name \in NamesOf(parts) |-> v[name]]
               /\ v.method_name \in inner.String
               /\ v.args \in inner.VecU8
               /\ v.gas \in inner.U64
               /\ v.deposit \in inner.U128
  BY <1>9
<1>11. StructOf(values, parts, inner)
  BY <1>1, <1>3, <1>10 DEF StructOf
<1>12. Types["FunctionCallAction"] = Struct(parts)
  BY DEF Types, FunctionCallAction, parts
<1>13. ValuesOver(inner)["FunctionCallAction"] = values
  BY DEF ValuesOver
<1> QED  BY <1>7, <1>11, <1>12, <1>13, Zenon DEF IsStruct

LEMMA TransferActionForms ==
  ASSUME NEW inner
  PROVE  IsStruct("TransferAction", inner)
<1> DEFINE parts == <<Part("deposit", "U128")>>
           values == [deposit : inner.U128]
<1>1. /\ DOMAIN parts = 1 .. 1 /\ Len(parts) = 1
      /\ parts[1].name = "deposit" /\ parts[1].type = "U128"
  BY DEF Part
<1>2. \A i \in DOMAIN parts : parts[i] = Part(parts[i].name, parts[i].type)
  BY DEF Part
<1> HIDE DEF parts
<1>3. \A i \in DOMAIN parts : i = 1
  BY <1>1
<1>4. Distinct(parts)
  BY <1>1, <1>3 DEF Distinct
<1>5. 1 \in Nat /\ 1 <= Radix
  BY RadixAssumption
<1>6. \A i \in 1 .. 1 : parts[i].type \in TypeNames
  BY <1>1, <1>3, TypeNamesAre
<1>7. PartsFit(parts, 1)
  BY <1>1, <1>2, <1>4, <1>5, <1>6 DEF PartsFit
<1>8. \A name : name \in NamesOf(parts) <=>
        name = "deposit"
  BY <1>1, <1>3 DEF NamesOf
<1>9. ASSUME NEW v
      PROVE  [name \in NamesOf(parts) |-> v[name]] =
             [deposit |-> v.deposit]
  BY <1>8
<1>10. ASSUME NEW v
      PROVE  v \in values <=>
               /\ v = [name \in NamesOf(parts) |-> v[name]]
               /\ v.deposit \in inner.U128
  BY <1>9
<1>11. StructOf(values, parts, inner)
  BY <1>1, <1>3, <1>10 DEF StructOf
<1>12. Types["TransferAction"] = Struct(parts)
  BY DEF Types, TransferAction, parts
<1>13. ValuesOver(inner)["TransferAction"] = values
  BY DEF ValuesOver
<1> QED  BY <1>7, <1>11, <1>12, <1>13, Zenon DEF IsStruct

LEMMA StakeActionForms ==
  ASSUME NEW inner
  PROVE  IsStruct("StakeAction", inner)
<1> DEFINE parts == <<Part("stake", "U128"), Part("public_key", "PublicKey")>>
           values == [stake : inner.U128, public_key : inner.PublicKey]
<1>1. /\ DOMAIN parts = 1 .. 2 /\ Len(parts) = 2
      /\ parts[1].name = "stake" /\ parts[1].type = "U128"
      /\ parts[2].name = "public_key" /\ parts[2].type = "PublicKey"
  BY DEF Part
<1>2. \A i \in DOMAIN parts : parts[i] = Part(parts[i].name, parts[i].type)
  BY DEF Part
<1> HIDE DEF parts
<1>3. \A i \in DOMAIN parts : i = 1 \/ i = 2
  BY <1>1
<1>4. Distinct(parts)
  BY <1>1, <1>3 DEF Distinct
<1>5. 2 \in Nat /\ 2 <= Radix
  BY RadixAssumption
<1>6. \A i \in 1 .. 2 : parts[i].type \in TypeNames
  BY <1>1, <1>3, TypeNamesAre
<1>7. PartsFit(parts, 2)
  BY <1>1, <1>2, <1>4, <1>5, <1>6 DEF PartsFit
<1>8. \A name : name \in NamesOf(parts) <=>
        name = "stake" \/ name = "public_key"
  BY <1>1, <1>3 DEF NamesOf
<1>9. ASSUME NEW v
      PROVE  [name \in NamesOf(parts) |-> v[name]] =
             [stake |-> v.stake, public_key |-> v.public_key]
  BY <1>8
<1>10. ASSUME NEW v
      PROVE  v \in values <=>
               /\ v = [name \in NamesOf(parts) |-> v[name]]
               /\ v.stake \in inner.U128
               /\ v.public_key \in inner.PublicKey
  BY <1>9
<1>11. StructOf(values, parts, inner)
  BY <1>1, <1>3, <1>10 DEF StructOf
<1>12. Types["StakeAction"] = Struct(parts)
  BY DEF Types, StakeAction, parts
<1>13. ValuesOver(inner)["StakeAction"] = values
  BY DEF ValuesOver
<1> QED  BY <1>7, <1>11, <1>12, <1>13, Zenon DEF IsStruct

LEMMA DeleteKeyActionForms ==
  ASSUME NEW inner
  PROVE  IsStruct("DeleteKeyAction", inner)
<1> DEFINE parts == <<Part("public_key", "PublicKey")>>
           values == [public_key : inner.PublicKey]
<1>1. /\ DOMAIN parts = 1 .. 1 /\ Len(parts) = 1
      /\ parts[1].name = "public_key" /\ parts[1].type = "PublicKey"
  BY DEF Part
<1>2. \A i \in DOMAIN parts : parts[i] = Part(parts[i].name, parts[i].type)
  BY DEF Part
<1> HIDE DEF parts
<1>3. \A i \in DOMAIN parts : i = 1
  BY <1>1
<1>4. Distinct(parts)
  BY <1>1, <1>3 DEF Distinct
<1>5. 1 \in Nat /\ 1 <= Radix
  BY RadixAssumption
<1>6. \A i \in 1 .. 1 : parts[i].type \in TypeNames
  BY <1>1, <1>3, TypeNamesAre
<1>7. PartsFit(parts, 1)
  BY <1>1, <1>2, <1>4, <1>5, <1>6 DEF PartsFit
<1>8. \A name : name \in NamesOf(parts) <=>
        name = "public_key"
  BY <1>1, <1>3 DEF NamesOf
<1>9. ASSUME NEW v
      PROVE  [name \in NamesOf(parts) |-> v[name]] =
             [public_key |-> v.public_key]
  BY <1>8
<1>10. ASSUME NEW v
      PROVE  v \in values <=>
               /\ v = [name \in NamesOf(parts) |-> v[name]]
               /\ v.public_key \in inner.PublicKey
  BY <1>9
<1>11. StructOf(values, parts, inner)
  BY <1>1, <1>3, <1>10 DEF StructOf
<1>12. Types["DeleteKeyAction"] = Struct(parts)
  BY DEF Types, DeleteKeyAction, parts
<1>13. ValuesOver(inner)["DeleteKeyAction"] = values
  BY DEF ValuesOver
<1> QED  BY <1>7, <1>11, <1>12, <1>13, Zenon DEF IsStruct

LEMMA DeleteAccountActionForms ==
  ASSUME NEW inner
  PROVE  IsStruct("DeleteAccountAction", inner)
<1> DEFINE parts == <<Part("beneficiary_id", "AccountId")>>
           values == [beneficiary_id : inner.AccountId]
<1>1. /\ DOMAIN parts = 1 .. 1 /\ Len(parts) = 1
      /\ parts[1].name = "beneficiary_id" /\ parts[1].type = "AccountId"
  BY DEF Part
<1>2. \A i \in DOMAIN parts : parts[i] = Part(parts[i].name, parts[i].type)
  BY DEF Part
<1> HIDE DEF parts
<1>3. \A i \in DOMAIN parts : i = 1
  BY <1>1
<1>4. Distinct(parts)
  BY <1>1, <1>3 DEF Distinct
<1>5. 1 \in Nat /\ 1 <= Radix
  BY RadixAssumption
<1>6. \A i \in 1 .. 1 : parts[i].type \in TypeNames
  BY <1>1, <1>3, TypeNamesAre
<1>7. PartsFit(parts, 1)
  BY <1>1, <1>2, <1>4, <1>5, <1>6 DEF PartsFit
<1>8. \A name : name \in NamesOf(parts) <=>
        name = "beneficiary_id"
  BY <1>1, <1>3 DEF NamesOf
<1>9. ASSUME NEW v
      PROVE  [name \in NamesOf(parts) |-> v[name]] =
             [beneficiary_id |-> v.beneficiary_id]
  BY <1>8
<1>10. ASSUME NEW v
      PROVE  v \in values <=>
               /\ v = [name \in NamesOf(parts) |-> v[name]]
               /\ v.beneficiary_id \in inner.AccountId
  BY <1>9
<1>11. StructOf(values, parts, inner)
  BY <1>1, <1>3, <1>10 DEF StructOf
<1>12. Types["DeleteAccountAction"] = Struct(parts)
  BY DEF Types, DeleteAccountAction, parts
<1>13. ValuesOver(inner)["DeleteAccountAction"] = values
  BY DEF ValuesOver
<1> QED  BY <1>7, <1>11, <1>12, <1>13, Zenon DEF IsStruct

LEMMA AddKeyActionForms ==
  ASSUME NEW inner
  PROVE  IsStruct("AddKeyAction", inner)
<1> DEFINE parts == <<Part("public_key", "PublicKey"), Part("access_key", "AccessKey")>>
           values == [public_key : inner.PublicKey, access_key : inner.AccessKey]
<1>1. /\ DOMAIN parts = 1 .. 2 /\ Len(parts) = 2
      /\ parts[1].name = "public_key" /\ parts[1].type = "PublicKey"
      /\ parts[2].name = "access_key" /\ parts[2].type = "AccessKey"
  BY DEF Part
<1>2. \A i \in DOMAIN parts : parts[i] = Part(parts[i].name, parts[i].type)
  BY DEF Part
<1> HIDE DEF parts
<1>3. \A i \in DOMAIN parts : i = 1 \/ i = 2
  BY <1>1
<1>4. Distinct(parts)
  BY <1>1, <1>3 DEF Distinct
<1>5. 2 \in Nat /\ 2 <= Radix
  BY RadixAssumption
<1>6. \A i \in 1 .. 2 : parts[i].type \in TypeNames
  BY <1>1, <1>3, TypeNamesAre
<1>7. PartsFit(parts, 2)
  BY <1>1, <1>2, <1>4, <1>5, <1>6 DEF PartsFit
<1>8. \A name : name \in NamesOf(parts) <=>
        name = "public_key" \/ name = "access_key"
  BY <1>1, <1>3 DEF NamesOf
<1>9. ASSUME NEW v
      PROVE  [name \in NamesOf(parts) |-> v[name]] =
             [public_key |-> v.public_key, access_key |-> v.access_key]
  BY <1>8
<1>10. ASSUME NEW v
      PROVE  v \in values <=>
               /\ v = [name \in NamesOf(parts) |-> v[name]]
               /\ v.public_key \in inner.PublicKey
               /\ v.access_key \in inner.AccessKey
  BY <1>9
<1>11. StructOf(values, parts, inner)
  BY <1>1, <1>3, <1>10 DEF StructOf
<1>12. Types["AddKeyAction"] = Struct(parts)
  BY DEF Types, AddKeyAction, parts
<1>13. ValuesOver(inner)["AddKeyAction"] = values
  BY DEF ValuesOver
<1> QED  BY <1>7, <1>11, <1>12, <1>13, Zenon DEF IsStruct

LEMMA AccessKeyForms ==
  ASSUME NEW inner
  PROVE  IsStruct("AccessKey", inner)
<1> DEFINE parts == <<Part("nonce", "U64"), Part("permission", "AccessKeyPermission")>>
           values == [nonce : inner.U64, permission : inner.AccessKeyPermission]
<1>1. /\ DOMAIN parts = 1 .. 2 /\ Len(parts) = 2
      /\ parts[1].name = "nonce" /\ parts[1].type = "U64"
      /\ parts[2].name = "permission" /\ parts[2].type = "AccessKeyPermission"
  BY DEF Part
<1>2. \A i \in DOMAIN parts : parts[i] = Part(parts[i].name, parts[i].type)
  BY DEF Part
<1> HIDE DEF parts
<1>3. \A i \in DOMAIN parts : i = 1 \/ i = 2
  BY <1>1
<1>4. Distinct(parts)
  BY <1>1, <1>3 DEF Distinct
<1>5. 2 \in Nat /\ 2 <= Radix
  BY RadixAssumption
<1>6. \A i \in 1 .. 2 : parts[i].type \in TypeNames
  BY <1>1, <1>3, TypeNamesAre
<1>7. PartsFit(parts, 2)
  BY <1>1, <1>2, <1>4, <1>5, <1>6 DEF PartsFit
<1>8. \A name : name \in NamesOf(parts) <=>
        name = "nonce" \/ name = "permission"
  BY <1>1, <1>3 DEF NamesOf
<1>9. ASSUME NEW v
      PROVE  [name \in NamesOf(parts) |-> v[name]] =
             [nonce |-> v.nonce, permission |-> v.permission]
  BY <1>8
<1>10. ASSUME NEW v
      PROVE  v \in values <=>
               /\ v = [name \in NamesOf(parts) |-> v[name]]
               /\ v.nonce \in inner.U64
               /\ v.permission \in inner.AccessKeyPermission
  BY <1>9
<1>11. StructOf(values, parts, inner)
  BY <1>1, <1>3, <1>10 DEF StructOf
<1>12. Types["AccessKey"] = Struct(parts)
  BY DEF Types, AccessKey, parts
<1>13. ValuesOver(inner)["AccessKey"] = values
  BY DEF ValuesOver
<1> QED  BY <1>7, <1>11, <1>12, <1>13, Zenon DEF IsStruct

LEMMA AccessKeyPermissionForms ==
  ASSUME NEW inner
  PROVE  IsEnum("AccessKeyPermission", inner)
<1> DEFINE parts == <<Part("FunctionCall", "FunctionCallPermission"), Part("FullAccess", "Unit")>>
           values == Of("FunctionCall", inner.FunctionCallPermission) \cup
                     Of("FullAccess", inner.Unit)
<1>1. /\ DOMAIN parts = 1 .. 2 /\ Len(parts) = 2
      /\ parts[1].name = "FunctionCall" /\ parts[1].type = "FunctionCallPermission"
      /\ parts[2].name = "FullAccess" /\ parts[2].type = "Unit"
  BY DEF Part
<1>2. \A i \in DOMAIN parts : parts[i] = Part(parts[i].name, parts[i].type)
  BY DEF Part
<1> HIDE DEF parts
<1>3. \A i : i \in DOMAIN parts <=> i = 1 \/ i = 2
  BY <1>1
<1>4. Distinct(parts)
  BY <1>1, <1>3 DEF Distinct
<1>5. 2 \in Nat /\ 2 <= Radix
  BY RadixAssumption
<1>6. \A i \in 1 .. 2 : parts[i].type \in TypeNames
  BY <1>1, <1>3, TypeNamesAre
<1>7. PartsFit(parts, 2)
  BY <1>1, <1>2, <1>4, <1>5, <1>6 DEF PartsFit
<1>8. ASSUME NEW v
      PROVE  v \in values <=>
               \/ \E y \in inner.FunctionCallPermission : v = [variant |-> "FunctionCall", value |-> y]
               \/ \E y \in inner.Unit : v = [variant |-> "FullAccess", value |-> y]
  BY OfForms
<1>9. EnumOf(values, parts, inner)
  BY <1>1, <1>3, <1>8 DEF EnumOf
<1>10. Types["AccessKeyPermission"] = Enum(parts)
  BY DEF Types, AccessKeyPermission, parts
<1>11. ValuesOver(inner)["AccessKeyPermission"] = values
  BY DEF ValuesOver
<1> QED  BY <1>7, <1>9, <1>10, <1>11, Zenon DEF IsEnum

LEMMA FunctionCallPermissionForms ==
  ASSUME NEW inner
  PROVE  IsStruct("FunctionCallPermission", inner)
<1> DEFINE parts == <<Part("allowance", "OptionU128"), Part("receiver_id", "String"),
                      Part("method_names", "VecString")>>
           values == [allowance : inner.OptionU128, receiver_id : inner.String,
                      method_names : inner.VecString]
<1>1. /\ DOMAIN parts = 1 .. 3 /\ Len(parts) = 3
      /\ parts[1].name = "allowance" /\ parts[1].type = "OptionU128"
      /\ parts[2].name = "receiver_id" /\ parts[2].type = "String"
      /\ parts[3].name = "method_names" /\ parts[3].type = "VecString"
  BY DEF Part
<1>2. \A i \in DOMAIN parts : parts[i] = Part(parts[i].name, parts[i].type)
  BY DEF Part
<1> HIDE DEF parts
<1>3. \A i \in DOMAIN parts : i = 1 \/ i = 2 \/ i = 3
  BY <1>1
<1>4. Distinct(parts)
  BY <1>1, <1>3 DEF Distinct
<1>5. 3 \in Nat /\ 3 <= Radix
  BY RadixAssumption
<1>6. \A i \in 1 .. 3 : parts[i].type \in TypeNames
  BY <1>1, <1>3, TypeNamesAre
<1>7. PartsFit(parts, 3)
  BY <1>1, <1>2, <1>4, <1>5, <1>6 DEF PartsFit
<1>8. \A name : name \in NamesOf(parts) <=>
        name = "allowance" \/ name = "receiver_id" \/ name = "method_names"
  BY <1>1, <1>3 DEF NamesOf
<1>9. ASSUME NEW v
      PROVE  [name \in NamesOf(parts) |-> v[name]] =
             [allowance |-> v.allowance, receiver_id |-> v.receiver_id,
              method_names |-> v.method_names]
  BY <1>8
<1>10. ASSUME NEW v
      PROVE  v \in values <=>
               /\ v = [name \in NamesOf(parts) |-> v[name]]
               /\ v.allowance \in inner.OptionU128
               /\ v.receiver_id \in inner.String
               /\ v.method_names \in inner.VecString
  BY <1>9
<1>11. StructOf(values, parts, inner)
  BY <1>1, <1>3, <1>10 DEF StructOf
<1>12. Types["FunctionCallPermission"] = Struct(parts)
  BY DEF Types, FunctionCallPermission, parts
<1>13. ValuesOver(inner)["FunctionCallPermission"] = values
  BY DEF ValuesOver
<1> QED  BY <1>7, <1>11, <1>12, <1>13, Zenon DEF IsStruct

LEMMA DelegateActionForms ==
  ASSUME NEW inner
  PROVE  IsStruct("DelegateAction", inner)
<1> DEFINE parts == <<Part("sender_id", "AccountId"), Part("receiver_id", "AccountId"),
                      Part("actions", "VecNonDelegateAction"), Part("nonce", "U64"),
                      Part("max_block_height", "U64"), Part("public_key", "PublicKey")>>
           values == [sender_id : inner.AccountId, receiver_id : inner.AccountId,
                      actions : inner.VecNonDelegateAction, nonce : inner.U64,
                      max_block_height : inner.U64, public_key : inner.PublicKey]
<1>1. /\ DOMAIN parts = 1 .. 6 /\ Len(parts) = 6
      /\ parts[1].name = "sender_id" /\ parts[1].type = "AccountId"
      /\ parts[2].name = "receiver_id" /\ parts[2].type = "AccountId"
      /\ parts[3].name = "actions" /\ parts[3].type = "VecNonDelegateAction"
      /\ parts[4].name = "nonce" /\ parts[4].type = "U64"
      /\ parts[5].name = "max_block_height" /\ parts[5].type = "U64"
      /\ parts[6].name = "public_key" /\ parts[6].type = "PublicKey"
  BY DEF Part
<1>2. \A i \in DOMAIN parts : parts[i] = Part(parts[i].name, parts[i].type)
  BY DEF Part
<1> HIDE DEF parts
<1>3. \A i \in DOMAIN parts : i = 1 \/ i = 2 \/ i = 3 \/ i = 4 \/ i = 5 \/ i = 6
  BY <1>1
<1>4. Distinct(parts)
  BY <1>1, <1>3 DEF Distinct
<1>5. 6 \in Nat /\ 6 <= Radix
  BY RadixAssumption
<1>6. \A i \in 1 .. 6 : parts[i].type \in TypeNames
  BY <1>1, <1>3, TypeNamesAre
<1>7. PartsFit(parts, 6)
  BY <1>1, <1>2, <1>4, <1>5, <1>6 DEF PartsFit
<1>8. \A name : name \in NamesOf(parts) <=>
        name = "sender_id" \/ name = "receiver_id" \/ name = "actions" \/ name = "nonce" \/
        name = "max_block_height" \/ name = "public_key"
  BY <1>1, <1>3 DEF NamesOf
<1>9. ASSUME NEW v
      PROVE  [name \in NamesOf(parts) |-> v[name]] =
             [sender_id |-> v.sender_id, receiver_id |-> v.receiver_id, actions |-> v.actions,
              nonce |-> v.nonce, max_block_height |-> v.max_block_height,
              public_key |-> v.public_key]
  BY <1>8
<1>10. ASSUME NEW v
      PROVE  v \in values <=>
               /\ v = [name \in NamesOf(parts) |-> v[name]]
               /\ v.sender_id \in inner.AccountId
               /\ v.receiver_id \in inner.AccountId
               /\ v.actions \in inner.VecNonDelegateAction
               /\ v.nonce \in inner.U64
               /\ v.max_block_height \in inner.U64
               /\ v.public_key \in inner.PublicKey
  BY <1>9
<1>11. StructOf(values, parts, inner)
  BY <1>1, <1>3, <1>10 DEF StructOf
<1>12. Types["DelegateAction"] = Struct(parts)
  BY DEF Types, DelegateAction, parts
<1>13. ValuesOver(inner)["DelegateAction"] = values
  BY DEF ValuesOver
<1> QED  BY <1>7, <1>11, <1>12, <1>13, Zenon DEF IsStruct

LEMMA SignedDelegateActionForms ==
  ASSUME NEW inner
  PROVE  IsStruct("SignedDelegateAction", inner)
<1> DEFINE parts == <<Part("delegate_action", "DelegateAction"), Part("signature", "Signature")>>
           values == [delegate_action : inner.DelegateAction, signature : inner.Signature]
<1>1. /\ DOMAIN parts = 1 .. 2 /\ Len(parts) = 2
      /\ parts[1].name = "delegate_action" /\ parts[1].type = "DelegateAction"
      /\ parts[2].name = "signature" /\ parts[2].type = "Signature"
  BY DEF Part
<1>2. \A i \in DOMAIN parts : parts[i] = Part(parts[i].name, parts[i].type)
  BY DEF Part
<1> HIDE DEF parts
<1>3. \A i \in DOMAIN parts : i = 1 \/ i = 2
  BY <1>1
<1>4. Distinct(parts)
  BY <1>1, <1>3 DEF Distinct
<1>5. 2 \in Nat /\ 2 <= Radix
  BY RadixAssumption
<1>6. \A i \in 1 .. 2 : parts[i].type \in TypeNames
  BY <1>1, <1>3, TypeNamesAre
<1>7. PartsFit(parts, 2)
  BY <1>1, <1>2, <1>4, <1>5, <1>6 DEF PartsFit
<1>8. \A name : name \in NamesOf(parts) <=>
        name = "delegate_action" \/ name = "signature"
  BY <1>1, <1>3 DEF NamesOf
<1>9. ASSUME NEW v
      PROVE  [name \in NamesOf(parts) |-> v[name]] =
             [delegate_action |-> v.delegate_action, signature |-> v.signature]
  BY <1>8
<1>10. ASSUME NEW v
      PROVE  v \in values <=>
               /\ v = [name \in NamesOf(parts) |-> v[name]]
               /\ v.delegate_action \in inner.DelegateAction
               /\ v.signature \in inner.Signature
  BY <1>9
<1>11. StructOf(values, parts, inner)
  BY <1>1, <1>3, <1>10 DEF StructOf
<1>12. Types["SignedDelegateAction"] = Struct(parts)
  BY DEF Types, SignedDelegateAction, parts
<1>13. ValuesOver(inner)["SignedDelegateAction"] = values
  BY DEF ValuesOver
<1> QED  BY <1>7, <1>11, <1>12, <1>13, Zenon DEF IsStruct

LEMMA NearTransactionForms ==
  ASSUME NEW inner
  PROVE  IsStruct("NearTransaction", inner)
<1> DEFINE parts == <<Part("signer_id", "AccountId"), Part("signer_public_key", "PublicKey"),
                      Part("nonce", "U64"), Part("receiver_id", "AccountId"),
                      Part("block_hash", "BlockHash"), Part("actions", "VecAction")>>
           values == [signer_id : inner.AccountId, signer_public_key : inner.PublicKey,
                      nonce : inner.U64, receiver_id : inner.AccountId,
                      block_hash : inner.BlockHash, actions : inner.VecAction]
<1>1. /\ DOMAIN parts = 1 .. 6 /\ Len(parts) = 6
      /\ parts[1].name = "signer_id" /\ parts[1].type = "AccountId"
      /\ parts[2].name = "signer_public_key" /\ parts[2].type = "PublicKey"
      /\ parts[3].name = "nonce" /\ parts[3].type = "U64"
      /\ parts[4].name = "receiver_id" /\ parts[4].type = "AccountId"
      /\ parts[5].name = "block_hash" /\ parts[5].type = "BlockHash"
      /\ parts[6].name = "actions" /\ parts[6].type = "VecAction"
  BY DEF Part
<1>2. \A i \in DOMAIN parts : parts[i] = Part(parts[i].name, parts[i].type)
  BY DEF Part
<1> HIDE DEF parts
<1>3. \A i \in DOMAIN parts : i = 1 \/ i = 2 \/ i = 3 \/ i = 4 \/ i = 5 \/ i = 6
  BY <1>1
<1>4. Distinct(parts)
  BY <1>1, <1>3 DEF Distinct
<1>5. 6 \in Nat /\ 6 <= Radix
  BY RadixAssumption
<1>6. \A i \in 1 .. 6 : parts[i].type \in TypeNames
  BY <1>1, <1>3, TypeNamesAre
<1>7. PartsFit(parts, 6)
  BY <1>1, <1>2, <1>4, <1>5, <1>6 DEF PartsFit
<1>8. \A name : name \in NamesOf(parts) <=>
        name = "signer_id" \/ name = "signer_public_key" \/ name = "nonce" \/
        name = "receiver_id" \/ name = "block_hash" \/ name = "actions"
  BY <1>1, <1>3 DEF NamesOf
<1>9. ASSUME NEW v
      PROVE  [name \in NamesOf(parts) |-> v[name]] =
             [signer_id |-> v.signer_id, signer_public_key |-> v.signer_public_key,
              nonce |-> v.nonce, receiver_id |-> v.receiver_id, block_hash |-> v.block_hash,
              actions |-> v.actions]
  BY <1>8
<1>10. ASSUME NEW v
      PROVE  v \in values <=>
               /\ v = [name \in NamesOf(parts) |-> v[name]]
               /\ v.signer_id \in inner.AccountId
               /\ v.signer_public_key \in inner.PublicKey
               /\ v.nonce \in inner.U64
               /\ v.receiver_id \in inner.AccountId
               /\ v.block_hash \in inner.BlockHash
               /\ v.actions \in inner.VecAction
  BY <1>9
<1>11. StructOf(values, parts, inner)
  BY <1>1, <1>3, <1>10 DEF StructOf
<1>12. Types["NearTransaction"] = Struct(parts)
  BY DEF Types, NearTransaction, parts
<1>13. ValuesOver(inner)["NearTransaction"] = values
  BY DEF ValuesOver
<1> QED  BY <1>7, <1>11, <1>12, <1>13, Zenon DEF IsStruct

LEMMA SignedTransactionForms ==
  ASSUME NEW inner
  PROVE  IsStruct("SignedTransaction", inner)
<1> DEFINE parts == <<Part("transaction", "NearTransaction"), Part("signature", "Signature")>>
           values == [transaction : inner.NearTransaction, signature : inner.Signature]
<1>1. /\ DOMAIN parts = 1 .. 2 /\ Len(parts) = 2
      /\ parts[1].name = "transaction" /\ parts[1].type = "NearTransaction"
      /\ parts[2].name = "signature" /\ parts[2].type = "Signature"
  BY DEF Part
<1>2. \A i \in DOMAIN parts : parts[i] = Part(parts[i].name, parts[i].type)
  BY DEF Part
<1> HIDE DEF parts
<1>3. \A i \in DOMAIN parts : i = 1 \/ i = 2
  BY <1>1
<1>4. Distinct(parts)
  BY <1>1, <1>3 DEF Distinct
<1>5. 2 \in Nat /\ 2 <= Radix
  BY RadixAssumption
<1>6. \A i \in 1 .. 2 : parts[i].type \in TypeNames
  BY <1>1, <1>3, TypeNamesAre
<1>7. PartsFit(parts, 2)
  BY <1>1, <1>2, <1>4, <1>5, <1>6 DEF PartsFit
<1>8. \A name : name \in NamesOf(parts) <=>
        name = "transaction" \/ name = "signature"
  BY <1>1, <1>3 DEF NamesOf
<1>9. ASSUME NEW v
      PROVE  [name \in NamesOf(parts) |-> v[name]] =
             [transaction |-> v.transaction, signature |-> v.signature]
  BY <1>8
<1>10. ASSUME NEW v
      PROVE  v \in values <=>
               /\ v = [name \in NamesOf(parts) |-> v[name]]
               /\ v.transaction \in inner.NearTransaction
               /\ v.signature \in inner.Signature
  BY <1>9
<1>11. StructOf(values, parts, inner)
  BY <1>1, <1>3, <1>10 DEF StructOf
<1>12. Types["SignedTransaction"] = Struct(parts)
  BY DEF Types, SignedTransaction, parts
<1>13. ValuesOver(inner)["SignedTransaction"] = values
  BY DEF ValuesOver
<1> QED  BY <1>7, <1>11, <1>12, <1>13, Zenon DEF IsStruct

LEMMA CreateAccountActionForms ==
  ASSUME NEW inner
  PROVE  IsStruct("CreateAccountAction", inner)
<1> DEFINE parts == << >>
           values == {NoFields}
<1>1. DOMAIN parts = 1 .. 0 /\ Len(parts) = 0 /\ 0 \in Nat /\ \A i : i \notin 1 .. 0
  OBVIOUS
<1> HIDE DEF parts
<1>2. Distinct(parts)
  BY <1>1 DEF Distinct
<1>3. \A name : name \notin NamesOf(parts)
  BY <1>1 DEF NamesOf
<1>4. ASSUME NEW v
      PROVE  [name \in NamesOf(parts) |-> v[name]] = NoFields
  BY <1>3 DEF NoFields
<1>5. StructOf(values, parts, inner)
  BY <1>1, <1>4 DEF StructOf
<1>6. PartsFit(parts, 0)
  BY <1>1, <1>2, RadixAssumption DEF PartsFit
<1>7. Types["CreateAccountAction"] = Struct(parts)
  BY DEF Types, CreateAccountAction, parts
<1>8. ValuesOver(inner)["CreateAccountAction"] = values
  BY DEF ValuesOver
<1> QED  BY <1>5, <1>6, <1>7, <1>8, Zenon DEF IsStruct

\* The structs and the enums among the types.
StructNames == {"DeployGlobalContractAction", "UseGlobalContractAction", "DeployContractAction",
   "FunctionCallAction", "TransferAction", "StakeAction", "DeleteKeyAction",
   "DeleteAccountAction", "AddKeyAction", "AccessKey", "FunctionCallPermission",
   "DelegateAction", "SignedDelegateAction", "NearTransaction", "SignedTransaction",
   "CreateAccountAction"}

EnumNames == {"Action", "GlobalContractDeployMode", "GlobalContractIdentifier", "AccessKeyPermission"}

LEMMA StructForms ==
  ASSUME NEW inner, NEW type \in StructNames
  PROVE  IsStruct(type, inner)
<1>1. \/ type = "DeployGlobalContractAction" \/ type = "UseGlobalContractAction"
      \/ type = "DeployContractAction" \/ type = "FunctionCallAction"
      \/ type = "TransferAction" \/ type = "StakeAction"
      \/ type = "DeleteKeyAction" \/ type = "DeleteAccountAction"
      \/ type = "AddKeyAction" \/ type = "AccessKey"
      \/ type = "FunctionCallPermission" \/ type = "DelegateAction"
      \/ type = "SignedDelegateAction" \/ type = "NearTransaction"
      \/ type = "SignedTransaction" \/ type = "CreateAccountAction"
  BY DEF StructNames
<1> QED  BY <1>1, DeployGlobalContractActionForms, UseGlobalContractActionForms,
             DeployContractActionForms, FunctionCallActionForms, TransferActionForms,
             StakeActionForms, DeleteKeyActionForms, DeleteAccountActionForms,
             AddKeyActionForms, AccessKeyForms, FunctionCallPermissionForms,
             DelegateActionForms, SignedDelegateActionForms, NearTransactionForms,
             SignedTransactionForms, CreateAccountActionForms

LEMMA EnumForms ==
  ASSUME NEW inner, NEW type \in EnumNames
  PROVE  IsEnum(type, inner)
<1>1. \/ type = "Action" \/ type = "GlobalContractDeployMode"
      \/ type = "GlobalContractIdentifier" \/ type = "AccessKeyPermission"
  BY DEF EnumNames
<1> QED  BY <1>1, ActionForms, GlobalContractDeployModeForms, GlobalContractIdentifierForms,
             AccessKeyPermissionForms

\* Structs and enums are sound if the types inside them are.
LEMMA PartsSound ==
  ASSUME NEW codecs, NEW inner, AllSound(codecs, inner), NEW parts, NEW n, PartsFit(parts, n)
  PROVE  SoundParts(parts, codecs, inner)
  BY DEF AllSound, PartsFit, SoundParts

LEMMA IsStructSound ==
  ASSUME NEW codecs, NEW inner, AllSound(codecs, inner), NEW type, IsStruct(type, inner)
  PROVE  SoundType(Types[type], ValuesOver(inner)[type], codecs)
<1>1. PICK parts, n : /\ Types[type] = Struct(parts) /\ PartsFit(parts, n)
                      /\ StructOf(ValuesOver(inner)[type], parts, inner)
  BY Zenon DEF IsStruct
<1>2. SoundParts(parts, codecs, inner)
  BY <1>1, PartsSound
<1>3. n \in Nat /\ DOMAIN parts = 1 .. n /\ Distinct(parts)
  BY <1>1 DEF PartsFit
<1> DEFINE values == ValuesOver(inner)[type]
<1> HIDE DEF values
<1>4. SoundType(Struct(parts), values, codecs)
  BY <1>1, <1>2, <1>3, StructSound DEF values
<1> QED  BY <1>1, <1>4 DEF values

LEMMA IsEnumSound ==
  ASSUME NEW codecs, NEW inner, AllSound(codecs, inner), NEW type, IsEnum(type, inner)
  PROVE  SoundType(Types[type], ValuesOver(inner)[type], codecs)
<1>1. PICK parts, n : /\ Types[type] = Enum(parts) /\ PartsFit(parts, n)
                      /\ EnumOf(ValuesOver(inner)[type], parts, inner)
  BY Zenon DEF IsEnum
<1>2. SoundParts(parts, codecs, inner)
  BY <1>1, PartsSound
<1>3. n \in Nat /\ n <= Radix /\ DOMAIN parts = 1 .. n /\ Len(parts) = n /\ Distinct(parts)
  BY <1>1 DEF PartsFit
<1> DEFINE values == ValuesOver(inner)[type]
<1> HIDE DEF values
<1>4. SoundType(Enum(parts), values, codecs)
  BY <1>1, <1>2, <1>3, EnumSound DEF values
<1> QED  BY <1>1, <1>4 DEF values

\* Every type is sound if the types inside it are.
LEMMA TypesSound ==
  ASSUME NEW codecs, NEW inner, AllSound(codecs, inner), NEW type \in TypeNames
  PROVE  SoundType(Types[type], ValuesOver(inner)[type], codecs)
<1>1. SoundType(Types["U64"], ValuesOver(inner)["U64"], codecs)
  <2>1. Types["U64"] = Primitive("U64")
    BY DEF Types, U64
  <2>2. ValuesOver(inner)["U64"] = Byte
    BY DEF ValuesOver
  <2>3. SoundType(Primitive("U64"), Byte, codecs)
    BY U64Sound
  <2> QED  BY <2>1, <2>2, <2>3
<1>2. SoundType(Types["U128"], ValuesOver(inner)["U128"], codecs)
  <2>1. Types["U128"] = Primitive("U128")
    BY DEF Types, U128
  <2>2. ValuesOver(inner)["U128"] = 0 .. Radix * Radix - 1
    BY DEF ValuesOver
  <2>3. SoundType(Primitive("U128"), 0 .. Radix * Radix - 1, codecs)
    BY U128Sound
  <2> QED  BY <2>1, <2>2, <2>3
<1>3. SoundType(Types["BlockHash"], ValuesOver(inner)["BlockHash"], codecs)
  <2>1. Types["BlockHash"] = Primitive("BlockHash")
    BY DEF Types
  <2>2. ValuesOver(inner)["BlockHash"] = [1 .. HASH_LENGTH -> Byte]
    BY DEF ValuesOver
  <2>3. SoundType(Primitive("BlockHash"), [1 .. HASH_LENGTH -> Byte], codecs)
    BY BlockHashSound
  <2> QED  BY <2>1, <2>2, <2>3
<1>4. SoundType(Types["PublicKey"], ValuesOver(inner)["PublicKey"], codecs)
  <2>1. Types["PublicKey"] = Primitive("PublicKey")
    BY DEF Types
  <2>2. ValuesOver(inner)["PublicKey"] = Keys
    BY DEF ValuesOver, Keys
  <2>3. SoundType(Primitive("PublicKey"), Keys, codecs)
    BY PublicKeySound
  <2> QED  BY <2>1, <2>2, <2>3
<1>5. SoundType(Types["Signature"], ValuesOver(inner)["Signature"], codecs)
  <2>1. Types["Signature"] = Primitive("Signature")
    BY DEF Types
  <2>2. ValuesOver(inner)["Signature"] = AllSignatures
    BY DEF ValuesOver, AllSignatures
  <2>3. SoundType(Primitive("Signature"), AllSignatures, codecs)
    BY SignatureSound
  <2> QED  BY <2>1, <2>2, <2>3
<1>6. SoundType(Types["Base64VecU8"], ValuesOver(inner)["Base64VecU8"], codecs)
  <2>1. Types["Base64VecU8"] = Primitive("Base64VecU8")
    BY DEF Types
  <2>2. ValuesOver(inner)["Base64VecU8"] = Short(Byte)
    BY DEF ValuesOver
  <2>3. SoundType(Primitive("Base64VecU8"), Short(Byte), codecs)
    BY BytesSound
  <2> QED  BY <2>1, <2>2, <2>3
<1>7. SoundType(Types["VecU8"], ValuesOver(inner)["VecU8"], codecs)
  <2>1. Types["VecU8"] = Primitive("VecU8")
    BY DEF Types
  <2>2. ValuesOver(inner)["VecU8"] = Short(Byte)
    BY DEF ValuesOver
  <2>3. SoundType(Primitive("VecU8"), Short(Byte), codecs)
    BY BytesSound
  <2> QED  BY <2>1, <2>2, <2>3
<1>8. SoundType(Types["String"], ValuesOver(inner)["String"], codecs)
  <2>1. Types["String"] = Primitive("String")
    BY DEF Types
  <2>2. ValuesOver(inner)["String"] = Short(Byte)
    BY DEF ValuesOver
  <2>3. SoundType(Primitive("String"), Short(Byte), codecs)
    BY BytesSound
  <2> QED  BY <2>1, <2>2, <2>3
<1>9. SoundType(Types["AccountId"], ValuesOver(inner)["AccountId"], codecs)
  <2>1. Types["AccountId"] = Primitive("AccountId")
    BY DEF Types
  <2>2. ValuesOver(inner)["AccountId"] = Short(Byte) \ {<< >>}
    BY DEF ValuesOver
  <2>3. SoundType(Primitive("AccountId"), Short(Byte) \ {<< >>}, codecs)
    BY AccountIdSound
  <2> QED  BY <2>1, <2>2, <2>3
<1>10. SoundType(Types["Unit"], ValuesOver(inner)["Unit"], codecs)
  <2>1. Types["Unit"] = Primitive("Unit")
    BY DEF Types
  <2>2. ValuesOver(inner)["Unit"] = {NoFields}
    BY DEF ValuesOver
  <2>3. SoundType(Primitive("Unit"), {NoFields}, codecs)
    BY UnitSound
  <2> QED  BY <2>1, <2>2, <2>3
<1>11. SoundType(Types["OptionU128"], ValuesOver(inner)["OptionU128"], codecs)
  <2>1. Types["OptionU128"] = Option("U128")
    BY DEF Types
  <2>2. ValuesOver(inner)["OptionU128"] = Items(inner["U128"], 1)
    BY DEF ValuesOver, Items
  <2>3. Sound(codecs["U128"], inner["U128"])
    BY TypeNamesAre DEF AllSound
  <2>4. SoundType(Option("U128"), Items(inner["U128"], 1), codecs)
    BY <2>3, OptionSound
  <2> QED  BY <2>1, <2>2, <2>4
<1>12. SoundType(Types["VecString"], ValuesOver(inner)["VecString"], codecs)
  <2>1. Types["VecString"] = List("String")
    BY DEF Types
  <2>2. ValuesOver(inner)["VecString"] = Short(inner["String"])
    BY DEF ValuesOver
  <2>3. Sound(codecs["String"], inner["String"])
    BY TypeNamesAre DEF AllSound
  <2>4. SoundType(List("String"), Short(inner["String"]), codecs)
    BY <2>3, ListSound
  <2> QED  BY <2>1, <2>2, <2>4
<1>13. SoundType(Types["VecAction"], ValuesOver(inner)["VecAction"], codecs)
  <2>1. Types["VecAction"] = List("Action")
    BY DEF Types
  <2>2. ValuesOver(inner)["VecAction"] = Short(inner["Action"])
    BY DEF ValuesOver
  <2>3. Sound(codecs["Action"], inner["Action"])
    BY TypeNamesAre DEF AllSound
  <2>4. SoundType(List("Action"), Short(inner["Action"]), codecs)
    BY <2>3, ListSound
  <2> QED  BY <2>1, <2>2, <2>4
<1>14. SoundType(Types["VecNonDelegateAction"], ValuesOver(inner)["VecNonDelegateAction"], codecs)
  <2>1. Types["VecNonDelegateAction"] = List("Action")
    BY DEF Types, VecNonDelegateAction
  <2>2. ValuesOver(inner)["VecNonDelegateAction"] = Short(inner["Action"])
    BY DEF ValuesOver
  <2>3. Sound(codecs["Action"], inner["Action"])
    BY TypeNamesAre DEF AllSound
  <2>4. SoundType(List("Action"), Short(inner["Action"]), codecs)
    BY <2>3, ListSound
  <2> QED  BY <2>1, <2>2, <2>4
<1>15. CASE type \in StructNames
  BY <1>15, StructForms, IsStructSound
<1>16. CASE type \in EnumNames
  BY <1>16, EnumForms, IsEnumSound
<1> QED  BY TypeNamesAre, <1>1, <1>2, <1>3, <1>4, <1>5, <1>6, <1>7, <1>8, <1>9, <1>10, <1>11,
            <1>12, <1>13, <1>14, <1>15, <1>16 DEF StructNames, EnumNames

(* The codecs of all types, depth by depth.                                *)

NoValues == [type \in TypeNames |-> {}]
NoCodecs == [type \in TypeNames |-> NoCodec]

CodecsOver(types, values, inner) == [type \in TypeNames |-> Codec(types, type, values[type], inner)]

ValueRun(f, n) == f = [d \in 0 .. n |-> IF d = 0 THEN NoValues ELSE ValuesOver(f[d - 1])]

CodecRun(f, types, n) ==
  f = [d \in 0 .. n |-> IF d = 0 THEN NoCodecs ELSE CodecsOver(types, Values[d], f[d - 1])]

\* The recursion of Values ends.
LEMMA ValueRunExists ==
  ASSUME NEW n \in Nat
  PROVE  \E f : ValueRun(f, n)
<1> DEFINE Reached == {m \in Nat : \E f : ValueRun(f, m)}
<1>1. 0 \in Reached
  <2> DEFINE f == [d \in 0 .. 0 |-> NoValues]
  <2>1. \A d \in 0 .. 0 : d = 0
    OBVIOUS
  <2>2. f = [d \in 0 .. 0 |-> IF d = 0 THEN NoValues ELSE ValuesOver(f[d - 1])]
    BY <2>1
  <2> QED  BY <2>2 DEF ValueRun
<1>2. ASSUME NEW m \in Reached PROVE m + 1 \in Reached
  <2>1. PICK g : ValueRun(g, m)
    OBVIOUS
  <2>2. m \in Nat
    OBVIOUS
  <2> DEFINE f == [d \in 0 .. m + 1 |-> IF d = m + 1 THEN ValuesOver(g[m]) ELSE g[d]]
  <2>3. \A d \in 0 .. m : g[d] = IF d = 0 THEN NoValues ELSE ValuesOver(g[d - 1])
    BY <2>1, Zenon DEF ValueRun
  <2>4. \A d \in 0 .. m + 1 : f[d] = IF d = m + 1 THEN ValuesOver(g[m]) ELSE g[d]
    OBVIOUS
  <2>5. f = [d \in 0 .. m + 1 |-> f[d]]
    OBVIOUS
  <2> HIDE DEF f
  <2>6. \A d \in 0 .. m : f[d] = g[d]
    BY <2>2, <2>4
  <2>7. \A d \in 0 .. m + 1 : f[d] = IF d = 0 THEN NoValues ELSE ValuesOver(f[d - 1])
    <3> TAKE d \in 0 .. m + 1
    <3>1. CASE d = m + 1
      <4>1. d # 0 /\ d - 1 = m /\ m \in 0 .. m
        BY <2>2, <3>1
      <4>2. f[d] = ValuesOver(g[m]) /\ f[m] = g[m]
        BY <2>4, <2>6, <3>1, <4>1
      <4> QED  BY <4>1, <4>2
    <3>2. CASE d # m + 1
      <4>1. d \in 0 .. m /\ (d # 0 => d - 1 \in 0 .. m)
        BY <2>2, <3>2
      <4>2. f[d] = g[d] /\ (d # 0 => f[d - 1] = g[d - 1])
        BY <2>6, <4>1
      <4> QED  BY <2>3, <4>1, <4>2
    <3> QED  BY <3>1, <3>2
  <2>8. ValueRun(f, m + 1)
    BY <2>5, <2>7, Zenon DEF ValueRun
  <2>9. m + 1 \in Nat
    BY <2>2
  <2> QED  BY <2>8, <2>9
<1>3. Reached \in SUBSET Nat
  OBVIOUS
<1> HIDE DEF Reached
<1>4. Reached = Nat
  BY <1>1, <1>2, <1>3, SetInduction
<1> QED  BY <1>4 DEF Reached

\* Values holds what is one deeper than what it holds one place before.
LEMMA ValuesAt ==
  \E f : ValueRun(f, MaxDepth + 1) /\ \A d \in 1 .. MaxDepth + 1 : Values[d] = f[d]
<1> DEFINE n == MaxDepth + 1
           F(f) == [d \in 0 .. n |-> IF d = 0 THEN [type \in TypeNames |-> {}] ELSE ValuesOver(f[d - 1])]
           f == CHOOSE f : f = F(f)
           s == [d \in 1 .. n |-> f[d]]
<1>1. n \in Nat
  BY DepthAssumption
<1>2. \E g : ValueRun(g, n)
  BY <1>1, ValueRunExists
<1>3. f = F(f)
  BY <1>2, Zenon DEF ValueRun, NoValues
<1>4. Values = s \o << >>
  BY Zenon DEF Values
<1>5. ValueRun(f, n)
  BY <1>3, Zenon DEF ValueRun, NoValues
<1> HIDE DEF f
<1> DEFINE T == {f[d] : d \in 1 .. n}
<1>6. s \in [1 .. n -> T]
  OBVIOUS
<1> HIDE DEF T
<1>7. s \in Seq(T)
  BY <1>1, <1>6, MadeSequence
<1>8. s \o << >> = s
  BY <1>7, ConcatEmptySeq
<1>9. \A d \in 1 .. n : Values[d] = f[d]
  BY <1>4, <1>8
<1> QED  BY <1>5, <1>9

\* The recursion of Codecs ends.
LEMMA CodecRunExists ==
  ASSUME NEW types, NEW n \in Nat
  PROVE  \E f : CodecRun(f, types, n)
<1> DEFINE Reached == {m \in Nat : \E f : CodecRun(f, types, m)}
<1>1. 0 \in Reached
  <2> DEFINE f == [d \in 0 .. 0 |-> NoCodecs]
  <2>1. \A d \in 0 .. 0 : d = 0
    OBVIOUS
  <2>2. f = [d \in 0 .. 0 |-> IF d = 0 THEN NoCodecs ELSE CodecsOver(types, Values[d], f[d - 1])]
    BY <2>1
  <2> QED  BY <2>2 DEF CodecRun
<1>2. ASSUME NEW m \in Reached PROVE m + 1 \in Reached
  <2>1. PICK g : CodecRun(g, types, m)
    OBVIOUS
  <2>2. m \in Nat
    OBVIOUS
  <2> DEFINE f == [d \in 0 .. m + 1 |->
                     IF d = m + 1 THEN CodecsOver(types, Values[m + 1], g[m]) ELSE g[d]]
  <2>3. \A d \in 0 .. m : g[d] = IF d = 0 THEN NoCodecs ELSE CodecsOver(types, Values[d], g[d - 1])
    BY <2>1, Zenon DEF CodecRun
  <2>4. \A d \in 0 .. m + 1 :
          f[d] = IF d = m + 1 THEN CodecsOver(types, Values[m + 1], g[m]) ELSE g[d]
    OBVIOUS
  <2>5. f = [d \in 0 .. m + 1 |-> f[d]]
    OBVIOUS
  <2> HIDE DEF f
  <2>6. \A d \in 0 .. m : f[d] = g[d]
    BY <2>2, <2>4
  <2>7. \A d \in 0 .. m + 1 : f[d] = IF d = 0 THEN NoCodecs ELSE CodecsOver(types, Values[d], f[d - 1])
    <3> TAKE d \in 0 .. m + 1
    <3>1. CASE d = m + 1
      <4>1. d # 0 /\ d - 1 = m /\ m \in 0 .. m
        BY <2>2, <3>1
      <4>2. f[d] = CodecsOver(types, Values[m + 1], g[m]) /\ f[m] = g[m]
        BY <2>4, <2>6, <3>1, <4>1
      <4> QED  BY <3>1, <4>1, <4>2
    <3>2. CASE d # m + 1
      <4>1. d \in 0 .. m /\ (d # 0 => d - 1 \in 0 .. m)
        BY <2>2, <3>2
      <4>2. f[d] = g[d] /\ (d # 0 => f[d - 1] = g[d - 1])
        BY <2>6, <4>1
      <4> QED  BY <2>3, <4>1, <4>2
    <3> QED  BY <3>1, <3>2
  <2>8. CodecRun(f, types, m + 1)
    BY <2>5, <2>7, Zenon DEF CodecRun
  <2>9. m + 1 \in Nat
    BY <2>2
  <2> QED  BY <2>8, <2>9
<1>3. Reached \in SUBSET Nat
  OBVIOUS
<1> HIDE DEF Reached
<1>4. Reached = Nat
  BY <1>1, <1>2, <1>3, SetInduction
<1> QED  BY <1>4 DEF Reached

\* So does Codecs.
LEMMA CodecsRun ==
  ASSUME NEW types
  PROVE  CodecRun(Codecs(types), types, MaxDepth + 1)
<1> DEFINE n == MaxDepth + 1
           F(f) == [d \in 0 .. n |->
                      IF d = 0 THEN [type \in TypeNames |-> NoCodec]
                      ELSE [type \in TypeNames |-> Codec(types, type, Values[d][type], f[d - 1])]]
           f == CHOOSE f : f = F(f)
<1>1. n \in Nat
  BY DepthAssumption
<1>2. \E g : CodecRun(g, types, n)
  BY <1>1, CodecRunExists
<1>3. f = F(f)
  BY <1>2, Zenon DEF CodecRun, NoCodecs, CodecsOver
<1>4. Codecs(types) = f
  BY Zenon DEF Codecs
<1>5. CodecRun(f, types, n)
  BY <1>3, Zenon DEF CodecRun, NoCodecs, CodecsOver
<1> QED  BY <1>4, <1>5

\* However deep the values are, the codecs of all types are sound.
LEMMA CodecsSound ==
  \A d \in 1 .. MaxDepth + 1, type \in TypeNames : Sound(Codecs(Types)[d][type], Values[d][type])
<1> DEFINE n == MaxDepth + 1
           codecs == Codecs(Types)
<1>1. n \in Nat
  BY DepthAssumption
<1>2. PICK values : ValueRun(values, n) /\ \A d \in 1 .. n : Values[d] = values[d]
  BY ValuesAt
<1>3. CodecRun(codecs, Types, n)
  BY CodecsRun
<1> HIDE DEF codecs
<1>4. \A d \in 0 .. n : values[d] = IF d = 0 THEN NoValues ELSE ValuesOver(values[d - 1])
  BY <1>2, Zenon DEF ValueRun
<1>5. \A d \in 0 .. n : codecs[d] = IF d = 0 THEN NoCodecs ELSE CodecsOver(Types, Values[d], codecs[d - 1])
  BY <1>3, Zenon DEF CodecRun
<1> DEFINE Holds == {d \in Nat : d <= n => AllSound(codecs[d], values[d])}
<1>6. 0 \in Holds
  <2>1. values[0] = NoValues /\ codecs[0] = NoCodecs
    BY <1>1, <1>4, <1>5
  <2>2. Sound(NoCodec, {})
    BY DEF Sound, NoCodec
  <2>3. \A type \in TypeNames : NoValues[type] = {} /\ NoCodecs[type] = NoCodec
    BY DEF NoValues, NoCodecs
  <2>4. AllSound(NoCodecs, NoValues)
    BY <2>2, <2>3 DEF AllSound
  <2> QED  BY <2>1, <2>4
<1>7. ASSUME NEW d \in Holds PROVE d + 1 \in Holds
  <2> SUFFICES ASSUME d + 1 <= n PROVE AllSound(codecs[d + 1], values[d + 1])
    OBVIOUS
  <2>1. d \in 0 .. n /\ d + 1 \in 1 .. n /\ d + 1 \in 0 .. n /\ d + 1 # 0 /\ (d + 1) - 1 = d
    BY <1>1
  <2>2. AllSound(codecs[d], values[d])
    BY <2>1
  <2>3. values[d + 1] = ValuesOver(values[d]) /\ Values[d + 1] = values[d + 1]
    BY <1>2, <1>4, <2>1
  <2>4. codecs[d + 1] = CodecsOver(Types, Values[d + 1], codecs[d])
    BY <1>5, <2>1
  <2> DEFINE inner == values[d]
             codecs_inner == codecs[d]
             v == ValuesOver(inner)
  <2> HIDE DEF inner, codecs_inner, v
  <2>5. ASSUME NEW type \in TypeNames PROVE Sound(CodecsOver(Types, v, codecs_inner)[type], v[type])
    <3>1. SoundType(Types[type], v[type], codecs_inner)
      BY <2>2, TypesSound DEF inner, codecs_inner, v
    <3>2. Sound(Codec(Types, type, v[type], codecs_inner), v[type])
      BY <3>1, CodecSound
    <3>3. CodecsOver(Types, v, codecs_inner)[type] = Codec(Types, type, v[type], codecs_inner)
      BY DEF CodecsOver
    <3> QED  BY <3>2, <3>3
  <2>6. AllSound(CodecsOver(Types, v, codecs_inner), v)
    BY <2>5 DEF AllSound
  <2>7. codecs[d + 1] = CodecsOver(Types, v, codecs_inner) /\ values[d + 1] = v
    BY <2>3, <2>4 DEF v, inner, codecs_inner
  <2> QED  BY <2>6, <2>7
<1>8. Holds \in SUBSET Nat
  OBVIOUS
<1> HIDE DEF Holds
<1>9. Holds = Nat
  BY <1>6, <1>7, <1>8, SetInduction
<1>10. ASSUME NEW d \in 1 .. n, NEW type \in TypeNames
       PROVE  Sound(codecs[d][type], Values[d][type])
  <2>1. d \in Nat /\ d <= n
    BY <1>1
  <2>2. AllSound(codecs[d], values[d])
    BY <1>9, <2>1 DEF Holds
  <2>3. Values[d] = values[d]
    BY <1>2
  <2> QED  BY <2>2, <2>3 DEF AllSound
<1> QED  BY <1>10 DEF codecs

-----------------------------------------------------------------------------
(* The order of the protocol is the library's.                             *)

LEMMA OrderKept ==
  ASSUME NEW parts, NEW names, DOMAIN names = DOMAIN parts, Distinct(parts),
         parts = [i \in DOMAIN parts |-> parts[i]],
         \A i \in DOMAIN parts : names[i] = parts[i].name
  PROVE  InOrder(Struct(parts), names) = Struct(parts) /\ InOrder(Enum(parts), names) = Enum(parts)
<1> DEFINE ordered == [i \in DOMAIN names |-> parts[IndexOf(parts, names[i])]]
<1>1. \A i \in DOMAIN parts : IndexOf(parts, names[i]) = i
  BY IndexOfPart
<1>2. ordered = parts
  BY <1>1
<1>3. /\ InOrder(Struct(parts), names) = [kind |-> "struct", parts |-> ordered]
      /\ InOrder(Enum(parts), names) = [kind |-> "enum", parts |-> ordered]
  BY DEF InOrder, Struct, Enum
<1> HIDE DEF ordered
<1> QED  BY <1>2, <1>3 DEF Struct, Enum

LEMMA NearTransactionOrder ==
  InOrder(Types["NearTransaction"], ProtocolOrder["NearTransaction"]) = Types["NearTransaction"]
<1> DEFINE parts == <<Part("signer_id", "AccountId"), Part("signer_public_key", "PublicKey"),
                     Part("nonce", "U64"), Part("receiver_id", "AccountId"),
                     Part("block_hash", "BlockHash"), Part("actions", "VecAction")>>
           names == <<"signer_id", "signer_public_key", "nonce", "receiver_id", "block_hash",
                     "actions">>
<1>1. DOMAIN parts = 1 .. 6 /\ DOMAIN names = 1 .. 6 /\ parts = [i \in DOMAIN parts |-> parts[i]]
  OBVIOUS
<1>2. \A i \in 1 .. 6 : i = 1 \/ i = 2 \/ i = 3 \/ i = 4 \/ i = 5 \/ i = 6
  OBVIOUS
<1>3. /\ parts[1].name = "signer_id" /\ names[1] = "signer_id"
      /\ parts[2].name = "signer_public_key" /\ names[2] = "signer_public_key"
      /\ parts[3].name = "nonce" /\ names[3] = "nonce"
      /\ parts[4].name = "receiver_id" /\ names[4] = "receiver_id"
      /\ parts[5].name = "block_hash" /\ names[5] = "block_hash"
      /\ parts[6].name = "actions" /\ names[6] = "actions"
  BY DEF Part
<1> HIDE DEF parts, names
<1>4. Distinct(parts)
  BY <1>1, <1>2, <1>3 DEF Distinct
<1>5. \A i \in DOMAIN parts : names[i] = parts[i].name
  BY <1>1, <1>2, <1>3
<1>6. Types["NearTransaction"] = Struct(parts)
  BY DEF Types, NearTransaction, parts
<1>7. ProtocolOrder["NearTransaction"] = names
  BY DEF ProtocolOrder, names
<1> QED  BY <1>1, <1>4, <1>5, <1>6, <1>7, OrderKept

LEMMA SignedTransactionOrder ==
  InOrder(Types["SignedTransaction"], ProtocolOrder["SignedTransaction"]) = Types["SignedTransaction"]
<1> DEFINE parts == <<Part("transaction", "NearTransaction"), Part("signature", "Signature")>>
           names == <<"transaction", "signature">>
<1>1. DOMAIN parts = 1 .. 2 /\ DOMAIN names = 1 .. 2 /\ parts = [i \in DOMAIN parts |-> parts[i]]
  OBVIOUS
<1>2. \A i \in 1 .. 2 : i = 1 \/ i = 2
  OBVIOUS
<1>3. /\ parts[1].name = "transaction" /\ names[1] = "transaction"
      /\ parts[2].name = "signature" /\ names[2] = "signature"
  BY DEF Part
<1> HIDE DEF parts, names
<1>4. Distinct(parts)
  BY <1>1, <1>2, <1>3 DEF Distinct
<1>5. \A i \in DOMAIN parts : names[i] = parts[i].name
  BY <1>1, <1>2, <1>3
<1>6. Types["SignedTransaction"] = Struct(parts)
  BY DEF Types, SignedTransaction, parts
<1>7. ProtocolOrder["SignedTransaction"] = names
  BY DEF ProtocolOrder, names
<1> QED  BY <1>1, <1>4, <1>5, <1>6, <1>7, OrderKept

LEMMA ActionOrder ==
  InOrder(Types["Action"], ProtocolOrder["Action"]) = Types["Action"]
<1> DEFINE parts == <<Part("CreateAccount", "CreateAccountAction"),
                     Part("DeployContract", "DeployContractAction"),
                     Part("FunctionCall", "FunctionCallAction"),
                     Part("Transfer", "TransferAction"), Part("Stake", "StakeAction"),
                     Part("AddKey", "AddKeyAction"), Part("DeleteKey", "DeleteKeyAction"),
                     Part("DeleteAccount", "DeleteAccountAction"),
                     Part("Delegate", "SignedDelegateAction"),
                     Part("DeployGlobalContract", "DeployGlobalContractAction"),
                     Part("UseGlobalContract", "UseGlobalContractAction")>>
           names == <<"CreateAccount", "DeployContract", "FunctionCall", "Transfer", "Stake",
                     "AddKey", "DeleteKey", "DeleteAccount", "Delegate", "DeployGlobalContract",
                     "UseGlobalContract">>
<1>1. DOMAIN parts = 1 .. 11 /\ DOMAIN names = 1 .. 11 /\ parts = [i \in DOMAIN parts |-> parts[i]]
  OBVIOUS
<1>2. \A i \in 1 .. 11 : i = 1 \/ i = 2 \/ i = 3 \/ i = 4 \/ i = 5 \/ i = 6 \/ i = 7 \/ i = 8 \/ i = 9 \/ i = 10 \/ i = 11
  OBVIOUS
<1>3. /\ parts[1].name = "CreateAccount" /\ names[1] = "CreateAccount"
      /\ parts[2].name = "DeployContract" /\ names[2] = "DeployContract"
      /\ parts[3].name = "FunctionCall" /\ names[3] = "FunctionCall"
      /\ parts[4].name = "Transfer" /\ names[4] = "Transfer"
      /\ parts[5].name = "Stake" /\ names[5] = "Stake"
      /\ parts[6].name = "AddKey" /\ names[6] = "AddKey"
      /\ parts[7].name = "DeleteKey" /\ names[7] = "DeleteKey"
      /\ parts[8].name = "DeleteAccount" /\ names[8] = "DeleteAccount"
      /\ parts[9].name = "Delegate" /\ names[9] = "Delegate"
      /\ parts[10].name = "DeployGlobalContract" /\ names[10] = "DeployGlobalContract"
      /\ parts[11].name = "UseGlobalContract" /\ names[11] = "UseGlobalContract"
  BY DEF Part
<1> HIDE DEF parts, names
<1>4. Distinct(parts)
  BY <1>1, <1>2, <1>3 DEF Distinct
<1>5. \A i \in DOMAIN parts : names[i] = parts[i].name
  BY <1>1, <1>2, <1>3
<1>6. Types["Action"] = Enum(parts)
  BY DEF Types, Action, parts
<1>7. ProtocolOrder["Action"] = names
  BY DEF ProtocolOrder, names
<1> QED  BY <1>1, <1>4, <1>5, <1>6, <1>7, OrderKept

LEMMA FunctionCallActionOrder ==
  InOrder(Types["FunctionCallAction"], ProtocolOrder["FunctionCallAction"]) = Types["FunctionCallAction"]
<1> DEFINE parts == <<Part("method_name", "String"), Part("args", "VecU8"), Part("gas", "U64"),
                     Part("deposit", "U128")>>
           names == <<"method_name", "args", "gas", "deposit">>
<1>1. DOMAIN parts = 1 .. 4 /\ DOMAIN names = 1 .. 4 /\ parts = [i \in DOMAIN parts |-> parts[i]]
  OBVIOUS
<1>2. \A i \in 1 .. 4 : i = 1 \/ i = 2 \/ i = 3 \/ i = 4
  OBVIOUS
<1>3. /\ parts[1].name = "method_name" /\ names[1] = "method_name"
      /\ parts[2].name = "args" /\ names[2] = "args"
      /\ parts[3].name = "gas" /\ names[3] = "gas"
      /\ parts[4].name = "deposit" /\ names[4] = "deposit"
  BY DEF Part
<1> HIDE DEF parts, names
<1>4. Distinct(parts)
  BY <1>1, <1>2, <1>3 DEF Distinct
<1>5. \A i \in DOMAIN parts : names[i] = parts[i].name
  BY <1>1, <1>2, <1>3
<1>6. Types["FunctionCallAction"] = Struct(parts)
  BY DEF Types, FunctionCallAction, parts
<1>7. ProtocolOrder["FunctionCallAction"] = names
  BY DEF ProtocolOrder, names
<1> QED  BY <1>1, <1>4, <1>5, <1>6, <1>7, OrderKept

LEMMA StakeActionOrder ==
  InOrder(Types["StakeAction"], ProtocolOrder["StakeAction"]) = Types["StakeAction"]
<1> DEFINE parts == <<Part("stake", "U128"), Part("public_key", "PublicKey")>>
           names == <<"stake", "public_key">>
<1>1. DOMAIN parts = 1 .. 2 /\ DOMAIN names = 1 .. 2 /\ parts = [i \in DOMAIN parts |-> parts[i]]
  OBVIOUS
<1>2. \A i \in 1 .. 2 : i = 1 \/ i = 2
  OBVIOUS
<1>3. /\ parts[1].name = "stake" /\ names[1] = "stake"
      /\ parts[2].name = "public_key" /\ names[2] = "public_key"
  BY DEF Part
<1> HIDE DEF parts, names
<1>4. Distinct(parts)
  BY <1>1, <1>2, <1>3 DEF Distinct
<1>5. \A i \in DOMAIN parts : names[i] = parts[i].name
  BY <1>1, <1>2, <1>3
<1>6. Types["StakeAction"] = Struct(parts)
  BY DEF Types, StakeAction, parts
<1>7. ProtocolOrder["StakeAction"] = names
  BY DEF ProtocolOrder, names
<1> QED  BY <1>1, <1>4, <1>5, <1>6, <1>7, OrderKept

LEMMA AddKeyActionOrder ==
  InOrder(Types["AddKeyAction"], ProtocolOrder["AddKeyAction"]) = Types["AddKeyAction"]
<1> DEFINE parts == <<Part("public_key", "PublicKey"), Part("access_key", "AccessKey")>>
           names == <<"public_key", "access_key">>
<1>1. DOMAIN parts = 1 .. 2 /\ DOMAIN names = 1 .. 2 /\ parts = [i \in DOMAIN parts |-> parts[i]]
  OBVIOUS
<1>2. \A i \in 1 .. 2 : i = 1 \/ i = 2
  OBVIOUS
<1>3. /\ parts[1].name = "public_key" /\ names[1] = "public_key"
      /\ parts[2].name = "access_key" /\ names[2] = "access_key"
  BY DEF Part
<1> HIDE DEF parts, names
<1>4. Distinct(parts)
  BY <1>1, <1>2, <1>3 DEF Distinct
<1>5. \A i \in DOMAIN parts : names[i] = parts[i].name
  BY <1>1, <1>2, <1>3
<1>6. Types["AddKeyAction"] = Struct(parts)
  BY DEF Types, AddKeyAction, parts
<1>7. ProtocolOrder["AddKeyAction"] = names
  BY DEF ProtocolOrder, names
<1> QED  BY <1>1, <1>4, <1>5, <1>6, <1>7, OrderKept

LEMMA AccessKeyOrder ==
  InOrder(Types["AccessKey"], ProtocolOrder["AccessKey"]) = Types["AccessKey"]
<1> DEFINE parts == <<Part("nonce", "U64"), Part("permission", "AccessKeyPermission")>>
           names == <<"nonce", "permission">>
<1>1. DOMAIN parts = 1 .. 2 /\ DOMAIN names = 1 .. 2 /\ parts = [i \in DOMAIN parts |-> parts[i]]
  OBVIOUS
<1>2. \A i \in 1 .. 2 : i = 1 \/ i = 2
  OBVIOUS
<1>3. /\ parts[1].name = "nonce" /\ names[1] = "nonce"
      /\ parts[2].name = "permission" /\ names[2] = "permission"
  BY DEF Part
<1> HIDE DEF parts, names
<1>4. Distinct(parts)
  BY <1>1, <1>2, <1>3 DEF Distinct
<1>5. \A i \in DOMAIN parts : names[i] = parts[i].name
  BY <1>1, <1>2, <1>3
<1>6. Types["AccessKey"] = Struct(parts)
  BY DEF Types, AccessKey, parts
<1>7. ProtocolOrder["AccessKey"] = names
  BY DEF ProtocolOrder, names
<1> QED  BY <1>1, <1>4, <1>5, <1>6, <1>7, OrderKept

LEMMA AccessKeyPermissionOrder ==
  InOrder(Types["AccessKeyPermission"], ProtocolOrder["AccessKeyPermission"]) = Types["AccessKeyPermission"]
<1> DEFINE parts == <<Part("FunctionCall", "FunctionCallPermission"), Part("FullAccess", "Unit")>>
           names == <<"FunctionCall", "FullAccess">>
<1>1. DOMAIN parts = 1 .. 2 /\ DOMAIN names = 1 .. 2 /\ parts = [i \in DOMAIN parts |-> parts[i]]
  OBVIOUS
<1>2. \A i \in 1 .. 2 : i = 1 \/ i = 2
  OBVIOUS
<1>3. /\ parts[1].name = "FunctionCall" /\ names[1] = "FunctionCall"
      /\ parts[2].name = "FullAccess" /\ names[2] = "FullAccess"
  BY DEF Part
<1> HIDE DEF parts, names
<1>4. Distinct(parts)
  BY <1>1, <1>2, <1>3 DEF Distinct
<1>5. \A i \in DOMAIN parts : names[i] = parts[i].name
  BY <1>1, <1>2, <1>3
<1>6. Types["AccessKeyPermission"] = Enum(parts)
  BY DEF Types, AccessKeyPermission, parts
<1>7. ProtocolOrder["AccessKeyPermission"] = names
  BY DEF ProtocolOrder, names
<1> QED  BY <1>1, <1>4, <1>5, <1>6, <1>7, OrderKept

LEMMA FunctionCallPermissionOrder ==
  InOrder(Types["FunctionCallPermission"], ProtocolOrder["FunctionCallPermission"]) = Types["FunctionCallPermission"]
<1> DEFINE parts == <<Part("allowance", "OptionU128"), Part("receiver_id", "String"),
                     Part("method_names", "VecString")>>
           names == <<"allowance", "receiver_id", "method_names">>
<1>1. DOMAIN parts = 1 .. 3 /\ DOMAIN names = 1 .. 3 /\ parts = [i \in DOMAIN parts |-> parts[i]]
  OBVIOUS
<1>2. \A i \in 1 .. 3 : i = 1 \/ i = 2 \/ i = 3
  OBVIOUS
<1>3. /\ parts[1].name = "allowance" /\ names[1] = "allowance"
      /\ parts[2].name = "receiver_id" /\ names[2] = "receiver_id"
      /\ parts[3].name = "method_names" /\ names[3] = "method_names"
  BY DEF Part
<1> HIDE DEF parts, names
<1>4. Distinct(parts)
  BY <1>1, <1>2, <1>3 DEF Distinct
<1>5. \A i \in DOMAIN parts : names[i] = parts[i].name
  BY <1>1, <1>2, <1>3
<1>6. Types["FunctionCallPermission"] = Struct(parts)
  BY DEF Types, FunctionCallPermission, parts
<1>7. ProtocolOrder["FunctionCallPermission"] = names
  BY DEF ProtocolOrder, names
<1> QED  BY <1>1, <1>4, <1>5, <1>6, <1>7, OrderKept

LEMMA DelegateActionOrder ==
  InOrder(Types["DelegateAction"], ProtocolOrder["DelegateAction"]) = Types["DelegateAction"]
<1> DEFINE parts == <<Part("sender_id", "AccountId"), Part("receiver_id", "AccountId"),
                     Part("actions", "VecNonDelegateAction"), Part("nonce", "U64"),
                     Part("max_block_height", "U64"), Part("public_key", "PublicKey")>>
           names == <<"sender_id", "receiver_id", "actions", "nonce", "max_block_height",
                     "public_key">>
<1>1. DOMAIN parts = 1 .. 6 /\ DOMAIN names = 1 .. 6 /\ parts = [i \in DOMAIN parts |-> parts[i]]
  OBVIOUS
<1>2. \A i \in 1 .. 6 : i = 1 \/ i = 2 \/ i = 3 \/ i = 4 \/ i = 5 \/ i = 6
  OBVIOUS
<1>3. /\ parts[1].name = "sender_id" /\ names[1] = "sender_id"
      /\ parts[2].name = "receiver_id" /\ names[2] = "receiver_id"
      /\ parts[3].name = "actions" /\ names[3] = "actions"
      /\ parts[4].name = "nonce" /\ names[4] = "nonce"
      /\ parts[5].name = "max_block_height" /\ names[5] = "max_block_height"
      /\ parts[6].name = "public_key" /\ names[6] = "public_key"
  BY DEF Part
<1> HIDE DEF parts, names
<1>4. Distinct(parts)
  BY <1>1, <1>2, <1>3 DEF Distinct
<1>5. \A i \in DOMAIN parts : names[i] = parts[i].name
  BY <1>1, <1>2, <1>3
<1>6. Types["DelegateAction"] = Struct(parts)
  BY DEF Types, DelegateAction, parts
<1>7. ProtocolOrder["DelegateAction"] = names
  BY DEF ProtocolOrder, names
<1> QED  BY <1>1, <1>4, <1>5, <1>6, <1>7, OrderKept

LEMMA SignedDelegateActionOrder ==
  InOrder(Types["SignedDelegateAction"], ProtocolOrder["SignedDelegateAction"]) = Types["SignedDelegateAction"]
<1> DEFINE parts == <<Part("delegate_action", "DelegateAction"), Part("signature", "Signature")>>
           names == <<"delegate_action", "signature">>
<1>1. DOMAIN parts = 1 .. 2 /\ DOMAIN names = 1 .. 2 /\ parts = [i \in DOMAIN parts |-> parts[i]]
  OBVIOUS
<1>2. \A i \in 1 .. 2 : i = 1 \/ i = 2
  OBVIOUS
<1>3. /\ parts[1].name = "delegate_action" /\ names[1] = "delegate_action"
      /\ parts[2].name = "signature" /\ names[2] = "signature"
  BY DEF Part
<1> HIDE DEF parts, names
<1>4. Distinct(parts)
  BY <1>1, <1>2, <1>3 DEF Distinct
<1>5. \A i \in DOMAIN parts : names[i] = parts[i].name
  BY <1>1, <1>2, <1>3
<1>6. Types["SignedDelegateAction"] = Struct(parts)
  BY DEF Types, SignedDelegateAction, parts
<1>7. ProtocolOrder["SignedDelegateAction"] = names
  BY DEF ProtocolOrder, names
<1> QED  BY <1>1, <1>4, <1>5, <1>6, <1>7, OrderKept

LEMMA DeployGlobalContractActionOrder ==
  InOrder(Types["DeployGlobalContractAction"], ProtocolOrder["DeployGlobalContractAction"]) = Types["DeployGlobalContractAction"]
<1> DEFINE parts == <<Part("code", "Base64VecU8"), Part("deploy_mode", "GlobalContractDeployMode")>>
           names == <<"code", "deploy_mode">>
<1>1. DOMAIN parts = 1 .. 2 /\ DOMAIN names = 1 .. 2 /\ parts = [i \in DOMAIN parts |-> parts[i]]
  OBVIOUS
<1>2. \A i \in 1 .. 2 : i = 1 \/ i = 2
  OBVIOUS
<1>3. /\ parts[1].name = "code" /\ names[1] = "code"
      /\ parts[2].name = "deploy_mode" /\ names[2] = "deploy_mode"
  BY DEF Part
<1> HIDE DEF parts, names
<1>4. Distinct(parts)
  BY <1>1, <1>2, <1>3 DEF Distinct
<1>5. \A i \in DOMAIN parts : names[i] = parts[i].name
  BY <1>1, <1>2, <1>3
<1>6. Types["DeployGlobalContractAction"] = Struct(parts)
  BY DEF Types, DeployGlobalContractAction, parts
<1>7. ProtocolOrder["DeployGlobalContractAction"] = names
  BY DEF ProtocolOrder, names
<1> QED  BY <1>1, <1>4, <1>5, <1>6, <1>7, OrderKept

LEMMA GlobalContractDeployModeOrder ==
  InOrder(Types["GlobalContractDeployMode"], ProtocolOrder["GlobalContractDeployMode"]) = Types["GlobalContractDeployMode"]
<1> DEFINE parts == <<Part("CodeHash", "Unit"), Part("AccountId", "Unit")>>
           names == <<"CodeHash", "AccountId">>
<1>1. DOMAIN parts = 1 .. 2 /\ DOMAIN names = 1 .. 2 /\ parts = [i \in DOMAIN parts |-> parts[i]]
  OBVIOUS
<1>2. \A i \in 1 .. 2 : i = 1 \/ i = 2
  OBVIOUS
<1>3. /\ parts[1].name = "CodeHash" /\ names[1] = "CodeHash"
      /\ parts[2].name = "AccountId" /\ names[2] = "AccountId"
  BY DEF Part
<1> HIDE DEF parts, names
<1>4. Distinct(parts)
  BY <1>1, <1>2, <1>3 DEF Distinct
<1>5. \A i \in DOMAIN parts : names[i] = parts[i].name
  BY <1>1, <1>2, <1>3
<1>6. Types["GlobalContractDeployMode"] = Enum(parts)
  BY DEF Types, GlobalContractDeployMode, parts
<1>7. ProtocolOrder["GlobalContractDeployMode"] = names
  BY DEF ProtocolOrder, names
<1> QED  BY <1>1, <1>4, <1>5, <1>6, <1>7, OrderKept

LEMMA GlobalContractIdentifierOrder ==
  InOrder(Types["GlobalContractIdentifier"], ProtocolOrder["GlobalContractIdentifier"]) = Types["GlobalContractIdentifier"]
<1> DEFINE parts == <<Part("CodeHash", "BlockHash"), Part("AccountId", "AccountId")>>
           names == <<"CodeHash", "AccountId">>
<1>1. DOMAIN parts = 1 .. 2 /\ DOMAIN names = 1 .. 2 /\ parts = [i \in DOMAIN parts |-> parts[i]]
  OBVIOUS
<1>2. \A i \in 1 .. 2 : i = 1 \/ i = 2
  OBVIOUS
<1>3. /\ parts[1].name = "CodeHash" /\ names[1] = "CodeHash"
      /\ parts[2].name = "AccountId" /\ names[2] = "AccountId"
  BY DEF Part
<1> HIDE DEF parts, names
<1>4. Distinct(parts)
  BY <1>1, <1>2, <1>3 DEF Distinct
<1>5. \A i \in DOMAIN parts : names[i] = parts[i].name
  BY <1>1, <1>2, <1>3
<1>6. Types["GlobalContractIdentifier"] = Enum(parts)
  BY DEF Types, GlobalContractIdentifier, parts
<1>7. ProtocolOrder["GlobalContractIdentifier"] = names
  BY DEF ProtocolOrder, names
<1> QED  BY <1>1, <1>4, <1>5, <1>6, <1>7, OrderKept

LEMMA OrderedTypes ==
  \A type : type \in DOMAIN ProtocolOrder <=>
    \/ type = "NearTransaction" \/ type = "SignedTransaction" \/ type = "Action"
    \/ type = "FunctionCallAction" \/ type = "StakeAction" \/ type = "AddKeyAction"
    \/ type = "AccessKey" \/ type = "AccessKeyPermission" \/ type = "FunctionCallPermission"
    \/ type = "DelegateAction" \/ type = "SignedDelegateAction" \/ type = "DeployGlobalContractAction"
    \/ type = "GlobalContractDeployMode" \/ type = "GlobalContractIdentifier"
  BY DEF ProtocolOrder

\* The library declares fields and variants in the order of the protocol.
THEOREM TypesAreTheProtocols == ProtocolTypes = Types
<1>1. \A type \in DOMAIN ProtocolOrder : InOrder(Types[type], ProtocolOrder[type]) = Types[type]
  BY OrderedTypes, NearTransactionOrder, SignedTransactionOrder, ActionOrder,
     FunctionCallActionOrder, StakeActionOrder, AddKeyActionOrder, AccessKeyOrder,
     AccessKeyPermissionOrder, FunctionCallPermissionOrder, DelegateActionOrder,
     SignedDelegateActionOrder, DeployGlobalContractActionOrder, GlobalContractDeployModeOrder,
     GlobalContractIdentifierOrder
<1>2. ProtocolTypes = [type \in TypeNames |-> Types[type]]
  <2>1. \A type \in TypeNames :
          (IF type \in DOMAIN ProtocolOrder THEN InOrder(Types[type], ProtocolOrder[type])
           ELSE Types[type]) = Types[type]
    BY <1>1
  <2> QED  BY <2>1, Zenon DEF ProtocolTypes
<1>3. Types = [type \in DOMAIN Types |-> Types[type]]
  BY DEF Types
<1> QED  BY <1>2, <1>3, Zenon DEF TypeNames

-----------------------------------------------------------------------------
(* What the two builders and the readers of bytes promise.                 *)

LEMMA CodecOfSound ==
  ASSUME NEW type \in TypeNames
  PROVE  Sound(CodecOf(Types, type), Values[Depth(type)][type])
<1>1. Depth(type) \in 1 .. MaxDepth + 1
  BY DepthAssumption DEF Depth
<1>2. Sound(Codecs(Types)[Depth(type)][type], Values[Depth(type)][type])
  BY <1>1, CodecsSound
<1> QED  BY <1>2 DEF CodecOf

\* What is written of a value, of every type, is read as the same value.
THEOREM BorshReadsBack ==
  \A type \in TypeNames : \A v \in Values[Depth(type)][type] :
    /\ BorshOf(Types, type, v) \in ByteString
    /\ BorshFrom(Types, type, BorshOf(Types, type, v)) = <<v>>
<1> TAKE type \in TypeNames
<1> TAKE v \in Values[Depth(type)][type]
<1> DEFINE codec == CodecOf(Types, type)
           all == Values[Depth(type)][type]
           b == codec.write[v]
<1>1. Sound(codec, all)
  BY CodecOfSound
<1>2. v \in all
  OBVIOUS
<1> HIDE DEF all
<1>3. BorshOf(Types, type, v) = b
  BY DEF BorshOf
<1>4. /\ BorshFrom(Types, type, b)
           = IF codec.read[b] = << >> \/ codec.read[b][1].rest # << >> THEN << >>
             ELSE <<codec.read[b][1].value>>
  BY DEF BorshFrom
<1> HIDE DEF codec
<1>5. b \in ByteString
  BY <1>1, <1>2 DEF Sound
<1> DEFINE none == << >>
<1>6. codec.read[codec.write[v] \o none] = Got(v, none)
  <2>1. none \in ByteString
    BY BytesJoined
  <2> HIDE DEF none
  <2> QED  BY <1>1, <1>2, <2>1 DEF Sound
<1>7. codec.write[v] \o none = b
  BY <1>5, BytesJoined
<1> HIDE DEF b
<1>8. codec.read[b] = Got(v, << >>)
  BY <1>6, <1>7
<1>9. BorshFrom(Types, type, b) = <<v>>
  BY <1>4, <1>8, GotParts
<1> QED  BY <1>3, <1>5, <1>9

\* Only bytes that are written of a value are read: a value has no second
\* spelling in Borsh.
THEOREM BorshIsCanonical ==
  \A type \in TypeNames : \A b \in ByteString :
    \/ BorshFrom(Types, type, b) = << >>
    \/ \E v \in Values[Depth(type)][type] :
         BorshFrom(Types, type, b) = <<v>> /\ BorshOf(Types, type, v) = b
<1> TAKE type \in TypeNames
<1> TAKE b \in ByteString
<1> DEFINE codec == CodecOf(Types, type)
           all == Values[Depth(type)][type]
<1>1. Sound(codec, all)
  BY CodecOfSound
<1>2. BorshFrom(Types, type, b)
        = IF codec.read[b] = << >> \/ codec.read[b][1].rest # << >> THEN << >>
          ELSE <<codec.read[b][1].value>>
  BY DEF BorshFrom
<1>3. \A v : BorshOf(Types, type, v) = codec.write[v]
  BY DEF BorshOf
<1> HIDE DEF codec, all
<1>4. CASE codec.read[b] = << >>
  BY <1>2, <1>4
<1>5. ASSUME NEW v \in all, NEW rest \in ByteString,
             codec.read[b] = Got(v, rest), b = codec.write[v] \o rest
      PROVE  \/ BorshFrom(Types, type, b) = << >>
             \/ BorshFrom(Types, type, b) = <<v>> /\ BorshOf(Types, type, v) = b
  <2>1. CASE rest # << >>
    BY <1>2, <1>5, <2>1, GotParts
  <2>2. CASE rest = << >>
    <3>1. BorshFrom(Types, type, b) = <<v>>
      BY <1>2, <1>5, <2>2, GotParts
    <3>2. codec.write[v] \in ByteString
      BY <1>1 DEF Sound
    <3>3. codec.write[v] \o << >> = codec.write[v]
      BY <3>2, BytesJoined
    <3> QED  BY <1>3, <1>5, <2>2, <3>1, <3>3
  <2> QED  BY <2>1, <2>2
<1>6. \/ codec.read[b] = << >>
      \/ \E v \in all, rest \in ByteString : codec.read[b] = Got(v, rest) /\ b = codec.write[v] \o rest
  BY <1>1 DEF Sound
<1> QED  BY <1>4, <1>5, <1>6 DEF all

\* The values of a transaction, and those of a signature.
AllTransactions == Values[MaxDepth]["NearTransaction"]
SignaturesDeep == Values[MaxDepth]["Signature"]

LEMMA SignedValues ==
  Values[MaxDepth + 1]["SignedTransaction"]
    = [transaction : AllTransactions, signature : SignaturesDeep]
<1>1. PICK values : /\ ValueRun(values, MaxDepth + 1)
                    /\ \A d \in 1 .. MaxDepth + 1 : Values[d] = values[d]
  BY ValuesAt
<1>2. \A d \in 0 .. MaxDepth + 1 : values[d] = IF d = 0 THEN NoValues ELSE ValuesOver(values[d - 1])
  BY <1>1, Zenon DEF ValueRun
<1>3. /\ MaxDepth + 1 \in 0 .. MaxDepth + 1 /\ MaxDepth + 1 # 0 /\ (MaxDepth + 1) - 1 = MaxDepth
      /\ MaxDepth \in 1 .. MaxDepth + 1 /\ MaxDepth + 1 \in 1 .. MaxDepth + 1
  BY DepthAssumption
<1>4. Values[MaxDepth + 1] = ValuesOver(Values[MaxDepth])
  BY <1>1, <1>2, <1>3
<1> DEFINE inner == Values[MaxDepth]
<1> HIDE DEF inner
<1>5. ValuesOver(inner)["SignedTransaction"]
        = [transaction : inner.NearTransaction, signature : inner.Signature]
  BY DEF ValuesOver
<1> QED  BY <1>4, <1>5 DEF inner, AllTransactions, SignaturesDeep

\* The bytes that are signed are of one transaction only, whatever its fields
\* and actions are: a signature cannot be used for another one.
THEOREM BuildForSigningInjective ==
  \A s, t \in AllTransactions : BuildForSigning(s) = BuildForSigning(t) => s = t
<1> SUFFICES ASSUME NEW s \in AllTransactions, NEW t \in AllTransactions,
                    BuildForSigning(s) = BuildForSigning(t)
             PROVE  s = t
  OBVIOUS
<1>1. "NearTransaction" \in TypeNames
  BY TypeNamesAre
<1>2. Values[Depth("NearTransaction")]["NearTransaction"] = AllTransactions
  BY DEF Depth, AllTransactions
<1>3. \A v \in AllTransactions :
        BorshFrom(Types, "NearTransaction", BorshOf(Types, "NearTransaction", v)) = <<v>>
  BY <1>1, <1>2, BorshReadsBack
<1>4. BorshOf(Types, "NearTransaction", s) = BorshOf(Types, "NearTransaction", t)
  BY DEF BuildForSigning
<1>5. <<s>> = <<t>>
  BY <1>3, <1>4
<1> QED  BY <1>5

\* A node, with the types of the protocol, makes of the bytes of the
\* transaction and a signature that transaction and that signature.
THEOREM NodeReadsSigned ==
  \A t \in AllTransactions, s \in SignaturesDeep :
    /\ BuildWithSignature(t, s) \in ByteString
    /\ ~Nested(t) => NodeReads(BuildWithSignature(t, s)) = {[transaction |-> t, signature |-> s]}
<1> TAKE t \in AllTransactions, s \in SignaturesDeep
<1> DEFINE signed == [transaction |-> t, signature |-> s]
           b == BuildWithSignature(t, s)
<1>1. "SignedTransaction" \in TypeNames
  BY TypeNamesAre
<1>2. signed \in Values[Depth("SignedTransaction")]["SignedTransaction"]
  BY SignedValues DEF Depth
<1>3. b = BorshOf(Types, "SignedTransaction", signed)
  BY DEF BuildWithSignature
<1>4. signed.transaction = t
  OBVIOUS
<1> HIDE DEF signed, b
<1>5. b \in ByteString /\ BorshFrom(Types, "SignedTransaction", b) = <<signed>>
  BY <1>1, <1>2, <1>3, BorshReadsBack
<1>6. ToSet(BorshFrom(ProtocolTypes, "SignedTransaction", b)) = {signed}
  BY <1>5, TypesAreTheProtocols DEF ToSet
<1>7. ~Nested(t) => NodeReads(b) = {signed}
  BY <1>4, <1>6 DEF NodeReads
<1> QED  BY <1>5, <1>7 DEF b, signed

\* Of any bytes, a node reads at most one transaction and signature.
LEMMA NodeReadsValues ==
  ASSUME NEW b \in ByteString, NEW signed \in NodeReads(b)
  PROVE  signed \in [transaction : AllTransactions, signature : SignaturesDeep]
<1>1. "SignedTransaction" \in TypeNames
  BY TypeNamesAre
<1> DEFINE read == BorshFrom(Types, "SignedTransaction", b)
<1>2. \/ read = << >>
      \/ \E v \in Values[Depth("SignedTransaction")]["SignedTransaction"] : read = <<v>>
  BY <1>1, BorshIsCanonical
<1>3. Values[Depth("SignedTransaction")]["SignedTransaction"]
        = [transaction : AllTransactions, signature : SignaturesDeep]
  BY SignedValues DEF Depth
<1>4. signed \in ToSet(read)
  BY TypesAreTheProtocols DEF NodeReads
<1> HIDE DEF read
<1>5. PICK v \in [transaction : AllTransactions, signature : SignaturesDeep] : read = <<v>>
  BY <1>2, <1>3, <1>4 DEF ToSet
<1>6. signed = v
  BY <1>4, <1>5 DEF ToSet
<1> QED  BY <1>6

-----------------------------------------------------------------------------
(* Session: theorems of SessionSpec.                                       *)

\* Requests, answers, and bytes under way as the steps make them.
Made == {[tx |-> t, bytes |-> BuildForSigning(t)] : t \in Possible}

Given == {<< >>} \cup {<<s>> : s \in Answers}

Sending(t, k, b, c) == [bytes |-> b, tx |-> t, request |-> k, changed |-> c]

\* What is under way: bytes of a transaction there may be and one of the
\* answers, or, once changed, any bytes.
UnderWay(t, k, s) ==
  /\ answers[k] # << >>
  /\ \/ s = <<Sending(t, k, BuildWithSignature(t, answers[k][1]), FALSE)>>
     \/ \E b \in ByteString : s = <<Sending(t, k, b, TRUE)>>

Asked == {requests[k].tx : k \in DOMAIN requests}

\* No two requests have the same answer.
SessionInv ==
  /\ tx \in Possible
  /\ requests \in Seq(Made)
  /\ answers \in Seq(Given) /\ Len(answers) = Len(requests)
  /\ \A j, k \in DOMAIN answers : answers[j] # << >> /\ answers[j] = answers[k] => j = k
  /\ \/ sent = << >>
     \/ \E t \in Possible, k \in DOMAIN answers : UnderWay(t, k, sent)
  /\ executed \subseteq Asked

\* An assignment of a public field makes a transaction that there may be.
LEMMA AssignedIsPossible ==
  ASSUME NEW t \in Possible, NEW field \in DOMAIN Assignable, NEW v \in Assignable[field]
  PROVE  [t EXCEPT ![field] = v] \in Possible
<1>1. v \in ValuesOfField(field)
  BY DEF ValuesOfField
<1>2. CASE field = "signer_id"
  BY <1>1, <1>2 DEF Possible
<1>3. CASE field = "signer_public_key"
  BY <1>1, <1>3 DEF Possible
<1>4. CASE field = "nonce"
  BY <1>1, <1>4 DEF Possible
<1>5. CASE field = "receiver_id"
  BY <1>1, <1>5 DEF Possible
<1>6. CASE field = "block_hash"
  BY <1>1, <1>6 DEF Possible
<1>7. CASE field = "actions"
  BY <1>1, <1>7 DEF Possible
<1>8. CASE field \notin {"signer_id", "signer_public_key", "nonce", "receiver_id", "block_hash",
                         "actions"}
  <2>1. DOMAIN t = {"signer_id", "signer_public_key", "nonce", "receiver_id", "block_hash",
                    "actions"}
    BY DEF Possible
  <2>2. field \notin DOMAIN t
    BY <1>8, <2>1
  <2>3. t = [f \in DOMAIN t |-> t[f]]
    BY DEF Possible
  <2>4. [t EXCEPT ![field] = v] = [f \in DOMAIN t |-> IF f = field THEN v ELSE t[f]]
    OBVIOUS
  <2>5. [t EXCEPT ![field] = v] = t
    BY <2>2, <2>3, <2>4
  <2> QED  BY <2>5
<1> QED  BY <1>2, <1>3, <1>4, <1>5, <1>6, <1>7, <1>8

LEMMA PossibleIsTransaction ==
  \A t \in Possible : t \in AllTransactions /\ ~Nested(t)
  BY SessionAssumption DEF AllTransactions

LEMMA TransactionForms ==
  \E inner : AllTransactions
    = [signer_id : inner.AccountId, signer_public_key : inner.PublicKey, nonce : inner.U64,
       receiver_id : inner.AccountId, block_hash : inner.BlockHash, actions : inner.VecAction]
<1>1. PICK values : /\ ValueRun(values, MaxDepth + 1)
                    /\ \A d \in 1 .. MaxDepth + 1 : Values[d] = values[d]
  BY ValuesAt
<1>2. \A d \in 0 .. MaxDepth + 1 : values[d] = IF d = 0 THEN NoValues ELSE ValuesOver(values[d - 1])
  BY <1>1, Zenon DEF ValueRun
<1>3. MaxDepth \in 0 .. MaxDepth + 1 /\ MaxDepth # 0 /\ MaxDepth \in 1 .. MaxDepth + 1
  BY DepthAssumption
<1>4. Values[MaxDepth] = ValuesOver(values[MaxDepth - 1])
  BY <1>1, <1>2, <1>3
<1> DEFINE inner == values[MaxDepth - 1]
<1> HIDE DEF inner
<1>5. ValuesOver(inner)["NearTransaction"]
        = [signer_id : inner.AccountId, signer_public_key : inner.PublicKey, nonce : inner.U64,
           receiver_id : inner.AccountId, block_hash : inner.BlockHash, actions : inner.VecAction]
  BY DEF ValuesOver
<1>6. AllTransactions = ValuesOver(inner)["NearTransaction"]
  BY <1>4 DEF AllTransactions, inner
<1> QED  BY <1>5, <1>6

\* So is the first one.
LEMMA InitialIsPossible ==
  ASSUME NEW t \in Initial
  PROVE  t \in Possible
<1>1. t \in AllTransactions
  BY SessionAssumption DEF AllTransactions
<1>2. \A f : t[f] \in ValuesOfField(f)
  BY DEF ValuesOfField
<1>3. t = [signer_id |-> t.signer_id, signer_public_key |-> t.signer_public_key,
           nonce |-> t.nonce, receiver_id |-> t.receiver_id, block_hash |-> t.block_hash,
           actions |-> t.actions]
  BY <1>1, TransactionForms
<1>4. /\ t.signer_id \in ValuesOfField("signer_id")
      /\ t.signer_public_key \in ValuesOfField("signer_public_key")
      /\ t.nonce \in ValuesOfField("nonce") /\ t.receiver_id \in ValuesOfField("receiver_id")
      /\ t.block_hash \in ValuesOfField("block_hash") /\ t.actions \in ValuesOfField("actions")
  BY <1>2
<1> HIDE DEF ValuesOfField
<1> QED  BY <1>3, <1>4 DEF Possible

\* What was asked for, with the bytes that were signed.
LEMMA AskedForms ==
  ASSUME SessionInv, NEW k \in DOMAIN requests
  PROVE  /\ requests[k].tx \in Possible
         /\ requests[k].bytes = BuildForSigning(requests[k].tx)
<1>1. requests[k] \in Made
  BY DEF SessionInv
<1> QED  BY <1>1 DEF Made

\* A node signs for nothing that was not asked for: also of bytes that were
\* changed, it takes only such a transaction.
LEMMA AcceptedIsAsked ==
  ASSUME SessionInv, NEW b \in ByteString
  PROVE  Accepted(b) \subseteq Asked
<1> SUFFICES ASSUME NEW signed \in NodeReads(b), Verifies(signed)
             PROVE  signed.transaction \in Asked
  BY DEF Accepted
<1>1. signed \in [transaction : AllTransactions, signature : SignaturesDeep]
  BY NodeReadsValues
<1>2. signed.transaction \in AllTransactions
  BY <1>1
<1>3. PICK k \in DOMAIN answers : requests[k].bytes = SigningBytes(signed.transaction)
  BY DEF Verifies
<1>4. k \in DOMAIN requests
  BY DEF SessionInv
<1>5. requests[k].tx \in AllTransactions /\ requests[k].bytes = BuildForSigning(requests[k].tx)
  BY <1>4, AskedForms, PossibleIsTransaction
<1>6. SigningBytes(signed.transaction) = BuildForSigning(signed.transaction)
  BY TypesAreTheProtocols DEF SigningBytes, BuildForSigning
<1>7. requests[k].tx = signed.transaction
  BY <1>2, <1>3, <1>5, <1>6, BuildForSigningInjective
<1> QED  BY <1>4, <1>7 DEF Asked

\* Bytes that nobody changed are taken exactly if they were made from the
\* transaction that the answer was asked for.
LEMMA FreshIsAccepted ==
  ASSUME SessionInv, NEW t \in Possible, NEW k \in DOMAIN answers, answers[k] # << >>
  PROVE  Accepted(BuildWithSignature(t, answers[k][1])) # {}
           <=> t = requests[k].tx /\ t.signer_public_key = SignerKey
<1> DEFINE s == answers[k][1]
           u == requests[k].tx
           signed == [transaction |-> t, signature |-> s]
           b == BuildWithSignature(t, s)
<1>1. s \in Answers /\ answers[k] = <<s>>
  <2>1. answers[k] \in Given
    BY DEF SessionInv
  <2> QED  BY <2>1 DEF Given
<1>2. s \in SignaturesDeep
  BY <1>1, SessionAssumption DEF SignaturesDeep
<1>3. k \in DOMAIN requests
  BY DEF SessionInv
<1>4. u \in AllTransactions /\ requests[k].bytes = BuildForSigning(u)
  BY <1>3, AskedForms, PossibleIsTransaction
<1>5. t \in AllTransactions /\ ~Nested(t)
  BY PossibleIsTransaction
<1> HIDE DEF s, u
<1>6. NodeReads(b) = {signed}
  BY <1>2, <1>5, NodeReadsSigned
<1>7. signed.transaction = t /\ signed.signature = s
  OBVIOUS
<1>8. Verifies(signed) <=> t = u /\ t.signer_public_key = SignerKey
  <2>1. Verifies(signed) <=> /\ t.signer_public_key = SignerKey
                             /\ \E j \in DOMAIN answers : /\ answers[j] = <<s>>
                                                          /\ requests[j].bytes = SigningBytes(t)
    BY <1>7 DEF Verifies
  <2>2. \A j \in DOMAIN answers : answers[j] = <<s>> => j = k
    BY <1>1 DEF SessionInv
  <2>3. SigningBytes(t) = BuildForSigning(t)
    BY TypesAreTheProtocols DEF SigningBytes, BuildForSigning
  <2>4. BuildForSigning(u) = BuildForSigning(t) => u = t
    BY <1>4, <1>5, BuildForSigningInjective
  <2> QED  BY <1>1, <1>4, <2>1, <2>2, <2>3, <2>4
<1> HIDE DEF signed, b
<1>9. Accepted(b) # {} <=> Verifies(signed)
  BY <1>6 DEF Accepted
<1> QED  BY <1>8, <1>9 DEF b, s, u

\* The bytes under way are bytes.
LEMMA BytesUnderWay ==
  ASSUME SessionInv, NEW t \in Possible, NEW k \in DOMAIN answers, NEW s, UnderWay(t, k, s)
  PROVE  s[1].bytes \in ByteString
<1>1. answers[k] # << >>
  BY DEF UnderWay
<1>2. answers[k][1] \in SignaturesDeep
  <2>1. answers[k] \in Given
    BY DEF SessionInv
  <2> QED  BY <1>1, <2>1, SessionAssumption DEF Given, SignaturesDeep
<1>3. BuildWithSignature(t, answers[k][1]) \in ByteString
  BY <1>2, PossibleIsTransaction, NodeReadsSigned
<1>4. \A b, c : Sending(t, k, b, c).bytes = b
  BY DEF Sending
<1>5. \E c : \E b \in ByteString : s = <<Sending(t, k, b, c)>>
  BY <1>3 DEF UnderWay
<1> QED  BY <1>4, <1>5

\* A changed byte is a byte.
LEMMA ChangedIsUnderWay ==
  ASSUME SessionInv, Change
  PROVE  \E t \in Possible, k \in DOMAIN answers : UnderWay(t, k, sent')
<1>1. sent # << >>
  BY DEF Change
<1>2. PICK t \in Possible, k \in DOMAIN answers : UnderWay(t, k, sent)
  BY <1>1 DEF SessionInv
<1>3. PICK i \in DOMAIN sent[1].bytes, n \in Noise :
        sent' = <<[sent[1] EXCEPT !.bytes[i] = (@ + n) % Radix, !.changed = TRUE]>>
  BY DEF Change
<1> DEFINE m == sent[1]
           b == m.bytes
           changed_byte == (b[i] + n) % Radix
           c == [b EXCEPT ![i] = changed_byte]
<1>5. b \in ByteString /\ i \in DOMAIN b
  BY <1>2, <1>3, BytesUnderWay
<1>6. changed_byte \in Byte
  <2>1. b[i] \in Nat /\ n \in Nat
    <3>1. b[i] \in Byte
      BY <1>5 DEF ByteString
    <3> QED  BY <3>1, SessionAssumption, RadixAssumption DEF Byte
  <2>2. b[i] + n \in Nat /\ Radix \in Nat /\ Radix > 0
    BY <2>1, RadixAssumption
  <2> QED  BY <2>2 DEF Byte
<1> HIDE DEF changed_byte
<1>7. c \in ByteString
  BY <1>5, <1>6 DEF ByteString
<1>8. \E d, e : m = Sending(t, k, d, e)
  <2>1. \E d, e : sent = <<Sending(t, k, d, e)>>
    BY <1>2 DEF UnderWay
  <2> QED  BY <2>1
<1>9. [m EXCEPT !.bytes[i] = (@ + n) % Radix, !.changed = TRUE] = Sending(t, k, c, TRUE)
  <2>1. PICK d, e : m = Sending(t, k, d, e)
    BY <1>8
  <2>2. m = [bytes |-> d, tx |-> t, request |-> k, changed |-> e]
    BY <2>1 DEF Sending
  <2>3. [m EXCEPT !.bytes[i] = (@ + n) % Radix, !.changed = TRUE]
          = [m EXCEPT !.bytes = [m.bytes EXCEPT ![i] = (m.bytes[i] + n) % Radix], !.changed = TRUE]
    BY <2>2
  <2>4. [m.bytes EXCEPT ![i] = (m.bytes[i] + n) % Radix] = c
    BY DEF changed_byte
  <2> HIDE DEF c
  <2>5. [m EXCEPT !.bytes = c, !.changed = TRUE] = Sending(t, k, c, TRUE)
    <3> DEFINE yes == TRUE
    <3> HIDE DEF yes
    <3>1. [m EXCEPT !.bytes = c, !.changed = yes] = [bytes |-> c, tx |-> t, request |-> k, changed |-> yes]
      <4> DEFINE once == [m EXCEPT !.bytes = c]
      <4>1. once = [bytes |-> c, tx |-> t, request |-> k, changed |-> e]
        BY <2>2
      <4>2. [m EXCEPT !.bytes = c, !.changed = yes] = [once EXCEPT !.changed = yes]
        OBVIOUS
      <4> HIDE DEF once
      <4>3. [once EXCEPT !.changed = yes] = [bytes |-> c, tx |-> t, request |-> k, changed |-> yes]
        BY <4>1
      <4> QED  BY <4>2, <4>3
    <3>2. Sending(t, k, c, yes) = [bytes |-> c, tx |-> t, request |-> k, changed |-> yes]
      BY DEF Sending
    <3> QED  BY <3>1, <3>2 DEF yes
  <2> QED  BY <2>3, <2>4, <2>5
<1> HIDE DEF c
<1>10. sent' = <<Sending(t, k, c, TRUE)>>
  BY <1>3, <1>9
<1> QED  BY <1>2, <1>7, <1>10 DEF UnderWay

\* What the node takes was asked for.
LEMMA NodeTakesAsked ==
  ASSUME SessionInv, NodeReceives
  PROVE  executed' \subseteq Asked
<1>1. sent # << >>
  BY DEF NodeReceives
<1>2. PICK t \in Possible, k \in DOMAIN answers : UnderWay(t, k, sent)
  BY <1>1 DEF SessionInv
<1>3. sent[1].bytes \in ByteString
  BY <1>2, BytesUnderWay
<1>4. Accepted(sent[1].bytes) \subseteq Asked
  BY <1>3, AcceptedIsAsked
<1>5. executed \subseteq Asked
  BY DEF SessionInv
<1> QED  BY <1>4, <1>5 DEF NodeReceives

\* The session keeps its requests, answers and bytes together.
THEOREM SessionInvariant == SessionSpec => []SessionInv
<1>1. SessionInit => SessionInv
  <2> SUFFICES ASSUME SessionInit PROVE SessionInv
    OBVIOUS
  <2>1. tx \in Possible
    BY InitialIsPossible DEF SessionInit
  <2>2. requests = << >> /\ answers = << >> /\ sent = << >> /\ executed = {}
    BY DEF SessionInit
  <2>3. /\ requests \in Seq(Made) /\ answers \in Seq(Given) /\ Len(answers) = Len(requests)
        /\ DOMAIN answers = {}
    BY <2>2
  <2> QED  BY <2>1, <2>2, <2>3 DEF SessionInv
<1>2. SessionInv /\ [SessionNext]_sessionVars => SessionInv'
  <2> SUFFICES ASSUME SessionInv, [SessionNext]_sessionVars PROVE SessionInv'
    OBVIOUS
  <2> USE DEF SessionInv
  <2>0. /\ DOMAIN answers = DOMAIN requests /\ DOMAIN answers = 1 .. Len(answers)
        /\ Len(answers) \in Nat
    OBVIOUS
  <2>1. ASSUME NEW field \in DOMAIN Assignable, Assign(field) PROVE SessionInv'
    <3>1. tx' \in Possible
      BY <2>1, AssignedIsPossible, ZenonT(60) DEF Assign
    <3>2. UNCHANGED <<requests, answers, sent, executed>>
      BY <2>1 DEF Assign
    <3> QED  BY <3>1, <3>2 DEF UnderWay, Asked
  <2>2. CASE RequestSignature
    <3> DEFINE request == [tx |-> tx, bytes |-> BuildForSigning(tx)]
               none == << >>
    <3>1. /\ requests' = Append(requests, request) /\ answers' = Append(answers, none)
          /\ UNCHANGED <<tx, sent, executed>>
      BY <2>2 DEF RequestSignature
    <3>2. request \in Made /\ none \in Given
      BY DEF Made, Given
    <3>3. none = << >>
      OBVIOUS
    <3> HIDE DEF request, none
    <3> DEFINE n == Len(answers)
    <3>4. /\ requests' \in Seq(Made) /\ Len(requests') = n + 1
          /\ answers' \in Seq(Given) /\ Len(answers') = n + 1
      BY <3>1, <3>2
    <3>5. /\ \A k \in 1 .. n : answers'[k] = answers[k] /\ requests'[k] = requests[k]
          /\ answers'[n + 1] = none /\ DOMAIN answers' = 1 .. n + 1
          /\ DOMAIN requests' = 1 .. n + 1 /\ n \in Nat
      BY <3>1, <3>2
    <3> HIDE DEF n
    <3>6. \A j, k \in DOMAIN answers' : answers'[j] # << >> /\ answers'[j] = answers'[k] => j = k
      <4> SUFFICES ASSUME NEW j \in DOMAIN answers', NEW k \in DOMAIN answers',
                          answers'[j] # << >>, answers'[j] = answers'[k]
                   PROVE  j = k
        OBVIOUS
      <4>1. j \in 1 .. n /\ k \in 1 .. n
        BY <3>3, <3>5
      <4>2. j \in DOMAIN answers /\ k \in DOMAIN answers
        BY <2>0, <4>1 DEF n
      <4> QED  BY <3>5, <4>1, <4>2
    <3>7. \/ sent' = << >>
          \/ \E t \in Possible, k \in DOMAIN answers' : UnderWay(t, k, sent)'
      <4>1. CASE sent = << >>
        BY <3>1, <4>1
      <4>2. ASSUME NEW t \in Possible, NEW k \in DOMAIN answers, UnderWay(t, k, sent)
            PROVE  k \in DOMAIN answers' /\ UnderWay(t, k, sent)'
        <5>1. k \in 1 .. n
          BY <2>0 DEF n
        <5>2. answers'[k] = answers[k] /\ k \in DOMAIN answers'
          BY <3>5, <5>1
        <5> QED  BY <3>1, <4>2, <5>2 DEF UnderWay
      <4> QED  BY <4>1, <4>2
    <3>8. executed' \subseteq Asked'
      <4>1. \A k \in DOMAIN requests : k \in DOMAIN requests' /\ requests'[k] = requests[k]
        BY <2>0, <3>5 DEF n
      <4> QED  BY <3>1, <4>1 DEF Asked
    <3> QED  BY <3>1, <3>4, <3>6, <3>7, <3>8
  <2>3. ASSUME NEW j \in DOMAIN requests, SignerResponds(j) PROVE SessionInv'
    <3>1. answers[j] = << >> /\ UNCHANGED <<tx, requests, sent, executed>>
      BY <2>3 DEF SignerResponds
    <3>2. PICK s \in Answers : <<s>> \notin ToSet(answers) /\ answers' = [answers EXCEPT ![j] = <<s>>]
      BY <2>3 DEF SignerResponds
    <3> DEFINE answer == <<s>>
    <3>3. answer \in Given /\ answer # << >> /\ \A k \in DOMAIN answers : answers[k] # answer
      BY <3>2 DEF Given, ToSet
    <3> HIDE DEF answer
    <3>4. /\ answers' \in Seq(Given) /\ Len(answers') = Len(answers) /\ DOMAIN answers' = DOMAIN answers
          /\ answers'[j] = answer /\ \A k \in DOMAIN answers : k # j => answers'[k] = answers[k]
      BY <2>0, <3>2, <3>3 DEF answer
    <3>5. \A i, k \in DOMAIN answers' : answers'[i] # << >> /\ answers'[i] = answers'[k] => i = k
      BY <3>3, <3>4
    <3>6. \A k \in DOMAIN answers : answers[k] # << >> => answers'[k] = answers[k]
      BY <3>1, <3>4
    <3>7. \/ sent' = << >>
          \/ \E t \in Possible, k \in DOMAIN answers' : UnderWay(t, k, sent)'
      <4>1. CASE sent = << >>
        BY <3>1, <4>1
      <4>2. ASSUME NEW t \in Possible, NEW k \in DOMAIN answers, UnderWay(t, k, sent)
            PROVE  k \in DOMAIN answers' /\ UnderWay(t, k, sent)'
        <5>1. answers[k] # << >>
          BY <4>2 DEF UnderWay
        <5>2. answers'[k] = answers[k] /\ k \in DOMAIN answers'
          BY <3>4, <3>6, <5>1
        <5> QED  BY <3>1, <4>2, <5>2 DEF UnderWay
      <4> QED  BY <4>1, <4>2
    <3> QED  BY <3>1, <3>4, <3>5, <3>7 DEF Asked
  <2>4. ASSUME NEW k \in DOMAIN requests, AttachAndSend(k) PROVE SessionInv'
    <3> DEFINE m == Sending(tx, k, BuildWithSignature(tx, answers[k][1]), FALSE)
    <3>1. /\ answers[k] # << >> /\ sent' = <<m>>
          /\ UNCHANGED <<tx, requests, answers, executed>>
      BY <2>4 DEF AttachAndSend, Sending
    <3>2. k \in DOMAIN answers' /\ m = Sending(tx, k, BuildWithSignature(tx, answers[k][1]), FALSE)
      BY <2>0, <3>1
    <3> HIDE DEF m
    <3>3. \E t \in Possible, i \in DOMAIN answers' : UnderWay(t, i, sent)'
      BY <3>1, <3>2 DEF UnderWay
    <3> QED  BY <3>1, <3>3 DEF Asked
  <2>5. CASE Change
    <3>1. UNCHANGED <<tx, requests, answers, executed>>
      BY <2>5 DEF Change
    <3>2. \E t \in Possible, k \in DOMAIN answers : UnderWay(t, k, sent')
      BY <2>5, ChangedIsUnderWay
    <3> QED  BY <3>1, <3>2 DEF UnderWay, Asked
  <2>6. CASE NodeReceives
    <3>1. UNCHANGED <<tx, requests, answers>> /\ sent' = << >>
      BY <2>6 DEF NodeReceives
    <3>2. executed' \subseteq Asked
      BY <2>6, NodeTakesAsked
    <3> QED  BY <3>1, <3>2 DEF Asked
  <2>7. CASE UNCHANGED sessionVars
    BY <2>7 DEF sessionVars, UnderWay, Asked
  <2> QED  BY <2>1, <2>2, <2>3, <2>4, <2>5, <2>6, <2>7 DEF SessionNext
<1> QED  BY <1>1, <1>2, PTL DEF SessionSpec

\* AcceptedExactlyIfFresh: whatever the caller assigned between the request
\* and the use of the answer, a node takes bytes that nobody changed exactly
\* if they were made from the transaction the answer was asked for.
THEOREM FreshExactly == SessionSpec => []AcceptedExactlyIfFresh
<1>1. SessionInv => AcceptedExactlyIfFresh
  <2> SUFFICES ASSUME SessionInv, NEW s \in ToSet(sent), ~s.changed
               PROVE  Accepted(s.bytes) # {} <=> /\ s.tx = requests[s.request].tx
                                                 /\ s.tx.signer_public_key = SignerKey
    BY DEF AcceptedExactlyIfFresh
  <2>1. sent # << >>
    BY DEF ToSet
  <2>2. PICK t \in Possible, k \in DOMAIN answers : UnderWay(t, k, sent)
    BY <2>1 DEF SessionInv
  <2>3. sent = <<s>>
    <3>1. PICK m : sent = <<m>>
      BY <2>2 DEF UnderWay
    <3> QED  BY <3>1 DEF ToSet
  <2>4. \A b, c : /\ Sending(t, k, b, c).bytes = b /\ Sending(t, k, b, c).tx = t
                  /\ Sending(t, k, b, c).request = k /\ Sending(t, k, b, c).changed = c
    BY DEF Sending
  <2>5. answers[k] # << >>
    BY <2>2 DEF UnderWay
  <2>6. s = Sending(t, k, BuildWithSignature(t, answers[k][1]), FALSE)
    <3>1. ASSUME NEW b, s = Sending(t, k, b, TRUE) PROVE FALSE
      <4>1. s.changed = TRUE
        BY <2>4, <3>1
      <4> QED  BY <4>1
    <3> QED  BY <2>2, <2>3, <3>1 DEF UnderWay
  <2>7. s.bytes = BuildWithSignature(t, answers[k][1]) /\ s.tx = t /\ s.request = k
    BY <2>4, <2>6
  <2>8. Accepted(BuildWithSignature(t, answers[k][1])) # {}
          <=> t = requests[k].tx /\ t.signer_public_key = SignerKey
    BY <2>5, FreshIsAccepted
  <2> QED  BY <2>7, <2>8
<1> QED  BY <1>1, SessionInvariant, PTL

\* Authorized: every step of the session, also of bytes that were changed, is
\* a step of IdealAuthorization or none.
THEOREM SessionIsAuthorized == SessionSpec => Authorized
<1>1. SessionInit => Ideal!Init
  BY DEF SessionInit, Ideal!Init
<1>2. SessionInv /\ [SessionNext]_sessionVars => [Ideal!Next]_<<Asked, executed>>
  <2> SUFFICES ASSUME SessionInv, [SessionNext]_sessionVars
               PROVE  [Ideal!Next]_<<Asked, executed>>
    OBVIOUS
  <2>1. CASE UNCHANGED <<requests, executed>>
    BY <2>1 DEF Asked
  <2>2. CASE RequestSignature
    <3>1. executed' = executed
      BY <2>2 DEF RequestSignature
    <3>2. Asked \subseteq Asked'
      <4>1. \A k \in DOMAIN requests : k \in DOMAIN requests' /\ requests'[k] = requests[k]
        BY <2>2 DEF RequestSignature, SessionInv
      <4> QED  BY <4>1 DEF Asked
    <3> QED  BY <3>1, <3>2 DEF Ideal!Next, Ideal!Ask, Asked
  <2>3. CASE NodeReceives
    <3>1. requests' = requests /\ executed \subseteq executed'
      BY <2>3 DEF NodeReceives
    <3>2. executed' \subseteq Asked /\ Asked' = Asked
      BY <2>3, <3>1, NodeTakesAsked DEF Asked
    <3> QED  BY <3>1, <3>2 DEF Ideal!Next, Ideal!Execute, Asked
  <2>4. CASE Change
    BY <2>1, <2>4 DEF Change
  <2> QED  BY <2>1, <2>2, <2>3, <2>4
      DEF SessionNext, sessionVars, Assign, SignerResponds, AttachAndSend
<1> QED  BY <1>1, <1>2, SessionInvariant, PTL
         DEF SessionSpec, Authorized, Ideal!Spec, Asked

-----------------------------------------------------------------------------
(* JSON: documents, and the types depth by depth.                          *)

-----------------------------------------------------------------------------
(* JSON: documents, and the types one by one.                              *)

\* Which documents of each form there are.
LEMMA ScalarForms ==
  ASSUME NEW numbers
  PROVE  /\ \A n : [number |-> n] \in Scalars(numbers) <=> n \in numbers
         /\ \A n : [decimal |-> n] \in Scalars(numbers) <=> n \in Nat
         /\ \A w : [word |-> w] \in Scalars(numbers) <=> w \in PartNames
         /\ \A b : [text |-> b] \in Scalars(numbers) <=> b \in ByteString
         /\ \A b : [base64 |-> b] \in Scalars(numbers) <=> b \in ByteString
         /\ \A k : [near |-> k] \in Scalars(numbers) <=> k \in KeyDocuments
         /\ [null |-> 0] \in Scalars(numbers)
         /\ \A s : [array |-> s] \notin Scalars(numbers) /\ [map |-> s] \notin Scalars(numbers)
<1>1. \A n : [number |-> n] \in Scalars(numbers) <=> n \in numbers
  BY DEF Scalars
<1>2. \A n : [decimal |-> n] \in Scalars(numbers) <=> n \in Nat
  BY DEF Scalars
<1>3. \A w : [word |-> w] \in Scalars(numbers) <=> w \in PartNames
  BY DEF Scalars
<1>4. \A b : [text |-> b] \in Scalars(numbers) <=> b \in ByteString
  BY DEF Scalars
<1>5. \A b : [base64 |-> b] \in Scalars(numbers) <=> b \in ByteString
  BY DEF Scalars
<1>6. \A k : [near |-> k] \in Scalars(numbers) <=> k \in KeyDocuments
  BY DEF Scalars
<1>7. [null |-> 0] \in Scalars(numbers)
  BY DEF Scalars
<1>8. \A s : [array |-> s] \notin Scalars(numbers) /\ [map |-> s] \notin Scalars(numbers)
  BY DEF Scalars
<1> QED  BY <1>1, <1>2, <1>3, <1>4, <1>5, <1>6, <1>7, <1>8

\* A scalar has one of the fields of scalars.
LEMMA ScalarFields ==
  ASSUME NEW numbers, NEW doc \in Scalars(numbers)
  PROVE  ~Is(doc, "array") /\ ~Is(doc, "map")
  BY DEF Scalars, Is

LEMMA DocumentForms ==
  ASSUME NEW inner, NEW numbers
  PROVE  /\ \A doc \in Scalars(numbers) : doc \in DocumentsOver(inner, numbers)
         /\ \A doc \in DocumentsOver(inner, numbers) :
              \/ doc \in Scalars(numbers)
              \/ \E s \in Seq(inner) : doc = [array |-> s]
              \/ \E s \in Seq([key : PartNames, doc : inner]) : doc = [map |-> s]
         /\ \A doc : ~Is(doc, "array") /\ ~Is(doc, "map") =>
              (doc \in DocumentsOver(inner, numbers) <=> doc \in Scalars(numbers))
         /\ \A s : [array |-> s] \in DocumentsOver(inner, numbers) <=> s \in Seq(inner)
         /\ \A s : [map |-> s] \in DocumentsOver(inner, numbers) <=> s \in Seq([key : PartNames, doc : inner])
<1> DEFINE scalars == Scalars(numbers)
           items == Seq(inner)
           entries == Seq([key : PartNames, doc : inner])
<1>0. \A doc : doc \in DocumentsOver(inner, numbers) <=>
                 doc \in scalars \/ doc \in [array : items] \/ doc \in [map : entries]
  BY DEF DocumentsOver
<1>1. \A s : [array |-> s] \notin scalars /\ [map |-> s] \notin scalars
  BY ScalarForms
<1> HIDE DEF scalars, items, entries
<1>2. \A s : [array |-> s] \in [array : items] <=> s \in items
  OBVIOUS
<1>3. \A s : [map |-> s] \in [map : entries] <=> s \in entries
  OBVIOUS
<1>4. \A s : [array |-> s] \notin [map : entries] /\ [map |-> s] \notin [array : items]
  OBVIOUS
<1>5. \A doc \in [array : items] : Is(doc, "array") /\ doc.array \in items /\ doc = [array |-> doc.array]
  BY DEF Is
<1>6. \A doc \in [map : entries] : Is(doc, "map") /\ doc.map \in entries /\ doc = [map |-> doc.map]
  BY DEF Is
<1>7. /\ \A s : [array |-> s] \in DocumentsOver(inner, numbers) <=> s \in items
      /\ \A s : [map |-> s] \in DocumentsOver(inner, numbers) <=> s \in entries
  BY <1>0, <1>1, <1>2, <1>3, <1>4
<1>8. \A doc \in scalars : doc \in DocumentsOver(inner, numbers)
  BY <1>0
<1>9. \A doc \in DocumentsOver(inner, numbers) :
        \/ doc \in scalars
        \/ \E s \in items : doc = [array |-> s]
        \/ \E s \in entries : doc = [map |-> s]
  BY <1>0, <1>5, <1>6
<1>10. \A doc : ~Is(doc, "array") /\ ~Is(doc, "map") =>
         (doc \in DocumentsOver(inner, numbers) <=> doc \in scalars)
  BY <1>0, <1>5, <1>6
<1> QED  BY <1>7, <1>8, <1>9, <1>10 DEF scalars, items, entries

\* Documents with any numbers, and those with numbers that readers hold.
All(docs) == DocumentsOver(docs, Nat)
Fitting(docs) == DocumentsOver(docs, 0 .. MaxU64)

LEMMA ScalarsOver ==
  ASSUME NEW inner, NEW numbers
  PROVE  /\ \A n : [number |-> n] \in DocumentsOver(inner, numbers) <=> n \in numbers
         /\ \A n : [decimal |-> n] \in DocumentsOver(inner, numbers) <=> n \in Nat
         /\ \A w : [word |-> w] \in DocumentsOver(inner, numbers) <=> w \in PartNames
         /\ \A b : [text |-> b] \in DocumentsOver(inner, numbers) <=> b \in ByteString
         /\ \A b : [base64 |-> b] \in DocumentsOver(inner, numbers) <=> b \in ByteString
         /\ \A k : [near |-> k] \in DocumentsOver(inner, numbers) <=> k \in KeyDocuments
         /\ [null |-> 0] \in DocumentsOver(inner, numbers)
<1>1. /\ \A n : ~Is([number |-> n], "array") /\ ~Is([number |-> n], "map")
      /\ \A n : ~Is([decimal |-> n], "array") /\ ~Is([decimal |-> n], "map")
      /\ \A w : ~Is([word |-> w], "array") /\ ~Is([word |-> w], "map")
      /\ \A b : ~Is([text |-> b], "array") /\ ~Is([text |-> b], "map")
      /\ \A b : ~Is([base64 |-> b], "array") /\ ~Is([base64 |-> b], "map")
      /\ \A k : ~Is([near |-> k], "array") /\ ~Is([near |-> k], "map")
      /\ ~Is([null |-> 0], "array") /\ ~Is([null |-> 0], "map")
  BY DEF Is
<1> QED  BY <1>1, ScalarForms, DocumentForms, ZenonT(60)

\* A type's documents are among those with any numbers; readers have the
\* value back if they hold the numbers, and an error if they do not.
JsonType(t, values, writers, readers, forms, docs, fit) ==
  \A v \in values :
    /\ ToJson(t, v, writers, forms) \in docs
    /\ FromJson(t, ToJson(t, v, writers, forms), readers)
         = IF ToJson(t, v, writers, forms) \in fit THEN <<v>> ELSE << >>

LEMMA JsonTypeFits ==
  ASSUME NEW t, NEW values, NEW writers, NEW readers, NEW forms, NEW docs, NEW fit,
         \A v \in values : \E m : /\ ToJson(t, v, writers, forms) = m
                                  /\ m \in docs /\ m \in fit /\ FromJson(t, m, readers) = <<v>>
  PROVE  JsonType(t, values, writers, readers, forms, docs, fit)
  BY DEF JsonType

LEMMA U64Json ==
  ASSUME NEW writers, NEW readers, NEW forms, NEW docs, NEW fit
  PROVE  JsonType(Primitive("U64"), Byte, writers, readers, forms, All(docs), Fitting(fit))
<1> DEFINE t == Primitive("U64")
<1>1. t.kind = "U64"
  BY DEF Primitive
<1> HIDE DEF t
<1>2. ASSUME NEW v \in Byte
      PROVE  \E m : /\ ToJson(t, v, writers, forms) = m
                    /\ m \in All(docs) /\ m \in Fitting(fit) /\ FromJson(t, m, readers) = <<v>>
  <2>1. v \in Nat /\ v \in 0 .. MaxU64 /\ v <= MaxU64
    BY RadixAssumption DEF Byte, MaxU64
  <2>2. ToJson(t, v, writers, forms) = IF "U64" \in forms THEN [decimal |-> v] ELSE [number |-> v]
    BY <1>1 DEF ToJson
  <2>3. \A m : FromJson(t, m, readers) = U64FromJson(m)
    BY <1>1 DEF FromJson
  <2>4. CASE "U64" \in forms
    <3>1. U64FromJson([decimal |-> v]) = <<v>>
      BY <2>1 DEF U64FromJson, Is
    <3> QED  BY <2>1, <2>2, <2>3, <2>4, <3>1, ScalarsOver DEF All, Fitting
  <2>5. CASE "U64" \notin forms
    <3>1. U64FromJson([number |-> v]) = <<v>>
      BY <2>1 DEF U64FromJson, Is
    <3> QED  BY <2>1, <2>2, <2>3, <2>5, <3>1, ScalarsOver DEF All, Fitting
  <2> QED  BY <2>4, <2>5
<1>3. JsonType(t, Byte, writers, readers, forms, All(docs), Fitting(fit))
  BY <1>2, JsonTypeFits
<1> QED  BY <1>3 DEF t

\* A number above u64::MAX is an error.
LEMMA U128Json ==
  ASSUME NEW writers, NEW readers, NEW forms, NEW docs, NEW fit
  PROVE  JsonType(Primitive("U128"), 0 .. Radix * Radix - 1, writers, readers, forms, All(docs), Fitting(fit))
<1> DEFINE t == Primitive("U128")
           values == 0 .. Radix * Radix - 1
<1>1. t.kind = "U128"
  BY DEF Primitive
<1> HIDE DEF t
<1>2. ASSUME NEW v \in values
      PROVE  /\ ToJson(t, v, writers, forms) \in All(docs)
             /\ FromJson(t, ToJson(t, v, writers, forms), readers)
                  = IF ToJson(t, v, writers, forms) \in Fitting(fit) THEN <<v>> ELSE << >>
  <2>1. v \in Nat /\ v <= MaxU128 /\ (v \in 0 .. MaxU64 <=> v <= MaxU64)
    <3>1. Radix * Radix \in Nat
      BY RadixAssumption
    <3> QED  BY <3>1, RadixAssumption DEF MaxU64, MaxU128
  <2>2. ToJson(t, v, writers, forms) = IF "U128" \in forms THEN [decimal |-> v] ELSE [number |-> v]
    BY <1>1 DEF ToJson
  <2>3. \A m : FromJson(t, m, readers) = U128FromJson(m)
    BY <1>1 DEF FromJson
  <2>4. CASE "U128" \in forms
    <3>1. U128FromJson([decimal |-> v]) = <<v>>
      BY <2>1 DEF U128FromJson, Is
    <3> QED  BY <2>1, <2>2, <2>3, <2>4, <3>1, ScalarsOver DEF All, Fitting
  <2>5. CASE "U128" \notin forms
    <3>1. U128FromJson([number |-> v]) = IF v <= MaxU64 THEN <<v>> ELSE << >>
      BY <2>1 DEF U128FromJson, Is
    <3>2. [number |-> v] \in All(docs) /\ ([number |-> v] \in Fitting(fit) <=> v <= MaxU64)
      BY <2>1, ScalarsOver DEF All, Fitting
    <3> QED  BY <2>2, <2>3, <2>5, <3>1, <3>2
  <2> QED  BY <2>4, <2>5
<1> HIDE DEF values
<1>3. JsonType(t, values, writers, readers, forms, All(docs), Fitting(fit))
  BY <1>2 DEF JsonType
<1> QED  BY <1>3 DEF t, values

\* Values whose one document is a scalar that has them as they are.
LEMMA Base64Json ==
  ASSUME NEW writers, NEW readers, NEW forms, NEW docs, NEW fit
  PROVE  JsonType(Primitive("Base64VecU8"), Short(Byte), writers, readers, forms, All(docs), Fitting(fit))
<1> DEFINE t == Primitive("Base64VecU8")
<1>1. t.kind = "Base64VecU8"
  BY DEF Primitive
<1> HIDE DEF t
<1>2. ASSUME NEW v \in Short(Byte)
      PROVE  \E m : /\ ToJson(t, v, writers, forms) = m
                    /\ m \in All(docs) /\ m \in Fitting(fit) /\ FromJson(t, m, readers) = <<v>>
  <2>1. v \in ByteString
    BY DEF Short, ByteString
  <2>2. ToJson(t, v, writers, forms) = [base64 |-> v]
    BY <1>1 DEF ToJson
  <2>3. FromJson(t, [base64 |-> v], readers) = Base64FromJson([base64 |-> v])
    BY <1>1 DEF FromJson
  <2>4. Base64FromJson([base64 |-> v]) = <<v>>
    BY DEF Base64FromJson, Is
  <2> QED  BY <2>1, <2>2, <2>3, <2>4, ScalarsOver DEF All, Fitting
<1>3. JsonType(t, Short(Byte), writers, readers, forms, All(docs), Fitting(fit))
  BY <1>2, JsonTypeFits
<1> QED  BY <1>3 DEF t

LEMMA TextJson ==
  ASSUME NEW writers, NEW readers, NEW forms, NEW docs, NEW fit
  PROVE  /\ JsonType(Primitive("String"), Short(Byte), writers, readers, forms, All(docs), Fitting(fit))
         /\ JsonType(Primitive("AccountId"), Short(Byte) \ {<< >>}, writers, readers, forms,
                     All(docs), Fitting(fit))
<1>1. ASSUME NEW t, t.kind = "String" \/ t.kind = "AccountId", NEW v \in Short(Byte),
             t.kind = "AccountId" => v # << >>
      PROVE  \E m : /\ ToJson(t, v, writers, forms) = m
                    /\ m \in All(docs) /\ m \in Fitting(fit) /\ FromJson(t, m, readers) = <<v>>
  <2> DEFINE m == [text |-> v]
  <2>1. v \in ByteString
    BY DEF Short, ByteString
  <2>2. ToJson(t, v, writers, forms) = m
    BY <1>1 DEF ToJson
  <2>3. Is(m, "text") /\ m.text = v
    BY DEF Is
  <2>4. m \in All(docs) /\ m \in Fitting(fit)
    BY <2>1, ScalarsOver DEF All, Fitting
  <2> HIDE DEF m
  <2>5. FromJson(t, m, readers) = <<v>>
    <3>1. CASE t.kind = "String"
      BY <2>3, <3>1 DEF FromJson
    <3>2. CASE t.kind = "AccountId"
      BY <1>1, <2>3, <3>2 DEF FromJson
    <3> QED  BY <1>1, <3>1, <3>2
  <2> QED  BY <2>2, <2>4, <2>5, SMTT(60)
<1>2. Primitive("String").kind = "String" /\ Primitive("AccountId").kind = "AccountId"
  BY DEF Primitive
<1> QED  BY <1>1, <1>2, JsonTypeFits

LEMMA UnitJson ==
  ASSUME NEW writers, NEW readers, NEW forms, NEW docs, NEW fit
  PROVE  JsonType(Primitive("Unit"), {NoFields}, writers, readers, forms, All(docs), Fitting(fit))
<1> DEFINE t == Primitive("Unit")
           m == [null |-> 0]
<1>1. t.kind = "Unit"
  BY DEF Primitive
<1>2. Is(m, "null")
  BY DEF Is
<1>3. m \in All(docs) /\ m \in Fitting(fit)
  BY ScalarsOver DEF All, Fitting
<1>4. \A v : ToJson(t, v, writers, forms) = m
  BY <1>1 DEF ToJson
<1> HIDE DEF t, m
<1>5. FromJson(t, m, readers) = <<NoFields>>
  BY <1>1, <1>2 DEF FromJson
<1>6. JsonType(t, {NoFields}, writers, readers, forms, All(docs), Fitting(fit))
  BY <1>3, <1>4, <1>5, JsonTypeFits
<1> QED  BY <1>6 DEF t

\* Numbers in an array.
LEMMA BytesJson ==
  ASSUME NEW writers, NEW readers, NEW forms, NEW docs, NEW fit,
         Scalars(Nat) \subseteq docs, Scalars(0 .. MaxU64) \subseteq fit
  PROVE  JsonType(Primitive("VecU8"), Short(Byte), writers, readers, forms, All(docs), Fitting(fit))
<1> DEFINE t == Primitive("VecU8")
<1>1. t.kind = "VecU8"
  BY DEF Primitive
<1> HIDE DEF t
<1>2. ASSUME NEW v \in Short(Byte)
      PROVE  \E m : /\ ToJson(t, v, writers, forms) = m
                    /\ m \in All(docs) /\ m \in Fitting(fit) /\ FromJson(t, m, readers) = <<v>>
  <2> DEFINE s == [i \in DOMAIN v |-> [number |-> v[i]]]
             m == [array |-> s]
  <2>1. v \in Seq(Byte) /\ Len(v) \in Nat /\ DOMAIN v = 1 .. Len(v)
        /\ v = [i \in DOMAIN v |-> v[i]] /\ \A i \in DOMAIN v : v[i] \in Byte
    BY DEF Short
  <2>2. \A n \in Byte : [number |-> n] \in docs /\ [number |-> n] \in fit
    <3>1. \A n \in Byte : n \in Nat /\ n \in 0 .. MaxU64
      BY RadixAssumption DEF Byte, MaxU64
    <3> QED  BY <3>1, ScalarForms
  <2>3. s \in [1 .. Len(v) -> docs] /\ s \in [1 .. Len(v) -> fit]
    BY <2>1, <2>2
  <2>4. s \in Seq(docs) /\ s \in Seq(fit)
    BY <2>1, <2>3, MadeSequence
  <2>5. ToJson(t, v, writers, forms) = m
    BY <1>1 DEF ToJson, NumberArray
  <2>6. \A x : FromJson(t, x, readers) = BytesFromJson(x)
    BY <1>1 DEF FromJson
  <2>7. DOMAIN s = DOMAIN v /\ \A i \in DOMAIN v : Is(s[i], "number") /\ s[i].number = v[i]
    BY DEF Is
  <2>8. Is(m, "array") /\ m.array = s
    BY DEF Is
  <2> HIDE DEF s
  <2>9. m \in All(docs) /\ m \in Fitting(fit)
    BY <2>4, DocumentForms DEF All, Fitting
  <2> HIDE DEF m
  <2>10. BytesFromJson(m) = <<v>>
    <3>1. \A i \in DOMAIN v : v[i] < Radix
      BY <2>1, RadixAssumption DEF Byte
    <3>2. [i \in DOMAIN s |-> s[i].number] = v
      BY <2>1, <2>7
    <3> QED  BY <2>7, <2>8, <3>1, <3>2 DEF BytesFromJson
  <2> QED  BY <2>5, <2>6, <2>9, <2>10
<1>3. JsonType(t, Short(Byte), writers, readers, forms, All(docs), Fitting(fit))
  BY <1>2, JsonTypeFits
<1> QED  BY <1>3 DEF t

\* Bytes in base58 behind a prefix.
Base58(prefix, b) == [form |-> "text", text |-> [prefix |-> prefix, data |-> <<b>>]]

LEMMA Base58Forms ==
  ASSUME NEW b \in ByteString, NEW prefix, prefix = "ed25519" \/ prefix = "secp256k1" \/ prefix = "none"
  PROVE  LET doc == Base58(prefix, b)
         IN  /\ doc \in KeyDocuments /\ doc.form = "text" /\ doc.text.prefix = prefix
             /\ IsBase58(doc.text) /\ Bytes(doc.text) = b
<1> DEFINE text == [prefix |-> prefix, data |-> <<b>>]
<1>1. text \in [prefix : {"ed25519", "secp256k1", "none"}, data : Seq(ByteString)]
  OBVIOUS
<1>2. text.prefix = prefix /\ text.data # << >> /\ text.data[1] = b
  OBVIOUS
<1> HIDE DEF text
<1>3. [form |-> "text", text |-> text] \in KeyDocuments
  BY <1>1 DEF KeyDocuments
<1>4. Base58(prefix, b) = [form |-> "text", text |-> text]
  BY DEF Base58, text
<1>5. Base58(prefix, b).form = "text" /\ Base58(prefix, b).text = text
  BY <1>4
<1> QED  BY <1>2, <1>3, <1>4, <1>5 DEF IsBase58, Bytes

\* A key, a signature or a hash that is read as what it was.
LEMMA NearJsonType ==
  ASSUME NEW t, NEW values, NEW writers, NEW readers, NEW forms, NEW docs, NEW fit,
         \A v \in values : \E k \in KeyDocuments :
           ToJson(t, v, writers, forms) = [near |-> k] /\ FromJson(t, [near |-> k], readers) = <<v>>
  PROVE  JsonType(t, values, writers, readers, forms, All(docs), Fitting(fit))
<1>1. \A k \in KeyDocuments : [near |-> k] \in All(docs) /\ [near |-> k] \in Fitting(fit)
  BY ScalarsOver DEF All, Fitting
<1> QED  BY <1>1, JsonTypeFits

LEMMA PublicKeyJson ==
  ASSUME NEW writers, NEW readers, NEW forms, NEW docs, NEW fit
  PROVE  JsonType(Primitive("PublicKey"), Keys, writers, readers, forms, All(docs), Fitting(fit))
<1> DEFINE t == Primitive("PublicKey")
           ReadAs(k) == PublicKeyFromJson(k).value
<1>1. t.kind = "PublicKey"
  BY DEF Primitive
<1> HIDE DEF t
<1>2. \A k : FromJson(t, [near |-> k], readers) = ReadAs(k)
  <2>1. \A k : Is([near |-> k], "near") /\ [near |-> k].near = k
    BY DEF Is
  <2> QED  BY <1>1, <2>1 DEF FromJson
<1>3. ASSUME NEW v \in Keys
      PROVE  \E k \in ByteString :
               \/ v = Ed25519(k) /\ Len(k) = ED25519_PUBLIC_KEY_LENGTH
               \/ v = Secp256k1(k) /\ Len(k) = SECP256K1_PUBLIC_KEY_LENGTH
  BY KeyForms DEF StringsOf
<1>4. ASSUME NEW k \in ByteString, NEW v,
             \/ v = Ed25519(k) /\ Len(k) = ED25519_PUBLIC_KEY_LENGTH
             \/ v = Secp256k1(k) /\ Len(k) = SECP256K1_PUBLIC_KEY_LENGTH
      PROVE  \E d \in KeyDocuments : ToJson(t, v, writers, forms) = [near |-> d] /\ ReadAs(d) = <<v>>
  <2> DEFINE ed == v = Ed25519(k)
             prefix == IF v.variant = "ED25519" THEN "ed25519" ELSE "secp256k1"
             text == Base58(prefix, k)
             map == PublicKeyToJson(v)
  <2>1. v.value = k /\ (v.variant = "ED25519" \/ v.variant = "SECP256K1")
        /\ (v.variant = "ED25519" <=> ed)
    BY <1>4 DEF Ed25519, Secp256k1
  <2>2. ToJson(t, v, writers, forms) = IF "PublicKey" \in forms THEN [near |-> text] ELSE [near |-> map]
    BY <1>1, <2>1 DEF ToJson, Base58
  <2>3. text \in KeyDocuments /\ ReadAs(text) = <<v>>
    <3>1. prefix = "ed25519" \/ prefix = "secp256k1" \/ prefix = "none"
      OBVIOUS
    <3>2. (prefix = "ed25519" <=> ed) /\ (prefix = "secp256k1" <=> ~ed)
      BY <2>1
    <3> HIDE DEF prefix
    <3>3. /\ text \in KeyDocuments /\ text.form = "text" /\ text.text.prefix = prefix
          /\ IsBase58(text.text) /\ Bytes(text.text) = k
      BY <3>1, Base58Forms
    <3> HIDE DEF text
    <3>4. ToPublicKeyAsBytes(text.text) = Ok(k)
      <4>1. CASE ed
        BY <1>4, <3>2, <3>3, <4>1 DEF ToPublicKeyAsBytes, Array, Ed25519, Secp256k1
      <4>2. CASE ~ed
        BY <1>4, <3>2, <3>3, <4>2 DEF ToPublicKeyAsBytes, Array
      <4> QED  BY <4>1, <4>2
    <3>5. ToPublicKey(text.text) = Ok(v)
      <4>1. Ok(k).value # << >> /\ Ok(k).value[1] = k
        BY DEF Ok
      <4>2. CASE ed
        BY <1>4, <3>2, <3>3, <3>4, <4>1, <4>2 DEF ToPublicKey
      <4>3. CASE ~ed
        <5>1. v = Secp256k1(k) /\ prefix # "ed25519"
          BY <1>4, <3>2, <4>3
        <5> QED  BY <3>3, <3>4, <4>1, <5>1 DEF ToPublicKey
      <4> QED  BY <4>2, <4>3
    <3>6. PublicKeyFromJson(text) = Ok(v)
      BY <3>3, <3>5 DEF PublicKeyFromJson
    <3> QED  BY <3>3, <3>6 DEF Ok
  <2>4. map \in KeyDocuments /\ ReadAs(map) = <<v>>
    <3> DEFINE entry == [name |-> v.variant, bytes |-> v.value]
    <3>1. entry \in [name : {"ED25519", "SECP256K1"}, bytes : ByteString]
      BY <2>1
    <3>2. entry.name = v.variant /\ entry.bytes = k
      BY <2>1
    <3>3. map = [form |-> "map", entries |-> <<entry>>]
      BY DEF PublicKeyToJson
    <3> HIDE DEF entry
    <3>4. map.form = "map" /\ map.entries = <<entry>>
      BY <3>3
    <3>5. map \in KeyDocuments
      BY <3>1, <3>3 DEF KeyDocuments
    <3> HIDE DEF map
    <3>6. PublicKeyTryFrom(k) = Ok(v)
      BY <1>4, LengthAssumption DEF PublicKeyTryFrom
    <3>7. PublicKeyFromJson(map) = PublicKeyTryFrom(map.entries[1].bytes)
      <4>1. Len(map.entries) = 1 /\ map.entries[1] = entry
        BY <3>4
      <4>2. map.entries[1].name = v.variant
        BY <3>2, <4>1
      <4> QED  BY <2>1, <3>4, <4>1, <4>2 DEF PublicKeyFromJson
    <3>8. map.entries[1].bytes = k
      BY <3>2, <3>4
    <3> QED  BY <3>5, <3>6, <3>7, <3>8 DEF Ok
  <2> HIDE DEF text, map, ReadAs
  <2> QED  BY <2>2, <2>3, <2>4
<1>5. JsonType(t, Keys, writers, readers, forms, All(docs), Fitting(fit))
  <2>1. \A v \in Keys : \E d \in KeyDocuments : ToJson(t, v, writers, forms) = [near |-> d] /\ ReadAs(d) = <<v>>
    BY <1>3, <1>4
  <2> HIDE DEF ReadAs
  <2> QED  BY <1>2, <2>1, NearJsonType
<1> QED  BY <1>5 DEF t

LEMMA BlockHashJson ==
  ASSUME NEW writers, NEW readers, NEW forms, NEW docs, NEW fit
  PROVE  JsonType(Primitive("BlockHash"), [1 .. HASH_LENGTH -> Byte], writers, readers, forms,
                  All(docs), Fitting(fit))
<1> DEFINE t == Primitive("BlockHash")
           ReadAs(k) == BlockHashFromJson(k).value
<1>0. [1 .. HASH_LENGTH -> Byte] = StringsOf(HASH_LENGTH)
  BY LengthAssumption, ArraysOfBytes
<1>1. t.kind = "BlockHash"
  BY DEF Primitive
<1> HIDE DEF t
<1>2. \A k : FromJson(t, [near |-> k], readers) = ReadAs(k)
  <2>1. \A k : Is([near |-> k], "near") /\ [near |-> k].near = k
    BY DEF Is
  <2> QED  BY <1>1, <2>1 DEF FromJson
<1>3. ASSUME NEW v \in StringsOf(HASH_LENGTH)
      PROVE  \E d \in KeyDocuments : ToJson(t, v, writers, forms) = [near |-> d] /\ ReadAs(d) = <<v>>
  <2> DEFINE text == Base58("none", v)
             array == BlockHashToJson(v)
  <2>1. v \in ByteString /\ Len(v) = HASH_LENGTH
    BY DEF StringsOf
  <2>2. ToJson(t, v, writers, forms) = IF "BlockHash" \in forms THEN [near |-> text] ELSE [near |-> array]
    BY <1>1 DEF ToJson, Base58
  <2>3. text \in KeyDocuments /\ ReadAs(text) = <<v>>
    <3>1. /\ text \in KeyDocuments /\ text.form = "text" /\ text.text.prefix = "none"
          /\ IsBase58(text.text) /\ Bytes(text.text) = v
      BY <2>1, Base58Forms
    <3> HIDE DEF text
    <3>2. BlockHashFromJson(text) = Ok(v)
      BY <2>1, <3>1 DEF BlockHashFromJson, ToBlockHash, DecodeBase58ToFixedBytes, Array
    <3> QED  BY <3>1, <3>2 DEF Ok
  <2>4. array \in KeyDocuments /\ ReadAs(array) = <<v>>
    <3>1. array = [form |-> "array", bytes |-> v]
      BY DEF BlockHashToJson
    <3>2. array \in KeyDocuments
      BY <2>1, <3>1 DEF KeyDocuments
    <3>3. BlockHashFromJson(array) = Ok(v)
      BY <2>1, <3>1 DEF BlockHashFromJson, Array
    <3> QED  BY <3>2, <3>3 DEF Ok
  <2> HIDE DEF text, array, ReadAs
  <2> QED  BY <2>2, <2>3, <2>4
<1>4. JsonType(t, StringsOf(HASH_LENGTH), writers, readers, forms, All(docs), Fitting(fit))
  <2> HIDE DEF ReadAs
  <2> QED  BY <1>2, <1>3, NearJsonType
<1> QED  BY <1>0, <1>4 DEF t

LEMMA SignatureJson ==
  ASSUME NEW writers, NEW readers, NEW forms, NEW docs, NEW fit
  PROVE  JsonType(Primitive("Signature"), AllSignatures, writers, readers, forms, All(docs), Fitting(fit))
<1> DEFINE t == Primitive("Signature")
           ReadAs(k) == SignatureFromJson(k).value
<1>1. t.kind = "Signature"
  BY DEF Primitive
<1> HIDE DEF t
<1>2. \A k : FromJson(t, [near |-> k], readers) = ReadAs(k)
  <2>1. \A k : Is([near |-> k], "near") /\ [near |-> k].near = k
    BY DEF Is
  <2> QED  BY <1>1, <2>1 DEF FromJson
<1>3. \A v : ToJson(t, v, writers, forms) = [near |-> SignatureToJson(v)]
  BY <1>1 DEF ToJson
<1>4. ASSUME NEW r \in StringsOf(COMPONENT_SIZE), NEW s \in StringsOf(COMPONENT_SIZE), NEW v,
             v = Ed25519(<<r, s>>)
      PROVE  SignatureToJson(v) \in KeyDocuments /\ ReadAs(SignatureToJson(v)) = <<v>>
  <2> DEFINE k == r \o s
             doc == Base58("ed25519", k)
  <2>1. SignatureToJson(v) = doc
    BY <1>4 DEF SignatureToJson, Ed25519, Base58
  <2>2. k \in StringsOf(ED25519_SIGNATURE_LENGTH) /\ Halves(k) = <<r, s>>
    BY HalvesForms
  <2> HIDE DEF k
  <2>3. k \in ByteString /\ Len(k) = ED25519_SIGNATURE_LENGTH
    BY <2>2 DEF StringsOf
  <2>4. S(k) \in StringsOf(COMPONENT_SIZE)
    BY <2>2, HalvesForms
  <2>5. Len(S(k)) = COMPONENT_SIZE /\ ~(Len(k) < COMPONENT_SIZE)
    BY <2>3, <2>4, LengthAssumption DEF StringsOf, ED25519_SIGNATURE_LENGTH
  <2>6. /\ doc \in KeyDocuments /\ doc.form = "text" /\ doc.text.prefix = "ed25519"
        /\ IsBase58(doc.text) /\ Bytes(doc.text) = k
    BY <2>3, Base58Forms
  <2> HIDE DEF doc
  <2>7. SignatureFromJson(doc) = Ok(v)
    BY <1>4, <2>2, <2>5, <2>6 DEF SignatureFromJson
  <2> QED  BY <2>1, <2>6, <2>7 DEF Ok
<1>5. ASSUME NEW k \in StringsOf(SECP256K1_SIGNATURE_LENGTH), NEW v, v = Secp256k1(k)
      PROVE  SignatureToJson(v) \in KeyDocuments /\ ReadAs(SignatureToJson(v)) = <<v>>
  <2> DEFINE doc == Base58("secp256k1", k)
  <2>1. SignatureToJson(v) = doc
    BY <1>5 DEF SignatureToJson, Secp256k1, Base58
  <2>2. k \in ByteString /\ Len(k) = SECP256K1_SIGNATURE_LENGTH
    BY DEF StringsOf
  <2>3. /\ doc \in KeyDocuments /\ doc.form = "text" /\ doc.text.prefix = "secp256k1"
        /\ IsBase58(doc.text) /\ Bytes(doc.text) = k
    BY <2>2, Base58Forms
  <2> HIDE DEF doc
  <2>4. SignatureFromJson(doc) = Ok(v)
    BY <1>5, <2>2, <2>3 DEF SignatureFromJson
  <2> QED  BY <2>1, <2>3, <2>4 DEF Ok
<1>6. JsonType(t, AllSignatures, writers, readers, forms, All(docs), Fitting(fit))
  <2>1. \A v \in AllSignatures : \E d \in KeyDocuments : ToJson(t, v, writers, forms) = [near |-> d] /\ ReadAs(d) = <<v>>
    BY <1>3, <1>4, <1>5, SignatureForms
  <2> HIDE DEF ReadAs
  <2> QED  BY <1>2, <2>1, NearJsonType
<1> QED  BY <1>6 DEF t

\* Parts that are written in documents of docs, and read if they fit.
JsonSound(write, read, values, docs, fit) ==
  \A v \in values : /\ write[v] \in docs
                    /\ read[write[v]] = IF write[v] \in fit THEN <<v>> ELSE << >>

JsonAll(writers, readers, inner, docs, fit) ==
  \A type \in TypeNames : JsonSound(writers[type], readers[type], inner[type], docs, fit)

\* All of several values are read if each of them is.
LEMMA TogetherForms ==
  ASSUME NEW x, x = [i \in DOMAIN x |-> x[i]], NEW good, NEW results, DOMAIN results = DOMAIN x,
         \A i \in DOMAIN x : results[i] = IF i \in good THEN <<x[i]>> ELSE << >>
  PROVE  Together(results) = IF \A i \in DOMAIN x : i \in good THEN <<x>> ELSE << >>
<1>1. CASE \A i \in DOMAIN x : i \in good
  <2>1. \A i \in DOMAIN x : results[i] = <<x[i]>>
    BY <1>1
  <2>2. \A i \in DOMAIN x : results[i] # << >> /\ results[i][1] = x[i]
    BY <2>1
  <2>3. [i \in DOMAIN results |-> results[i][1]] = x
    BY <2>2
  <2>4. Together(results) = <<x>>
    BY <2>2, <2>3, Zenon DEF Together
  <2> QED  BY <1>1, <2>4
<1>2. CASE ~ \A i \in DOMAIN x : i \in good
  <2>1. \E i \in DOMAIN results : results[i] = << >>
    BY <1>2
  <2>2. Together(results) = << >>
    BY <2>1, Zenon DEF Together
  <2> QED  BY <1>2, <2>2
<1> QED  BY <1>1, <1>2

\* Each place once.
Order(p, n) ==
  /\ p \in [1 .. n -> 1 .. n]
  /\ \A i \in 1 .. n : \E j \in 1 .. n : \A k \in 1 .. n : p[k] = i <=> k = j

\* The entries of a struct, and in another order.
EntriesOf(parts, v, writers) ==
  [i \in DOMAIN parts |-> Entry(parts[i].name, writers[parts[i].type][v[parts[i].name]])]

Rearranged(entries, p) == [j \in DOMAIN entries |-> entries[p[j]]]

\* The entries of the parts with what is written, in this order.
EntriesAre(entries, parts, written, p, n) ==
  /\ DOMAIN entries = 1 .. n
  /\ \A j \in 1 .. n : entries[j].key = parts[p[j]].name /\ entries[j].doc = written[p[j]]

\* The entry of a field is found wherever it is.
LEMMA FieldFound ==
  ASSUME NEW parts, NEW n, PartsFit(parts, n), NEW p, Order(p, n), NEW written, NEW entries,
         EntriesAre(entries, parts, written, p, n), NEW i \in 1 .. n, NEW readers
  PROVE  FieldFromJson(parts[i], entries, readers) = readers[parts[i].type][written[i]]
<1> DEFINE found == {j \in DOMAIN entries : entries[j].key = parts[i].name}
<1>1. PICK j \in 1 .. n : \A k \in 1 .. n : p[k] = i <=> k = j
  BY DEF Order
<1>2. \A k \in 1 .. n : p[k] \in 1 .. n
  BY DEF Order
<1>3. DOMAIN parts = 1 .. n /\ Distinct(parts)
  BY DEF PartsFit
<1>4. \A k \in 1 .. n : entries[k].key = parts[i].name <=> k = j
  BY <1>1, <1>2, <1>3 DEF Distinct, EntriesAre
<1>5. found = {j}
  BY <1>4 DEF EntriesAre
<1>6. p[j] = i
  BY <1>1
<1>7. FieldFromJson(parts[i], entries, readers)
        = IF found = {} /\ Types[parts[i].type].kind = "option" THEN <<<< >>>>
          ELSE IF \E k \in found : found = {k}
          THEN readers[parts[i].type][entries[CHOOSE k \in found : TRUE].doc] ELSE << >>
  BY DEF FieldFromJson
<1> HIDE DEF found
<1>8. (CHOOSE k \in found : TRUE) = j /\ found # {} /\ \E k \in found : found = {k}
  BY <1>5
<1>9. FieldFromJson(parts[i], entries, readers) = readers[parts[i].type][entries[j].doc]
  BY <1>7, <1>8
<1> QED  BY <1>6, <1>9 DEF EntriesAre

LEMMA ItemOf ==
  ASSUME NEW set, NEW s \in Seq(set), NEW i \in DOMAIN s
  PROVE  s[i] \in set
  OBVIOUS

LEMMA EntryForms ==
  \A k, d : /\ Entry(k, d).key = k /\ Entry(k, d).doc = d
            /\ \A docs : Entry(k, d) \in [key : PartNames, doc : docs] <=> k \in PartNames /\ d \in docs
  BY DEF Entry

\* A struct is read whatever the order of its entries is.
LEMMA EntriesRead ==
  ASSUME NEW parts, NEW n, PartsFit(parts, n), \A i \in 1 .. n : parts[i].name \in PartNames,
         NEW inner, NEW values, StructOf(values, parts, inner), NEW writers, NEW readers, NEW docs, NEW fit,
         JsonAll(writers, readers, inner, docs, fit), NEW v \in values, NEW p, Order(p, n)
  PROVE  LET m == [map |-> Rearranged(EntriesOf(parts, v, writers), p)]
         IN  /\ m \in All(docs)
             /\ FromJson(Struct(parts), m, readers) = IF m \in Fitting(fit) THEN <<v>> ELSE << >>
<1> DEFINE written == [i \in 1 .. n |-> writers[parts[i].type][v[parts[i].name]]]
           x == FieldsOf(parts, v)
           good == {i \in 1 .. n : written[i] \in fit}
           entries == Rearranged(EntriesOf(parts, v, writers), p)
           m == [map |-> entries]
<1>1. n \in Nat /\ DOMAIN parts = 1 .. n /\ Distinct(parts) /\ \A i \in 1 .. n : parts[i].type \in TypeNames
  BY DEF PartsFit
<1>2. x = [i \in 1 .. n |-> v[parts[i].name]]
  BY <1>1 DEF FieldsOf
<1>3. RecordOf(parts, x) = v
  BY <1>1, StructRows
<1>4. \A i \in 1 .. n : p[i] \in 1 .. n
  BY DEF Order
<1>5. /\ DOMAIN entries = 1 .. n /\ entries = [j \in 1 .. n |-> entries[j]]
      /\ \A j \in 1 .. n : entries[j] = Entry(parts[p[j]].name, written[p[j]])
  BY <1>1, <1>4 DEF Rearranged, EntriesOf
<1>6. m.map = entries /\ Is(m, "map")
  BY DEF Is
<1>7. ASSUME NEW i \in 1 .. n
      PROVE  /\ written[i] \in docs
             /\ readers[parts[i].type][written[i]] = IF i \in good THEN <<x[i]>> ELSE << >>
  <2>1. v[parts[i].name] \in inner[parts[i].type]
    BY <1>1 DEF StructOf
  <2>2. JsonSound(writers[parts[i].type], readers[parts[i].type], inner[parts[i].type], docs, fit)
    BY <1>1 DEF JsonAll
  <2>3. written[i] = writers[parts[i].type][v[parts[i].name]] /\ x[i] = v[parts[i].name]
    BY <1>2
  <2> HIDE DEF written, x
  <2>4. i \in good <=> written[i] \in fit
    OBVIOUS
  <2> QED  BY <2>1, <2>2, <2>3, <2>4 DEF JsonSound
<1>9. \A i \in 1 .. n : \E j \in 1 .. n : p[j] = i
  BY DEF Order
<1>10. \A i : i \in good <=> i \in 1 .. n /\ written[i] \in fit
  OBVIOUS
<1> HIDE DEF written, entries, good, x
<1>8. ASSUME NEW j \in 1 .. n
      PROVE  /\ entries[j].key = parts[p[j]].name /\ entries[j].doc = written[p[j]]
             /\ \A set : entries[j] \in [key : PartNames, doc : set] <=> written[p[j]] \in set
  <2> DEFINE k == parts[p[j]].name
             d == written[p[j]]
  <2>1. entries[j] = Entry(k, d) /\ k \in PartNames
    BY <1>4, <1>5
  <2> HIDE DEF k, d
  <2>2. /\ entries[j].key = k /\ entries[j].doc = d
        /\ \A set : entries[j] \in [key : PartNames, doc : set] <=> d \in set
    BY <2>1, EntryForms
  <2> QED  BY <2>2 DEF k, d
<1> HIDE DEF m
<1>11. m \in All(docs)
  <2>0. \A j \in 1 .. n : entries[j] \in [key : PartNames, doc : docs]
    BY <1>4, <1>7, <1>8
  <2>1. entries \in [1 .. n -> [key : PartNames, doc : docs]]
    BY <1>5, <2>0
  <2>2. entries \in Seq([key : PartNames, doc : docs])
    BY <1>1, <2>1, MadeSequence
  <2> QED  BY <2>2, DocumentForms DEF All, m
<1>12. m \in Fitting(fit) <=> \A i \in 1 .. n : i \in good
  <2>1. m \in Fitting(fit) <=> entries \in Seq([key : PartNames, doc : fit])
    BY DocumentForms DEF Fitting, m
  <2>2. ASSUME \A i \in 1 .. n : i \in good PROVE entries \in Seq([key : PartNames, doc : fit])
    <3>1. \A j \in 1 .. n : entries[j] \in [key : PartNames, doc : fit]
      <4>1. \A j \in 1 .. n : written[p[j]] \in fit
        BY <1>4, <1>10, <2>2
      <4> QED  BY <1>8, <4>1
    <3>2. entries \in [1 .. n -> [key : PartNames, doc : fit]]
      BY <1>5, <3>1
    <3> QED  BY <1>1, <3>2, MadeSequence
  <2>3. ASSUME entries \in Seq([key : PartNames, doc : fit]) PROVE \A i \in 1 .. n : i \in good
    <3>1. \A j \in 1 .. n : entries[j] \in [key : PartNames, doc : fit]
      <4> DEFINE set == [key : PartNames, doc : fit]
      <4>1. entries \in Seq(set) /\ DOMAIN entries = 1 .. n
        BY <1>5, <2>3
      <4> HIDE DEF set
      <4>2. \A j \in 1 .. n : entries[j] \in set
        BY <4>1, ItemOf
      <4> QED  BY <4>2 DEF set
    <3>2. \A j \in 1 .. n : written[p[j]] \in fit
      BY <1>8, <3>1
    <3> QED  BY <1>9, <1>10, <3>2
  <2> QED  BY <2>1, <2>2, <2>3
<1> DEFINE results == [i \in DOMAIN parts |-> FieldFromJson(parts[i], entries, readers)]
<1>13. DOMAIN results = 1 .. n /\ \A i \in 1 .. n : results[i] = IF i \in good THEN <<x[i]>> ELSE << >>
  <2>1. \A i \in 1 .. n : FieldFromJson(parts[i], entries, readers) = readers[parts[i].type][written[i]]
    <3>1. EntriesAre(entries, parts, written, p, n)
      BY <1>5, <1>8 DEF EntriesAre
    <3>3. ASSUME NEW i \in 1 .. n
          PROVE  FieldFromJson(parts[i], entries, readers) = readers[parts[i].type][written[i]]
      BY <3>1, FieldFound
    <3> QED  BY <3>3
  <2> QED  BY <1>1, <1>7, <2>1
<1>14. StructFromJson(parts, entries, readers)
         = IF Together(results) = << >> THEN << >> ELSE <<RecordOf(parts, Together(results)[1])>>
  BY DEF StructFromJson
<1> HIDE DEF results
<1>15. Together(results) = IF \A i \in 1 .. n : i \in good THEN <<x>> ELSE << >>
  <2>1. DOMAIN x = 1 .. n /\ x = [i \in DOMAIN x |-> x[i]]
    BY <1>2
  <2>2. DOMAIN results = DOMAIN x /\ \A i \in DOMAIN x : results[i] = IF i \in good THEN <<x[i]>> ELSE << >>
    BY <1>13, <2>1
  <2>3. Together(results) = IF \A i \in DOMAIN x : i \in good THEN <<x>> ELSE << >>
    BY <2>1, <2>2, TogetherForms
  <2> QED  BY <2>1, <2>3
<1>16. StructFromJson(parts, entries, readers) = IF \A i \in 1 .. n : i \in good THEN <<v>> ELSE << >>
  <2>1. CASE \A i \in 1 .. n : i \in good
    <3>1. Together(results) # << >> /\ Together(results)[1] = x
      BY <1>15, <2>1
    <3> QED  BY <1>3, <1>14, <2>1, <3>1
  <2>2. CASE ~ \A i \in 1 .. n : i \in good
    BY <1>14, <1>15, <2>2
  <2> QED  BY <2>1, <2>2
<1>17. FromJson(Struct(parts), m, readers) = StructFromJson(parts, entries, readers)
  <2>1. Struct(parts).kind = "struct" /\ Struct(parts).parts = parts
    BY DEF Struct
  <2> QED  BY <1>6, <2>1 DEF FromJson
<1> QED  BY <1>11, <1>12, <1>16, <1>17 DEF entries, m

\* The order of the declaration, and the other way round.
LEMMA OrdersAre ==
  ASSUME NEW n \in Nat, NEW entries, DOMAIN entries = 1 .. n, Len(entries) = n,
         entries = [i \in 1 .. n |-> entries[i]]
  PROVE  /\ \E p : Order(p, n) /\ entries = Rearranged(entries, p)
         /\ \E p : Order(p, n) /\ Reverse(entries) = Rearranged(entries, p)
<1>1. \E p : Order(p, n) /\ entries = Rearranged(entries, p)
  <2> DEFINE p == [i \in 1 .. n |-> i]
  <2>1. Order(p, n)
    BY DEF Order
  <2>2. entries = Rearranged(entries, p)
    BY DEF Rearranged
  <2> QED  BY <2>1, <2>2
<1>2. \E p : Order(p, n) /\ Reverse(entries) = Rearranged(entries, p)
  <2> DEFINE p == [i \in 1 .. n |-> (n - i) + 1]
  <2>1. Order(p, n)
    <3>1. \A i \in 1 .. n : (n - i) + 1 \in 1 .. n
      OBVIOUS
    <3>2. p \in [1 .. n -> 1 .. n]
      BY <3>1
    <3>3. ASSUME NEW i \in 1 .. n
          PROVE  \E j \in 1 .. n : \A k \in 1 .. n : p[k] = i <=> k = j
      <4>1. \A k \in 1 .. n : p[k] = i <=> k = (n - i) + 1
        OBVIOUS
      <4> QED  BY <3>1, <4>1
    <3> QED  BY <3>2, <3>3 DEF Order
  <2>2. Reverse(entries) = Rearranged(entries, p)
    <3>1. Reverse(entries) = [i \in 1 .. n |-> entries[(n - i) + 1]]
      BY DEF Reverse
    <3>2. Rearranged(entries, p) = [i \in 1 .. n |-> entries[p[i]]]
      BY DEF Rearranged
    <3> QED  BY <3>1, <3>2
  <2> QED  BY <2>1, <2>2
<1> QED  BY <1>1, <1>2

\* The names of the parts of a type are names of parts.
LEMMA NamesArePartNames ==
  ASSUME NEW type \in TypeNames, NEW parts, NEW n, PartsFit(parts, n), Types[type].parts = parts,
         NEW i \in 1 .. n
  PROVE  parts[i].name \in PartNames
<1>1. i \in DOMAIN Types[type].parts
  BY DEF PartsFit
<1>2. parts[i].name \in {Types[type].parts[k].name : k \in DOMAIN Types[type].parts}
  BY <1>1
<1> QED  BY <1>2 DEF PartNames

LEMMA StructJson ==
  ASSUME NEW parts, NEW n, PartsFit(parts, n), \A i \in 1 .. n : parts[i].name \in PartNames,
         NEW inner, NEW values, StructOf(values, parts, inner), NEW writers, NEW readers, NEW forms,
         NEW docs, NEW fit, JsonAll(writers, readers, inner, docs, fit)
  PROVE  JsonType(Struct(parts), values, writers, readers, forms, All(docs), Fitting(fit))
<1>1. ASSUME NEW v \in values
      PROVE  /\ ToJson(Struct(parts), v, writers, forms) \in All(docs)
             /\ FromJson(Struct(parts), ToJson(Struct(parts), v, writers, forms), readers)
                  = IF ToJson(Struct(parts), v, writers, forms) \in Fitting(fit) THEN <<v>> ELSE << >>
  <2> DEFINE entries == EntriesOf(parts, v, writers)
  <2>1. Struct(parts).kind = "struct" /\ Struct(parts).parts = parts
    BY DEF Struct
  <2>2. ToJson(Struct(parts), v, writers, forms) = [map |-> entries]
    BY <2>1 DEF ToJson, EntriesOf
  <2>3. n \in Nat /\ DOMAIN entries = 1 .. n /\ entries = [i \in 1 .. n |-> entries[i]]
    BY DEF PartsFit, EntriesOf
  <2> HIDE DEF entries
  <2>4. Len(entries) = n
    <3> DEFINE set == {entries[i] : i \in 1 .. n}
    <3>1. entries \in [1 .. n -> set]
      BY <2>3
    <3> HIDE DEF set
    <3> QED  BY <2>3, <3>1, MadeSequence
  <2>5. PICK p : Order(p, n) /\ entries = Rearranged(entries, p)
    BY <2>3, <2>4, OrdersAre
  <2> DEFINE m == [map |-> Rearranged(entries, p)]
  <2>6. m \in All(docs) /\ FromJson(Struct(parts), m, readers) = IF m \in Fitting(fit) THEN <<v>> ELSE << >>
    BY <2>5, EntriesRead DEF entries
  <2>7. ToJson(Struct(parts), v, writers, forms) = m
    BY <2>2, <2>5
  <2> HIDE DEF m
  <2> QED  BY <2>6, <2>7
<1> QED  BY <1>1 DEF JsonType

LEMMA EnumJson ==
  ASSUME NEW parts, NEW n, PartsFit(parts, n), \A i \in 1 .. n : parts[i].name \in PartNames,
         NEW inner, inner["Unit"] \subseteq {NoFields}, NEW values, EnumOf(values, parts, inner),
         NEW writers, NEW readers, NEW forms, NEW docs, NEW fit,
         JsonAll(writers, readers, inner, docs, fit)
  PROVE  JsonType(Enum(parts), values, writers, readers, forms, All(docs), Fitting(fit))
<1> DEFINE t == Enum(parts)
<1>1. t.kind = "enum" /\ t.parts = parts
  BY DEF Enum
<1> HIDE DEF t
<1>2. /\ n \in Nat /\ DOMAIN parts = 1 .. n /\ Distinct(parts)
      /\ \A i \in 1 .. n : parts[i] = Part(parts[i].name, parts[i].type) /\ parts[i].type \in TypeNames
  BY DEF PartsFit
<1>3. \A doc : FromJson(t, doc, readers) = EnumFromJson(parts, doc, readers)
  BY <1>1 DEF FromJson
<1>4. ASSUME NEW v, NEW i \in 1 .. n, NEW y \in inner[parts[i].type],
             v = [variant |-> parts[i].name, value |-> y]
      PROVE  \E m : /\ ToJson(t, v, writers, forms) = m /\ m \in All(docs)
                    /\ FromJson(t, m, readers) = IF m \in Fitting(fit) THEN <<v>> ELSE << >>
  <2> DEFINE w == writers[parts[i].type][y]
             name == parts[i].name
             word == [word |-> name]
             entry == Entry(name, w)
             map == [map |-> <<entry>>]
  <2>1. v.variant = name /\ v.value = y /\ IndexOf(parts, name) = i
    BY <1>2, <1>4, IndexOfPart
  <2>2. ToJson(t, v, writers, forms) = IF parts[i].type = "Unit" THEN word ELSE map
    BY <1>1, <2>1 DEF ToJson
  <2>3. CASE parts[i].type = "Unit"
    <3>1. y = NoFields
      BY <2>3
    <3>2. word \in All(docs) /\ word \in Fitting(fit)
      BY ScalarsOver DEF All, Fitting
    <3>3. Is(word, "word") /\ word.word = name
      BY DEF Is
    <3>4. parts[i] = Part(name, "Unit") /\ i \in DOMAIN parts
      BY <1>2, <2>3
    <3> HIDE DEF word
    <3>5. EnumFromJson(parts, word, readers) = <<[variant |-> name, value |-> NoFields]>>
      BY <3>3, <3>4, Zenon DEF EnumFromJson
    <3>6. EnumFromJson(parts, word, readers) = <<v>>
      BY <1>4, <3>1, <3>5
    <3> QED  BY <1>3, <2>2, <2>3, <3>2, <3>6
  <2>4. CASE parts[i].type # "Unit"
    <3>1. JsonSound(writers[parts[i].type], readers[parts[i].type], inner[parts[i].type], docs, fit)
      BY <1>2 DEF JsonAll
    <3>2. w \in docs /\ readers[parts[i].type][w] = IF w \in fit THEN <<y>> ELSE << >>
      BY <3>1 DEF JsonSound
    <3>3. ~Is(map, "word") /\ Is(map, "map") /\ map.map = <<entry>>
      BY DEF Is
    <3>4. entry.key = name /\ entry.doc = w /\ name \in PartNames
          /\ \A set : entry \in [key : PartNames, doc : set] <=> w \in set
      BY EntryForms
    <3> HIDE DEF w, name, entry
    <3>5. map \in All(docs) /\ (map \in Fitting(fit) <=> w \in fit)
      <4>1. \A set : <<entry>> \in Seq([key : PartNames, doc : set]) <=> w \in set
        <5> TAKE set
        <5> DEFINE all == [key : PartNames, doc : set]
        <5>1. entry \in all <=> w \in set
          BY <3>4
        <5> HIDE DEF all
        <5>2. <<entry>> \in Seq(all) <=> entry \in all
          OBVIOUS
        <5> QED  BY <5>1, <5>2 DEF all
      <4> QED  BY <3>2, <4>1, DocumentForms DEF All, Fitting
    <3>6. Len(map.map) = 1 /\ map.map[1] = entry
      BY <3>3
    <3> HIDE DEF map
    <3>7. parts[i].name = name /\ i \in DOMAIN parts
      BY <1>2 DEF name
    <3>8. EnumFromJson(parts, map, readers) = VariantFromJson(parts[i], readers[parts[i].type][w])
      <4>1. map.map[1].key = name /\ map.map[1].doc = w
        BY <3>4, <3>6
      <4>2. \E k \in DOMAIN parts : parts[k].name = map.map[1].key
        BY <3>7, <4>1
      <4>3. EnumFromJson(parts, map, readers)
              = LET part == parts[IndexOf(parts, map.map[1].key)]
                IN VariantFromJson(part, readers[part.type][map.map[1].doc])
        BY <3>3, <3>6, <4>2, Zenon DEF EnumFromJson
      <4> QED  BY <2>1, <4>1, <4>3
    <3>9. VariantFromJson(parts[i], readers[parts[i].type][w]) = IF w \in fit THEN <<v>> ELSE << >>
      <4>1. CASE w \in fit
        <5>1. readers[parts[i].type][w] = <<y>>
          BY <3>2, <4>1
        <5>2. VariantFromJson(parts[i], <<y>>) = <<v>>
          BY <1>4, <3>7 DEF VariantFromJson
        <5> QED  BY <4>1, <5>1, <5>2
      <4>2. CASE w \notin fit
        <5>1. readers[parts[i].type][w] = << >>
          BY <3>2, <4>2
        <5>2. VariantFromJson(parts[i], << >>) = << >>
          BY DEF VariantFromJson
        <5> QED  BY <4>2, <5>1, <5>2
      <4> QED  BY <4>1, <4>2
    <3> QED  BY <1>3, <2>2, <2>4, <3>5, <3>8, <3>9
  <2> QED  BY <2>3, <2>4
<1>5. \A v \in values : \E i \in 1 .. n : \E y \in inner[parts[i].type] :
        v = [variant |-> parts[i].name, value |-> y]
  BY <1>2 DEF EnumOf
<1>6. \A v \in values : \E m :
        /\ ToJson(t, v, writers, forms) = m /\ m \in All(docs)
        /\ FromJson(t, m, readers) = IF m \in Fitting(fit) THEN <<v>> ELSE << >>
  BY <1>4, <1>5
<1>7. JsonType(t, values, writers, readers, forms, All(docs), Fitting(fit))
  BY <1>6 DEF JsonType
<1> QED  BY <1>7 DEF t

LEMMA ListJson ==
  ASSUME NEW type, NEW inner, NEW writers, NEW readers, NEW forms, NEW docs, NEW fit,
         JsonSound(writers[type], readers[type], inner[type], docs, fit)
  PROVE  JsonType(List(type), Short(inner[type]), writers, readers, forms, All(docs), Fitting(fit))
<1> DEFINE t == List(type)
           values == Short(inner[type])
<1>1. t.kind = "list" /\ t.parts[1].type = type
  BY DEF List, Part
<1> HIDE DEF t
<1>2. ASSUME NEW v \in values
      PROVE  \E m : /\ ToJson(t, v, writers, forms) = m /\ m \in All(docs)
                    /\ FromJson(t, m, readers) = IF m \in Fitting(fit) THEN <<v>> ELSE << >>
  <2> DEFINE n == Len(v)
             s == [i \in DOMAIN v |-> writers[type][v[i]]]
             m == [array |-> s]
             good == {i \in DOMAIN v : s[i] \in fit}
             results == [i \in DOMAIN s |-> readers[type][s[i]]]
  <2>1. v \in Seq(inner[type]) /\ n \in Nat /\ DOMAIN v = 1 .. n
        /\ v = [i \in DOMAIN v |-> v[i]] /\ \A i \in DOMAIN v : v[i] \in inner[type]
    BY DEF Short
  <2>2. ToJson(t, v, writers, forms) = m
    BY <1>1 DEF ToJson
  <2>3. Is(m, "array") /\ m.array = s
    BY DEF Is
  <2>4. DOMAIN s = 1 .. n /\ s = [i \in 1 .. n |-> s[i]] /\ \A i \in 1 .. n : s[i] = writers[type][v[i]]
    BY <2>1
  <2>5. DOMAIN results = DOMAIN s /\ \A i \in DOMAIN s : results[i] = readers[type][s[i]]
    OBVIOUS
  <2>6. \A i : i \in good <=> i \in DOMAIN v /\ s[i] \in fit
    OBVIOUS
  <2>7. FromJson(t, m, readers) = Together(results)
    BY <1>1, <2>3 DEF FromJson
  <2> HIDE DEF s, n, good, results
  <2>8. \A i \in 1 .. n : s[i] \in docs /\ readers[type][s[i]] = IF s[i] \in fit THEN <<v[i]>> ELSE << >>
    BY <2>1, <2>4 DEF JsonSound
  <2>9. m \in All(docs)
    <3>1. s \in [1 .. n -> docs]
      BY <2>4, <2>8
    <3>2. s \in Seq(docs)
      BY <2>1, <3>1, MadeSequence
    <3> QED  BY <3>2, DocumentForms DEF All
  <2>10. m \in Fitting(fit) <=> \A i \in DOMAIN v : i \in good
    <3>1. m \in Fitting(fit) <=> s \in Seq(fit)
      BY DocumentForms DEF Fitting
    <3>2. ASSUME \A i \in DOMAIN v : i \in good PROVE s \in Seq(fit)
      <4>1. s \in [1 .. n -> fit]
        BY <2>1, <2>4, <2>6, <3>2
      <4> QED  BY <2>1, <4>1, MadeSequence
    <3>3. ASSUME s \in Seq(fit) PROVE \A i \in DOMAIN v : i \in good
      BY <2>1, <2>4, <2>6, <3>3, ItemOf
    <3> QED  BY <3>1, <3>2, <3>3
  <2>11. DOMAIN results = DOMAIN v /\ \A i \in DOMAIN v : results[i] = IF i \in good THEN <<v[i]>> ELSE << >>
    BY <2>1, <2>4, <2>5, <2>6, <2>8
  <2>12. Together(results) = IF \A i \in DOMAIN v : i \in good THEN <<v>> ELSE << >>
    BY <2>1, <2>11, TogetherForms
  <2> HIDE DEF m
  <2>13. FromJson(t, m, readers) = IF m \in Fitting(fit) THEN <<v>> ELSE << >>
    BY <2>7, <2>10, <2>12
  <2> QED  BY <2>2, <2>9, <2>13
<1> HIDE DEF values
<1>3. JsonType(t, values, writers, readers, forms, All(docs), Fitting(fit))
  BY <1>2 DEF JsonType
<1> QED  BY <1>3 DEF t, values

\* Documents in documents are documents, and fit if they did.
DocumentsFit(docs, fit) ==
  /\ Scalars(Nat) \subseteq docs /\ Scalars(0 .. MaxU64) \subseteq fit
  /\ \A m \in docs : m \in All(docs) /\ (m \in fit <=> m \in Fitting(fit))

\* None is null: its type must not write null itself.
LEMMA OptionJson ==
  ASSUME NEW type, NEW inner, NEW writers, NEW readers, NEW forms, NEW docs, NEW fit,
         JsonSound(writers[type], readers[type], inner[type], docs, fit), DocumentsFit(docs, fit),
         \A y \in inner[type] : ~Is(writers[type][y], "null")
  PROVE  JsonType(Option(type), Items(inner[type], 1), writers, readers, forms, All(docs), Fitting(fit))
<1> DEFINE t == Option(type)
           values == Items(inner[type], 1)
<1>1. t.kind = "option" /\ t.parts[1].type = type
  BY DEF Option, Part
<1> HIDE DEF t
<1>2. /\ \A v : ToJson(t, v, writers, forms) = IF v = << >> THEN [null |-> 0] ELSE writers[type][v[1]]
      /\ \A m : FromJson(t, m, readers)
                  = IF Is(m, "null") THEN <<<< >>>>
                    ELSE IF readers[type][m] = << >> THEN << >> ELSE <<readers[type][m]>>
  BY <1>1 DEF ToJson, FromJson
<1>3. \A v \in values : v = << >> \/ \E y \in inner[type] : v = <<y>>
  <2>1. ASSUME NEW v \in values, v # << >> PROVE \E y \in inner[type] : v = <<y>>
    <3>0. v \in Seq(inner[type]) /\ Len(v) \in Nat /\ Len(v) <= 1
      BY DEF Items
    <3> HIDE DEF values
    <3>1. v \in Seq(inner[type]) /\ Len(v) = 1
      <4> DEFINE n == Len(v)
      <4>1. n # 0 /\ n \in Nat /\ n <= 1
        BY <2>1, <3>0, EmptySeq
      <4> HIDE DEF n
      <4>2. n = 1
        BY <4>1
      <4> QED  BY <3>0, <4>2 DEF n
    <3>2. v[1] \in inner[type] /\ v = <<v[1]>>
      BY <3>1
    <3> QED  BY <3>2
  <2> QED  BY <2>1
<1> HIDE DEF values
<1>4. ASSUME NEW v \in values
      PROVE  \E m : /\ ToJson(t, v, writers, forms) = m /\ m \in All(docs)
                    /\ FromJson(t, m, readers) = IF m \in Fitting(fit) THEN <<v>> ELSE << >>
  <2>1. CASE v = << >>
    <3> DEFINE m == [null |-> 0]
    <3>1. ToJson(t, v, writers, forms) = m
      BY <1>2, <2>1
    <3>2. m \in All(docs) /\ m \in Fitting(fit)
      BY ScalarsOver DEF All, Fitting
    <3>3. Is(m, "null")
      BY DEF Is
    <3> HIDE DEF m
    <3> QED  BY <1>2, <2>1, <3>1, <3>2, <3>3
  <2>2. ASSUME NEW y \in inner[type], v = <<y>>
        PROVE  \E m : /\ ToJson(t, v, writers, forms) = m /\ m \in All(docs)
                      /\ FromJson(t, m, readers) = IF m \in Fitting(fit) THEN <<v>> ELSE << >>
    <3> DEFINE m == writers[type][y]
    <3>1. v # << >> /\ v[1] = y
      BY <2>2
    <3>2. ToJson(t, v, writers, forms) = m
      BY <1>2, <3>1
    <3>3. m \in docs /\ readers[type][m] = IF m \in fit THEN <<y>> ELSE << >>
      BY DEF JsonSound
    <3>4. ~Is(m, "null")
      OBVIOUS
    <3> HIDE DEF m
    <3>5. m \in All(docs) /\ (m \in fit <=> m \in Fitting(fit))
      BY <3>3 DEF DocumentsFit
    <3>6. FromJson(t, m, readers) = IF readers[type][m] = << >> THEN << >> ELSE <<readers[type][m]>>
      BY <1>2, <3>4
    <3>7. FromJson(t, m, readers) = IF m \in Fitting(fit) THEN <<v>> ELSE << >>
      BY <2>2, <3>3, <3>5, <3>6
    <3> QED  BY <3>2, <3>5, <3>7
  <2> QED  BY <1>3, <2>1, <2>2
<1>5. JsonType(t, values, writers, readers, forms, All(docs), Fitting(fit))
  BY <1>4 DEF JsonType
<1> QED  BY <1>5 DEF t, values

\* What the types inside a type need of their writers and readers.
Inside(writers, readers, inner, docs, fit) ==
  /\ JsonAll(writers, readers, inner, docs, fit)
  /\ inner["Unit"] \subseteq {NoFields}
  /\ \A y \in inner["U128"] : ~Is(writers["U128"][y], "null")

LEMMA IsStructJson ==
  ASSUME NEW writers, NEW readers, NEW inner, NEW docs, NEW fit, Inside(writers, readers, inner, docs, fit),
         NEW forms, NEW type \in TypeNames, IsStruct(type, inner)
  PROVE  JsonType(Types[type], ValuesOver(inner)[type], writers, readers, forms, All(docs), Fitting(fit))
<1>1. PICK parts, n : /\ Types[type] = Struct(parts) /\ PartsFit(parts, n)
                      /\ StructOf(ValuesOver(inner)[type], parts, inner)
  BY Zenon DEF IsStruct
<1>2. Struct(parts).parts = parts
  BY DEF Struct
<1>3. \A i \in 1 .. n : parts[i].name \in PartNames
  BY <1>1, <1>2, NamesArePartNames
<1> DEFINE values == ValuesOver(inner)[type]
<1> HIDE DEF values
<1>4. JsonAll(writers, readers, inner, docs, fit)
  BY DEF Inside
<1>5. JsonType(Struct(parts), values, writers, readers, forms, All(docs), Fitting(fit))
  BY <1>1, <1>3, <1>4, StructJson DEF values
<1> QED  BY <1>1, <1>5 DEF values

LEMMA IsEnumJson ==
  ASSUME NEW writers, NEW readers, NEW inner, NEW docs, NEW fit, Inside(writers, readers, inner, docs, fit),
         NEW forms, NEW type \in TypeNames, IsEnum(type, inner)
  PROVE  JsonType(Types[type], ValuesOver(inner)[type], writers, readers, forms, All(docs), Fitting(fit))
<1>1. PICK parts, n : /\ Types[type] = Enum(parts) /\ PartsFit(parts, n)
                      /\ EnumOf(ValuesOver(inner)[type], parts, inner)
  BY Zenon DEF IsEnum
<1>2. Enum(parts).parts = parts
  BY DEF Enum
<1>3. \A i \in 1 .. n : parts[i].name \in PartNames
  BY <1>1, <1>2, NamesArePartNames
<1> DEFINE values == ValuesOver(inner)[type]
<1> HIDE DEF values
<1>4. JsonAll(writers, readers, inner, docs, fit) /\ inner["Unit"] \subseteq {NoFields}
  BY DEF Inside
<1>5. JsonType(Enum(parts), values, writers, readers, forms, All(docs), Fitting(fit))
  BY <1>1, <1>3, <1>4, EnumJson DEF values
<1> QED  BY <1>1, <1>5 DEF values

\* Every type is read as it was written if the types inside it are.
LEMMA TypesJson ==
  ASSUME NEW writers, NEW readers, NEW inner, NEW docs, NEW fit, Inside(writers, readers, inner, docs, fit),
         DocumentsFit(docs, fit), NEW forms, NEW type \in TypeNames
  PROVE  JsonType(Types[type], ValuesOver(inner)[type], writers, readers, forms, All(docs), Fitting(fit))
<1> DEFINE ReadAs(t, values) == JsonType(t, values, writers, readers, forms, All(docs), Fitting(fit))
<1>0. /\ Scalars(Nat) \subseteq docs /\ Scalars(0 .. MaxU64) \subseteq fit
      /\ \A name \in TypeNames : JsonSound(writers[name], readers[name], inner[name], docs, fit)
      /\ \A y \in inner["U128"] : ~Is(writers["U128"][y], "null")
  BY DEF DocumentsFit, Inside, JsonAll
<1>1. ReadAs(Types["U64"], ValuesOver(inner)["U64"])
  <2>1. Types["U64"] = Primitive("U64")
    BY DEF Types, U64
  <2>2. ValuesOver(inner)["U64"] = Byte
    BY DEF ValuesOver
  <2>3. ReadAs(Primitive("U64"), Byte)
    BY U64Json
  <2> QED  BY <2>1, <2>2, <2>3
<1>2. ReadAs(Types["U128"], ValuesOver(inner)["U128"])
  <2>1. Types["U128"] = Primitive("U128")
    BY DEF Types, U128
  <2>2. ValuesOver(inner)["U128"] = 0 .. Radix * Radix - 1
    BY DEF ValuesOver
  <2>3. ReadAs(Primitive("U128"), 0 .. Radix * Radix - 1)
    BY U128Json
  <2> QED  BY <2>1, <2>2, <2>3
<1>3. ReadAs(Types["BlockHash"], ValuesOver(inner)["BlockHash"])
  <2>1. Types["BlockHash"] = Primitive("BlockHash")
    BY DEF Types
  <2>2. ValuesOver(inner)["BlockHash"] = [1 .. HASH_LENGTH -> Byte]
    BY DEF ValuesOver
  <2>3. ReadAs(Primitive("BlockHash"), [1 .. HASH_LENGTH -> Byte])
    BY BlockHashJson
  <2> QED  BY <2>1, <2>2, <2>3
<1>4. ReadAs(Types["PublicKey"], ValuesOver(inner)["PublicKey"])
  <2>1. Types["PublicKey"] = Primitive("PublicKey")
    BY DEF Types
  <2>2. ValuesOver(inner)["PublicKey"] = Keys
    BY DEF ValuesOver, Keys
  <2>3. ReadAs(Primitive("PublicKey"), Keys)
    BY PublicKeyJson
  <2> QED  BY <2>1, <2>2, <2>3
<1>5. ReadAs(Types["Signature"], ValuesOver(inner)["Signature"])
  <2>1. Types["Signature"] = Primitive("Signature")
    BY DEF Types
  <2>2. ValuesOver(inner)["Signature"] = AllSignatures
    BY DEF ValuesOver, AllSignatures
  <2>3. ReadAs(Primitive("Signature"), AllSignatures)
    BY SignatureJson
  <2> QED  BY <2>1, <2>2, <2>3
<1>6. ReadAs(Types["Base64VecU8"], ValuesOver(inner)["Base64VecU8"])
  <2>1. Types["Base64VecU8"] = Primitive("Base64VecU8")
    BY DEF Types
  <2>2. ValuesOver(inner)["Base64VecU8"] = Short(Byte)
    BY DEF ValuesOver
  <2>3. ReadAs(Primitive("Base64VecU8"), Short(Byte))
    BY Base64Json
  <2> QED  BY <2>1, <2>2, <2>3
<1>7. ReadAs(Types["VecU8"], ValuesOver(inner)["VecU8"])
  <2>1. Types["VecU8"] = Primitive("VecU8")
    BY DEF Types
  <2>2. ValuesOver(inner)["VecU8"] = Short(Byte)
    BY DEF ValuesOver
  <2>3. ReadAs(Primitive("VecU8"), Short(Byte))
    BY <1>0, BytesJson
  <2> QED  BY <2>1, <2>2, <2>3
<1>8. ReadAs(Types["String"], ValuesOver(inner)["String"])
  <2>1. Types["String"] = Primitive("String")
    BY DEF Types
  <2>2. ValuesOver(inner)["String"] = Short(Byte)
    BY DEF ValuesOver
  <2>3. ReadAs(Primitive("String"), Short(Byte))
    BY TextJson
  <2> QED  BY <2>1, <2>2, <2>3
<1>9. ReadAs(Types["AccountId"], ValuesOver(inner)["AccountId"])
  <2>1. Types["AccountId"] = Primitive("AccountId")
    BY DEF Types
  <2>2. ValuesOver(inner)["AccountId"] = Short(Byte) \ {<< >>}
    BY DEF ValuesOver
  <2>3. ReadAs(Primitive("AccountId"), Short(Byte) \ {<< >>})
    BY TextJson
  <2> QED  BY <2>1, <2>2, <2>3
<1>10. ReadAs(Types["Unit"], ValuesOver(inner)["Unit"])
  <2>1. Types["Unit"] = Primitive("Unit")
    BY DEF Types
  <2>2. ValuesOver(inner)["Unit"] = {NoFields}
    BY DEF ValuesOver
  <2>3. ReadAs(Primitive("Unit"), {NoFields})
    BY UnitJson
  <2> QED  BY <2>1, <2>2, <2>3
<1>11. ReadAs(Types["OptionU128"], ValuesOver(inner)["OptionU128"])
  <2>1. Types["OptionU128"] = Option("U128")
    BY DEF Types
  <2>2. ValuesOver(inner)["OptionU128"] = Items(inner["U128"], 1)
    BY DEF ValuesOver, Items
  <2>3. JsonSound(writers["U128"], readers["U128"], inner["U128"], docs, fit)
    BY <1>0, TypeNamesAre
  <2>4. ReadAs(Option("U128"), Items(inner["U128"], 1))
    BY <1>0, <2>3, OptionJson
  <2> QED  BY <2>1, <2>2, <2>4
<1>12. ReadAs(Types["VecString"], ValuesOver(inner)["VecString"])
  <2>1. Types["VecString"] = List("String")
    BY DEF Types
  <2>2. ValuesOver(inner)["VecString"] = Short(inner["String"])
    BY DEF ValuesOver
  <2>3. JsonSound(writers["String"], readers["String"], inner["String"], docs, fit)
    BY <1>0, TypeNamesAre
  <2>4. ReadAs(List("String"), Short(inner["String"]))
    BY <1>0, <2>3, ListJson
  <2> QED  BY <2>1, <2>2, <2>4
<1>13. ReadAs(Types["VecAction"], ValuesOver(inner)["VecAction"])
  <2>1. Types["VecAction"] = List("Action")
    BY DEF Types
  <2>2. ValuesOver(inner)["VecAction"] = Short(inner["Action"])
    BY DEF ValuesOver
  <2>3. JsonSound(writers["Action"], readers["Action"], inner["Action"], docs, fit)
    BY <1>0, TypeNamesAre
  <2>4. ReadAs(List("Action"), Short(inner["Action"]))
    BY <1>0, <2>3, ListJson
  <2> QED  BY <2>1, <2>2, <2>4
<1>14. ReadAs(Types["VecNonDelegateAction"], ValuesOver(inner)["VecNonDelegateAction"])
  <2>1. Types["VecNonDelegateAction"] = List("Action")
    BY DEF Types, VecNonDelegateAction
  <2>2. ValuesOver(inner)["VecNonDelegateAction"] = Short(inner["Action"])
    BY DEF ValuesOver
  <2>3. JsonSound(writers["Action"], readers["Action"], inner["Action"], docs, fit)
    BY <1>0, TypeNamesAre
  <2>4. ReadAs(List("Action"), Short(inner["Action"]))
    BY <1>0, <2>3, ListJson
  <2> QED  BY <2>1, <2>2, <2>4
<1>15. type \in StructNames => ReadAs(Types[type], ValuesOver(inner)[type])
  BY StructForms, IsStructJson
<1>16. type \in EnumNames => ReadAs(Types[type], ValuesOver(inner)[type])
  BY EnumForms, IsEnumJson
<1> HIDE DEF ReadAs
<1>17. ReadAs(Types[type], ValuesOver(inner)[type])
  BY TypeNamesAre, <1>1, <1>2, <1>3, <1>4, <1>5, <1>6, <1>7, <1>8, <1>9, <1>10,
     <1>11, <1>12, <1>13, <1>14, <1>15, <1>16 DEF StructNames, EnumNames
<1> QED  BY <1>17 DEF ReadAs

(* Documents, writers and readers, depth by depth: the recursions end.     *)

DocumentRun(f, numbers, n) ==
  f = [d \in 0 .. n |-> IF d = 0 THEN Scalars(numbers) ELSE DocumentsOver(f[d - 1], numbers)]

NoWriters == [type \in TypeNames |-> [v \in {} |-> << >>]]

WritersOver(values, inner, forms) ==
  [type \in TypeNames |-> [v \in values[type] |-> ToJson(Types[type], v, inner, forms)]]

WriterRun(f, forms, n) ==
  f = [d \in 0 .. n |-> IF d = 0 THEN NoWriters ELSE WritersOver(Values[d], f[d - 1], forms)]

NoReaders == [type \in TypeNames |-> [doc \in Documents(Nat) |-> << >>]]

ReadersOver(inner) ==
  [type \in TypeNames |-> [doc \in Documents(Nat) |-> FromJson(Types[type], doc, inner)]]

ReaderRun(f, n) == f = [d \in 0 .. n |-> IF d = 0 THEN NoReaders ELSE ReadersOver(f[d - 1])]

LEMMA DocumentRunExists ==
  ASSUME NEW numbers, NEW n \in Nat
  PROVE  \E f : DocumentRun(f, numbers, n)
<1> DEFINE Reached == {m \in Nat : \E f : DocumentRun(f, numbers, m)}
<1>1. 0 \in Reached
  <2> DEFINE f == [d \in 0 .. 0 |-> Scalars(numbers)]
  <2>1. \A d \in 0 .. 0 : d = 0
    OBVIOUS
  <2>2. f = [d \in 0 .. 0 |-> IF d = 0 THEN Scalars(numbers) ELSE DocumentsOver(f[d - 1], numbers)]
    BY <2>1
  <2> QED  BY <2>2 DEF DocumentRun
<1>2. ASSUME NEW m \in Reached PROVE m + 1 \in Reached
  <2>1. PICK g : DocumentRun(g, numbers, m)
    OBVIOUS
  <2>2. m \in Nat
    OBVIOUS
  <2> DEFINE f == [d \in 0 .. m + 1 |-> IF d = m + 1 THEN DocumentsOver(g[m], numbers) ELSE g[d]]
  <2>3. \A d \in 0 .. m : g[d] = IF d = 0 THEN Scalars(numbers) ELSE DocumentsOver(g[d - 1], numbers)
    BY <2>1, Zenon DEF DocumentRun
  <2>4. \A d \in 0 .. m + 1 : f[d] = IF d = m + 1 THEN DocumentsOver(g[m], numbers) ELSE g[d]
    OBVIOUS
  <2>5. f = [d \in 0 .. m + 1 |-> f[d]]
    OBVIOUS
  <2> HIDE DEF f
  <2>6. \A d \in 0 .. m : f[d] = g[d]
    BY <2>2, <2>4
  <2>7. \A d \in 0 .. m + 1 : f[d] = IF d = 0 THEN Scalars(numbers) ELSE DocumentsOver(f[d - 1], numbers)
    <3> TAKE d \in 0 .. m + 1
    <3>1. CASE d = m + 1
      <4>1. d # 0 /\ d - 1 = m /\ m \in 0 .. m
        BY <2>2, <3>1
      <4>2. f[d] = DocumentsOver(g[m], numbers) /\ f[m] = g[m]
        BY <2>4, <2>6, <3>1, <4>1
      <4> QED  BY <3>1, <4>1, <4>2
    <3>2. CASE d # m + 1
      <4>1. d \in 0 .. m /\ (d # 0 => d - 1 \in 0 .. m)
        BY <2>2, <3>2
      <4>2. f[d] = g[d] /\ (d # 0 => f[d - 1] = g[d - 1])
        BY <2>6, <4>1
      <4> QED  BY <2>3, <4>1, <4>2
    <3> QED  BY <3>1, <3>2
  <2>8. DocumentRun(f, numbers, m + 1)
    BY <2>5, <2>7, Zenon DEF DocumentRun
  <2>9. m + 1 \in Nat
    BY <2>2
  <2> QED  BY <2>8, <2>9
<1>3. Reached \in SUBSET Nat
  OBVIOUS
<1> HIDE DEF Reached
<1>4. Reached = Nat
  BY <1>1, <1>2, <1>3, SetInduction
<1> QED  BY <1>4 DEF Reached

LEMMA DocumentsAre ==
  ASSUME NEW numbers
  PROVE  \E f : DocumentRun(f, numbers, MaxDepth) /\ Documents(numbers) = f[MaxDepth]
<1> DEFINE n == MaxDepth
           F(f) == [d \in 0 .. n |-> IF d = 0 THEN Scalars(numbers) ELSE DocumentsOver(f[d - 1], numbers)]
           f == CHOOSE f : f = F(f)
<1>1. n \in Nat
  BY DepthAssumption
<1>2. \E g : DocumentRun(g, numbers, n)
  BY <1>1, DocumentRunExists
<1>3. f = F(f)
  BY <1>2, Zenon DEF DocumentRun
<1>4. Documents(numbers) = f[n]
  BY Zenon DEF Documents
<1>5. DocumentRun(f, numbers, n)
  BY <1>3, Zenon DEF DocumentRun
<1> QED  BY <1>4, <1>5

LEMMA WriterRunExists ==
  ASSUME NEW forms, NEW n \in Nat
  PROVE  \E f : WriterRun(f, forms, n)
<1> DEFINE Reached == {m \in Nat : \E f : WriterRun(f, forms, m)}
<1>1. 0 \in Reached
  <2> DEFINE f == [d \in 0 .. 0 |-> NoWriters]
  <2>1. \A d \in 0 .. 0 : d = 0
    OBVIOUS
  <2>2. f = [d \in 0 .. 0 |-> IF d = 0 THEN NoWriters ELSE WritersOver(Values[d], f[d - 1], forms)]
    BY <2>1
  <2> QED  BY <2>2 DEF WriterRun
<1>2. ASSUME NEW m \in Reached PROVE m + 1 \in Reached
  <2>1. PICK g : WriterRun(g, forms, m)
    OBVIOUS
  <2>2. m \in Nat
    OBVIOUS
  <2> DEFINE f == [d \in 0 .. m + 1 |-> IF d = m + 1 THEN WritersOver(Values[m + 1], g[m], forms) ELSE g[d]]
  <2>3. \A d \in 0 .. m : g[d] = IF d = 0 THEN NoWriters ELSE WritersOver(Values[d], g[d - 1], forms)
    BY <2>1, Zenon DEF WriterRun
  <2>4. \A d \in 0 .. m + 1 : f[d] = IF d = m + 1 THEN WritersOver(Values[m + 1], g[m], forms) ELSE g[d]
    OBVIOUS
  <2>5. f = [d \in 0 .. m + 1 |-> f[d]]
    OBVIOUS
  <2> HIDE DEF f
  <2>6. \A d \in 0 .. m : f[d] = g[d]
    BY <2>2, <2>4
  <2>7. \A d \in 0 .. m + 1 : f[d] = IF d = 0 THEN NoWriters ELSE WritersOver(Values[d], f[d - 1], forms)
    <3> TAKE d \in 0 .. m + 1
    <3>1. CASE d = m + 1
      <4>1. d # 0 /\ d - 1 = m /\ m \in 0 .. m
        BY <2>2, <3>1
      <4>2. f[d] = WritersOver(Values[m + 1], g[m], forms) /\ f[m] = g[m]
        BY <2>4, <2>6, <3>1, <4>1
      <4> QED  BY <3>1, <4>1, <4>2
    <3>2. CASE d # m + 1
      <4>1. d \in 0 .. m /\ (d # 0 => d - 1 \in 0 .. m)
        BY <2>2, <3>2
      <4>2. f[d] = g[d] /\ (d # 0 => f[d - 1] = g[d - 1])
        BY <2>6, <4>1
      <4> QED  BY <2>3, <4>1, <4>2
    <3> QED  BY <3>1, <3>2
  <2>8. WriterRun(f, forms, m + 1)
    BY <2>5, <2>7, Zenon DEF WriterRun
  <2>9. m + 1 \in Nat
    BY <2>2
  <2> QED  BY <2>8, <2>9
<1>3. Reached \in SUBSET Nat
  OBVIOUS
<1> HIDE DEF Reached
<1>4. Reached = Nat
  BY <1>1, <1>2, <1>3, SetInduction
<1> QED  BY <1>4 DEF Reached

LEMMA JsonWritersAre ==
  ASSUME NEW forms
  PROVE  \E f : WriterRun(f, forms, MaxDepth) /\ JsonWriters(forms) = f[MaxDepth]
<1> DEFINE n == MaxDepth
           F(f) == [d \in 0 .. n |->
                      IF d = 0 THEN [type \in TypeNames |-> [v \in {} |-> << >>]]
                      ELSE [type \in TypeNames |->
                             [v \in Values[d][type] |-> ToJson(Types[type], v, f[d - 1], forms)]]]
           f == CHOOSE f : f = F(f)
<1>1. n \in Nat
  BY DepthAssumption
<1>2. \E g : WriterRun(g, forms, n)
  BY <1>1, WriterRunExists
<1>3. f = F(f)
  BY <1>2, Zenon DEF WriterRun, NoWriters, WritersOver
<1>4. JsonWriters(forms) = f[n]
  BY Zenon DEF JsonWriters
<1>5. WriterRun(f, forms, n)
  BY <1>3, Zenon DEF WriterRun, NoWriters, WritersOver
<1> QED  BY <1>4, <1>5

LEMMA ReaderRunExists ==
  ASSUME NEW n \in Nat
  PROVE  \E f : ReaderRun(f, n)
<1> DEFINE Reached == {m \in Nat : \E f : ReaderRun(f, m)}
<1>1. 0 \in Reached
  <2> DEFINE f == [d \in 0 .. 0 |-> NoReaders]
  <2>1. \A d \in 0 .. 0 : d = 0
    OBVIOUS
  <2>2. f = [d \in 0 .. 0 |-> IF d = 0 THEN NoReaders ELSE ReadersOver(f[d - 1])]
    BY <2>1
  <2> QED  BY <2>2 DEF ReaderRun
<1>2. ASSUME NEW m \in Reached PROVE m + 1 \in Reached
  <2>1. PICK g : ReaderRun(g, m)
    OBVIOUS
  <2>2. m \in Nat
    OBVIOUS
  <2> DEFINE f == [d \in 0 .. m + 1 |-> IF d = m + 1 THEN ReadersOver(g[m]) ELSE g[d]]
  <2>3. \A d \in 0 .. m : g[d] = IF d = 0 THEN NoReaders ELSE ReadersOver(g[d - 1])
    BY <2>1, Zenon DEF ReaderRun
  <2>4. \A d \in 0 .. m + 1 : f[d] = IF d = m + 1 THEN ReadersOver(g[m]) ELSE g[d]
    OBVIOUS
  <2>5. f = [d \in 0 .. m + 1 |-> f[d]]
    OBVIOUS
  <2> HIDE DEF f
  <2>6. \A d \in 0 .. m : f[d] = g[d]
    BY <2>2, <2>4
  <2>7. \A d \in 0 .. m + 1 : f[d] = IF d = 0 THEN NoReaders ELSE ReadersOver(f[d - 1])
    <3> TAKE d \in 0 .. m + 1
    <3>1. CASE d = m + 1
      <4>1. d # 0 /\ d - 1 = m /\ m \in 0 .. m
        BY <2>2, <3>1
      <4>2. f[d] = ReadersOver(g[m]) /\ f[m] = g[m]
        BY <2>4, <2>6, <3>1, <4>1
      <4> QED  BY <3>1, <4>1, <4>2
    <3>2. CASE d # m + 1
      <4>1. d \in 0 .. m /\ (d # 0 => d - 1 \in 0 .. m)
        BY <2>2, <3>2
      <4>2. f[d] = g[d] /\ (d # 0 => f[d - 1] = g[d - 1])
        BY <2>6, <4>1
      <4> QED  BY <2>3, <4>1, <4>2
    <3> QED  BY <3>1, <3>2
  <2>8. ReaderRun(f, m + 1)
    BY <2>5, <2>7, Zenon DEF ReaderRun
  <2>9. m + 1 \in Nat
    BY <2>2
  <2> QED  BY <2>8, <2>9
<1>3. Reached \in SUBSET Nat
  OBVIOUS
<1> HIDE DEF Reached
<1>4. Reached = Nat
  BY <1>1, <1>2, <1>3, SetInduction
<1> QED  BY <1>4 DEF Reached

LEMMA JsonReadersAre ==
  \E f : ReaderRun(f, MaxDepth) /\ JsonReaders = f[MaxDepth]
<1> DEFINE n == MaxDepth
           F(f) == [d \in 0 .. n |->
                      IF d = 0 THEN [type \in TypeNames |-> [doc \in Documents(Nat) |-> << >>]]
                      ELSE [type \in TypeNames |->
                             [doc \in Documents(Nat) |-> FromJson(Types[type], doc, f[d - 1])]]]
           f == CHOOSE f : f = F(f)
<1>1. n \in Nat
  BY DepthAssumption
<1>2. \E g : ReaderRun(g, n)
  BY <1>1, ReaderRunExists
<1>3. f = F(f)
  BY <1>2, Zenon DEF ReaderRun, NoReaders, ReadersOver
<1>4. JsonReaders = f[n]
  BY Zenon DEF JsonReaders
<1>5. ReaderRun(f, n)
  BY <1>3, Zenon DEF ReaderRun, NoReaders, ReadersOver
<1> QED  BY <1>4, <1>5

LEMMA SameSequences ==
  ASSUME NEW A, NEW B, NEW C, \A x \in A : x \in B <=> x \in C, NEW s \in Seq(A)
  PROVE  s \in Seq(B) <=> s \in Seq(C)
<1>1. Len(s) \in Nat /\ DOMAIN s = 1 .. Len(s) /\ s = [i \in 1 .. Len(s) |-> s[i]]
  OBVIOUS
<1>2. \A i \in 1 .. Len(s) : s[i] \in A
  BY <1>1, ItemOf
<1>3. ASSUME NEW D, NEW E, \A x \in A : x \in D => x \in E, s \in Seq(D)
      PROVE  s \in Seq(E)
  <2>1. \A i \in 1 .. Len(s) : s[i] \in D
    BY <1>1, <1>3, ItemOf
  <2>2. \A i \in 1 .. Len(s) : s[i] \in E
    BY <1>2, <1>3, <2>1
  <2>3. s \in [1 .. Len(s) -> E]
    BY <1>1, <2>2
  <2> QED  BY <1>1, <2>3, MadeSequence
<1> QED  BY <1>3

LEMMA ScalarsFit == DocumentsFit(Scalars(Nat), Scalars(0 .. MaxU64))
<1> DEFINE docs == Scalars(Nat)
           fit == Scalars(0 .. MaxU64)
<1>1. ASSUME NEW m \in docs
      PROVE  m \in All(docs) /\ (m \in fit <=> m \in Fitting(fit))
  <2>1. ~Is(m, "array") /\ ~Is(m, "map")
    BY ScalarFields
  <2>2. m \in All(docs)
    BY DocumentForms DEF All
  <2>3. m \in Fitting(fit) <=> m \in fit
    BY <2>1, DocumentForms DEF Fitting
  <2> QED  BY <2>2, <2>3
<1> QED  BY <1>1 DEF DocumentsFit

\* What holds of documents holds of documents in them.
LEMMA DocumentsFitOver ==
  ASSUME NEW docs, NEW fit, DocumentsFit(docs, fit)
  PROVE  DocumentsFit(All(docs), Fitting(fit))
<1>1. /\ Scalars(Nat) \subseteq All(docs) /\ Scalars(0 .. MaxU64) \subseteq Fitting(fit)
  BY DocumentForms DEF All, Fitting
<1>2. \A m \in docs : m \in All(docs) /\ (m \in fit <=> m \in Fitting(fit))
  BY DEF DocumentsFit
<1>3. ASSUME NEW m \in Scalars(Nat)
      PROVE  m \in All(All(docs)) /\ (m \in Fitting(fit) <=> m \in Fitting(Fitting(fit)))
  <2>1. ~Is(m, "array") /\ ~Is(m, "map")
    BY ScalarFields
  <2>2. m \in All(All(docs))
    BY DocumentForms DEF All
  <2>3. m \in Fitting(fit) <=> m \in Scalars(0 .. MaxU64)
    BY <2>1, DocumentForms DEF Fitting
  <2>4. m \in Fitting(Fitting(fit)) <=> m \in Scalars(0 .. MaxU64)
    BY <2>1, DocumentForms DEF Fitting
  <2> QED  BY <2>2, <2>3, <2>4
<1>4. ASSUME NEW s \in Seq(docs)
      PROVE  /\ [array |-> s] \in All(All(docs))
             /\ [array |-> s] \in Fitting(fit) <=> [array |-> s] \in Fitting(Fitting(fit))
  <2>1. s \in Seq(docs) <=> s \in Seq(All(docs))
    BY <1>2, SameSequences
  <2>2. s \in Seq(fit) <=> s \in Seq(Fitting(fit))
    BY <1>2, SameSequences
  <2>3. [array |-> s] \in All(All(docs))
    BY <2>1, DocumentForms DEF All
  <2>4. [array |-> s] \in Fitting(fit) <=> s \in Seq(fit)
    BY DocumentForms DEF Fitting
  <2>5. [array |-> s] \in Fitting(Fitting(fit)) <=> s \in Seq(Fitting(fit))
    BY DocumentForms DEF Fitting
  <2> QED  BY <2>2, <2>3, <2>4, <2>5
<1> DEFINE Entries1(set) == [key : PartNames, doc : set]
<1>5. ASSUME NEW s \in Seq(Entries1(docs))
      PROVE  /\ [map |-> s] \in All(All(docs))
             /\ [map |-> s] \in Fitting(fit) <=> [map |-> s] \in Fitting(Fitting(fit))
  <2>1. s \in Seq(Entries1(docs)) <=> s \in Seq(Entries1(All(docs)))
    <3>1. \A x \in Entries1(docs) : x \in Entries1(docs) <=> x \in Entries1(All(docs))
      BY <1>2
    <3> HIDE DEF Entries1
    <3> QED  BY <3>1, SameSequences
  <2>2. s \in Seq(Entries1(fit)) <=> s \in Seq(Entries1(Fitting(fit)))
    <3>1. \A x \in Entries1(docs) : x \in Entries1(fit) <=> x \in Entries1(Fitting(fit))
      BY <1>2
    <3> HIDE DEF Entries1
    <3> QED  BY <3>1, SameSequences
  <2>3. [map |-> s] \in All(All(docs))
    BY <2>1, DocumentForms DEF All
  <2>4. [map |-> s] \in Fitting(fit) <=> s \in Seq(Entries1(fit))
    BY DocumentForms DEF Fitting
  <2>5. [map |-> s] \in Fitting(Fitting(fit)) <=> s \in Seq(Entries1(Fitting(fit)))
    BY DocumentForms DEF Fitting
  <2> QED  BY <2>2, <2>3, <2>4, <2>5
<1>6. \A m \in All(docs) : \/ m \in Scalars(Nat)
                           \/ \E s \in Seq(docs) : m = [array |-> s]
                           \/ \E s \in Seq(Entries1(docs)) : m = [map |-> s]
  BY DocumentForms DEF All
<1>7. \A m \in All(docs) :
        m \in All(All(docs)) /\ (m \in Fitting(fit) <=> m \in Fitting(Fitting(fit)))
  BY <1>3, <1>4, <1>5, <1>6
<1> QED  BY <1>1, <1>7 DEF DocumentsFit

\* The documents of every depth.
LEMMA DocumentsByDepth ==
  \E all, fit :
    /\ all[0] = Scalars(Nat) /\ fit[0] = Scalars(0 .. MaxU64)
    /\ all[MaxDepth] = Documents(Nat) /\ fit[MaxDepth] = Documents(0 .. MaxU64)
    /\ \A d \in 0 .. MaxDepth : DocumentsFit(all[d], fit[d]) /\ all[d] \subseteq Documents(Nat)
    /\ \A d \in 1 .. MaxDepth : all[d] = All(all[d - 1]) /\ fit[d] = Fitting(fit[d - 1])
<1> DEFINE n == MaxDepth
<1>1. n \in Nat
  BY DepthAssumption
<1>2. PICK all : DocumentRun(all, Nat, n) /\ Documents(Nat) = all[n]
  BY DocumentsAre
<1>3. PICK fit : DocumentRun(fit, 0 .. MaxU64, n) /\ Documents(0 .. MaxU64) = fit[n]
  BY DocumentsAre
<1>4. \A d \in 0 .. n : all[d] = IF d = 0 THEN Scalars(Nat) ELSE DocumentsOver(all[d - 1], Nat)
  BY <1>2, Zenon DEF DocumentRun
<1>5. \A d \in 0 .. n :
        fit[d] = IF d = 0 THEN Scalars(0 .. MaxU64) ELSE DocumentsOver(fit[d - 1], 0 .. MaxU64)
  BY <1>3, Zenon DEF DocumentRun
<1>6. all[0] = Scalars(Nat) /\ fit[0] = Scalars(0 .. MaxU64)
  BY <1>1, <1>4, <1>5
<1>7. \A d \in 1 .. n : d \in 0 .. n /\ d # 0 /\ all[d] = All(all[d - 1]) /\ fit[d] = Fitting(fit[d - 1])
  BY <1>4, <1>5 DEF All, Fitting
<1> DEFINE Holds == {d \in Nat : d <= n => DocumentsFit(all[d], fit[d])}
<1>8. 0 \in Holds
  BY <1>6, ScalarsFit
<1>9. ASSUME NEW d \in Holds PROVE d + 1 \in Holds
  <2> SUFFICES ASSUME d + 1 <= n PROVE DocumentsFit(all[d + 1], fit[d + 1])
    OBVIOUS
  <2>1. d <= n /\ d + 1 \in 1 .. n /\ (d + 1) - 1 = d
    BY <1>1
  <2>2. DocumentsFit(all[d], fit[d])
    BY <2>1
  <2>3. all[d + 1] = All(all[d]) /\ fit[d + 1] = Fitting(fit[d])
    BY <1>7, <2>1
  <2> QED  BY <2>2, <2>3, DocumentsFitOver
<1>10. Holds = Nat
  <2>1. Holds \in SUBSET Nat
    OBVIOUS
  <2> HIDE DEF Holds
  <2> QED  BY <1>8, <1>9, <2>1, SetInduction
<1>11. \A d \in 0 .. n : DocumentsFit(all[d], fit[d])
  <2> TAKE d \in 0 .. n
  <2>1. d \in Nat /\ d <= n
    BY <1>1
  <2> QED  BY <1>10, <2>1 DEF Holds
\* Documents may be deeper than they are.
<1> DEFINE Inner == {k \in Nat : k <= n => all[n - k] \subseteq all[n]}
<1>12. 0 \in Inner
  BY <1>1
<1>13. ASSUME NEW k \in Inner PROVE k + 1 \in Inner
  <2> SUFFICES ASSUME k + 1 <= n PROVE all[n - (k + 1)] \subseteq all[n]
    OBVIOUS
  <2> DEFINE d == n - (k + 1)
  <2>1. d \in 0 .. n /\ d + 1 \in 1 .. n /\ (d + 1) - 1 = d /\ n - k = d + 1 /\ k <= n
    BY <1>1
  <2> HIDE DEF d
  <2>2. all[d + 1] = All(all[d]) /\ DocumentsFit(all[d], fit[d])
    BY <1>7, <1>11, <2>1
  <2>3. all[d] \subseteq all[d + 1]
    BY <2>2 DEF DocumentsFit
  <2>4. all[d + 1] \subseteq all[n]
    BY <2>1
  <2>5. all[d] \subseteq all[n]
    BY <2>3, <2>4
  <2> QED  BY <2>5 DEF d
<1>14. Inner = Nat
  <2>1. Inner \in SUBSET Nat
    OBVIOUS
  <2> HIDE DEF Inner
  <2> QED  BY <1>12, <1>13, <2>1, SetInduction
<1>15. \A d \in 0 .. n : all[d] \subseteq all[n]
  <2> TAKE d \in 0 .. n
  <2>1. n - d \in Nat /\ n - d <= n /\ n - (n - d) = d
    BY <1>1
  <2> QED  BY <1>14, <2>1 DEF Inner
<1> QED  BY <1>2, <1>3, <1>6, <1>7, <1>11, <1>15

LEMMA NumbersAreNotNull ==
  ASSUME NEW y, NEW writers, NEW forms
  PROVE  ~Is(ToJson(Types["U128"], y, writers, forms), "null")
<1>1. Types["U128"].kind = "U128"
  BY DEF Types, U128, Primitive
<1>2. \/ ToJson(Types["U128"], y, writers, forms) = [decimal |-> y]
      \/ ToJson(Types["U128"], y, writers, forms) = [number |-> y]
  BY <1>1 DEF ToJson
<1>3. ~Is([decimal |-> y], "null") /\ ~Is([number |-> y], "null")
  BY DEF Is
<1> QED  BY <1>2, <1>3

\* One level of writers and readers.
LEMMA InsideOver ==
  ASSUME NEW writers, NEW readers, NEW inner, NEW docs, NEW fit,
         Inside(writers, readers, inner, docs, fit), DocumentsFit(docs, fit),
         All(docs) \subseteq Documents(Nat), NEW forms, NEW values, values = ValuesOver(inner)
  PROVE  Inside(WritersOver(values, writers, forms), ReadersOver(readers), values,
                All(docs), Fitting(fit))
<1> DEFINE W == WritersOver(values, writers, forms)
           Rd == ReadersOver(readers)
<1>1. /\ \A type \in TypeNames : \A v \in values[type] : W[type][v] = ToJson(Types[type], v, writers, forms)
      /\ \A type \in TypeNames : \A doc \in Documents(Nat) : Rd[type][doc] = FromJson(Types[type], doc, readers)
  BY DEF WritersOver, ReadersOver
<1>2. values["Unit"] \subseteq {NoFields}
  BY DEF ValuesOver
<1> HIDE DEF W, Rd
<1>3. ASSUME NEW type \in TypeNames
      PROVE  JsonSound(W[type], Rd[type], values[type], All(docs), Fitting(fit))
  <2>1. JsonType(Types[type], values[type], writers, readers, forms, All(docs), Fitting(fit))
    BY TypesJson
  <2>2. ASSUME NEW v \in values[type]
        PROVE  /\ W[type][v] \in All(docs)
               /\ Rd[type][W[type][v]] = IF W[type][v] \in Fitting(fit) THEN <<v>> ELSE << >>
    <3> DEFINE m == ToJson(Types[type], v, writers, forms)
    <3>1. m \in All(docs) /\ FromJson(Types[type], m, readers) = IF m \in Fitting(fit) THEN <<v>> ELSE << >>
      BY <2>1 DEF JsonType
    <3>2. W[type][v] = m
      BY <1>1
    <3> HIDE DEF m
    <3>3. Rd[type][m] = FromJson(Types[type], m, readers)
      BY <1>1, <3>1
    <3> QED  BY <3>1, <3>2, <3>3
  <2> QED  BY <2>2 DEF JsonSound
<1>4. \A y \in values["U128"] : ~Is(W["U128"][y], "null")
  <2>1. "U128" \in TypeNames
    BY TypeNamesAre
  <2>2. \A y \in values["U128"] : W["U128"][y] = ToJson(Types["U128"], y, writers, forms)
    BY <1>1, <2>1
  <2> QED  BY <2>2, NumbersAreNotNull
<1>5. JsonAll(W, Rd, values, All(docs), Fitting(fit))
  BY <1>3 DEF JsonAll
<1> QED  BY <1>2, <1>4, <1>5 DEF Inside, W, Rd

\* What the parts of a transaction are written and read with.
InsideTransactions(writers, readers, inner, docs, fit, forms) ==
  /\ Inside(writers, readers, inner, docs, fit) /\ DocumentsFit(docs, fit)
  /\ Values[MaxDepth] = ValuesOver(inner)
  /\ JsonWriters(forms) = WritersOver(Values[MaxDepth], writers, forms)
  /\ JsonReaders = ReadersOver(readers)
  /\ All(docs) = Documents(Nat) /\ Fitting(fit) = Documents(0 .. MaxU64)

LEMMA InsideTransactionsAre ==
  ASSUME NEW forms
  PROVE  \E writers, readers, inner, docs, fit :
           InsideTransactions(writers, readers, inner, docs, fit, forms)
<1> DEFINE n == MaxDepth
<1>1. n \in Nat /\ n # 0
  BY DepthAssumption
<1>2. PICK values : /\ ValueRun(values, n + 1) /\ \A d \in 1 .. n + 1 : Values[d] = values[d]
  BY ValuesAt
<1>3. PICK writers : WriterRun(writers, forms, n) /\ JsonWriters(forms) = writers[n]
  BY JsonWritersAre
<1>4. PICK readers : ReaderRun(readers, n) /\ JsonReaders = readers[n]
  BY JsonReadersAre
<1>5. PICK all, fit :
        /\ all[n] = Documents(Nat) /\ fit[n] = Documents(0 .. MaxU64)
        /\ \A d \in 0 .. n : DocumentsFit(all[d], fit[d]) /\ all[d] \subseteq Documents(Nat)
        /\ \A d \in 1 .. n : all[d] = All(all[d - 1]) /\ fit[d] = Fitting(fit[d - 1])
  BY DocumentsByDepth
<1>6. \A d \in 0 .. n + 1 : values[d] = IF d = 0 THEN NoValues ELSE ValuesOver(values[d - 1])
  BY <1>2, Zenon DEF ValueRun
<1>7. \A d \in 0 .. n : writers[d] = IF d = 0 THEN NoWriters ELSE WritersOver(Values[d], writers[d - 1], forms)
  BY <1>3, Zenon DEF WriterRun
<1>8. \A d \in 0 .. n : readers[d] = IF d = 0 THEN NoReaders ELSE ReadersOver(readers[d - 1])
  BY <1>4, Zenon DEF ReaderRun
<1>9. \A d \in 1 .. n : /\ d \in 0 .. n /\ d # 0 /\ Values[d] = values[d] /\ values[d] = ValuesOver(values[d - 1])
                        /\ writers[d] = WritersOver(Values[d], writers[d - 1], forms)
                        /\ readers[d] = ReadersOver(readers[d - 1])
  <2> TAKE d \in 1 .. n
  <2>1. d \in 0 .. n /\ d # 0 /\ d \in 0 .. n + 1 /\ d \in 1 .. n + 1
    BY <1>1
  <2> QED  BY <1>2, <1>6, <1>7, <1>8, <2>1
<1> DEFINE Sound0(d) == Inside(writers[d], readers[d], values[d], all[d], fit[d])
           Holds == {d \in Nat : d <= n => Sound0(d)}
<1>10. 0 \in Holds
  <2>1. 0 \in 0 .. n /\ 0 \in 0 .. n + 1
    BY <1>1
  <2>2. values[0] = NoValues
    BY <1>6, <2>1
  <2>3. \A type \in TypeNames : values[0][type] = {}
    BY <2>2 DEF NoValues
  <2>4. values[0]["Unit"] = {} /\ values[0]["U128"] = {}
    BY <2>3, TypeNamesAre
  <2>5. JsonAll(writers[0], readers[0], values[0], all[0], fit[0])
    BY <2>3 DEF JsonAll, JsonSound
  <2> QED  BY <2>4, <2>5 DEF Inside
<1>11. ASSUME NEW d \in Holds PROVE d + 1 \in Holds
  <2> SUFFICES ASSUME d + 1 <= n PROVE Sound0(d + 1)
    OBVIOUS
  <2>1. d \in 0 .. n /\ d <= n /\ d + 1 \in 1 .. n /\ d + 1 \in 0 .. n /\ (d + 1) - 1 = d
    BY <1>1
  <2>2. Inside(writers[d], readers[d], values[d], all[d], fit[d]) /\ DocumentsFit(all[d], fit[d])
    BY <1>5, <2>1
  <2>3. all[d + 1] = All(all[d]) /\ fit[d + 1] = Fitting(fit[d]) /\ All(all[d]) \subseteq Documents(Nat)
    BY <1>5, <2>1
  <2>4. /\ values[d + 1] = ValuesOver(values[d])
        /\ writers[d + 1] = WritersOver(values[d + 1], writers[d], forms)
        /\ readers[d + 1] = ReadersOver(readers[d])
    BY <1>9, <2>1
  <2>5. Inside(WritersOver(values[d + 1], writers[d], forms), ReadersOver(readers[d]), values[d + 1],
               All(all[d]), Fitting(fit[d]))
    BY <2>2, <2>3, <2>4, InsideOver
  <2> QED  BY <2>3, <2>4, <2>5
<1>12. Holds = Nat
  <2>1. Holds \in SUBSET Nat
    OBVIOUS
  <2> HIDE DEF Holds
  <2> QED  BY <1>10, <1>11, <2>1, SetInduction
<1> DEFINE d == n - 1
<1>13. d \in Nat /\ d <= n /\ d \in 0 .. n /\ n \in 1 .. n
  BY <1>1
<1>14. Sound0(d)
  BY <1>12, <1>13 DEF Holds
<1>15. InsideTransactions(writers[d], readers[d], values[d], all[d], fit[d], forms)
  <2>1. DocumentsFit(all[d], fit[d])
    BY <1>5, <1>13
  <2>2. Values[n] = ValuesOver(values[d])
    BY <1>9, <1>13
  <2>3. JsonWriters(forms) = WritersOver(Values[n], writers[d], forms)
    BY <1>3, <1>9, <1>13
  <2>4. JsonReaders = ReadersOver(readers[d])
    BY <1>4, <1>9, <1>13
  <2>5. All(all[d]) = Documents(Nat) /\ Fitting(fit[d]) = Documents(0 .. MaxU64)
    BY <1>5, <1>13
  <2> QED  BY <1>14, <2>1, <2>2, <2>3, <2>4, <2>5 DEF InsideTransactions
<1> QED  BY <1>15

\* Whatever of it is put into strings, a value of any type is read back from
\* the JSON it was written to, unless that has a number that is no u64: the
\* readers of numbers do not take those, as of a U128 of 2^64 and more.
THEOREM JsonReadsBack ==
  \A forms : \A type \in TypeNames : \A v \in Values[MaxDepth][type] :
    JsonFrom(type, JsonOf(type, v, forms))
      = IF JsonOf(type, v, forms) \in Documents(0 .. MaxU64) THEN <<v>> ELSE << >>
<1> TAKE forms
<1> TAKE type \in TypeNames
<1> TAKE v \in Values[MaxDepth][type]
<1> DEFINE values == Values[MaxDepth]
<1>1. PICK writers, readers, inner, docs, fit : InsideTransactions(writers, readers, inner, docs, fit, forms)
  BY InsideTransactionsAre
<1>2. Inside(WritersOver(values, writers, forms), ReadersOver(readers), values, All(docs), Fitting(fit))
  <2>1. values = ValuesOver(inner) /\ All(docs) \subseteq Documents(Nat)
    BY <1>1 DEF InsideTransactions
  <2>2. Inside(writers, readers, inner, docs, fit) /\ DocumentsFit(docs, fit)
    BY <1>1 DEF InsideTransactions
  <2> HIDE DEF values
  <2> QED  BY <2>1, <2>2, InsideOver
<1>3. Inside(JsonWriters(forms), JsonReaders, values, Documents(Nat), Documents(0 .. MaxU64))
  BY <1>1, <1>2 DEF InsideTransactions
<1>4. JsonSound(JsonWriters(forms)[type], JsonReaders[type], values[type],
                Documents(Nat), Documents(0 .. MaxU64))
  BY <1>3 DEF Inside, JsonAll
<1> QED  BY <1>4 DEF JsonSound, JsonOf, JsonFrom

\* A transaction is read whatever the order of its entries is.
THEOREM JsonInAnyOrder ==
  \A forms : \A x \in AllTransactions :
    LET entries == JsonOf("NearTransaction", x, forms).map
    IN  /\ JsonOf("NearTransaction", x, forms) = [map |-> entries]
        /\ DOMAIN entries = 1 .. Len(entries) /\ Len(entries) \in Nat
        /\ entries = [i \in 1 .. Len(entries) |-> entries[i]]
        /\ \A p : Order(p, Len(entries)) =>
             LET m == [map |-> Rearranged(entries, p)]
             IN JsonFrom("NearTransaction", m) = IF m \in Documents(0 .. MaxU64) THEN <<x>> ELSE << >>
<1> TAKE forms
<1> TAKE x \in AllTransactions
<1> DEFINE type == "NearTransaction"
<1>1. PICK writers, readers, inner, docs, fit : InsideTransactions(writers, readers, inner, docs, fit, forms)
  BY InsideTransactionsAre
<1> DEFINE values == ValuesOver(inner)[type]
<1>2. type \in TypeNames /\ type \in StructNames
  BY TypeNamesAre DEF StructNames
<1>3. IsStruct(type, inner)
  BY <1>2, StructForms
<1>4. PICK parts, n : Types[type] = Struct(parts) /\ PartsFit(parts, n) /\ StructOf(values, parts, inner)
  BY <1>3, Zenon DEF IsStruct
<1>5. Struct(parts).kind = "struct" /\ Struct(parts).parts = parts
  BY DEF Struct
<1>6. \A i \in 1 .. n : parts[i].name \in PartNames
  BY <1>2, <1>4, <1>5, NamesArePartNames
<1>7. x \in Values[MaxDepth][type] /\ Values[MaxDepth] = ValuesOver(inner)
  BY <1>1 DEF InsideTransactions, AllTransactions
<1>8. x \in values
  BY <1>7
<1> DEFINE entries == EntriesOf(parts, x, writers)
<1>9. JsonOf(type, x, forms) = [map |-> entries]
  <2>1. JsonWriters(forms) = WritersOver(Values[MaxDepth], writers, forms)
    BY <1>1 DEF InsideTransactions
  <2>2. WritersOver(Values[MaxDepth], writers, forms)[type][x] = ToJson(Types[type], x, writers, forms)
    BY <1>2, <1>7 DEF WritersOver
  <2>3. ToJson(Struct(parts), x, writers, forms) = [map |-> entries]
    BY <1>5 DEF ToJson, EntriesOf
  <2> QED  BY <1>4, <2>1, <2>2, <2>3 DEF JsonOf
<1> HIDE DEF values
<1>10. n \in Nat /\ DOMAIN entries = 1 .. n /\ entries = [i \in 1 .. n |-> entries[i]]
  BY <1>4 DEF PartsFit, EntriesOf
<1>11. ASSUME NEW p, Order(p, n)
       PROVE  LET m == [map |-> Rearranged(entries, p)]
              IN JsonFrom(type, m) = IF m \in Documents(0 .. MaxU64) THEN <<x>> ELSE << >>
  <2> DEFINE m == [map |-> Rearranged(entries, p)]
  <2>1. JsonAll(writers, readers, inner, docs, fit)
    BY <1>1 DEF InsideTransactions, Inside
  <2>2. m \in All(docs) /\ FromJson(Struct(parts), m, readers) = IF m \in Fitting(fit) THEN <<x>> ELSE << >>
    BY <1>4, <1>6, <1>8, <1>11, <2>1, EntriesRead
  <2>3. /\ All(docs) = Documents(Nat) /\ Fitting(fit) = Documents(0 .. MaxU64)
        /\ JsonReaders = ReadersOver(readers)
    BY <1>1 DEF InsideTransactions
  <2> HIDE DEF m
  <2>4. ReadersOver(readers)[type][m] = FromJson(Types[type], m, readers)
    BY <1>2, <2>2, <2>3 DEF ReadersOver
  <2>5. JsonFrom(type, m) = FromJson(Struct(parts), m, readers)
    BY <1>4, <2>3, <2>4 DEF JsonFrom
  <2>6. JsonFrom(type, m) = IF m \in Documents(0 .. MaxU64) THEN <<x>> ELSE << >>
    BY <2>2, <2>3, <2>5
  <2> QED  BY <2>6 DEF m
<1> HIDE DEF entries
<1>12. Len(entries) = n
  <2> DEFINE set == {entries[i] : i \in 1 .. n}
  <2>1. entries \in [1 .. n -> set]
    BY <1>10
  <2> HIDE DEF set
  <2> QED  BY <1>10, <2>1, MadeSequence
<1>13. JsonOf(type, x, forms).map = entries
  BY <1>9
<1> QED  BY <1>9, <1>10, <1>11, <1>12, <1>13

-----------------------------------------------------------------------------
(* Handing on.                                                             *)

\* JSON of a transaction, in any order and with anything in strings.
IsJson(m, x) ==
  /\ ~Is(m, "borsh")
  /\ JsonFrom("NearTransaction", m) = IF m \in Documents(0 .. MaxU64) THEN <<x>> ELSE << >>

IsLetter(m) ==
  \/ /\ m = [borsh |-> m.borsh] /\ m.borsh \in ByteString
     /\ ~changed => m.borsh = BuildForSigning(first)
  \/ \E x \in {first, held} : IsJson(m, x) /\ (~changed => x = first)

\* What the holder has, and what is under way, is what was written first,
\* until a letter is changed; then it is still a transaction.
HandoverInv ==
  /\ first \in AllTransactions /\ held \in AllTransactions
  /\ letter = << >> \/ (letter = <<letter[1]>> /\ IsLetter(letter[1]))
  /\ letter = << >> /\ ~refused /\ ~changed => held = first

LEMMA BorshLetter ==
  ASSUME NEW x \in AllTransactions
  PROVE  /\ BuildForSigning(x) \in ByteString
         /\ BorshFrom(Types, "NearTransaction", BuildForSigning(x)) = <<x>>
<1>1. "NearTransaction" \in TypeNames
  BY TypeNamesAre
<1>2. Values[Depth("NearTransaction")]["NearTransaction"] = AllTransactions
  BY DEF Depth, AllTransactions
<1> QED  BY <1>1, <1>2, BorshReadsBack DEF BuildForSigning

LEMMA JsonLetters ==
  ASSUME NEW x \in AllTransactions, NEW forms
  PROVE  /\ IsJson(JsonOf("NearTransaction", x, forms), x)
         /\ IsJson([map |-> Reverse(JsonOf("NearTransaction", x, forms).map)], x)
<1> DEFINE entries == JsonOf("NearTransaction", x, forms).map
           n == Len(entries)
           F(s) == [map |-> s]
<1>1. JsonOf("NearTransaction", x, forms) = F(entries)
  BY JsonInAnyOrder
<1>2. DOMAIN entries = 1 .. n /\ n \in Nat /\ entries = [i \in 1 .. n |-> entries[i]]
  BY JsonInAnyOrder
<1>3. ASSUME NEW s, NEW p, Order(p, n), s = Rearranged(entries, p)
      PROVE  IsJson(F(s), x)
  <2>1. JsonFrom("NearTransaction", F(s)) = IF F(s) \in Documents(0 .. MaxU64) THEN <<x>> ELSE << >>
    BY <1>3, JsonInAnyOrder
  <2>2. ~Is(F(s), "borsh")
    BY DEF Is
  <2> QED  BY <2>1, <2>2 DEF IsJson
<1> HIDE DEF entries, F
<1>4. /\ \E p : Order(p, n) /\ entries = Rearranged(entries, p)
      /\ \E p : Order(p, n) /\ Reverse(entries) = Rearranged(entries, p)
  BY <1>2, OrdersAre
<1>5. IsJson(F(entries), x) /\ IsJson(F(Reverse(entries)), x)
  BY <1>3, <1>4
<1> QED  BY <1>1, <1>5 DEF F, entries

\* A reader of any letter gets a transaction or refuses.
LEMMA UnderstoodValues ==
  ASSUME NEW m, IsLetter(m), first \in AllTransactions, held \in AllTransactions
  PROVE  Understood(m) = << >> \/ \E x \in AllTransactions : Understood(m) = <<x>>
<1>1. CASE m = [borsh |-> m.borsh] /\ m.borsh \in ByteString
  <2>1. Is(m, "borsh")
    BY <1>1 DEF Is
  <2>2. Understood(m) = BorshFrom(Types, "NearTransaction", m.borsh)
    BY <2>1 DEF Understood
  <2>3. "NearTransaction" \in TypeNames
    BY TypeNamesAre
  <2>4. Values[Depth("NearTransaction")]["NearTransaction"] = AllTransactions
    BY DEF Depth, AllTransactions
  <2> QED  BY <1>1, <2>2, <2>3, <2>4, BorshIsCanonical
<1>2. ASSUME NEW x \in AllTransactions, IsJson(m, x)
      PROVE  Understood(m) = << >> \/ Understood(m) = <<x>>
  BY <1>2 DEF IsJson, Understood
<1> QED  BY <1>1, <1>2 DEF IsLetter

\* An unchanged letter is understood as what was written first.
LEMMA UnchangedUnderstood ==
  ASSUME NEW m, IsLetter(m), first \in AllTransactions, ~changed
  PROVE  Understood(m) = IF Is(m, "borsh") \/ m \in Documents(0 .. MaxU64) THEN <<first>> ELSE << >>
<1>1. CASE m = [borsh |-> m.borsh] /\ m.borsh = BuildForSigning(first)
  <2>1. Is(m, "borsh")
    BY <1>1 DEF Is
  <2>2. Understood(m) = BorshFrom(Types, "NearTransaction", m.borsh)
    BY <2>1 DEF Understood
  <2> QED  BY <1>1, <2>1, <2>2, BorshLetter
<1>2. CASE IsJson(m, first)
  BY <1>2 DEF IsJson, Understood
<1> QED  BY <1>1, <1>2 DEF IsLetter

LEMMA HandoverInitInv == HandoverInit => HandoverInv
<1> SUFFICES ASSUME HandoverInit PROVE HandoverInv
  OBVIOUS
<1>1. held \in Transactions /\ first = held /\ letter = << >>
  BY DEF HandoverInit
<1>2. held \in AllTransactions
  BY <1>1, HandoverAssumption DEF AllTransactions
<1> QED  BY <1>1, <1>2 DEF HandoverInv

LEMMA HandoverNextInv == HandoverInv /\ [HandoverNext]_handoverVars => HandoverInv'
<1> SUFFICES ASSUME HandoverInv, [HandoverNext]_handoverVars PROVE HandoverInv'
  OBVIOUS
<1>1. first \in AllTransactions /\ held \in AllTransactions
  BY DEF HandoverInv
<1>2. ASSUME NEW m, Hand(m), letter = << >> => m = [borsh |-> BuildForSigning(held)] \/ IsJson(m, held)
      PROVE  HandoverInv'
  <2>1. /\ letter = << >> /\ ~refused /\ letter' = <<m>>
        /\ held' = held /\ first' = first /\ changed' = changed
    BY <1>2 DEF Hand, Post
  <2>2. ~changed => held = first
    BY <2>1 DEF HandoverInv
  <2>3. letter' # << >> /\ letter'[1] = m
    BY <2>1
  <2>4. IsLetter(m)'
    <3>1. CASE m = [borsh |-> BuildForSigning(held)]
      <4>1. m.borsh = BuildForSigning(held) /\ m.borsh \in ByteString
        BY <1>1, <3>1, BorshLetter
      <4> QED  BY <2>1, <2>2, <3>1, <4>1 DEF IsLetter
    <3>2. CASE IsJson(m, held)
      BY <2>1, <2>2, <3>2 DEF IsLetter, IsJson
    <3> QED  BY <1>2, <2>1, <3>1, <3>2
  <2> QED  BY <1>1, <2>1, <2>3, <2>4 DEF HandoverInv
<1>3. CASE WriteBorsh
  BY <1>2, <1>3 DEF WriteBorsh
<1>4. CASE WriteJson
  BY <1>1, <1>2, <1>4, JsonLetters DEF WriteJson
<1>5. CASE FrontEndWrites
  BY <1>1, <1>2, <1>5, JsonLetters DEF FrontEndWrites
<1>6. CASE ForeignWrites
  <2>1. PICK t \in Foreign : /\ Post(JsonOf("NearTransaction", t, {})) /\ first' = t /\ changed' = changed
    BY <1>6 DEF ForeignWrites
  <2> DEFINE m == JsonOf("NearTransaction", t, {})
  <2>2. t \in AllTransactions
    BY HandoverAssumption DEF AllTransactions
  <2>3. IsJson(m, t)
    BY <2>2, JsonLetters
  <2>4. letter' = <<m>> /\ held' = held
    BY <2>1 DEF Post
  <2> HIDE DEF m
  <2>5. letter' # << >> /\ letter'[1] = m
    BY <2>4
  <2>6. IsLetter(m)'
    BY <2>1, <2>3 DEF IsLetter, IsJson
  <2> QED  BY <1>1, <2>1, <2>2, <2>4, <2>5, <2>6 DEF HandoverInv
<1>7. CASE ChangeLetter
  <2> DEFINE bytes == letter[1].borsh
  <2>1. /\ letter # << >> /\ Is(letter[1], "borsh") /\ changed' = TRUE
        /\ first' = first /\ held' = held
    BY <1>7 DEF ChangeLetter
  <2>2. IsLetter(letter[1])
    BY <2>1 DEF HandoverInv
  <2>3. bytes \in ByteString
    BY <2>1, <2>2 DEF IsLetter, IsJson
  <2>4. PICK i \in DOMAIN bytes, byte \in Byte : letter' = <<[borsh |-> [bytes EXCEPT ![i] = byte]]>>
    BY <1>7 DEF ChangeLetter, Byte
  <2> HIDE DEF bytes
  <2> DEFINE b == [bytes EXCEPT ![i] = byte]
  <2>5. b \in ByteString
    <3>1. Len(bytes) \in Nat /\ bytes \in [1 .. Len(bytes) -> Byte]
      BY <2>3 DEF ByteString
    <3>2. b \in [1 .. Len(bytes) -> Byte]
      BY <3>1
    <3> HIDE DEF b
    <3> QED  BY <3>1, <3>2, MadeSequence DEF ByteString
  <2>6. PICK m : letter' = <<m>> /\ m = [borsh |-> b]
    BY <2>4
  <2> HIDE DEF b
  <2>7. m = [borsh |-> m.borsh] /\ m.borsh \in ByteString
    BY <2>5, <2>6
  <2>8. letter' # << >> /\ letter'[1] = m /\ letter' = <<letter'[1]>>
    BY <2>6
  <2>9. IsLetter(m)'
    BY <2>1, <2>7 DEF IsLetter
  <2> QED  BY <1>1, <2>1, <2>8, <2>9 DEF HandoverInv
<1>8. CASE ReadLetter
  <2> DEFINE m == letter[1]
             read == Understood(m)
  <2>1. /\ letter # << >> /\ letter' = << >> /\ first' = first /\ changed' = changed
        /\ read = << >> => refused' /\ held' = held
        /\ read # << >> => ~refused' /\ held' = read[1]
    BY <1>8, Zenon DEF ReadLetter
  <2>2. IsLetter(m)
    BY <2>1 DEF HandoverInv
  <2>3. read = << >> \/ \E x \in AllTransactions : read = <<x>>
    BY <1>1, <2>2, UnderstoodValues
  <2>4. ~changed => read = << >> \/ read = <<first>>
    BY <1>1, <2>2, UnchangedUnderstood
  <2> HIDE DEF m, read
  <2>5. held' \in AllTransactions
    BY <1>1, <2>1, <2>3
  <2>6. ~changed /\ ~refused' => held' = first
    BY <2>1, <2>4
  <2> QED  BY <1>1, <2>1, <2>5, <2>6 DEF HandoverInv
<1>9. CASE UNCHANGED handoverVars
  BY <1>9 DEF handoverVars, HandoverInv, IsLetter, IsJson
<1> QED  BY <1>3, <1>4, <1>5, <1>6, <1>7, <1>8, <1>9 DEF HandoverNext

\* The invariant holds of every handover.
THEOREM HandoverInvariant == HandoverSpec => []HandoverInv
BY HandoverInitInv, HandoverNextInv, PTL DEF HandoverSpec

\* Whatever forms it went through, a transaction that nobody changed arrives.
THEOREM TransactionsArrive == HandoverSpec => []ArrivesUnchanged
<1>1. HandoverInv => ArrivesUnchanged
  <2> SUFFICES ASSUME HandoverInv, ~changed
               PROVE  /\ \A m \in ToSet(letter) :
                           Understood(m) = IF Is(m, "borsh") \/ m \in Documents(0 .. MaxU64)
                                           THEN <<first>> ELSE << >>
                      /\ letter = << >> /\ ~refused => held = first
    BY DEF ArrivesUnchanged
  <2>1. ASSUME NEW m \in ToSet(letter) PROVE m = letter[1] /\ IsLetter(m)
    <3>1. letter # << >>
      BY <2>1 DEF ToSet
    <3>2. letter = <<letter[1]>> /\ IsLetter(letter[1])
      BY <3>1 DEF HandoverInv
    <3> QED  BY <2>1, <3>2 DEF ToSet
  <2>2. first \in AllTransactions
    BY DEF HandoverInv
  <2>3. \A m \in ToSet(letter) :
          Understood(m) = IF Is(m, "borsh") \/ m \in Documents(0 .. MaxU64) THEN <<first>> ELSE << >>
    BY <2>1, <2>2, UnchangedUnderstood
  <2>4. letter = << >> /\ ~refused => held = first
    BY DEF HandoverInv
  <2> QED  BY <2>3, <2>4
<1> QED  BY <1>1, HandoverInvariant, PTL

\* What a program can build is what has no delegate action in another one.
LEMMA BuildableIsNotNested == \A t : Buildable(t) <=> ~Nested(t)
<1>1. \A action : NonDelegateTryFrom(action).value # << >> <=> action.variant # "Delegate"
  BY DEF NonDelegateTryFrom, Error, Ok
<1> QED  BY <1>1 DEF Buildable, Nested

\* Of changed bytes, a node reads what the library reads, if a program can
\* build it, and they are the bytes of nothing else.
THEOREM ChangedBytesAreBytes == HandoverSpec => []ChangedBytesHaveOneMeaning
<1>1. HandoverInv => ChangedBytesHaveOneMeaning
  <2> SUFFICES ASSUME HandoverInv, NEW m \in ToSet(letter), Is(m, "borsh")
               PROVE  /\ NodeReadsTransaction(m.borsh) = {t \in ToSet(Understood(m)) : Buildable(t)}
                      /\ \A t \in ToSet(Understood(m)) : BuildForSigning(t) = m.borsh
    BY DEF ChangedBytesHaveOneMeaning
  <2> DEFINE b == m.borsh
             read == Understood(m)
  <2>1. IsLetter(m)
    <3>1. letter # << >>
      BY DEF ToSet
    <3>2. letter = <<letter[1]>> /\ IsLetter(letter[1])
      BY <3>1 DEF HandoverInv
    <3> QED  BY <3>2 DEF ToSet
  <2>2. b \in ByteString
    BY <2>1 DEF IsLetter, IsJson
  <2>3. read = BorshFrom(Types, "NearTransaction", b)
    BY DEF Understood
  <2>4. NodeReadsTransaction(b) = {t \in ToSet(read) : ~Nested(t)}
    BY <2>3, TypesAreTheProtocols DEF NodeReadsTransaction
  <2> HIDE DEF b, read
  <2>5. NodeReadsTransaction(b) = {t \in ToSet(read) : Buildable(t)}
    BY <2>4, BuildableIsNotNested
  <2>6. "NearTransaction" \in TypeNames
    BY TypeNamesAre
  <2>7. read = << >> \/ \E v : read = <<v>> /\ BuildForSigning(v) = b
    BY <2>2, <2>3, <2>6, BorshIsCanonical DEF BuildForSigning
  <2>8. \A t \in ToSet(read) : BuildForSigning(t) = b
    BY <2>7 DEF ToSet
  <2> QED  BY <2>5, <2>8 DEF b, read
<1> QED  BY <1>1, HandoverInvariant, PTL
=============================================================================
