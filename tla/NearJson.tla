------------------------------ MODULE NearJson ------------------------------
(***************************************************************************)
(* NEAR transactions as JSON: the derived serializers over the types of    *)
(* NearTransaction and the visitors written by hand.  A document has one   *)
(* field that says what it is: [number |-> 3], [map |-> entries], ...;     *)
(* [near |-> d] is a key, a signature or a hash in a form of NearKeys,     *)
(* [decimal |-> n] a string that holds a number.                           *)
(***************************************************************************)
EXTENDS NearBorsh

MaxU64  == Radix - 1
MaxU128 == Radix * Radix - 1

\* The names of fields and of variants.
PartNames == UNION {{Types[type].parts[i].name : i \in DOMAIN Types[type].parts} : type \in TypeNames}

KeyDocuments ==
  [form : {"text"}, text : [prefix : {"ed25519", "secp256k1", "none"}, data : Seq(ByteString)]]
    \cup [form : {"map"}, entries : Seq([name : {"ED25519", "SECP256K1"}, bytes : ByteString])]
    \cup [form : {"array"}, bytes : ByteString]

Scalars(numbers) ==
  [null : {0}] \cup [number : numbers] \cup [decimal : Nat] \cup [word : PartNames]
    \cup [text : ByteString] \cup [base64 : ByteString] \cup [near : KeyDocuments]

DocumentsOver(inner, numbers) ==
  Scalars(numbers) \cup [array : Seq(inner)] \cup [map : Seq([key : PartNames, doc : inner])]

\* The documents whose numbers are among the given ones.
Documents(numbers) ==
  LET documents[d \in 0 .. MaxDepth] ==
        IF d = 0 THEN Scalars(numbers) ELSE DocumentsOver(documents[d - 1], numbers)
  IN documents[MaxDepth]

Is(doc, what) == what \in DOMAIN doc

Entry(key, doc) == [key |-> key, doc |-> doc]

NumberArray(bytes) == [array |-> [i \in DOMAIN bytes |-> [number |-> bytes[i]]]]

\* How a value is written.  The library writes numbers as numbers and keys as
\* maps; forms are the types that another writer puts into strings.
ToJson(t, v, inner, forms) ==
  CASE t.kind = "struct" ->
         [map |-> [i \in DOMAIN t.parts |->
                     Entry(t.parts[i].name, inner[t.parts[i].type][v[t.parts[i].name]])]]
    [] t.kind = "enum" ->
         LET part == t.parts[IndexOf(t.parts, v.variant)]
         IN IF part.type = "Unit" THEN [word |-> part.name]
            ELSE [map |-> <<Entry(part.name, inner[part.type][v.value])>>]
    [] t.kind = "list" -> [array |-> [i \in DOMAIN v |-> inner[t.parts[1].type][v[i]]]]
    [] t.kind = "option" -> IF v = << >> THEN [null |-> 0] ELSE inner[t.parts[1].type][v[1]]
    [] t.kind \in {"U64", "U128"} -> IF t.kind \in forms THEN [decimal |-> v] ELSE [number |-> v]
    [] t.kind = "PublicKey" ->
         IF t.kind \in forms
         THEN [near |-> [form |-> "text",
                         text |-> [prefix |-> IF v.variant = "ED25519" THEN "ed25519" ELSE "secp256k1",
                                   data   |-> <<v.value>>]]]
         ELSE [near |-> PublicKeyToJson(v)]
    [] t.kind = "BlockHash" ->
         IF t.kind \in forms
         THEN [near |-> [form |-> "text", text |-> [prefix |-> "none", data |-> <<v>>]]]
         ELSE [near |-> BlockHashToJson(v)]
    [] t.kind = "Signature" -> [near |-> SignatureToJson(v)]
    [] t.kind = "Base64VecU8" -> [base64 |-> v]
    [] t.kind = "VecU8" -> NumberArray(v)
    [] t.kind \in {"String", "AccountId"} -> [text |-> v]
    [] t.kind = "Unit" -> [null |-> 0]

-----------------------------------------------------------------------------
(* Readers: << >> is an error.                                             *)

\* serde_json hands a number that is no u64 to visit_f64, which the visitor
\* does not have.
U128FromJson(doc) ==
  IF Is(doc, "number") /\ doc.number <= MaxU64 THEN <<doc.number>>
  ELSE IF Is(doc, "decimal") /\ doc.decimal <= MaxU128 THEN <<doc.decimal>> ELSE << >>

Faulty_U64FromJson(doc) == IF Is(doc, "number") /\ doc.number <= MaxU64 THEN <<doc.number>> ELSE << >>

U64FromJson(doc) ==
  IF Is(doc, "number") /\ doc.number <= MaxU64 THEN <<doc.number>>
  ELSE IF Is(doc, "decimal") /\ doc.decimal <= MaxU64 THEN <<doc.decimal>> ELSE << >>

Base64FromJson(doc) == IF Is(doc, "base64") THEN <<doc.base64>> ELSE << >>

\* Derived readers.
BytesFromJson(doc) ==
  IF Is(doc, "array") /\ \A i \in DOMAIN doc.array : Is(doc.array[i], "number") /\ doc.array[i].number < Radix
  THEN <<[i \in DOMAIN doc.array |-> doc.array[i].number]>> ELSE << >>

\* All of several values, or an error.
Together(results) ==
  IF \E i \in DOMAIN results : results[i] = << >> THEN << >>
  ELSE <<[i \in DOMAIN results |-> results[i][1]]>>

\* Entries in any order; one that is missing is an error, but for an option,
\* and so is one that comes twice.
FieldFromJson(part, entries, inner) ==
  LET found == {i \in DOMAIN entries : entries[i].key = part.name} IN
  IF found = {} /\ Types[part.type].kind = "option" THEN <<<< >>>>
  ELSE IF \E i \in found : found = {i}
  THEN inner[part.type][entries[CHOOSE i \in found : TRUE].doc] ELSE << >>

StructFromJson(parts, entries, inner) ==
  LET fields == Together([i \in DOMAIN parts |-> FieldFromJson(parts[i], entries, inner)])
  IN IF fields = << >> THEN << >> ELSE <<RecordOf(parts, fields[1])>>

VariantFromJson(part, content) ==
  IF content = << >> THEN << >> ELSE <<[variant |-> part.name, value |-> content[1]]>>

\* Fields in their order, all of them.
FieldsFromJson(parts, docs, inner) ==
  LET fields == Together([i \in DOMAIN parts |-> inner[parts[i].type][docs[i]]])
  IN IF Len(docs) # Len(parts) \/ fields = << >> THEN << >> ELSE <<RecordOf(parts, fields[1])>>

\* A word, or a map with one entry.
EnumFromJson(parts, doc, inner) ==
  IF Is(doc, "word") /\ \E i \in DOMAIN parts : parts[i] = Part(doc.word, "Unit")
  THEN <<[variant |-> doc.word, value |-> NoFields]>>
  ELSE IF /\ Is(doc, "map") /\ Len(doc.map) = 1
          /\ \E i \in DOMAIN parts : parts[i].name = doc.map[1].key
  THEN LET part == parts[IndexOf(parts, doc.map[1].key)]
       IN VariantFromJson(part, inner[part.type][doc.map[1].doc])
  ELSE << >>

FromJson(t, doc, inner) ==
  CASE t.kind = "struct" ->
         IF Is(doc, "map") THEN StructFromJson(t.parts, doc.map, inner)
         ELSE IF Is(doc, "array") THEN FieldsFromJson(t.parts, doc.array, inner) ELSE << >>
    [] t.kind = "enum" -> EnumFromJson(t.parts, doc, inner)
    [] t.kind = "list" ->
         IF Is(doc, "array")
         THEN Together([i \in DOMAIN doc.array |-> inner[t.parts[1].type][doc.array[i]]]) ELSE << >>
    [] t.kind = "option" ->
         IF Is(doc, "null") THEN <<<< >>>>
         ELSE LET item == inner[t.parts[1].type][doc] IN IF item = << >> THEN << >> ELSE <<item>>
    [] t.kind = "U64" -> U64FromJson(doc)
    [] t.kind = "U128" -> U128FromJson(doc)
    [] t.kind = "PublicKey" -> IF Is(doc, "near") THEN PublicKeyFromJson(doc.near).value ELSE << >>
    [] t.kind = "BlockHash" -> IF Is(doc, "near") THEN BlockHashFromJson(doc.near).value ELSE << >>
    [] t.kind = "Signature" -> IF Is(doc, "near") THEN SignatureFromJson(doc.near).value ELSE << >>
    [] t.kind = "Base64VecU8" -> Base64FromJson(doc)
    [] t.kind = "VecU8" -> BytesFromJson(doc)
    [] t.kind = "String" -> IF Is(doc, "text") THEN <<doc.text>> ELSE << >>
    [] t.kind = "AccountId" -> \* validated: here, not empty
         IF Is(doc, "text") /\ doc.text # << >> THEN <<doc.text>> ELSE << >>
    [] t.kind = "Unit" -> IF Is(doc, "null") THEN <<NoFields>> ELSE << >>

-----------------------------------------------------------------------------

\* As in Borsh, for values that are at most d deep.
JsonWriters(forms) ==
  LET writers[d \in 0 .. MaxDepth] ==
        IF d = 0 THEN [type \in TypeNames |-> [v \in {} |-> << >>]]
        ELSE [type \in TypeNames |->
                [v \in Values[d][type] |-> ToJson(Types[type], v, writers[d - 1], forms)]]
  IN writers[MaxDepth]

JsonReaders ==
  LET readers[d \in 0 .. MaxDepth] ==
        IF d = 0 THEN [type \in TypeNames |-> [doc \in Documents(Nat) |-> << >>]]
        ELSE [type \in TypeNames |->
                [doc \in Documents(Nat) |-> FromJson(Types[type], doc, readers[d - 1])]]
  IN readers[MaxDepth]

JsonOf(type, v, forms) == JsonWriters(forms)[type][v]

\* from_json
JsonFrom(type, doc) == JsonReaders[type][doc]
=============================================================================
