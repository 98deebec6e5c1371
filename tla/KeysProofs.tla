----------------------------- MODULE KeysProofs -----------------------------
(* Theorems of Keys, for every data, hashes, keys and numbers of operations. *)
EXTENDS Keys, FiniteSetTheorems, SequenceTheorems, TLAPS

\* Material at large, whoever drew it, and a key over it.
RawMaterial ==
    [is : {"bytes", "scalar", "point"}, id : Nat, curve : CURVES \cup {"none"}, size : Nat]

Key ==
    [type : {"private", "public", "secret"}, name : {"ECDSA", "HMAC", "AES-GCM"},
     curve : CURVES \cup {"none"}, hash : HashArguments, extractable : BOOLEAN, raw : RawMaterial,
     written : BOOLEAN]

\* What was made, and what made it: the term that came out is that of the key,
\* the hash and the data kept beside it.
MadeByHmac(m) ==
    /\ m.op = "HMAC"
    /\ \E h \in DIGESTS : m.hash = {h} /\ m.out = Term("tag", {m.raw}, h, m.data)

MadeByEcdsa(m) ==
    /\ m.op = "ECDSA"
    /\ \E h \in DIGESTS, curve \in CURVES :
         LET digest == Term("digest", {}, h, m.data) IN
         /\ m.hash = {h}
         /\ m.raw.size = FieldSize(curve)
         /\ ~TooShort(curve, digest)
         /\ m.out = SignatureOf(m.raw.id, curve, digest)

MadeByAesGcm(m) ==
    /\ m.op = "AES-GCM"
    /\ m.iv \in Ivs /\ m.iv.size = 12 /\ m.raw.size = 32
    /\ m.out = Term("cipher", {m.raw, m.iv}, "none", m.data)

MadeInv ==
    \A m \in made :
        m.raw \in RawMaterial /\ (MadeByHmac(m) \/ MadeByEcdsa(m) \/ MadeByAesGcm(m))

KeysInv == KeysTypeOK /\ keys \in Seq(Key) /\ MadeInv

----------------------------------------------------------------------------
(* Material.                                                               *)

\* The four forms of material.
LEMMA FormsOfMaterial ==
    ASSUME NEW raw
    PROVE  raw \in Material <=>
              \/ \E size \in Given : raw = Bytes(0, size)
              \/ \E n \in 1..drawn : raw = Bytes(n, 32)
              \/ \E n \in 1..drawn, curve \in CURVES : raw = Scalar(n, curve)
              \/ \E n \in 1..drawn, curve \in CURVES : raw = Point(n, curve)
BY DEF Material

LEMMA MaterialIsRaw ==
    ASSUME drawn \in Nat, NEW raw \in Material
    PROVE  raw \in RawMaterial
<1>1. CASE \E size \in Given : raw = Bytes(0, size)
  BY <1>1, KeysAssumption DEF RawMaterial, Bytes
<1>2. CASE \E n \in 1..drawn : raw = Bytes(n, 32)
  BY <1>2 DEF RawMaterial, Bytes
<1>3. CASE \E n \in 1..drawn, curve \in CURVES : raw = Scalar(n, curve)
  BY <1>3 DEF RawMaterial, Scalar, FieldSize
<1>4. CASE \E n \in 1..drawn, curve \in CURVES : raw = Point(n, curve)
  BY <1>4 DEF RawMaterial, Point
<1>5. QED BY <1>1, <1>2, <1>3, <1>4, FormsOfMaterial

\* Drawing another secret only adds to what there is.
LEMMA MaterialGrows ==
    ASSUME drawn \in Nat, drawn' \in {drawn, drawn + 1}
    PROVE  Material \subseteq Material'
<1>1. 1..drawn \subseteq 1..drawn'
  OBVIOUS
<1>2. ASSUME NEW raw \in Material
      PROVE  raw \in Material'
  <2>1. \/ \E size \in Given : raw = Bytes(0, size)
        \/ \E n \in 1..drawn' : raw = Bytes(n, 32)
        \/ \E n \in 1..drawn', curve \in CURVES : raw = Scalar(n, curve)
        \/ \E n \in 1..drawn', curve \in CURVES : raw = Point(n, curve)
    BY <1>1, <1>2, FormsOfMaterial
  <2>2. QED BY <2>1 DEF Material
<1>3. QED BY <1>2

\* A point that anybody holds is that of a pair on its curve.
LEMMA PointOfCurve ==
    ASSUME NEW raw \in Material, NEW curve, NativeEcdsaCheck(curve, raw)
    PROVE  \E n \in 1..drawn : raw = Point(n, curve)
<1>1. raw.is = "point" /\ raw.curve = curve
  BY DEF NativeEcdsaCheck
<1>2. ~\E size \in Given : raw = Bytes(0, size)
  BY <1>1 DEF Bytes
<1>3. ~\E n \in 1..drawn : raw = Bytes(n, 32)
  BY <1>1 DEF Bytes
<1>4. ~\E n \in 1..drawn, c \in CURVES : raw = Scalar(n, c)
  BY <1>1 DEF Scalar
<1>5. PICK n \in 1..drawn, c \in CURVES : raw = Point(n, c)
  BY <1>2, <1>3, <1>4, FormsOfMaterial
<1>6. c = curve
  BY <1>1, <1>5 DEF Point
<1>7. QED BY <1>5, <1>6

LEMMA CurveOfPoint ==
    ASSUME NEW raw \in Material, raw.is = "point"
    PROVE  raw.curve \in CURVES
<1>1. ~\E size \in Given : raw = Bytes(0, size)
  BY DEF Bytes
<1>2. ~\E n \in 1..drawn : raw = Bytes(n, 32)
  BY DEF Bytes
<1>3. ~\E n \in 1..drawn, c \in CURVES : raw = Scalar(n, c)
  BY DEF Scalar
<1>4. PICK n \in 1..drawn, c \in CURVES : raw = Point(n, c)
  BY <1>1, <1>2, <1>3, FormsOfMaterial
<1>5. QED BY <1>4 DEF Point

\* What a term is tells which operation it came out of.
LEMMA KindOfOut ==
    ASSUME NEW m
    PROVE  /\ MadeByHmac(m) => m.op = "HMAC" /\ m.out.is = "tag"
           /\ MadeByEcdsa(m) => m.op = "ECDSA" /\ m.out.is = "signature"
           /\ MadeByAesGcm(m) => m.op = "AES-GCM" /\ m.out.is = "cipher"
<1>1. MadeByHmac(m) => m.op = "HMAC" /\ m.out.is = "tag"
  BY DEF MadeByHmac, Term
<1>2. MadeByEcdsa(m) => m.op = "ECDSA" /\ m.out.is = "signature"
  <2> SUFFICES ASSUME MadeByEcdsa(m) PROVE m.op = "ECDSA" /\ m.out.is = "signature"
    OBVIOUS
  <2>1. PICK curve, digest : m.out = SignatureOf(m.raw.id, curve, digest)
    BY DEF MadeByEcdsa
  <2>2. m.out.is = "signature"
    BY <2>1 DEF SignatureOf, Term
  <2>3. QED BY <2>2 DEF MadeByEcdsa
<1>3. MadeByAesGcm(m) => m.op = "AES-GCM" /\ m.out.is = "cipher"
  BY DEF MadeByAesGcm, Term
<1>4. QED BY <1>1, <1>2, <1>3

LEMMA MadeSomehow ==
    ASSUME KeysInv, NEW m \in made
    PROVE  m.raw \in RawMaterial /\ (MadeByHmac(m) \/ MadeByEcdsa(m) \/ MadeByAesGcm(m))
BY DEF KeysInv, MadeInv

LEMMA TermsEqual ==
    ASSUME NEW is, NEW w, NEW h, NEW d, NEW v, NEW g, NEW e,
           Term(is, w, h, d) = Term(is, v, g, e)
    PROVE  w = v /\ h = g /\ d = e
BY DEF Term

\* A nonce is no key material.
LEMMA NonceIsNoKey ==
    ASSUME NEW raw \in RawMaterial, NEW iv \in Ivs
    PROVE  raw # iv
<1>1. DOMAIN raw = {"is", "id", "curve", "size"}
  BY DEF RawMaterial
<1>2. DOMAIN iv = {"id", "size"}
  BY DEF Ivs
<1>3. QED BY <1>1, <1>2

----------------------------------------------------------------------------
(* The invariant.                                                          *)

\* Keys that are added keep the ones there were, each at its place.
LEMMA KeysAdded ==
    ASSUME keys \in Seq(Key), NEW new \in Seq(Key), keys' = keys \o new
    PROVE  /\ keys' \in Seq(Key)
           /\ \A i \in DOMAIN keys : i \in DOMAIN keys' /\ keys'[i] = keys[i]
           /\ \A i \in DOMAIN keys' : \/ i \in DOMAIN keys /\ keys'[i] = keys[i]
                                      \/ \E j \in DOMAIN new : keys'[i] = new[j]
BY ConcatProperties

\* What a key has to be, and what the script may have of it.
KeyOK(key) ==
    /\ key.raw \in Material
    /\ key.hash \in HashArguments
    /\ ~key.written =>
         /\ key.type \in {"private", "public"} <=> key.name = "ECDSA"
         /\ key.type = "private" => \E n \in 1..drawn : key.raw = Scalar(n, key.curve)
         /\ key.type = "public" => \E n \in 1..drawn : key.raw = Point(n, key.curve)

HeldOK(bytes) ==
    \/ bytes \in {Bytes(0, size) : size \in Given}
    \/ \E i \in DOMAIN keys :
          /\ keys[i].raw = bytes
          /\ keys[i].written \/ (keys[i].extractable /\ keys[i].type # "private")

LEMMA KeysTypeParts ==
    KeysTypeOK <=>
        /\ drawn \in Nat /\ writes \in 0..MaxWrites
        /\ held \subseteq Material
        /\ \A i \in DOMAIN keys : KeyOK(keys[i])
        /\ Cardinality(made) <= MaxMade
        /\ \A bytes \in held : HeldOK(bytes)
BY DEF KeysTypeOK, KeyOK, HeldOK

LEMMA KeyStaysOK ==
    ASSUME drawn \in Nat, drawn' \in {drawn, drawn + 1}, NEW key, KeyOK(key)
    PROVE  KeyOK(key)'
<1>1. 1..drawn \subseteq 1..drawn'
  OBVIOUS
<1>2. key.raw \in Material'
  BY MaterialGrows DEF KeyOK
<1>3. QED BY <1>1, <1>2 DEF KeyOK

\* The operations that add keys.
LEMMA HoldsInv ==
    ASSUME KeysInv, NEW new \in Seq(Key), Holds(new), drawn' \in {drawn, drawn + 1},
           \A j \in DOMAIN new : KeyOK(new[j])'
    PROVE  KeysInv'
<1>1. /\ keys' = keys \o new /\ held' = held /\ writes' = writes /\ made' = made
      /\ keys \in Seq(Key) /\ drawn \in Nat
  BY KeysTypeParts DEF Holds, KeysInv
<1>2. /\ keys' \in Seq(Key)
      /\ \A i \in DOMAIN keys : i \in DOMAIN keys' /\ keys'[i] = keys[i]
      /\ \A i \in DOMAIN keys' : \/ i \in DOMAIN keys /\ keys'[i] = keys[i]
                                 \/ \E j \in DOMAIN new : keys'[i] = new[j]
  BY <1>1, KeysAdded
<1>3. drawn' \in Nat /\ writes' \in 0..MaxWrites /\ held' \subseteq Material'
  BY <1>1, MaterialGrows, KeysTypeParts DEF KeysInv
<1>4. \A i \in DOMAIN keys' : KeyOK(keys[i])'
  <2>1. \A i \in DOMAIN keys : KeyOK(keys[i])
    BY KeysTypeParts DEF KeysInv
  <2>2. ASSUME NEW i \in DOMAIN keys'
        PROVE  KeyOK(keys[i])'
    <3>1. CASE i \in DOMAIN keys /\ keys'[i] = keys[i]
      <4>1. PICK key : key = keys[i]
        OBVIOUS
      <4>2. KeyOK(key)
        BY <2>1, <3>1, <4>1
      <4>3. KeyOK(key)'
        BY <1>1, <4>2, KeyStaysOK
      <4>4. QED BY <3>1, <4>1, <4>3 DEF KeyOK
    <3>2. CASE \E j \in DOMAIN new : keys'[i] = new[j]
      BY <3>2 DEF KeyOK
    <3>3. QED BY <1>2, <2>2, <3>1, <3>2
  <2>3. QED BY <2>2
<1>5. \A bytes \in held' : HeldOK(bytes)'
  BY <1>1, <1>2, KeysTypeParts DEF KeysInv, HeldOK
<1>6. Cardinality(made') <= MaxMade /\ MadeInv'
  BY <1>1, KeysTypeParts DEF KeysInv, MadeInv
<1>7. QED BY <1>2, <1>3, <1>4, <1>5, <1>6, KeysTypeParts DEF KeysInv, KeysTypeOK, KeyOK, HeldOK

\* Material that the script holds makes a key.
LEMMA HeldIsMaterial ==
    ASSUME KeysInv, NEW bytes \in held
    PROVE  /\ bytes \in RawMaterial
           /\ drawn' = drawn => bytes \in Material'
<1>1. drawn \in Nat /\ bytes \in Material
  BY KeysTypeParts DEF KeysInv
<1>2. QED BY <1>1, MaterialIsRaw, MaterialGrows

LEMMA NoHashIsArgument == NoHash \in HashArguments
BY DEF NoHash, HashArguments

LEMMA ImportPublicInv ==
    ASSUME KeysInv, ImportPublic
    PROVE  KeysInv'
<1>1. PICK curve \in CURVES, bytes \in held, extractable \in BOOLEAN :
         /\ NativeEcdsaCheck(curve, bytes)
         /\ Holds(<<CryptoKey("public", "ECDSA", curve, NoHash, extractable, bytes)>>)
         /\ UNCHANGED drawn
  BY DEF ImportPublic
<1>2. PICK key : key = CryptoKey("public", "ECDSA", curve, NoHash, extractable, bytes)
  OBVIOUS
<1>3. drawn' = drawn /\ bytes \in RawMaterial /\ bytes \in Material /\ bytes \in Material'
  BY <1>1, HeldIsMaterial, KeysTypeParts DEF KeysInv
<1>4. <<key>> \in Seq(Key)
  BY <1>2, <1>3, NoHashIsArgument DEF CryptoKey, Key
<1>5. \E n \in 1..drawn : bytes = Point(n, curve)
  BY <1>1, <1>3, PointOfCurve
<1>6. KeyOK(key)'
  BY <1>2, <1>3, <1>5, NoHashIsArgument DEF KeyOK, CryptoKey
<1>7. \A j \in DOMAIN <<key>> : KeyOK(<<key>>[j])'
  BY <1>6
<1>8. QED BY <1>1, <1>2, <1>3, <1>4, <1>7, HoldsInv

LEMMA ImportSecretInv ==
    ASSUME KeysInv, ImportSecret
    PROVE  KeysInv'
<1>1. PICK name \in {"HMAC", "AES-GCM"}, hash \in HashArguments, bytes \in held,
           extractable \in BOOLEAN :
         /\ Holds(<<CryptoKey("secret", name, "none", hash, extractable, bytes)>>)
         /\ UNCHANGED drawn
  BY DEF ImportSecret
<1>2. PICK key : key = CryptoKey("secret", name, "none", hash, extractable, bytes)
  OBVIOUS
<1>3. drawn' = drawn /\ bytes \in RawMaterial /\ bytes \in Material'
  BY <1>1, HeldIsMaterial
<1>4. <<key>> \in Seq(Key)
  BY <1>2, <1>3 DEF CryptoKey, Key
<1>5. KeyOK(key)'
  BY <1>2, <1>3 DEF KeyOK, CryptoKey
<1>6. \A j \in DOMAIN <<key>> : KeyOK(<<key>>[j])'
  BY <1>5
<1>7. QED BY <1>1, <1>2, <1>3, <1>4, <1>6, HoldsInv

LEMMA GeneratePairInv ==
    ASSUME KeysInv, GeneratePair
    PROVE  KeysInv'
<1>1. PICK curve \in CURVES, extractable \in BOOLEAN :
         /\ Holds(<<CryptoKey("private", "ECDSA", curve, NoHash, extractable, Scalar(drawn + 1, curve)),
                    CryptoKey("public", "ECDSA", curve, NoHash, TRUE, Point(drawn + 1, curve))>>)
         /\ drawn' = drawn + 1
  BY DEF GeneratePair
<1>2. PICK private, public :
         /\ private = CryptoKey("private", "ECDSA", curve, NoHash, extractable, Scalar(drawn + 1, curve))
         /\ public = CryptoKey("public", "ECDSA", curve, NoHash, TRUE, Point(drawn + 1, curve))
  OBVIOUS
<1>3. drawn \in Nat /\ drawn + 1 \in 1..drawn'
  BY <1>1, KeysTypeParts DEF KeysInv
<1>4. /\ Scalar(drawn + 1, curve) \in Material' /\ Point(drawn + 1, curve) \in Material'
      /\ Scalar(drawn + 1, curve) \in RawMaterial /\ Point(drawn + 1, curve) \in RawMaterial
  <2>1. Scalar(drawn + 1, curve) \in Material' /\ Point(drawn + 1, curve) \in Material'
    BY <1>3 DEF Material
  <2>2. Scalar(drawn + 1, curve) \in RawMaterial
    BY <1>3 DEF RawMaterial, Scalar, FieldSize
  <2>3. Point(drawn + 1, curve) \in RawMaterial
    BY <1>3 DEF RawMaterial, Point
  <2>4. QED BY <2>1, <2>2, <2>3
<1>5. <<private, public>> \in Seq(Key)
  BY <1>2, <1>4, NoHashIsArgument DEF CryptoKey, Key
<1>6. KeyOK(private)'
  BY <1>2, <1>3, <1>4, NoHashIsArgument DEF KeyOK, CryptoKey
<1>7. KeyOK(public)'
  BY <1>2, <1>3, <1>4, NoHashIsArgument DEF KeyOK, CryptoKey
<1>8. \A j \in DOMAIN <<private, public>> : KeyOK(<<private, public>>[j])'
  BY <1>6, <1>7
<1>9. QED BY <1>1, <1>2, <1>5, <1>8, HoldsInv

LEMMA GenerateSecretInv ==
    ASSUME KeysInv, GenerateSecret
    PROVE  KeysInv'
<1>1. PICK extractable \in BOOLEAN :
         /\ Holds(<<CryptoKey("secret", "AES-GCM", "none", NoHash, extractable, Bytes(drawn + 1, 32))>>)
         /\ drawn' = drawn + 1
  BY DEF GenerateSecret
<1>2. PICK key : key = CryptoKey("secret", "AES-GCM", "none", NoHash, extractable, Bytes(drawn + 1, 32))
  OBVIOUS
<1>3. drawn \in Nat /\ drawn + 1 \in 1..drawn'
  BY <1>1, KeysTypeParts DEF KeysInv
<1>4. Bytes(drawn + 1, 32) \in Material' /\ Bytes(drawn + 1, 32) \in RawMaterial
  <2>1. Bytes(drawn + 1, 32) \in Material'
    BY <1>3 DEF Material
  <2>2. Bytes(drawn + 1, 32) \in RawMaterial
    BY <1>3 DEF RawMaterial, Bytes
  <2>3. QED BY <2>1, <2>2
<1>5. <<key>> \in Seq(Key)
  BY <1>2, <1>4, NoHashIsArgument DEF CryptoKey, Key
<1>6. KeyOK(key)'
  BY <1>2, <1>3, <1>4, NoHashIsArgument DEF KeyOK, CryptoKey
<1>7. \A j \in DOMAIN <<key>> : KeyOK(<<key>>[j])'
  BY <1>6
<1>8. QED BY <1>1, <1>2, <1>5, <1>7, HoldsInv

\* A write leaves the key's material what it was, and lets it out at most.
LEMMA WriteFieldInv ==
    ASSUME KeysInv, WriteField
    PROVE  KeysInv'
<1>0. PICK i \in DOMAIN keys :
         /\ writes < MaxWrites /\ writes' = writes + 1
         /\ \E key \in Rewritten(keys[i]) : keys' = [keys EXCEPT ![i] = key]
         /\ held' = held /\ drawn' = drawn /\ made' = made
  BY DEF WriteField
<1>1. PICK key \in Rewritten(keys[i]) :
         /\ writes < MaxWrites /\ writes' = writes + 1
         /\ keys' = [keys EXCEPT ![i] = key]
         /\ held' = held /\ drawn' = drawn /\ made' = made
  BY <1>0
<1>2. /\ keys \in Seq(Key) /\ drawn \in Nat /\ writes \in 0..MaxWrites
      /\ held \subseteq Material /\ MaxWrites \in Nat
  BY KeysTypeParts, KeysAssumption DEF KeysInv
<1>3. PICK old : old = keys[i]
  OBVIOUS
<1>4. old \in Key /\ KeyOK(old)
  BY <1>2, <1>3, KeysTypeParts DEF KeysInv
<1>5. key \in Key /\ key.raw = old.raw /\ key.hash \in HashArguments /\ key.written
  <2>1. CASE \E type \in {"private", "public", "secret"} :
               key = [old EXCEPT !.type = type, !.written = TRUE]
    BY <1>4, <2>1 DEF Key
  <2>2. CASE key = [old EXCEPT !.extractable = ~old.extractable, !.written = TRUE]
    BY <1>4, <2>2 DEF Key
  <2>3. CASE \E name \in {"ECDSA", "HMAC", "AES-GCM"} :
               key = [old EXCEPT !.name = name, !.written = TRUE]
    BY <1>4, <2>3 DEF Key
  <2>4. CASE \E curve \in CURVES : key = [old EXCEPT !.curve = curve, !.written = TRUE]
    BY <1>4, <2>4 DEF Key
  <2>5. CASE \E hash \in HashArguments : key = [old EXCEPT !.hash = hash, !.written = TRUE]
    BY <1>4, <2>5 DEF Key
  <2>6. QED BY <1>1, <1>3, <2>1, <2>2, <2>3, <2>4, <2>5 DEF Rewritten
<1>6. /\ keys' \in Seq(Key) /\ DOMAIN keys' = DOMAIN keys
      /\ \A j \in DOMAIN keys : keys'[j] = IF j = i THEN key ELSE keys[j]
  BY <1>1, <1>2, <1>5
<1>7. Material' = Material
  BY <1>1 DEF Material
<1>8. KeyOK(key)
  BY <1>4, <1>5 DEF KeyOK
<1>9. \A j \in DOMAIN keys' : KeyOK(keys[j])'
  <2>1. ASSUME NEW j \in DOMAIN keys
        PROVE  KeyOK(keys[j])'
    <3>1. PICK k : k = keys'[j]
      OBVIOUS
    <3>2. KeyOK(k)
      BY <1>6, <1>8, <3>1, KeysTypeParts DEF KeysInv
    <3>3. QED BY <1>1, <1>7, <3>1, <3>2 DEF KeyOK
  <2>2. QED BY <1>6, <2>1
<1>10. \A bytes \in held' : HeldOK(bytes)'
  <2>1. ASSUME NEW bytes \in held
        PROVE  HeldOK(bytes)'
    <3>1. HeldOK(bytes)
      BY KeysTypeParts DEF KeysInv
    <3>2. CASE bytes \in {Bytes(0, size) : size \in Given}
      BY <3>2 DEF HeldOK
    <3>3. CASE bytes \notin {Bytes(0, size) : size \in Given}
      <4>1. PICK j \in DOMAIN keys :
               /\ keys[j].raw = bytes
               /\ keys[j].written \/ (keys[j].extractable /\ keys[j].type # "private")
        BY <3>1, <3>3 DEF HeldOK
      <4>2. keys'[j].raw = bytes
        BY <1>3, <1>5, <1>6, <4>1
      <4>3. keys'[j].written \/ (keys'[j].extractable /\ keys'[j].type # "private")
        BY <1>5, <1>6, <4>1
      <4>4. QED BY <1>6, <4>2, <4>3 DEF HeldOK
    <3>4. QED BY <3>2, <3>3
  <2>2. QED BY <1>1, <2>1
<1>11. writes' \in 0..MaxWrites
  BY <1>1, <1>2
<1>12. Cardinality(made') <= MaxMade /\ MadeInv'
  BY <1>1, KeysTypeParts DEF KeysInv, MadeInv
<1>13. QED
  BY <1>1, <1>2, <1>6, <1>7, <1>9, <1>10, <1>11, <1>12 DEF KeysInv, KeysTypeOK, KeyOK, HeldOK

\* What goes out is material of an extractable key, and of no private one,
\* unless its fields were written to.
LEMMA ExportKeyInv ==
    ASSUME KeysInv, ExportKey
    PROVE  KeysInv'
<1>1. PICK i \in DOMAIN keys :
         /\ keys[i].extractable
         /\ keys[i].name = "ECDSA" => keys[i].type = "public"
         /\ held' = held \cup {keys[i].raw}
         /\ keys' = keys /\ drawn' = drawn /\ writes' = writes /\ made' = made
  BY DEF ExportKey
<1>2. KeyOK(keys[i]) /\ (keys[i].written \/ keys[i].type # "private")
  BY <1>1, KeysTypeParts DEF KeysInv, KeyOK
<1>3. Material' = Material /\ held' \subseteq Material'
  BY <1>1, <1>2, KeysTypeParts DEF KeysInv, KeyOK, Material
<1>4. \A bytes \in held' : HeldOK(bytes)'
  BY <1>1, <1>2, KeysTypeParts DEF KeysInv, HeldOK
<1>5. \A j \in DOMAIN keys' : KeyOK(keys[j])'
  BY <1>1, <1>3, KeysTypeParts DEF KeysInv, KeyOK
<1>6. /\ drawn' \in Nat /\ writes' \in 0..MaxWrites
      /\ Cardinality(made') <= MaxMade /\ MadeInv' /\ keys' \in Seq(Key)
  BY <1>1, KeysTypeParts DEF KeysInv, MadeInv
<1>7. QED BY <1>3, <1>4, <1>5, <1>6 DEF KeysInv, KeysTypeOK, KeyOK, HeldOK

\* The operations that make something.
LEMMA KeepInv ==
    ASSUME KeysInv, NEW op, NEW key, NEW hash, NEW data, NEW iv, NEW out,
           Keep(op, key, hash, data, iv, out), key.raw \in RawMaterial,
           \A t \in out :
               LET m == [op |-> op, raw |-> key.raw, hash |-> hash, data |-> data, iv |-> iv,
                         out |-> t]
               IN  MadeByHmac(m) \/ MadeByEcdsa(m) \/ MadeByAesGcm(m)
    PROVE  KeysInv'
<1>1. /\ made' = made \cup {[op |-> op, raw |-> key.raw, hash |-> hash, data |-> data, iv |-> iv,
                             out |-> t] : t \in out}
      /\ Cardinality(made') <= MaxMade
      /\ keys' = keys /\ held' = held /\ drawn' = drawn /\ writes' = writes
  BY DEF Keep
<1>2. MadeInv'
  <2>1. ASSUME NEW m \in made'
        PROVE  m.raw \in RawMaterial /\ (MadeByHmac(m) \/ MadeByEcdsa(m) \/ MadeByAesGcm(m))
    <3>1. CASE m \in made
      BY <3>1 DEF KeysInv, MadeInv
    <3>2. CASE m \notin made
      <4>1. PICK t \in out : m = [op |-> op, raw |-> key.raw, hash |-> hash, data |-> data, iv |-> iv,
                                  out |-> t]
        BY <1>1, <2>1, <3>2
      <4>2. QED BY <4>1
    <3>3. QED BY <3>1, <3>2
  <2>2. QED BY <2>1 DEF MadeInv
<1>3. KeysTypeOK'
  BY <1>1 DEF KeysInv, KeysTypeOK, Material
<1>4. QED BY <1>1, <1>2, <1>3 DEF KeysInv

LEMMA FormsOfArgument ==
    ASSUME NEW argument
    PROVE  argument \in HashArguments <=>
              \/ \E b \in BOOLEAN, h \in Hashes : argument = [boxed |-> b, name |-> {h}]
              \/ argument = [boxed |-> FALSE, name |-> {}]
BY DEF HashArguments

\* A hash an operation computes with is one that was named, by its name.
LEMMA TextIsDigest ==
    ASSUME NEW argument \in HashArguments, Text(argument) \in DIGESTS
    PROVE  ~argument.boxed /\ argument.name = {Text(argument)}
<1>2. CASE argument.boxed
  BY <1>2 DEF Text, DIGESTS
<1>3. CASE ~argument.boxed /\ argument.name = {}
  BY <1>3 DEF Text, DIGESTS
<1>4. CASE ~argument.boxed /\ argument.name # {}
  <2>1. PICK h \in Hashes : argument.name = {h}
    BY <1>4, FormsOfArgument
  <2>2. Text(argument) = h
    BY <1>4, <2>1 DEF Text
  <2>3. QED BY <1>4, <2>1, <2>2
<1>5. QED BY <1>2, <1>3, <1>4

LEMMA EcdsaHashIsDigest ==
    ASSUME NEW argument \in HashArguments, EcdsaHash(argument) \in DIGESTS
    PROVE  argument.name = {EcdsaHash(argument)}
<1>1. PICK plain : plain = [argument EXCEPT !.boxed = FALSE]
  OBVIOUS
<1>2. plain \in HashArguments /\ plain.name = argument.name
  <2>1. \/ \E b \in BOOLEAN, h \in Hashes : argument = [boxed |-> b, name |-> {h}]
        \/ argument = [boxed |-> FALSE, name |-> {}]
    BY FormsOfArgument
  <2>2. CASE \E b \in BOOLEAN, h \in Hashes : argument = [boxed |-> b, name |-> {h}]
    <3>1. PICK b \in BOOLEAN, h \in Hashes : argument = [boxed |-> b, name |-> {h}]
      BY <2>2
    <3>2. plain = [boxed |-> FALSE, name |-> {h}]
      BY <1>1, <3>1
    <3>3. QED BY <3>1, <3>2, FormsOfArgument
  <2>3. CASE argument = [boxed |-> FALSE, name |-> {}]
    <3>1. plain = [boxed |-> FALSE, name |-> {}]
      BY <1>1, <2>3
    <3>2. QED BY <2>3, <3>1, FormsOfArgument
  <2>4. QED BY <2>1, <2>2, <2>3
<1>3. EcdsaHash(argument) = Text(plain)
  BY <1>1 DEF EcdsaHash
<1>4. QED BY <1>2, <1>3, TextIsDigest

LEMMA HashOfIsArgument ==
    ASSUME KeysInv, NEW i \in DOMAIN keys, NEW argument \in HashArguments
    PROVE  HashOf(argument, keys[i]) \in HashArguments
BY KeysTypeParts DEF KeysInv, KeyOK, HashOf

LEMMA KeyRaw ==
    ASSUME KeysInv, NEW i \in DOMAIN keys
    PROVE  keys[i].raw \in RawMaterial /\ KeyOK(keys[i])
BY KeysTypeParts, MaterialIsRaw DEF KeysInv, KeyOK

LEMMA SignHmacInv ==
    ASSUME KeysInv, SignHmac
    PROVE  KeysInv'
<1>1. PICK i \in DOMAIN keys, argument \in HashArguments, data \in Data :
         Keep("HMAC", keys[i], HashOf(argument, keys[i]).name, data, NoIv,
              NativeHmac(Text(HashOf(argument, keys[i])), keys[i].raw, data))
  BY DEF SignHmac
<1>2. PICK key, hash : key = keys[i] /\ hash = HashOf(argument, keys[i])
  OBVIOUS
<1>3. hash \in HashArguments /\ key.raw \in RawMaterial
  BY <1>2, HashOfIsArgument, KeyRaw
<1>4. ASSUME NEW t \in NativeHmac(Text(hash), key.raw, data)
      PROVE  MadeByHmac([op |-> "HMAC", raw |-> key.raw, hash |-> hash.name, data |-> data,
                         iv |-> NoIv, out |-> t])
  <2>1. Text(hash) \in DIGESTS /\ t = Term("tag", {key.raw}, Text(hash), data)
    BY <1>4 DEF NativeHmac
  <2>2. hash.name = {Text(hash)}
    BY <1>3, <2>1, TextIsDigest
  <2>3. QED BY <2>1, <2>2 DEF MadeByHmac
<1>5. Keep("HMAC", key, hash.name, data, NoIv, NativeHmac(Text(hash), key.raw, data))
  BY <1>1, <1>2
<1>6. QED BY <1>3, <1>4, <1>5, KeepInv

LEMMA SignEcdsaInv ==
    ASSUME KeysInv, SignEcdsa
    PROVE  KeysInv'
<1>1. PICK i \in DOMAIN keys, argument \in HashArguments, data \in Data :
         /\ keys[i].name = "ECDSA" /\ keys[i].type = "private"
         /\ Keep("ECDSA", keys[i], argument.name, data, NoIv,
                 UNION {NativeEcdsaSign(keys[i].curve, keys[i].raw, digest) :
                           digest \in NativeDigest(EcdsaHash(argument), data)})
  BY DEF SignEcdsa
<1>2. PICK key : key = keys[i]
  OBVIOUS
<1>3. key.raw \in RawMaterial
  BY <1>2, KeyRaw
<1>5. PICK out : out = UNION {NativeEcdsaSign(key.curve, key.raw, digest) :
                                digest \in NativeDigest(EcdsaHash(argument), data)}
  OBVIOUS
<1>6. ASSUME NEW t \in out
      PROVE  MadeByEcdsa([op |-> "ECDSA", raw |-> key.raw, hash |-> argument.name, data |-> data,
                          iv |-> NoIv, out |-> t])
  <2>1. PICK digest \in NativeDigest(EcdsaHash(argument), data) :
           t \in NativeEcdsaSign(key.curve, key.raw, digest)
    BY <1>5, <1>6
  <2>2. EcdsaHash(argument) \in DIGESTS /\ digest = Term("digest", {}, EcdsaHash(argument), data)
    BY <2>1 DEF NativeDigest
  <2>3. /\ key.curve \in CURVES /\ key.raw.size = FieldSize(key.curve)
        /\ ~TooShort(key.curve, digest) /\ t = SignatureOf(key.raw.id, key.curve, digest)
    BY <2>1 DEF NativeEcdsaSign
  <2>4. argument.name = {EcdsaHash(argument)}
    BY <2>2, EcdsaHashIsDigest
  <2>5. QED BY <2>2, <2>3, <2>4 DEF MadeByEcdsa
<1>7. Keep("ECDSA", key, argument.name, data, NoIv, out)
  BY <1>1, <1>2, <1>5
<1>8. QED BY <1>3, <1>6, <1>7, KeepInv

LEMMA EncryptInv ==
    ASSUME KeysInv, Encrypt
    PROVE  KeysInv'
<1>1. PICK i \in DOMAIN keys, iv \in Ivs, data \in Data :
         Keep("AES-GCM", keys[i], {}, data, iv, NativeAesGcm("encrypt", keys[i].raw, iv, data))
  BY DEF Encrypt
<1>2. PICK key : key = keys[i]
  OBVIOUS
<1>3. key.raw \in RawMaterial
  BY <1>2, KeyRaw
<1>4. ASSUME NEW t \in NativeAesGcm("encrypt", key.raw, iv, data)
      PROVE  MadeByAesGcm([op |-> "AES-GCM", raw |-> key.raw, hash |-> {}, data |-> data,
                           iv |-> iv, out |-> t])
  BY <1>4 DEF NativeAesGcm, MadeByAesGcm
<1>5. Keep("AES-GCM", key, {}, data, iv, NativeAesGcm("encrypt", key.raw, iv, data))
  BY <1>1, <1>2
<1>6. QED BY <1>3, <1>4, <1>5, KeepInv

LEMMA KeysInitInv == Init => KeysInv
<1> SUFFICES ASSUME Init PROVE KeysInv
  OBVIOUS
<1>1. /\ keys = <<>> /\ held = {Bytes(0, size) : size \in Given} /\ drawn = 0
      /\ writes = 0 /\ made = {}
  BY DEF Init
<1>2. Cardinality(made) <= MaxMade
  BY <1>1, FS_EmptySet, KeysAssumption
<1>3. held \subseteq Material
  BY <1>1 DEF Material
<1>4. QED BY <1>1, <1>2, <1>3, KeysAssumption, KeysTypeParts DEF KeysInv, HeldOK, MadeInv

LEMMA KeysKept == KeysInv /\ [Next]_vars => KeysInv'
<1> SUFFICES ASSUME KeysInv, [Next]_vars PROVE KeysInv'
  OBVIOUS
<1>1. CASE Next
  BY <1>1, ImportPublicInv, ImportSecretInv, GeneratePairInv, GenerateSecretInv, WriteFieldInv,
     ExportKeyInv, SignHmacInv, SignEcdsaInv, EncryptInv DEF Next
<1>2. CASE UNCHANGED vars
  BY <1>2 DEF vars, KeysInv, KeysTypeOK, Material, MadeInv
<1>3. QED BY <1>1, <1>2

----------------------------------------------------------------------------
(* The theorems.                                                           *)

LEMMA KeysInvariant == Spec => []KeysInv
BY KeysInitInv, KeysKept, PTL DEF Spec

\* Whatever is imported, generated, written to and exported, in any order and
\* number: the material of a key nobody wrote to is of its kind, the two halves
\* of a pair are of one curve, and no material goes out but of a key made
\* extractable that is no private half, or of one whose fields the script wrote
\* to first (exportKey, and the fields of CryptoKey it reads back).
THEOREM KeysTypeCorrect == Spec => []KeysTypeOK
<1>1. KeysInv => KeysTypeOK
  BY DEF KeysInv
<1>2. QED BY <1>1, KeysInvariant, PTL

\* A tag holds for the key it was made with, or for one of the same material,
\* for the data and with the hash that were meant, and for nothing else (sign,
\* verify and hashOf, with HMAC), of all that was ever signed.
THEOREM TagsHold == Spec => []TagsHoldAsMade
<1>1. KeysInv => TagsHoldAsMade
  <2> SUFFICES ASSUME KeysInv, NEW i \in DOMAIN keys, NEW argument \in HashArguments,
                      NEW data \in Data, NEW tag \in Outs, NEW hash,
                      hash = IF argument.name # {} THEN argument ELSE keys[i].hash
               PROVE  VerifyHmac(keys[i], argument, data, tag) <=>
                        /\ ~hash.boxed
                        /\ \E m \in made : /\ m.op = "HMAC" /\ m.out = tag /\ m.raw = keys[i].raw
                                          /\ m.hash = hash.name /\ m.data = data
    BY DEF TagsHoldAsMade
  <2>1. hash = HashOf(argument, keys[i]) /\ hash \in HashArguments
    BY HashOfIsArgument DEF HashOf
  <2>2. VerifyHmac(keys[i], argument, data, tag) <=>
          Text(hash) \in DIGESTS /\ tag = Term("tag", {keys[i].raw}, Text(hash), data)
    <3>1. VerifyHmac(keys[i], argument, data, tag) <=>
            {tag = t : t \in NativeHmac(Text(hash), keys[i].raw, data)} = {TRUE}
      BY <2>1 DEF VerifyHmac, NativeHmacHolds
    <3>2. CASE Text(hash) \in DIGESTS
      <4>1. NativeHmac(Text(hash), keys[i].raw, data) = {Term("tag", {keys[i].raw}, Text(hash), data)}
        BY <3>2 DEF NativeHmac
      <4>2. {tag = t : t \in NativeHmac(Text(hash), keys[i].raw, data)} =
              {tag = Term("tag", {keys[i].raw}, Text(hash), data)}
        BY <4>1
      <4>3. QED BY <3>1, <3>2, <4>2
    <3>3. CASE Text(hash) \notin DIGESTS
      BY <3>1, <3>3 DEF NativeHmac
    <3>4. QED BY <3>2, <3>3
  <2>3. ASSUME Text(hash) \in DIGESTS, tag = Term("tag", {keys[i].raw}, Text(hash), data)
        PROVE  /\ ~hash.boxed
               /\ \E m \in made : /\ m.op = "HMAC" /\ m.out = tag /\ m.raw = keys[i].raw
                                 /\ m.hash = hash.name /\ m.data = data
    <3>1. PICK m \in made : m.out = tag
      BY DEF Outs
    <3>2. MadeByHmac(m)
      <4>1. m.out.is = "tag"
        BY <2>3, <3>1 DEF Term
      <4>2. QED BY <4>1, MadeSomehow, KindOfOut
    <3>3. PICK h \in DIGESTS : m.hash = {h} /\ m.out = Term("tag", {m.raw}, h, m.data)
      BY <3>2 DEF MadeByHmac
    <3>4. {m.raw} = {keys[i].raw} /\ h = Text(hash) /\ m.data = data
      BY <2>3, <3>1, <3>3, TermsEqual
    <3>5. ~hash.boxed /\ hash.name = {Text(hash)}
      BY <2>1, <2>3, TextIsDigest
    <3>6. QED BY <3>1, <3>2, <3>3, <3>4, <3>5 DEF MadeByHmac
  <2>4. ASSUME ~hash.boxed, NEW m \in made, m.op = "HMAC", m.out = tag, m.raw = keys[i].raw,
               m.hash = hash.name, m.data = data
        PROVE  Text(hash) \in DIGESTS /\ tag = Term("tag", {keys[i].raw}, Text(hash), data)
    <3>1. PICK h \in DIGESTS : m.hash = {h} /\ m.out = Term("tag", {m.raw}, h, m.data)
      BY <2>4 DEF KeysInv, MadeInv, MadeByHmac, MadeByEcdsa, MadeByAesGcm
    <3>2. Text(hash) = h
      BY <2>4, <3>1 DEF Text
    <3>3. QED BY <2>4, <3>1, <3>2
  <2>5. QED BY <2>2, <2>3, <2>4
<1>2. QED BY <1>1, KeysInvariant, PTL

\* A signature holds for the public half of the pair it was made with, for the
\* data and with the hash that were meant, and for nothing else (sign, verify
\* and ecdsa), wherever that half was exported to and imported from, and whatever
\* a script makes of the fields of its keys.
THEOREM SignaturesHold == Spec => []SignaturesHoldAsMade
<1>1. KeysInv => SignaturesHoldAsMade
  <2> SUFFICES ASSUME KeysInv
               PROVE  \A i \in DOMAIN keys, argument \in HashArguments, data \in Data, signature \in Outs :
                         (/\ keys[i].name = "ECDSA" /\ keys[i].type = "public"
                          /\ argument.name # {}) =>
                             (VerifyEcdsa(keys[i], argument, data, signature) = {TRUE} <=>
                                 \E m \in made : /\ m.op = "ECDSA" /\ m.out = signature
                                                /\ keys[i].raw = Point(m.raw.id, keys[i].curve)
                                                /\ m.raw.size = FieldSize(keys[i].curve)
                                                /\ m.hash = argument.name /\ m.data = data)
    BY DEF SignaturesHoldAsMade
  <2> TAKE i \in DOMAIN keys, argument \in HashArguments, data \in Data, signature \in Outs
  <2> HAVE keys[i].name = "ECDSA" /\ keys[i].type = "public" /\ argument.name # {}
  <2> DEFINE hash == EcdsaHash(argument)
             digest == Term("digest", {}, hash, data)
             id == keys[i].raw.id
             curve == keys[i].curve
  <2>1. /\ keys[i].raw = Point(id, curve) => curve \in CURVES
        /\ \A n : keys[i].raw = Point(n, curve) => n = id
    <3>1. keys[i].raw \in Material
      BY KeyRaw DEF KeyOK
    <3>2. ASSUME keys[i].raw = Point(id, curve)
          PROVE  curve \in CURVES
      <4>1. PICK raw : raw = keys[i].raw
        OBVIOUS
      <4>2. PICK c : c = curve
        OBVIOUS
      <4>3. raw \in Material /\ raw.is = "point" /\ raw.curve = c
        BY <3>1, <3>2, <4>1, <4>2 DEF Point
      <4>4. QED BY <4>2, <4>3, CurveOfPoint
    <3>3. QED BY <3>2 DEF Point
  <2>2. VerifyEcdsa(keys[i], argument, data, signature) = {TRUE} <=>
          /\ hash \in DIGESTS
          /\ keys[i].raw = Point(id, curve)
          /\ signature = SignatureOf(id, curve, digest)
          /\ ~TooShort(curve, digest)
    <3>1. NativeEcdsaHolds(curve, keys[i].raw, digest, signature) = {TRUE} <=>
            /\ keys[i].raw = Point(id, curve)
            /\ signature = SignatureOf(id, curve, digest) /\ ~TooShort(curve, digest)
      <4>1. CASE keys[i].raw = Point(id, curve)
        <5>1. NativeEcdsaHolds(curve, keys[i].raw, digest, signature) =
                {signature = SignatureOf(id, curve, digest) /\ ~TooShort(curve, digest)}
          BY <4>1 DEF NativeEcdsaHolds
        <5>2. QED BY <4>1, <5>1
      <4>2. CASE keys[i].raw # Point(id, curve)
        <5>1. NativeEcdsaHolds(curve, keys[i].raw, digest, signature) = {}
          BY <4>2 DEF NativeEcdsaHolds
        <5>2. QED BY <4>2, <5>1
      <4>3. QED BY <4>1, <4>2
    <3>2. CASE hash \in DIGESTS
      <4>1. NativeDigest(hash, data) = {digest}
        BY <3>2 DEF NativeDigest
      <4>2. VerifyEcdsa(keys[i], argument, data, signature) =
              {NativeEcdsaHolds(curve, keys[i].raw, digest, signature) = {TRUE}}
        BY <4>1 DEF VerifyEcdsa
      <4>3. QED BY <3>1, <3>2, <4>2
    <3>3. CASE hash \notin DIGESTS
      BY <3>3 DEF VerifyEcdsa, NativeDigest
    <3>4. QED BY <3>2, <3>3
  <2>3. ASSUME hash \in DIGESTS, keys[i].raw = Point(id, curve),
               signature = SignatureOf(id, curve, digest)
        PROVE  \E m \in made : /\ m.op = "ECDSA" /\ m.out = signature
                              /\ keys[i].raw = Point(m.raw.id, curve)
                              /\ m.raw.size = FieldSize(curve)
                              /\ m.hash = argument.name /\ m.data = data
    <3>1. PICK m \in made : m.out = signature
      BY DEF Outs
    <3>2. MadeByEcdsa(m)
      <4>1. m.out.is = "signature"
        BY <2>3, <3>1 DEF SignatureOf, Term
      <4>2. QED BY <4>1, MadeSomehow, KindOfOut
    <3>3. PICK h \in DIGESTS, c \in CURVES :
             /\ m.hash = {h}
             /\ m.raw.size = FieldSize(c)
             /\ m.out = SignatureOf(m.raw.id, c, Term("digest", {}, h, m.data))
      BY <3>2 DEF MadeByEcdsa
    <3>4. /\ {Point(m.raw.id, c)} = {Point(id, curve)}
          /\ Term("digest", {}, h, m.data) = digest
      BY <2>3, <3>1, <3>3, TermsEqual DEF SignatureOf
    <3>5. Point(m.raw.id, c) = Point(id, curve)
      BY <3>4
    <3>6. m.raw.id = id /\ c = curve
      BY <3>5 DEF Point
    <3>7. h = hash /\ m.data = data
      BY <3>4, TermsEqual
    <3>8. argument.name = {hash}
      BY <2>3, EcdsaHashIsDigest
    <3>9. QED BY <2>3, <3>1, <3>2, <3>3, <3>6, <3>7, <3>8 DEF MadeByEcdsa
  <2>4. ASSUME NEW m \in made, m.op = "ECDSA", m.out = signature,
               keys[i].raw = Point(m.raw.id, curve), m.raw.size = FieldSize(curve),
               m.hash = argument.name, m.data = data
        PROVE  /\ hash \in DIGESTS
               /\ keys[i].raw = Point(id, curve)
               /\ signature = SignatureOf(id, curve, digest)
               /\ ~TooShort(curve, digest)
    <3>1. PICK h \in DIGESTS, c \in CURVES :
             /\ m.hash = {h}
             /\ m.raw.size = FieldSize(c)
             /\ ~TooShort(c, Term("digest", {}, h, m.data))
             /\ m.out = SignatureOf(m.raw.id, c, Term("digest", {}, h, m.data))
      BY <2>4 DEF KeysInv, MadeInv, MadeByHmac, MadeByEcdsa, MadeByAesGcm
    <3>2. hash = h
      <4>1. PICK b \in BOOLEAN, g \in Hashes : argument = [boxed |-> b, name |-> {g}]
        BY FormsOfArgument
      <4>2. g = h
        BY <2>4, <3>1, <4>1
      <4>3. QED BY <4>1, <4>2 DEF EcdsaHash, Text
    <3>3. m.raw.id = id /\ curve \in CURVES
      BY <2>1, <2>4
    <3>4. c = curve
      BY <2>4, <3>1, <3>3 DEF FieldSize, CURVES
    <3>5. QED BY <2>4, <3>1, <3>2, <3>3, <3>4
  <2>5. QED BY <2>2, <2>3, <2>4
<1>2. QED BY <1>1, KeysInvariant, PTL

\* Decrypting gives back what was encrypted with that key and that nonce, and
\* throws for anything else (encrypt and decrypt, with AES-GCM).
THEOREM DecryptsOwn == Spec => []DecryptsWhatWasEncrypted
<1>1. KeysInv => DecryptsWhatWasEncrypted
  <2> SUFFICES ASSUME KeysInv, NEW i \in DOMAIN keys, NEW iv \in Ivs, NEW given \in Outs
               PROVE  Decrypt(keys[i], iv, given) =
                        {m.data : m \in {m \in made : /\ m.op = "AES-GCM" /\ m.out = given
                                                       /\ m.raw = keys[i].raw /\ m.iv = iv}}
    BY DEF DecryptsWhatWasEncrypted
  <2> DEFINE raw == keys[i].raw
             own == {m \in made : /\ m.op = "AES-GCM" /\ m.out = given
                                  /\ m.raw = raw /\ m.iv = iv}
  <2>1. raw \in RawMaterial
    BY KeyRaw
  <2>2. PICK m \in made : m.out = given
    BY DEF Outs
  <2>3. CASE \E e \in own : TRUE
    <3>1. PICK e \in own : TRUE
      BY <2>3
    <3>2. /\ iv.size = 12 /\ raw.size = 32
          /\ given = Term("cipher", {raw, iv}, "none", e.data)
      BY <3>1 DEF KeysInv, MadeInv, MadeByHmac, MadeByEcdsa, MadeByAesGcm
    <3>3. \A o \in own : o.data = e.data
      <4>1. ASSUME NEW o \in own
            PROVE  given = Term("cipher", {raw, iv}, "none", o.data)
        BY <4>1 DEF KeysInv, MadeInv, MadeByHmac, MadeByEcdsa, MadeByAesGcm
      <4>2. QED BY <3>2, <4>1, TermsEqual
    <3>4. Decrypt(keys[i], iv, given) = {e.data}
      BY <3>2 DEF Decrypt, NativeAesGcm, Term
    <3>5. {o.data : o \in own} = {e.data}
      BY <3>1, <3>3
    <3>6. QED BY <3>4, <3>5
  <2>4. CASE ~\E e \in own : TRUE
    <3>1. ASSUME raw.size = 32, iv.size = 12, given.is = "cipher", given.with = {raw, iv}
          PROVE  FALSE
      <4>2. MadeByAesGcm(m)
        BY <2>2, <3>1, MadeSomehow, KindOfOut
      <4>3. m.raw \in RawMaterial /\ m.iv \in Ivs /\ given.with = {m.raw, m.iv}
        BY <2>2, <4>2, MadeSomehow DEF MadeByAesGcm, Term
      <4>4. m.raw = raw /\ m.iv = iv
        BY <2>1, <3>1, <4>3, NonceIsNoKey
      <4>5. m \in own
        BY <2>2, <4>2, <4>4 DEF MadeByAesGcm
      <4>6. QED BY <2>4, <4>5
    <3>2. Decrypt(keys[i], iv, given) = {}
      BY <3>1 DEF Decrypt, NativeAesGcm
    <3>3. {o.data : o \in own} = {}
      BY <2>4
    <3>4. QED BY <3>2, <3>3
  <2>5. QED BY <2>3, <2>4
<1>2. QED BY <1>1, KeysInvariant, PTL

=============================================================================
