-------------------------------- MODULE Keys --------------------------------
(***************************************************************************)
(* crypto.subtle: the keys a script holds (crypto.js), whose material goes *)
(* down to the host for every operation (crypto.rs), over ideal            *)
(* primitives: what an operation computes is a term of what it was given,  *)
(* and two terms are equal only if they were computed alike.  A buffer and *)
(* its hexadecimal digits are one value here; TextDecoder has the digits.  *)
(***************************************************************************)
EXTENDS Naturals, Sequences, FiniteSets

CONSTANTS Data,     \* buffers a script signs and encrypts
          Hashes,   \* names of hashes a script passes
          Given,    \* numbers of bytes of the keys a script brings along
          MaxKeys,  \* bound: keys of the script
          MaxSecrets, \* bound: those among them whose algorithm is not ECDSA
          MaxWrites, \* bound: writes of the script to fields of keys
          MaxMade   \* bound: signatures, tags and ciphertexts it keeps

ASSUME KeysAssumption ==
    /\ Given \subseteq Nat
    /\ MaxKeys \in Nat
    /\ MaxSecrets \in Nat
    /\ MaxWrites \in Nat
    /\ MaxMade \in Nat

VARIABLES keys,   \* the CryptoKeys, and in `raw` the WeakMap `material`
          held,   \* key material the script has in buffers of its own
          drawn,  \* secrets drawn from the host's random source
          writes, \* history: how often the script wrote to a key's field
          made    \* history: what sign() and encrypt() returned, and for what

vars == <<keys, held, drawn, writes, made>>

----------------------------------------------------------------------------
(* The host.  null is {}, false is {FALSE}.                                *)

DIGESTS == {"SHA-1", "SHA-256", "SHA-384", "SHA-512"}
CURVES == {"P-256", "P-384"}

\* Material: bytes, or one of the halves of a pair.
Bytes(id, size) == [is |-> "bytes", id |-> id, curve |-> "none", size |-> size]
FieldSize(curve) == IF curve = "P-256" THEN 32 ELSE 48

Scalar(id, curve) == [is |-> "scalar", id |-> id, curve |-> curve, size |-> FieldSize(curve)]
Point(id, curve) ==
    [is |-> "point", id |-> id, curve |-> curve, size |-> IF curve = "P-256" THEN 65 ELSE 97]

Term(is, with, hash, data) == [is |-> is, with |-> with, hash |-> hash, data |-> data]

NativeDigest(hash, data) == IF hash \in DIGESTS THEN {Term("digest", {}, hash, data)} ELSE {}

NativeHmac(hash, key, data) ==
    IF hash \in DIGESTS THEN {Term("tag", {key}, hash, data)} ELSE {}

\* With a tag to check against it answers whether that is the one.
NativeHmacHolds(hash, key, data, tag) == {tag = t : t \in NativeHmac(hash, key, data)}

\* Mutant of NativeAesGcm: the nonce is not handed on.
NativeAesGcmFixed(op, key, iv, data) ==
    IF op = "encrypt" THEN {Term("cipher", {key}, "none", data)}
    ELSE {t.data : t \in {t \in {data} : t.is = "cipher" /\ t.with = {key}}}

\* null for a size it does not take, and so is here a tag that does not hold.
NativeAesGcm(op, key, iv, data) ==
    IF key.size # 32 \/ iv.size # 12 THEN {}
    ELSE IF op = "encrypt" THEN {Term("cipher", {key, iv}, "none", data)}
         ELSE {t.data : t \in {t \in {data} : t.is = "cipher" /\ t.with = {key, iv}}}

\* p256 and p384 refuse a digest shorter than half of the field.
TooShort(curve, digest) == curve = "P-384" /\ digest.hash = "SHA-1"

SignatureOf(id, curve, digest) == Term("signature", {Point(id, curve)}, "none", digest)

\* Bytes of the field's size are a scalar as good as one that was drawn.
NativeEcdsaSign(curve, key, digest) ==
    IF /\ curve \in CURVES /\ key.is # "point" /\ key.size = FieldSize(curve)
       /\ ~TooShort(curve, digest)
    THEN {SignatureOf(key.id, curve, digest)} ELSE {}

NativeEcdsaHolds(curve, key, digest, signature) ==
    {signature = SignatureOf(key.id, curve, digest) /\ ~TooShort(curve, digest) :
        k \in {key} \cap {Point(key.id, curve)}}

NativeEcdsaCheck(curve, bytes) == bytes.is = "point" /\ bytes.curve = curve

----------------------------------------------------------------------------
(* crypto.js.                                                              *)

\* The `hash` of an algorithm: left out, a name, or an object with a name.
HashArguments ==
    {[boxed |-> b, name |-> {h}] : b \in BOOLEAN, h \in Hashes} \cup {[boxed |-> FALSE, name |-> {}]}

\* String(hash).toUpperCase()
Text(argument) ==
    CASE argument.boxed                           -> "[OBJECT OBJECT]"
      [] ~argument.boxed /\ argument.name = {}    -> "UNDEFINED"
      [] OTHER -> CHOOSE h \in argument.name : TRUE

\* `written` is history: whether the script has written to the key's fields.
CryptoKey(type, name, curve, hash, extractable, raw) ==
    [type |-> type, name |-> name, curve |-> curve, hash |-> hash,
     extractable |-> extractable, raw |-> raw, written |-> FALSE]

NoHash == [boxed |-> FALSE, name |-> {}]

Holds(new) ==
    /\ Len(keys) + Len(new) <= MaxKeys
    /\ keys' = keys \o new
    /\ UNCHANGED <<held, writes, made>>

\* importKey() of a public key; bytes that are no point of the curve throw.
ImportPublic ==
    \E curve \in CURVES, bytes \in held, extractable \in BOOLEAN :
        /\ NativeEcdsaCheck(curve, bytes)
        /\ Holds(<<CryptoKey("public", "ECDSA", curve, NoHash, extractable, bytes)>>)
        /\ UNCHANGED drawn

AnotherSecret == Cardinality({i \in DOMAIN keys : keys[i].name # "ECDSA"}) < MaxSecrets

\* Any bytes are an HMAC or an AES-GCM key, of any size.
ImportSecret ==
    /\ AnotherSecret
    /\ \E name \in {"HMAC", "AES-GCM"}, hash \in HashArguments, bytes \in held, extractable \in BOOLEAN :
        /\ name = "AES-GCM" => hash = NoHash
        /\ Holds(<<CryptoKey("secret", name, "none", hash, extractable, bytes)>>)
        /\ UNCHANGED drawn

GeneratePair ==
    \E curve \in CURVES, extractable \in BOOLEAN :
        /\ Holds(<<CryptoKey("private", "ECDSA", curve, NoHash, extractable, Scalar(drawn + 1, curve)),
                   CryptoKey("public", "ECDSA", curve, NoHash, TRUE, Point(drawn + 1, curve))>>)
        /\ drawn' = drawn + 1

GenerateSecret ==
    /\ AnotherSecret
    /\ \E extractable \in BOOLEAN :
        /\ Holds(<<CryptoKey("secret", "AES-GCM", "none", NoHash, extractable, Bytes(drawn + 1, 32))>>)
        /\ drawn' = drawn + 1

\* A key's fields are the script's to write to; its material is not among
\* them.  A write within the `algorithm` that a pair shares is two of these.
Rewritten(key) ==
    {[key EXCEPT !.type = type, !.written = TRUE] :
        type \in {"private", "public", "secret"} \ {key.type}}
    \cup {[key EXCEPT !.extractable = ~key.extractable, !.written = TRUE]}
    \cup {[key EXCEPT !.name = name, !.written = TRUE] :
             name \in {"ECDSA", "HMAC", "AES-GCM"} \ {key.name}}
    \cup {[key EXCEPT !.curve = curve, !.written = TRUE] : curve \in CURVES \ {key.curve}}
    \cup {[key EXCEPT !.hash = hash, !.written = TRUE] : hash \in HashArguments \ {key.hash}}

WriteField ==
    \E i \in DOMAIN keys :
        /\ writes < MaxWrites
        /\ \E key \in Rewritten(keys[i]) : keys' = [keys EXCEPT ![i] = key]
        /\ writes' = writes + 1
        /\ UNCHANGED <<held, drawn, made>>

\* Mutant of ExportKey: the form of a private key is its scalar.
ExportAnyKey ==
    \E i \in DOMAIN keys :
        /\ keys[i].extractable
        /\ held' = held \cup {keys[i].raw}
        /\ UNCHANGED <<keys, drawn, writes, made>>

ExportKey ==
    \E i \in DOMAIN keys :
        /\ keys[i].extractable
        /\ keys[i].name = "ECDSA" => keys[i].type = "public"
        /\ held' = held \cup {keys[i].raw}
        /\ UNCHANGED <<keys, drawn, writes, made>>

\* Mutant of HashOf: the key's own hash comes first.
HashOfKey(argument, key) == IF key.hash.name = {} THEN argument ELSE key.hash

HashOf(argument, key) == IF argument.name = {} THEN key.hash ELSE argument

\* Mutant of EcdsaHash: read as hashOf() reads it.
EcdsaHashAsText(argument) == Text(argument)

\* The hash ecdsa() takes, from a name or an object with one.
EcdsaHash(argument) == Text([argument EXCEPT !.boxed = FALSE])

\* What an operation returned, for which key and which data.
Keep(op, key, hash, data, iv, out) ==
    /\ made' = made \cup {[op |-> op, raw |-> key.raw, hash |-> hash, data |-> data, iv |-> iv,
                           out |-> t] : t \in out}
    /\ Cardinality(made') <= MaxMade
    /\ UNCHANGED <<keys, held, drawn, writes>>

NoIv == [id |-> 0, size |-> 0]

\* sign() with HMAC takes any key; one with ECDSA a private key of a pair.
SignHmac ==
    \E i \in DOMAIN keys, argument \in HashArguments, data \in Data :
        LET hash == HashOf(argument, keys[i])
            out == NativeHmac(Text(hash), keys[i].raw, data) IN
        /\ out # {}
        /\ Keep("HMAC", keys[i], hash.name, data, NoIv, out)

SignEcdsa ==
    \E i \in DOMAIN keys, argument \in HashArguments, data \in Data :
        LET key == keys[i]
            out == UNION {NativeEcdsaSign(key.curve, key.raw, digest) :
                             digest \in NativeDigest(EcdsaHash(argument), data)} IN
        /\ key.name = "ECDSA" /\ key.type = "private"
        /\ out # {}
        /\ Keep("ECDSA", key, argument.name, data, NoIv, out)

\* The nonces of a script: two of the size AES-GCM takes, and one that is not.
Ivs == {[id |-> 1, size |-> 12], [id |-> 2, size |-> 12], [id |-> 3, size |-> 16]}

Encrypt ==
    \E i \in DOMAIN keys, iv \in Ivs, data \in Data :
        LET out == NativeAesGcm("encrypt", keys[i].raw, iv, data) IN
        /\ out # {}
        /\ Keep("AES-GCM", keys[i], {}, data, iv, out)

\* verify() with HMAC: `=== true`, so what is no answer of the host is false.
VerifyHmac(key, argument, data, tag) ==
    NativeHmacHolds(Text(HashOf(argument, key)), key.raw, data, tag) = {TRUE}

\* With ECDSA, of a public key and a hash there is a digest of; else it throws.
VerifyEcdsa(key, argument, data, signature) ==
    {NativeEcdsaHolds(key.curve, key.raw, digest, signature) = {TRUE} :
        digest \in NativeDigest(EcdsaHash(argument), data)}

\* decrypt(): a tag that does not hold, or a size that is wrong, throws.
Decrypt(key, iv, data) == NativeAesGcm("decrypt", key.raw, iv, data)

Init ==
    /\ keys = <<>>
    /\ held = {Bytes(0, size) : size \in Given}
    /\ drawn = 0
    /\ writes = 0
    /\ made = {}

Next ==
    \/ ImportPublic \/ ImportSecret \/ GeneratePair \/ GenerateSecret \/ WriteField
    \/ ExportKey \/ SignHmac \/ SignEcdsa \/ Encrypt

Spec == Init /\ [][Next]_vars

----------------------------------------------------------------------------
(* Properties.                                                             *)

Material ==
    {Bytes(0, size) : size \in Given} \cup {Bytes(n, 32) : n \in 1..drawn}
    \cup {Scalar(n, curve) : n \in 1..drawn, curve \in CURVES}
    \cup {Point(n, curve) : n \in 1..drawn, curve \in CURVES}

\* Until a script writes to its fields, a key's material is of the kind its
\* type and its algorithm say, and of a pair both halves are of one curve.  The
\* material a script has is what it brought along, what was exported of keys
\* made extractable (of a pair its public point, whatever its private half was
\* made), and that of keys whose fields it wrote to first, of which nothing is
\* promised.
KeysTypeOK ==
    /\ drawn \in Nat /\ writes \in 0..MaxWrites
    /\ held \subseteq Material
    /\ \A i \in DOMAIN keys :
         /\ keys[i].raw \in Material
         /\ keys[i].hash \in HashArguments
         /\ ~keys[i].written =>
              /\ keys[i].type \in {"private", "public"} <=> keys[i].name = "ECDSA"
              /\ keys[i].type = "private" => keys[i].raw \in {Scalar(n, keys[i].curve) : n \in 1..drawn}
              /\ keys[i].type = "public" => keys[i].raw \in {Point(n, keys[i].curve) : n \in 1..drawn}
    /\ Cardinality(made) <= MaxMade
    /\ \A bytes \in held :
         \/ bytes \in {Bytes(0, size) : size \in Given}
         \/ \E i \in DOMAIN keys :
               /\ keys[i].raw = bytes
               /\ keys[i].written \/ (keys[i].extractable /\ keys[i].type # "private")

Outs == {m.out : m \in made}

\* A tag holds for the key it was made with, or for one of the same material,
\* for the data and with the hash that were meant (the key's own when the call
\* names none), and for nothing else.  Of a hash that HMAC was given as an
\* object, as hashOf() reads it, nothing is signed and nothing holds.
TagsHoldAsMade ==
    \A i \in DOMAIN keys, argument \in HashArguments, data \in Data, tag \in Outs :
        LET hash == IF argument.name # {} THEN argument ELSE keys[i].hash IN
        VerifyHmac(keys[i], argument, data, tag) <=>
            /\ ~hash.boxed
            /\ \E m \in made : /\ m.op = "HMAC" /\ m.out = tag /\ m.raw = keys[i].raw
                              /\ m.hash = hash.name /\ m.data = data

\* A signature holds for the public half of the pair it was made with, brought
\* in from its exported form or not, for the data and with the hash that were
\* meant, and for nothing else; a hash given as an object is one by its name.
\* A key that a script passes off as a public one, or as one of another curve,
\* is of no pair that signed anything.
SignaturesHoldAsMade ==
    \A i \in DOMAIN keys, argument \in HashArguments, data \in Data, signature \in Outs :
        (keys[i].name = "ECDSA" /\ keys[i].type = "public" /\ argument.name # {}) =>
            (VerifyEcdsa(keys[i], argument, data, signature) = {TRUE} <=>
                \E m \in made : /\ m.op = "ECDSA" /\ m.out = signature
                               /\ keys[i].raw = Point(m.raw.id, keys[i].curve)
                               /\ m.raw.size = FieldSize(keys[i].curve)
                               /\ m.hash = argument.name /\ m.data = data)

\* Decrypting gives back what was encrypted with that key and that nonce, and
\* throws for anything else.
DecryptsWhatWasEncrypted ==
    \A i \in DOMAIN keys, iv \in Ivs, given \in Outs :
        Decrypt(keys[i], iv, given) =
            {m.data : m \in {m \in made : /\ m.op = "AES-GCM" /\ m.out = given
                                           /\ m.raw = keys[i].raw /\ m.iv = iv}}

=============================================================================
