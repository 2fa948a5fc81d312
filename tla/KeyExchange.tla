----------------------------- MODULE KeyExchange ----------------------------
(***************************************************************************)
(* The key exchanges of internal/ke, the ServerKeyExchange the client      *)
(* verifies before one (client.go) and the choice of a GOST exchange       *)
(* (kex_gost.go).  Each exchange returns the body of the ClientKeyExchange *)
(* and the pre-master secret; next to it is what the server makes of that  *)
(* body.                                                                   *)
(*                                                                         *)
(* DHE is computed, with small primes.  The elliptic curves are replaced   *)
(* by groups of prime order, and ciphers and signatures by values that     *)
(* only the right key opens.                                               *)
(***************************************************************************)
EXTENDS Codec

CONSTANT dheMinPLen  \* dheMinPBits in bytes, 256 in the code

ASSUME KeyExchangeAssumption == dheMinPLen \in Nat \ {0}

-----------------------------------------------------------------------------
(* Primitives of libraries *)

\* A curve as a group of prime order: the public key of k, and the secret k
\* shares with the owner of P.  They commute.
Order(curve) == CASE curve = \h17 -> 5 [] curve = \h18 -> 7 [] curve = \h19 -> 11 [] OTHER -> 13
Public(curve, k) == (2 * k) % Order(curve)
Shared(curve, k, P) == (k * P) % Order(curve)
OnCurve(curve, point) == Len(point) = 1 /\ point[1] \in 1 .. Order(curve) - 1

\* Signatures and RSA encryption show what they were made of.
Sign(key, hash, data) == <<key, hash>> \o data
RSAEncrypt(key, m) == <<key>> \o m

PowMod(b, e, m) ==
  LET pow[i \in 0 .. e] ==
        IF i = 0 THEN 1 % m
        ELSE LET h == pow[i \div 2] IN (h * h * (IF i % 2 = 1 THEN b ELSE 1)) % m
  IN pow[e]

\* How many digits v has in the given base.
Digits(v, base) == CHOOSE n \in 0 .. v : v < base ^ n /\ \A i \in 0 .. n - 1 : base ^ i <= v

-----------------------------------------------------------------------------
(* ServerKeyExchange *)

clientSigAlgsAdvertised == <<<<4, 1>>, <<5, 1>>, <<4, 3>>, <<5, 3>>>>
sigAlgAdvertised(alg) == \E i \in DOMAIN clientSigAlgsAdvertised : clientSigAlgsAdvertised[i] = alg

\* The kind of key that makes signatures of an algorithm.
SigKey(sig) == CASE sig = 1 -> "RSA" [] sig = 3 -> "ECDSA" [] OTHER -> "none"

skeSigAlgMatchesAuth(sig, auth) == auth \in {"RSA", "ECDSA"} /\ SigKey(sig) = auth

hashForSigAlg == {2, 4, 5, 6}

verifySignature(leaf, alg, data, sig) ==
  alg[1] \in hashForSigAlg /\ leaf.key = SigKey(alg[2]) /\ sig = Sign(leaf.pub, alg[1], data)

ParamsLayout(kx) ==
  IF kx = "ECDHE" THEN <<Fixed(1), Fixed(2), Var(1)>> ELSE <<Var(2), Var(2), Var(2)>>

\* verifyServerKeyExchange: the parameters, once the signature over them and
\* the randoms is verified.  Bytes after the signature are ignored.
verifyServerKeyExchange(suite, leaf, randoms, body) ==
  LET parts == Split(body, ParamsLayout(suite.kx) \o <<Fixed(2), Var(2)>>)
      Params(s) == SubSeq(body, 1, Len(body) - Len(s.f[4]) - Len(s.f[5]) - 2 - Len(s.rest))
      valid(s) == /\ suite.kx = "ECDHE" => s.f[1] = <<3>>
                  /\ sigAlgAdvertised(s.f[4])
                  /\ skeSigAlgMatchesAuth(s.f[4][2], suite.auth)
                  /\ verifySignature(leaf, s.f[4], randoms \o Params(s), s.f[5])
  IN IF suite.kx \notin {"ECDHE", "DHE"} THEN Fail
     ELSE {Params(s) : s \in {p \in parts : valid(p)}}

\* What a server sends: its parameters, signed.
ServerKeyExchangeBody(key, alg, randoms, params) ==
  params \o alg \o Prefixed(2, Sign(key, alg[1], randoms \o params))

-----------------------------------------------------------------------------
(* ECDHE and RSA: rand_inject.go *)

curveByID == {\h17, \h18, \h19, \h1D}

ECDHEExchange(params, k) ==
  LET valid(s) == s.f[1] = <<3>> /\ Val(s.f[2]) \in curveByID /\ OnCurve(Val(s.f[2]), s.f[3])
  IN {[cke |-> Prefixed(1, <<Public(Val(s.f[2]), k)>>),
       preMaster |-> <<Shared(Val(s.f[2]), k, s.f[3][1])>>] :
        s \in {p \in Split(params, <<Fixed(1), Fixed(2), Var(1)>>) : valid(p)}}

ECDHEParams(curve, k) == <<3>> \o Enc(curve, 2) \o Prefixed(1, <<Public(curve, k)>>)

ECDHEServer(curve, k, cke) ==
  {<<Shared(curve, k, s.f[1][1])>> : s \in Split(cke, <<Var(1)>>)}

RSAExchange(leaf, random46) ==
  LET preMaster == <<3, 3>> \o random46
  IN Check(leaf.key = "RSA",
           [cke |-> Prefixed(2, RSAEncrypt(leaf.pub, preMaster)), preMaster |-> preMaster])

RSAServer(leaf, cke) ==
  {Drop(s.f[1], 1) : s \in {m \in Split(cke, <<Var(2)>>) : m.f[1][1] = leaf.pub}}

-----------------------------------------------------------------------------
(* DHE: dhe.go *)

parseDHEServerParams(params) ==
  {[p |-> s.f[1], g |-> s.f[2], Ys |-> s.f[3]] :
     s \in {r \in Split(params, <<Var(2), Var(2), Var(2)>>) : r.rest = <<>>}}

validateDHEParams(d) ==
  /\ Len(d.p) >= dheMinPLen /\ Val(d.p) % 2 = 1
  /\ Val(d.g) >= 2
  /\ Val(d.Ys) > 1 /\ Val(d.Ys) < Val(d.p) - 1

\* A base that is not below the modulus is reduced, unless it is longer; the
\* result has the length of the modulus without leading zeros.
modExp(base, x, p) ==
  LET m == Val(p) IN
  Check(Digits(Val(base), 2) <= Digits(m, 2),
        Enc(PowMod(Val(base) % m, x, m), Digits(m, Radix)))

leftPad(b, n) == IF Len(b) >= n THEN b ELSE [i \in 1 .. n - Len(b) |-> 0] \o b

DHEExchange(params, x) ==
  UNION {{[cke |-> Prefixed(2, leftPad(Yc, Len(d.p))), preMaster |-> leftPad(Z, Len(d.p))] :
            Yc \in modExp(d.g, x, d.p), Z \in modExp(d.Ys, x, d.p)} :
           d \in {s \in parseDHEServerParams(params) : validateDHEParams(s)}}

\* group.p is sent in group.len bytes.
DHEParams(group, y) ==
  Prefixed(2, Enc(group.p, group.len)) \o Prefixed(2, <<group.g>>)
  \o Prefixed(2, Enc(PowMod(group.g, y, group.p), group.len))

\* The number the server shares with the sender of cke.
DHEServer(params, y, cke) ==
  LET p == Val(Value(parseDHEServerParams(params)).p)
  IN {PowMod(Val(s.f[1]) % p, y, p) : s \in Split(cke, <<Var(2)>>)}

-----------------------------------------------------------------------------
(* GOST key transport: gost_keytransport.go, vkogost.go *)

\* DER of asn1.Marshal: long lengths get a byte of their own that counts them.
DER(tag, body) ==
  LET n == Len(body)
      k == Digits(n, Radix)
  IN <<tag>> \o (IF n < 128 THEN <<n>> ELSE <<128 + k>> \o Enc(n, k)) \o body

lengthOfLength(first) == IF first < 128 THEN 0 ELSE first - 128

DERBody(der) == Drop(der, 2 + lengthOfLength(der[2]))

\* The SPKI of the ephemeral key: the certificate's algorithm, and the key in
\* an OCTET STRING in a BIT STRING.
SPKI(algo, pub) == DER(\h30, algo \o DER(3, <<0>> \o DER(4, pub)))

\* Mutant: the length is taken to be in short form always.
EphemKeyShort(spki) == DER(\hA0, Drop(spki, 2))

\* The implicit tag [0] replaces that of the SEQUENCE.
EphemKey(spki) == DER(\hA0, DERBody(spki))

\* How an ASN.1 reader finds the key again.
ReadEphemKey(der, algo) ==
  LET bits == Drop(DERBody(der), Len(algo))
  IN DERBody(Drop(DERBody(bits), 1))

\* A public key of a GOST curve is as long as the curve says.
GOSTPublic(curve, k) == [i \in 1 .. curve.len |-> (2 * k) % 13]
GOSTShared(k, pub) == (k * pub[1]) % 13

\* The structure of a GOST ClientKeyExchange stands for its DER: a body of one item.
\* What a VKO, a key wrap or an export makes shows its ingredients.
VKO(alg, curve, k, pub, ukm) == <<alg, curve, GOSTShared(k, pub), ukm>>
Wrap(sbox, kek, ukm, m) == [sbox |-> sbox, kek |-> kek, ukm |-> ukm, m |-> m]

\* Common to the two VKO exchanges: kx is the kind of VKO, sbox the S-box of
\* the key wrap, which the message names; k is the ephemeral key.
VKOExchange(kx, sbox, leaf, ukm, k, preMaster) ==
  LET kek == VKO(kx, leaf.curve, k, leaf.pub, ukm)
  IN Check(leaf.algo # <<>> /\ Len(ukm) >= 8,
           [cke |-> <<[EncryptedKey |-> Wrap(sbox, kek, ukm, preMaster),
                       Cipher |-> sbox,
                       EphemKey |-> EphemKey(SPKI(leaf.algo, GOSTPublic(leaf.curve, k))),
                       EphIV |-> ukm]>>,
            preMaster |-> preMaster])

VKOGost2001(leaf, ukm, k, preMaster) ==
  VKOExchange("GOST2001", "CryptoProA", leaf, ukm, k, preMaster)
VKOGost2012_256(leaf, ukm, k, preMaster) ==
  VKOExchange("GOST2012_256", "TC26Z", leaf, ukm, k, preMaster)

\* The server derives the same key from its own, the ephemeral key and EphIV.
VKOServer(kx, leaf, body) ==
  LET gkt == body[1]
      pub == ReadEphemKey(gkt.EphemKey, leaf.algo)
      w   == gkt.EncryptedKey
  IN Check(w = Wrap(gkt.Cipher, VKO(kx, leaf.curve, leaf.priv, pub, gkt.EphIV), gkt.EphIV, w.m),
           w.m)

-----------------------------------------------------------------------------
(* GOST 2018: gost2018.go, pskeytransport_gost.go *)

Streebog256(data) == [i \in 1 .. 32 |-> <<i, data>>]
KEG2012_256(curve, pub, k, ukm) ==
  [i \in 1 .. 64 |-> <<IF i <= 32 THEN "mac" ELSE "cipher", curve, GOSTShared(k, pub), ukm>>]

ivLen(variant) == IF variant = "Kuznyechik" THEN 8 ELSE 4

Kexp15(variant, m, cipherKey, macKey, iv) ==
  [variant |-> variant, m |-> m, cipherKey |-> cipherKey, macKey |-> macKey, iv |-> iv]

\* Export of m under the keys ukm gives with the other side's key.
Export(variant, curve, pub, k, ukm, m) ==
  LET expkeys == KEG2012_256(curve, pub, k, ukm)
  IN Kexp15(variant, m, Drop(expkeys, 32), SubSeq(expkeys, 1, 32),
            SubSeq(ukm, 25, 24 + ivLen(variant)))

\* buildGOST2018Exchange: the variant of a suite.
Variant(id) == CASE id = \hC100 -> "Kuznyechik" [] id = \hC101 -> "Magma"

\* marshalPSKeyTransport: the SPKI keeps its tag.
PSKeyTransport(psexp, algo, pub, ukm) ==
  <<[PsExp |-> psexp, EphemKey |-> SPKI(algo, pub), UKM |-> ukm]>>

\* randoms is clientRandom and serverRandom, which both ends know.
Gost2018Exchange(variant, leaf, randoms, k, preMaster) ==
  LET ukm == Streebog256(randoms)
  IN Check(leaf.algo # <<>> /\ leaf.pub # <<>> /\ Len(randoms) = 64,
           [cke |-> PSKeyTransport(Export(variant, leaf.curve, leaf.pub, k, ukm, preMaster),
                                   leaf.algo, GOSTPublic(leaf.curve, k), ukm),
            preMaster |-> preMaster])

\* The server ignores the UKM of the message and makes its own.
Gost2018Server(variant, leaf, randoms, body) ==
  LET pub == ReadEphemKey(body[1].EphemKey, leaf.algo)
      w   == body[1].PsExp
  IN Check(w = Export(variant, leaf.curve, pub, leaf.priv, Streebog256(randoms), w.m),
           w.m)
=============================================================================
