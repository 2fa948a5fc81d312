----------------------------- MODULE Protectors -----------------------------
(***************************************************************************)
(* From a cipher suite to protected records: the suite registry            *)
(* (internal/suites), the key block and its division (keyschedule.go,      *)
(* expandKeysManual), the protector built from it (crypto.go,              *)
(* protector_gost.go and the constructors in internal/record), and the     *)
(* lengths, the padding and the nonces of what Seal makes and Open         *)
(* accepts.  All lengths are those of the code.  Negotiation says how a    *)
(* suite gets chosen and completes the specification.                      *)
(***************************************************************************)
EXTENDS Integers, Sequences, Functions

CONSTANTS
  PlainLens,   \* lengths of plaintexts to seal
  Bytes,       \* bytes that end a decrypted CBC fragment
  TailLen,     \* how many of them
  CBCLens,     \* lengths of decrypted CBC fragments
  FixedIVs,    \* fixed IVs, as sequences of bytes
  Seqs         \* sequence numbers, as sequences of 8 bytes

tlsMaxPlaintextLen == 16384
Byte == 0 .. 255

ASSUME ProtectorsAssumption ==
  /\ PlainLens \subseteq 0 .. tlsMaxPlaintextLen
  /\ Bytes \subseteq Byte /\ TailLen \in Nat
  /\ CBCLens \subseteq Nat /\ \A l \in CBCLens : l % 16 = 0 /\ l >= 64
  /\ \A iv \in FixedIVs : iv \in Seq(Byte)
  /\ Seqs \subseteq [1 .. 8 -> Byte]

-----------------------------------------------------------------------------
(* The registry *)

Cipher(name, keyLen, fixedIV, explicitIV, aead, tagLen) ==
  [name |-> name, keyLen |-> keyLen, fixedIV |-> fixedIV, explicitIV |-> explicitIV,
   aead |-> aead, tagLen |-> tagLen]
MAC(keyLen, macLen) == [keyLen |-> keyLen, macLen |-> macLen]

specAES128GCM == Cipher("AES-128-GCM", 16, 4, 8, TRUE, 16)
specAES256GCM == Cipher("AES-256-GCM", 32, 4, 8, TRUE, 16)
specCHACHA20POLY1305 == Cipher("CHACHA20-POLY1305", 32, 12, 0, TRUE, 16)
specAES128CBC == Cipher("AES-128-CBC", 16, 16, 16, FALSE, 0)
specAES256CBC == Cipher("AES-256-CBC", 32, 16, 16, FALSE, 0)
specGOST28147CNT == Cipher("GOST28147-CNT", 32, 8, 0, FALSE, 0)
specKuznyechikCTROMAC == Cipher("KUZNYECHIK-CTR-OMAC", 32, 8, 0, FALSE, 0)
specMagmaCTROMAC == Cipher("MAGMA-CTR-OMAC", 32, 4, 0, FALSE, 0)

specNoMAC == MAC(0, 0)
specHMACSHA1 == MAC(20, 20)
specHMACSHA256 == MAC(32, 32)
specHMACSHA384 == MAC(48, 48)
specGOST28147IMIT == MAC(32, 4)
specKuznyechikOMAC == MAC(32, 16)
specMagmaOMAC == MAC(32, 8)

Suite(id, kx, auth, cipher, mac) ==
  [id |-> id, kx |-> kx, auth |-> auth, cipher |-> cipher, mac |-> mac]

\* One family of suites: its members in the order of registry.go.
Family(kx, auth, members) ==
  [i \in 1 .. Len(members) |-> Suite(members[i][1], kx, auth, members[i][2], members[i][3])]

ECDHESuites ==
  LET AEADs(id1, id2, id3) ==
        <<<<id1, specAES256GCM, specNoMAC>>, <<id2, specCHACHA20POLY1305, specNoMAC>>,
          <<id3, specAES128GCM, specNoMAC>>>>
      CBCs(id1, mac1, id2, mac2) ==
        <<<<id1, specAES256CBC, mac1>>, <<id2, specAES128CBC, mac2>>>>
  IN Family("ECDHE", "ECDSA", AEADs(\hC02C, \hCCA9, \hC02B))
     \o Family("ECDHE", "RSA", AEADs(\hC030, \hCCA8, \hC02F))
     \o Family("ECDHE", "ECDSA", CBCs(\hC024, specHMACSHA384, \hC023, specHMACSHA256))
     \o Family("ECDHE", "RSA", CBCs(\hC028, specHMACSHA384, \hC027, specHMACSHA256))
     \o Family("ECDHE", "ECDSA", CBCs(\hC00A, specHMACSHA1, \hC009, specHMACSHA1))
     \o Family("ECDHE", "RSA", CBCs(\hC014, specHMACSHA1, \hC013, specHMACSHA1))

DHERSASuites ==
  Family("DHE", "RSA",
    <<<<\h009F, specAES256GCM, specNoMAC>>, <<\hCCAA, specCHACHA20POLY1305, specNoMAC>>,
      <<\h009E, specAES128GCM, specNoMAC>>, <<\h006B, specAES256CBC, specHMACSHA256>>,
      <<\h0067, specAES128CBC, specHMACSHA256>>, <<\h0039, specAES256CBC, specHMACSHA1>>,
      <<\h0033, specAES128CBC, specHMACSHA1>>>>)

RSAKxSuites ==
  Family("RSA", "RSA",
    <<<<\h009D, specAES256GCM, specNoMAC>>, <<\h009C, specAES128GCM, specNoMAC>>,
      <<\h003D, specAES256CBC, specHMACSHA256>>, <<\h003C, specAES128CBC, specHMACSHA256>>,
      <<\h0035, specAES256CBC, specHMACSHA1>>, <<\h002F, specAES128CBC, specHMACSHA1>>>>)

GOSTSuites ==
  <<Suite(\h0081, "GOST2001", "GOST2001", specGOST28147CNT, specGOST28147IMIT),
    Suite(\hFF85, "GOST2012_256", "GOST2012_256", specGOST28147CNT, specGOST28147IMIT),
    Suite(\hC102, "GOST2012_256", "GOST2012_256", specGOST28147CNT, specGOST28147IMIT),
    Suite(\hC100, "GOST2018_256", "GOST2012_256", specKuznyechikCTROMAC, specKuznyechikOMAC),
    Suite(\hC101, "GOST2018_256", "GOST2012_256", specMagmaCTROMAC, specMagmaOMAC)>>

\* The calls of register, in the order of the package's init functions.
Registrations == GOSTSuites \o ECDHESuites \o DHERSASuites \o RSAKxSuites

-----------------------------------------------------------------------------
VARIABLES
  pc, registryOrder,
  suite,      \* the negotiated suite
  keys,       \* its key material: a slice of the key block for each part
  side,       \* the direction a protector is built for
  kind,       \* the protector
  plainLen, fragLen,   \* a record sealed
  payload, macOK,      \* a CBC fragment decrypted
  opened      \* what Open returns: a length, or -1 for an error

protectorVars ==
  <<pc, registryOrder, suite, keys, side, kind, plainLen, fragLen, payload, macOK, opened>>

None == Suite(-1, "none", "none", specAES128GCM, specNoMAC)

ProtectorsInit ==
  /\ pc = "register" /\ registryOrder = <<>>
  /\ suite = None /\ keys = <<>> /\ side = "none" /\ kind = "none"
  /\ plainLen = 0 /\ fragLen = 0 /\ payload = <<>> /\ macOK = FALSE /\ opened = -1

\* register: panics if the ID is taken, else appends.
Register ==
  /\ pc = "register" /\ Len(registryOrder) < Len(Registrations)
  /\ LET s == Registrations[Len(registryOrder) + 1]
         dup == \E i \in 1 .. Len(registryOrder) : registryOrder[i].id = s.id
     IN IF dup THEN pc' = "panic" /\ UNCHANGED registryOrder
               ELSE registryOrder' = Append(registryOrder, s) /\ UNCHANGED pc
  /\ UNCHANGED <<suite, keys, side, kind, plainLen, fragLen, payload, macOK, opened>>

-----------------------------------------------------------------------------
(* The key block *)

Streams == {"GOST28147-CNT", "KUZNYECHIK-CTR-OMAC", "MAGMA-CTR-OMAC"}

\* Mutant: every non-AEAD suite is taken for CBC.
IVLenAEADOnly(s) == IF ~s.cipher.aead THEN 0 ELSE s.cipher.fixedIV

\* expandKeys: CBC suites take no IV from the key block.
IVLen(s) ==
  LET isCBC == ~s.cipher.aead /\ s.cipher.name \notin Streams
  IN IF isCBC THEN 0 ELSE s.cipher.fixedIV

\* A slice keyBlock[from : to].
Slice(from, len) == [from |-> from, to |-> from + len]

\* Mutant: the offset does not advance past the server's MAC key.
ExpandOverlapping(s) ==
  LET m == s.mac.keyLen  k == s.cipher.keyLen  v == IVLen(s)
  IN [total |-> 2 * m + 2 * k + 2 * v,
      clientMAC |-> Slice(0, m), serverMAC |-> Slice(m, m),
      clientEnc |-> Slice(m, k), serverEnc |-> Slice(m + k, k),
      clientIV |-> Slice(2 * m + 2 * k, v), serverIV |-> Slice(2 * m + 2 * k + v, v)]

\* expandKeysManual, and KeyExpansion, which is the same code.
Expand(s) ==
  LET m == s.mac.keyLen  k == s.cipher.keyLen  v == IVLen(s)
  IN [total |-> 2 * m + 2 * k + 2 * v,
      clientMAC |-> Slice(0, m), serverMAC |-> Slice(m, m),
      clientEnc |-> Slice(2 * m, k), serverEnc |-> Slice(2 * m + k, k),
      clientIV |-> Slice(2 * m + 2 * k, v), serverIV |-> Slice(2 * m + 2 * k + v, v)]

ExpandKeys ==
  /\ pc = "expand"
  /\ keys' = Expand(suite) /\ pc' = "build"
  /\ UNCHANGED <<registryOrder, suite, side, kind, plainLen, fragLen, payload, macOK, opened>>

Length(slice) == slice.to - slice.from

\* The constructors' checks: which protector, if any, these keys make.
buildProtector(s, enc, mac, iv) ==
  LET name == s.cipher.name IN
  CASE name = "GOST28147-CNT" /\ enc = 32 /\ mac = 32 /\ iv = 8 -> "GOST28147"
    [] name = "KUZNYECHIK-CTR-OMAC" /\ enc = 32 /\ mac = 32 /\ iv = 8 -> "CTROMAC"
    [] name = "MAGMA-CTR-OMAC" /\ enc = 32 /\ mac = 32 /\ iv = 4 -> "CTROMAC"
    [] name \in {"AES-128-GCM", "AES-256-GCM"} /\ enc \in {16, 24, 32} /\ iv = 4 -> "AEAD"
    [] name = "CHACHA20-POLY1305" /\ enc = 32 /\ iv = 12 -> "CHACHA20"
    [] name \in {"AES-128-CBC", "AES-256-CBC"} /\ enc \in {16, 24, 32}
         /\ s.mac.macLen \in {20, 32, 48} -> "CBCHMAC"
    [] OTHER -> "error"

BuildProtector ==
  /\ pc = "build"
  /\ \/ /\ side' = "client"
        /\ kind' = buildProtector(suite, Length(keys.clientEnc), Length(keys.clientMAC),
                                  Length(keys.clientIV))
     \/ /\ side' = "server"
        /\ kind' = buildProtector(suite, Length(keys.serverEnc), Length(keys.serverMAC),
                                  Length(keys.serverIV))
  /\ pc' = IF kind' = "error" THEN "failed" ELSE "ready"
  /\ UNCHANGED <<registryOrder, suite, keys, plainLen, fragLen, payload, macOK, opened>>

-----------------------------------------------------------------------------
(* Seal and Open *)

BlockSize == 16   \* AES

\* Mutant: a whole number of blocks before padding gets no padding.
PadLenZero(contentLen) == (BlockSize - (contentLen % BlockSize)) % BlockSize

\* cbcHMACProtector.Seal: bytes of padding before the length byte.
PadLen(contentLen) == BlockSize - ((contentLen + 1) % BlockSize)

SealLen(s, len) ==
  CASE kind = "CBCHMAC" -> LET c == len + s.mac.macLen IN BlockSize + c + PadLen(c) + 1
    [] kind = "AEAD"     -> 8 + len + 16
    [] kind = "CHACHA20" -> len + 16
    [] kind \in {"GOST28147", "CTROMAC"} -> len + s.mac.macLen

\* The plaintext length Open finds in an undamaged fragment, -1 for an error.
OpenLen(s, frag, len) ==
  CASE kind = "CBCHMAC" ->
         IF frag < BlockSize + s.mac.macLen + 1 \/ frag % BlockSize # 0 THEN -1
         ELSE frag - BlockSize - s.mac.macLen - (PadLen(len + s.mac.macLen) + 1)
    [] kind = "AEAD"     -> IF frag < 8 + 16 THEN -1 ELSE frag - 8 - 16
    [] kind = "CHACHA20" -> IF frag < 16 THEN -1 ELSE frag - 16
    [] kind \in {"GOST28147", "CTROMAC"} ->
         IF frag < s.mac.macLen THEN -1 ELSE frag - s.mac.macLen

MaxFragmentLen == tlsMaxPlaintextLen + 2048

\* ReadRecord refuses a fragment, or a plaintext, that is too long.
SealAndOpen ==
  /\ pc = "ready"
  /\ \E len \in PlainLens :
       /\ plainLen' = len
       /\ fragLen' = SealLen(suite, len)
       /\ opened' = IF fragLen' > MaxFragmentLen THEN -1 ELSE OpenLen(suite, fragLen', len)
  /\ pc' = "sealed"
  /\ UNCHANGED <<registryOrder, suite, keys, side, kind, payload, macOK>>

\* Mutant: the length byte itself is not counted.
ExtractUncounted(p) ==
  LET l == Len(p)
      padding == p[l]
      good == padding <= l - 1 /\ \A i \in 0 .. l - 1 : i <= padding => p[l - i] = padding
  IN [toRemove |-> padding, good |-> good]

\* extractCBCPadding: every one of the last 256 bytes is compared, under a
\* mask that selects the padding and the length byte.
extractCBCPadding(p) ==
  LET l == Len(p)
      padding == p[l]
      toCheck == IF l < 256 THEN l ELSE 256
      good == padding <= l - 1 /\ \A i \in 0 .. toCheck - 1 : i <= padding => p[l - i] = padding
  IN [toRemove |-> padding + 1, good |-> good]

\* cbcHMACProtector.Open on a decrypted fragment; macOK is whether the bytes
\* where the MAC is looked for are the MAC of those before them.  A MAC that
\* consists of padding bytes is taken not to occur.
OpenCBC ==
  /\ pc = "ready" /\ kind = "CBCHMAC"
  /\ \E len \in CBCLens, fill \in Bytes, tail \in [1 .. TailLen -> Bytes], ok \in BOOLEAN :
       /\ payload' = [i \in 1 .. len |-> IF i > len - TailLen THEN tail[i - (len - TailLen)] ELSE fill]
       /\ LET e == extractCBCPadding(payload')
              raw == len - suite.mac.macLen - e.toRemove
              n == IF raw < 0 THEN 0 ELSE raw
          IN /\ ok => raw >= 0
             /\ macOK' = ok
             /\ opened' = IF ok /\ e.good THEN n ELSE -1
  /\ pc' = "openedCBC"
  /\ UNCHANGED <<registryOrder, suite, keys, side, kind, plainLen, fragLen>>

-----------------------------------------------------------------------------
(* Nonces *)

Zeros(k) == [i \in 1 .. k |-> 0]

\* aeadProtector.buildNonce: the salt and the explicit nonce, which is seq.
AEADNonce(iv, seq) == iv \o seq

\* The exclusive or of two bytes: the sums of their bits, modulo 2.
XorByte(a, b) ==
  LET Bit(w) == (a \div w + b \div w) % 2
  IN Bit(1) + 2 * Bit(2) + 4 * Bit(4) + 8 * Bit(8) + 16 * Bit(16) + 32 * Bit(32)
     + 64 * Bit(64) + 128 * Bit(128)

\* chacha20Poly1305Protector.buildNonce
CHACHA20Nonce(iv, seq) ==
  LET padded == Zeros(4) \o seq IN [i \in 1 .. 12 |-> XorByte(padded[i], iv[i])]

\* Mutant: the first bytes of seq are added, whatever the length of the IV.
AdjustFromStart(iv, seq) ==
  LET n == Len(iv)
      carry[j \in 1 .. n + 1] == IF j > n THEN 0 ELSE (iv[j] + seq[j] + carry[j + 1]) \div 256
  IN [j \in 1 .. n |-> (iv[j] + seq[j] + carry[j + 1]) % 256] \o Zeros(n)

\* adjustIV: the last bytes of seq are added to the IV, from the right.
adjustIV(iv, seq) ==
  LET n == Len(iv)
      s == SubSeq(seq, 9 - n, 8)
      carry[j \in 1 .. n + 1] == IF j > n THEN 0 ELSE (iv[j] + s[j] + carry[j + 1]) \div 256
  IN [j \in 1 .. n |-> (iv[j] + s[j] + carry[j + 1]) % 256] \o Zeros(n)

\* The key of a record, as what it is derived from: TLSTree keeps the part of
\* seq above the last 6 bits (Kuznyechik) or 12 bits (Magma).
TLSTree(name, seq) ==
  IF name = "KUZNYECHIK-CTR-OMAC" THEN [seq EXCEPT ![8] = @ - (@ % 64)]
                                  ELSE [seq EXCEPT ![8] = 0, ![7] = @ - (@ % 16)]

\* The key and the nonce that seq selects in a protector with this fixed IV.
RecordNonce(iv, seq) ==
  CASE kind = "AEAD"     -> <<<<>>, AEADNonce(iv, seq)>>
    [] kind = "CHACHA20" -> <<<<>>, CHACHA20Nonce(iv, seq)>>
    [] kind = "CTROMAC"  -> <<TLSTree(suite.cipher.name, seq), adjustIV(iv, seq)>>

-----------------------------------------------------------------------------
(* Properties *)

\* Every registered suite can be used: registration meets no duplicate and
\* the key block gives both protectors keys of the lengths they demand.
EverySuiteBuilds == pc \notin {"panic", "failed"}

Parts == {"clientMAC", "serverMAC", "clientEnc", "serverEnc", "clientIV", "serverIV"}
Positions(slice) == slice.from .. slice.to - 1

\* The division of the key block: no byte is in two keys and none is unused.
KeysPartition ==
  pc = "build" =>
    /\ UNION {Positions(keys[p]) : p \in Parts} = 0 .. keys.total - 1
    /\ \A p, q \in Parts : p # q => Positions(keys[p]) \cap Positions(keys[q]) = {}

\* What is sealed can be opened: whatever the length of the plaintext, up to
\* 2^14 bytes, the fragment is within the limit of ReadRecord, of a length
\* Open accepts, and gives back as many bytes.
SealedOpens == pc = "sealed" => opened = plainLen

\* CBC padding: a fragment opens iff it ends in k + 1 bytes of value k that
\* leave room for the MAC, and the MAC is right; and it gives all before it.
CBCExact ==
  pc = "openedCBC" =>
    LET l == Len(payload)
        fits(k) == k + 1 + suite.mac.macLen <= l /\ \A i \in l - k .. l : payload[i] = k
    IN IF opened >= 0
         THEN \E k \in Byte : fits(k) /\ macOK /\ opened = l - suite.mac.macLen - k - 1
         ELSE ~macOK \/ \A k \in Byte : ~fits(k)

\* The next number in as many bytes.
Inc(b) ==
  [i \in DOMAIN b |-> IF \A j \in i + 1 .. Len(b) : b[j] = 255 THEN (b[i] + 1) % 256 ELSE b[i]]

\* No two records of a direction are encrypted with the same key and nonce,
\* also where the IV and the number of the record overflow their bytes; and
\* CTR counters follow each other, as the other end expects.
NonceFresh ==
  pc = "ready" /\ kind \in {"AEAD", "CHACHA20", "CTROMAC"} =>
    \A iv \in {v \in FixedIVs : Len(v) = suite.cipher.fixedIV} :
      /\ IsInjective([p \in Seqs |-> RecordNonce(iv, p)])
      /\ kind = "CTROMAC" =>
           \A p \in Seqs : LET n == Len(iv) IN
             SubSeq(adjustIV(iv, Inc(p)), 1, n) = Inc(SubSeq(adjustIV(iv, p), 1, n))
=============================================================================
