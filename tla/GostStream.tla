----------------------------- MODULE GostStream -----------------------------
(***************************************************************************)
(* The stateful GOST 28147-89 protector of protection_gost.go: the CNT     *)
(* keystream (gostCNT) and the IMIT MAC (gostIMIT) run across the records  *)
(* of a connection, and both replace their key every Mesh bytes.  The two  *)
(* ends of a connection cut the same stream into calls differently, so the *)
(* state must depend on the bytes processed, never on the calls.           *)
(*                                                                         *)
(* Bytes are counted, not represented.  A key is the number of meshings    *)
(* it took to derive it.  One step is one turn of a loop.                  *)
(***************************************************************************)
EXTENDS Naturals, Sequences

CONSTANTS
  Block,      \* gostBlockSize, 8
  Mesh,       \* meshThreshold, 1024
  AD,         \* macADLen, 13
  Tag,        \* gostMACSize, 4
  Lengths,    \* lengths of plaintexts
  MaxFed      \* bound: bytes fed to the MAC

ASSUME GostAssumption ==
  /\ Block \in Nat \ {0} /\ Mesh \in Nat \ {0} /\ Mesh = Block * (Mesh \div Block)
  /\ AD \in Nat \ {0} /\ Tag \in Nat /\ Lengths \subseteq Nat /\ MaxFed \in Nat

VARIABLES
  sealing,      \* Seal is called on this protector, or Open
  stage,        \* the part of Seal or Open that is running
  n, todo,      \* length of the plaintext; bytes left for this stage
  \* gostIMIT
  bufLen, count, key,
  macKeys,      \* history: the key of each block processed, that is prev
  fed,          \* history: bytes written
  tagKeys,      \* history: the keys of the blocks behind the last tag
  \* gostCNT
  num, cntCount, cntKey,
  ivEncs,       \* history: encryptions of the iv so far
  gammas,       \* history: key and ivEncs of each block of the keystream
  used,         \* history: bytes of keystream used
  records       \* history: records processed

imit == <<bufLen, count, key, macKeys, fed, tagKeys>>
cnt == <<num, cntCount, cntKey, ivEncs, gammas, used>>
vars == <<sealing, stage, n, todo, imit, cnt, records>>

Stages == {"idle", "ad", "plain", "finalize", "xor"}

TypeOK ==
  /\ sealing \in BOOLEAN /\ stage \in Stages /\ n \in Nat /\ todo \in Nat
  /\ bufLen \in 0 .. Block /\ count \in 0 .. Mesh /\ key \in Nat
  /\ num \in 0 .. Block - 1 /\ cntCount \in 0 .. Mesh /\ cntKey \in Nat

\* NewGOST28147Protector
Init ==
  /\ sealing \in BOOLEAN /\ stage = "idle" /\ n = 0 /\ todo = 0
  /\ bufLen = 0 /\ count = 0 /\ key = 0 /\ macKeys = <<>> /\ fed = 0 /\ tagKeys = <<>>
  /\ num = 0 /\ cntCount = 0 /\ cntKey = 0 /\ ivEncs = 0 /\ gammas = <<>> /\ used = 0
  /\ records = 0

Least(a, b) == IF a <= b THEN a ELSE b

-----------------------------------------------------------------------------
(* Seal and Open *)

Goto(s, bytes) == stage' = s /\ todo' = bytes

\* Seal computes the MAC, then encrypts the plaintext and the tag; Open
\* decrypts both, then computes the MAC of the plaintext.
Start ==
  /\ stage = "idle"
  /\ \E len \in Lengths :
       /\ fed + AD + len <= MaxFed
       /\ n' = len
       /\ IF sealing THEN Goto("ad", AD) ELSE Goto("xor", len + Tag)
  /\ UNCHANGED <<sealing, imit, cnt, records>>

\* A call of imit.Write or of XORKeyStream is over.
StageDone ==
  /\ todo = 0
  /\ \/ stage = "ad" /\ Goto("plain", n) /\ UNCHANGED records
     \/ stage = "plain" /\ Goto("finalize", 0) /\ UNCHANGED records
     \/ stage = "xor" /\ sealing /\ Goto("idle", 0) /\ records' = records + 1
     \/ stage = "xor" /\ ~sealing /\ Goto("ad", AD) /\ UNCHANGED records
  /\ UNCHANGED <<sealing, n, imit, cnt>>

\* count = count%meshThreshold + gostBlockSize, in both halves.
CountAfter(c) == (c % Mesh) + Block

-----------------------------------------------------------------------------
(* gostIMIT *)

\* processBlockMesh
ProcessBlock ==
  /\ key' = IF count = Mesh THEN key + 1 ELSE key
  /\ macKeys' = Append(macKeys, key')
  /\ count' = CountAfter(count)

\* imit.Write(data), todo bytes of which are left: first the bytes that
\* complete the buffered block.
Fill ==
  /\ stage \in {"ad", "plain"} /\ todo > 0 /\ bufLen \in 1 .. Block - 1
  /\ LET k == Least(Block - bufLen, todo)
     IN bufLen' = bufLen + k /\ todo' = todo - k /\ fed' = fed + k
  /\ UNCHANGED <<sealing, stage, n, count, key, macKeys, tagKeys, cnt, records>>

\* A buffered full block is processed only when more data follows.
Flush ==
  /\ stage \in {"ad", "plain"} /\ todo > 0 /\ bufLen = Block
  /\ ProcessBlock
  /\ bufLen' = 0
  /\ UNCHANGED <<sealing, stage, n, todo, fed, tagKeys, cnt, records>>

\* Mutant: a last full block is processed at once.
WriteBlocksEagerly ==
  /\ stage \in {"ad", "plain"} /\ bufLen = 0 /\ todo >= Block
  /\ ProcessBlock
  /\ todo' = todo - Block /\ fed' = fed + Block
  /\ UNCHANGED <<sealing, stage, n, bufLen, tagKeys, cnt, records>>

\* Full blocks, while more than a block remains.
WriteBlocks ==
  /\ stage \in {"ad", "plain"} /\ bufLen = 0 /\ todo > Block
  /\ ProcessBlock
  /\ todo' = todo - Block /\ fed' = fed + Block
  /\ UNCHANGED <<sealing, stage, n, bufLen, tagKeys, cnt, records>>

\* The trailing 1 to Block bytes are buffered.
Buffer ==
  /\ stage \in {"ad", "plain"} /\ bufLen = 0 /\ todo \in 1 .. Block
  /\ bufLen' = todo /\ todo' = 0 /\ fed' = fed + todo
  /\ UNCHANGED <<sealing, stage, n, count, key, macKeys, tagKeys, cnt, records>>

\* The padded last block, on a snapshot of the state: its key, and count.
SnapKey == IF count = Mesh THEN key + 1 ELSE key
SnapCount == IF bufLen > 0 THEN CountAfter(count) ELSE count

\* Mutant: Finalize works on the state itself.
FinalizeInPlace ==
  /\ stage = "finalize"
  /\ tagKeys' = macKeys \o (IF bufLen > 0 THEN <<SnapKey>> ELSE <<>>)
  /\ macKeys' = tagKeys' /\ bufLen' = 0
  /\ count' = SnapCount /\ key' = SnapKey
  /\ IF sealing THEN Goto("xor", n + Tag) /\ UNCHANGED records
                ELSE Goto("idle", 0) /\ records' = records + 1
  /\ UNCHANGED <<sealing, n, fed, cnt>>

\* Finalize: the tag of the blocks so far and of the padded last one, then an
\* all-zero block if count is still 0.  The protector's state stays.
Finalize ==
  /\ stage = "finalize"
  /\ tagKeys' = macKeys \o (IF bufLen > 0 THEN <<SnapKey>> ELSE <<>>)
                        \o (IF SnapCount = 0 /\ bufLen > 0 THEN <<key>> ELSE <<>>)
  /\ IF sealing THEN Goto("xor", n + Tag) /\ UNCHANGED records
                ELSE Goto("idle", 0) /\ records' = records + 1
  /\ UNCHANGED <<sealing, n, bufLen, count, key, macKeys, fed, cnt>>

-----------------------------------------------------------------------------
(* gostCNT *)

\* Mutant: meshing restarts the counter, so that the iv is encrypted again.
NextGammaRestart ==
  LET meshed == cntCount = Mesh
      c == IF meshed THEN 0 ELSE cntCount
  IN /\ cntKey' = IF meshed THEN cntKey + 1 ELSE cntKey
     /\ ivEncs' = ivEncs + (IF meshed THEN 1 ELSE 0) + (IF c = 0 THEN 1 ELSE 0)
     /\ gammas' = Append(gammas, <<cntKey', ivEncs'>>)
     /\ cntCount' = c + Block

\* nextGamma: meshing re-encrypts the iv under the new key; the first block
\* of all encrypts it too.
NextGamma ==
  /\ cntKey' = IF cntCount = Mesh THEN cntKey + 1 ELSE cntKey
  /\ ivEncs' = ivEncs + (IF cntCount \in {0, Mesh} THEN 1 ELSE 0)
  /\ gammas' = Append(gammas, <<cntKey', ivEncs'>>)
  /\ cntCount' = CountAfter(cntCount)

\* XORKeyStream: num after len bytes of the block have been used.
NumAfter(used0, len) == (used0 + len) % Block

Xor ==
  /\ stage = "xor" /\ todo > 0
  /\ IF num = 0 THEN NextGamma ELSE UNCHANGED <<cntCount, cntKey, ivEncs, gammas>>
  /\ LET k == Least(Block - num, todo)
     IN num' = NumAfter(num, k) /\ todo' = todo - k /\ used' = used + k
  /\ UNCHANGED <<sealing, stage, n, imit, records>>

Next == \/ Start \/ StageDone \/ Fill \/ Flush \/ WriteBlocks \/ Buffer \/ Finalize \/ Xor

Spec == Init /\ [][Next]_vars

-----------------------------------------------------------------------------
(* Properties *)

PerKey == Mesh \div Block       \* blocks under one key
KeyOf(i) == (i - 1) \div PerKey \* the key of the i-th block of a stream

Full(m) == IF m = 0 THEN 0 ELSE (m - 1) \div Block   \* blocks before the last

\* The state of the MAC is a function of the bytes fed: all blocks but the
\* last, which is kept back however the calls of Write cut the stream, each
\* under the key of its place.  So both ends mesh at the same byte.
MacByPosition ==
  todo = 0 =>
    /\ Len(macKeys) = Full(fed) /\ bufLen = fed - Block * Full(fed)
    /\ \A i \in 1 .. Len(macKeys) : macKeys[i] = KeyOf(i)

\* A tag covers all the bytes fed, the last block padded, and no more, each
\* block under the key of its place, also when the last one is the first of a
\* new key.  Finalize leaves no trace.
TagByPosition ==
  (stage = "idle" /\ records > 0) \/ (stage = "xor" /\ sealing) =>
    tagKeys = [i \in 1 .. Full(fed) + 1 |-> KeyOf(i)]

\* No byte of the keystream is used twice or skipped, each block is made with
\* the key of its place, and the iv was encrypted once for every key.
KeystreamByPosition ==
  /\ Len(gammas) * Block - used = (IF num = 0 THEN 0 ELSE Block - num)
  /\ \A i \in 1 .. Len(gammas) : gammas[i] = <<KeyOf(i), KeyOf(i) + 1>>
=============================================================================
