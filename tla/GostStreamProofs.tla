-------------------------- MODULE GostStreamProofs --------------------------
(***************************************************************************)
(* The state of the GOST 28147-89 protector is a function of the bytes it  *)
(* has processed, for any block size, any meshing period that is a         *)
(* multiple of it, and any cut of the stream into calls.                   *)
(***************************************************************************)
EXTENDS GostStream, TLAPS

(* Arithmetic *)

\* A key covers PerKey blocks, and at least one.
LEMMA MeshFact ==
  /\ Block \in Nat /\ Block > 0 /\ PerKey \in Nat /\ PerKey > 0 /\ Mesh = PerKey * Block
  /\ Mesh \in Nat
  BY GostAssumption DEF GostAssumption, PerKey

\* Division with a remainder.
LEMMA Division ==
  ASSUME NEW k \in Nat, NEW q \in Nat, NEW p \in Nat \ {0}, q < p
  PROVE  (k * p + q) \div p = k
  OBVIOUS

\* The two cases of count%meshThreshold.
LEMMA Remainder ==
  ASSUME NEW x \in Nat, NEW p \in Nat \ {0}
  PROVE  (x < p => x % p = x) /\ p % p = 0
  OBVIOUS

\* num stays below the block size.
LEMMA RemainderRange ==
  ASSUME NEW x \in Nat, NEW p \in Nat \ {0}
  PROVE  x % p \in 0 .. p - 1
  OBVIOUS

\* Multiplication by the block size keeps the order.
LEMMA Blocks ==
  ASSUME NEW a \in Nat, NEW b \in Nat
  PROVE  /\ a * Block \in Nat
         /\ a < b => a * Block < b * Block
         /\ (a + 1) * Block = a * Block + Block
<1>1. Block \in Nat /\ Block > 0
  BY MeshFact
<1>2. a * Block \in Nat /\ (a + 1) * Block = a * Block + Block
  BY <1>1
<1>3. ASSUME a < b PROVE a * Block < b * Block
  <2>1. PICK c \in Nat : b = a + 1 + c
    BY <1>3
  <2>2. b * Block = a * Block + Block + c * Block /\ c * Block >= 0
    BY <1>1, <2>1
  <2> QED BY <1>1, <1>2, <2>2
<1> QED BY <1>2, <1>3

-----------------------------------------------------------------------------
(* Keys *)

\* len blocks have been processed, the last q of them under key k.
At(len, k, c) ==
  \/ len = 0 /\ k = 0 /\ c = 0
  \/ \E q \in 1 .. PerKey : len = k * PerKey + q /\ c = q * Block

\* One more block, in gostIMIT as in gostCNT, gets the key of its place: the
\* test count == meshThreshold and the new count are right for every block.
LEMMA NextKey ==
  ASSUME NEW len \in Nat, NEW k \in Nat, NEW c \in Nat, At(len, k, c),
         NEW k2, k2 = IF c = Mesh THEN k + 1 ELSE k
  PROVE  /\ k2 \in Nat /\ CountAfter(c) \in Nat
         /\ At(len + 1, k2, CountAfter(c))
         /\ KeyOf(len + 1) = k2
         /\ len = 0 => c # Mesh /\ k2 = 0
         /\ c = 0 <=> len = 0
         /\ CountAfter(c) > 0
<1> USE MeshFact
<1>1. CASE len = 0 /\ k = 0 /\ c = 0
  <2>1. c # Mesh /\ k2 = 0 /\ CountAfter(c) = Block
    BY <1>1, Blocks, Remainder DEF CountAfter
  <2>2. 1 \in 1 .. PerKey /\ len + 1 = 0 * PerKey + 1 /\ Block = 1 * Block
    BY <1>1
  <2>3. (0 * PerKey + 0) \div PerKey = 0
    BY Division
  <2>4. KeyOf(len + 1) = 0
    BY <1>1, <2>3 DEF KeyOf
  <2> QED BY <1>1, <2>1, <2>2, <2>4 DEF At
<1>2. CASE \E q \in 1 .. PerKey : len = k * PerKey + q /\ c = q * Block
  <2>1. PICK q \in 1 .. PerKey : len = k * PerKey + q /\ c = q * Block
    BY <1>2
  <2>0. k * PerKey \in Nat /\ len > 0 /\ c > 0
    BY <2>1, Blocks
  <2>2. CASE q < PerKey
    <3>1. c < Mesh
      BY <2>1, <2>2, Blocks
    <3>2. CountAfter(c) = (q + 1) * Block /\ k2 = k
      BY <2>1, <3>1, Blocks, Remainder DEF CountAfter
    <3>3. len + 1 = k * PerKey + (q + 1) /\ q + 1 \in 1 .. PerKey
      BY <2>0, <2>1, <2>2
    <3>4. KeyOf(len + 1) = k
      <4>1. (k * PerKey + q) \div PerKey = k
        <5>1. q \in Nat /\ PerKey \in Nat \ {0}
          BY <2>1
        <5> QED BY <2>2, <5>1, Division
      <4> QED BY <2>0, <2>1, <4>1 DEF KeyOf
    <3>5. (q + 1) * Block > 0 /\ (q + 1) * Block \in Nat
      BY <2>1, Blocks
    <3> QED BY <2>0, <3>1, <3>2, <3>3, <3>4, <3>5 DEF At
  <2>3. CASE q = PerKey
    <3>1. c = Mesh /\ k2 = k + 1 /\ CountAfter(c) = Block
      BY <2>1, <2>3, Remainder DEF CountAfter
    <3>2. (k + 1) * PerKey = k * PerKey + PerKey
      OBVIOUS
    <3>3. len + 1 = k2 * PerKey + 1 /\ 1 \in 1 .. PerKey /\ Block = 1 * Block
      BY <2>0, <2>1, <2>3, <3>1, <3>2
    <3>4. KeyOf(len + 1) = k2
      <4>1. ((k + 1) * PerKey + 0) \div PerKey = k + 1
        BY Division
      <4> QED BY <2>0, <2>1, <2>3, <3>1, <3>2, <4>1 DEF KeyOf
    <3> QED BY <2>0, <3>1, <3>3, <3>4 DEF At
  <2> QED BY <2>1, <2>2, <2>3
<1> QED BY <1>1, <1>2 DEF At

-----------------------------------------------------------------------------
(* gostIMIT *)

\* Between two steps: every block but the one kept back has been processed,
\* each under the key of its place; a block is kept back as soon as the bytes
\* of a call are all taken; and the associated data are never empty.
MacInv ==
  /\ stage \in Stages /\ macKeys \in Seq(Nat) /\ key \in Nat /\ count \in Nat
  /\ fed \in Nat /\ todo \in Nat /\ n \in Nat /\ bufLen \in 0 .. Block /\ num \in 0 .. Block - 1
  /\ fed = Len(macKeys) * Block + bufLen
  /\ \A i \in 1 .. Len(macKeys) : macKeys[i] = KeyOf(i)
  /\ At(Len(macKeys), key, count)
  /\ stage \in {"idle", "xor"} => (fed > 0 => bufLen > 0)
  /\ stage = "ad" => (todo = 0 => bufLen > 0)
  /\ stage \in {"plain", "finalize"} => fed > 0 /\ (todo = 0 => bufLen > 0)
  /\ stage = "finalize" => todo = 0

\* processBlockMesh gives the next block the key of its place.
LEMMA ProcessStep ==
  ASSUME MacInv, ProcessBlock
  PROVE  /\ macKeys' \in Seq(Nat) /\ key' \in Nat /\ count' \in Nat
         /\ Len(macKeys') = Len(macKeys) + 1
         /\ Len(macKeys') * Block = Len(macKeys) * Block + Block
         /\ \A i \in 1 .. Len(macKeys') : macKeys'[i] = KeyOf(i)
         /\ At(Len(macKeys'), key', count')
<1>1. Len(macKeys) \in Nat
  BY DEF MacInv
<1>2. key' \in Nat /\ count' \in Nat /\ At(Len(macKeys) + 1, key', count') /\ KeyOf(Len(macKeys) + 1) = key'
  BY <1>1, NextKey DEF MacInv, ProcessBlock
<1>3. macKeys' \in Seq(Nat) /\ Len(macKeys') = Len(macKeys) + 1
  BY <1>2 DEF MacInv, ProcessBlock
<1>4. ASSUME NEW i \in 1 .. Len(macKeys') PROVE macKeys'[i] = KeyOf(i)
  BY <1>1, <1>2, <1>3 DEF MacInv, ProcessBlock
<1> QED BY <1>1, <1>2, <1>3, <1>4, Blocks

\* Every turn of a loop keeps the invariant of gostIMIT.
LEMMA MacStep == MacInv /\ [Next]_vars => MacInv'
<1> SUFFICES ASSUME MacInv, [Next]_vars PROVE MacInv'
  OBVIOUS
<1> USE MeshFact DEF Goto, Stages
<1>0. Len(macKeys) \in Nat /\ Len(macKeys) * Block \in Nat
  BY Blocks DEF MacInv
<1>1. CASE Start
  BY <1>1, GostAssumption DEF MacInv, Start, imit, cnt, GostAssumption
<1>2. CASE StageDone
  BY <1>0, <1>2, GostAssumption DEF MacInv, StageDone, imit, cnt, GostAssumption
<1>3. CASE Fill
  BY <1>0, <1>3 DEF MacInv, Fill, Least, cnt
<1>4. CASE Flush
  BY <1>0, <1>4, ProcessStep DEF MacInv, Flush, cnt
<1>5. CASE WriteBlocks
  <2>1. todo' \in Nat /\ todo' > 0 /\ fed' = fed + Block /\ bufLen = 0 /\ UNCHANGED <<n, bufLen, num, stage>>
    BY <1>5 DEF MacInv, WriteBlocks, cnt
  <2>2. fed' \in Nat /\ fed' > 0 /\ fed' = Len(macKeys') * Block + bufLen'
    BY <1>0, <1>5, <2>1, ProcessStep DEF MacInv, WriteBlocks
  <2> QED BY <1>5, <2>1, <2>2, ProcessStep DEF MacInv, WriteBlocks
<1>6. CASE Buffer
  BY <1>0, <1>6 DEF MacInv, Buffer, cnt
<1>7. CASE Finalize
  BY <1>7, GostAssumption DEF MacInv, Finalize, cnt, GostAssumption
<1>8. CASE Xor
  <2> DEFINE k == Least(Block - num, todo)
  <2>1. k \in Nat /\ todo - k \in Nat /\ num + k \in Nat
    BY <1>8 DEF MacInv, Xor, Least
  <2>2. num' \in 0 .. Block - 1
    BY <1>8, <2>1, RemainderRange DEF Xor, NumAfter
  <2> QED BY <1>8, <2>1, <2>2 DEF MacInv, Xor, imit
<1>9. CASE UNCHANGED vars
  BY <1>9 DEF MacInv, vars, imit, cnt
<1> QED BY <1>1, <1>2, <1>3, <1>4, <1>5, <1>6, <1>7, <1>8, <1>9 DEF Next

\* The invariant of gostIMIT holds always.
LEMMA MacInvariance == Spec => []MacInv
<1>1. Init => MacInv
  BY MeshFact, Blocks DEF Init, MacInv, At, Stages
<1> QED BY <1>1, MacStep, PTL DEF Spec

\* A stream cut after len blocks and a last one of b bytes.
LEMMA LastBlock ==
  ASSUME NEW len \in Nat, NEW b \in 1 .. Block
  PROVE  /\ Full(len * Block + b) = len
         /\ len * Block + b > 0
         /\ b = len * Block + b - Block * len
<1> USE MeshFact
<1>1. len * Block \in Nat /\ len * Block = Block * len
  BY Blocks
<1>2. b - 1 \in Nat /\ b - 1 < Block /\ Block \in Nat \ {0}
  OBVIOUS
<1>3. (len * Block + (b - 1)) \div Block = len
  BY <1>2, Division
<1> QED BY <1>1, <1>2, <1>3 DEF Full

\* Between two calls the invariant determines the state from the bytes fed.
LEMMA MacHolds == MacInv => MacByPosition
<1> SUFFICES ASSUME MacInv, todo = 0 PROVE MacByPosition
  BY DEF MacByPosition
<1> USE MeshFact
<1>0. Len(macKeys) \in Nat
  BY DEF MacInv
<1>1. CASE bufLen > 0
  <2>1. bufLen \in 1 .. Block /\ fed = Len(macKeys) * Block + bufLen
    BY <1>1 DEF MacInv
  <2>2. Full(fed) = Len(macKeys) /\ bufLen = fed - Block * Len(macKeys)
    <3>1. /\ Full(Len(macKeys) * Block + bufLen) = Len(macKeys)
          /\ bufLen = Len(macKeys) * Block + bufLen - Block * Len(macKeys)
      BY <1>0, <2>1, LastBlock
    <3> QED BY <2>1, <3>1
  <2> QED BY <2>2 DEF MacInv, MacByPosition
<1>2. CASE bufLen = 0
  <2>1. fed = 0 
    BY <1>2 DEF MacInv, Stages
  <2>2. Len(macKeys) * Block = 0
    BY <1>0, <1>2, <2>1, Blocks DEF MacInv
  <2>3. Len(macKeys) = 0
    BY <1>0, <2>2, Blocks
  <2> QED BY <1>2, <2>1, <2>3 DEF MacInv, MacByPosition, Full
<1> QED BY <1>1, <1>2 DEF MacInv

\* The MAC state depends on the bytes alone, for every cut into calls.
THEOREM MacByPositionHolds == Spec => []MacByPosition
  BY MacInvariance, MacHolds, PTL

\* A sequence and one more element.
LEMMA Extended ==
  ASSUME NEW s \in Seq(Nat), NEW k \in Nat
  PROVE  s \o <<k>> \o <<>> = [i \in 1 .. Len(s) + 1 |-> IF i = Len(s) + 1 THEN k ELSE s[i]]
<1>1. s \o <<k>> \in Seq(Nat) /\ Len(s \o <<k>>) = Len(s) + 1 /\ Len(s) \in Nat
  OBVIOUS
<1>2. \A i \in 1 .. Len(s) + 1 : (s \o <<k>>)[i] = IF i = Len(s) + 1 THEN k ELSE s[i]
  OBVIOUS
<1>3. s \o <<k>> \o <<>> = s \o <<k>>
  BY <1>1
<1>4. s \o <<k>> = [i \in 1 .. Len(s \o <<k>>) |-> (s \o <<k>>)[i]]
  BY <1>1
<1> QED BY <1>1, <1>2, <1>3, <1>4

\* Finalize makes the tag of its place; no other step disturbs it while it counts.
LEMMA TagStep == MacInv /\ TagByPosition /\ [Next]_vars => TagByPosition'
<1> SUFFICES ASSUME MacInv, TagByPosition, [Next]_vars PROVE TagByPosition'
  OBVIOUS
<1> USE DEF Goto
<1>1. CASE Start
  BY <1>1 DEF TagByPosition, Start, imit, cnt
<1>2. CASE StageDone
  BY <1>2 DEF TagByPosition, StageDone, imit, cnt
<1>3. CASE Fill \/ Flush \/ WriteBlocks \/ Buffer
  BY <1>3 DEF TagByPosition, Fill, Flush, WriteBlocks, Buffer
<1>4. CASE Finalize
  <2>1. Len(macKeys) \in Nat /\ bufLen \in 1 .. Block /\ fed = Len(macKeys) * Block + bufLen
    BY <1>4, MeshFact DEF MacInv, Finalize
  <2>2. Full(fed) = Len(macKeys)
    BY <2>1, LastBlock
  <2>3. /\ SnapKey \in Nat /\ SnapKey = KeyOf(Len(macKeys) + 1)
        /\ CountAfter(count) > 0 /\ CountAfter(count) \in Nat
    BY <2>1, NextKey DEF MacInv, SnapKey
  <2>4. tagKeys' = macKeys \o <<SnapKey>> \o <<>>
    <3>1. bufLen > 0 /\ SnapCount # 0
      BY <2>1, <2>3 DEF SnapCount
    <3> QED BY <1>4, <3>1 DEF Finalize
  <2>5. tagKeys' = [i \in 1 .. Len(macKeys) + 1 |-> KeyOf(i)]
    BY <2>1, <2>3, <2>4, Extended DEF MacInv
  <2>6. fed' = fed
    BY <1>4 DEF Finalize
  <2> QED BY <2>2, <2>5, <2>6 DEF TagByPosition
<1>5. CASE Xor
  BY <1>5 DEF TagByPosition, Xor, imit
<1>6. CASE UNCHANGED vars
  BY <1>6 DEF TagByPosition, vars, imit
<1> QED BY <1>1, <1>2, <1>3, <1>4, <1>5, <1>6 DEF Next

\* A tag covers the bytes fed, block by block under the key of its place.
THEOREM TagByPositionHolds == Spec => []TagByPosition
<1>1. Init => TagByPosition
  BY DEF Init, TagByPosition
<1> QED BY <1>1, MacInvariance, TagStep, PTL DEF Spec

-----------------------------------------------------------------------------
(* gostCNT *)

\* The keystream made so far, as the MAC's blocks: each block has the key of
\* its place, and the iv has been encrypted once for each key.
CntInv ==
  /\ gammas \in Seq(Nat \X Nat) /\ cntKey \in Nat /\ cntCount \in Nat /\ used \in Nat
  /\ KeystreamByPosition
  /\ At(Len(gammas), cntKey, cntCount)
  /\ ivEncs = IF Len(gammas) = 0 THEN 0 ELSE cntKey + 1

\* nextGamma gives the next block of keystream the key of its place.
LEMMA GammaStep ==
  ASSUME CntInv, NextGamma
  PROVE  /\ gammas' \in Seq(Nat \X Nat) /\ cntKey' \in Nat /\ cntCount' \in Nat
         /\ Len(gammas') = Len(gammas) + 1
         /\ Len(gammas') * Block = Len(gammas) * Block + Block
         /\ \A i \in 1 .. Len(gammas') : gammas'[i] = <<KeyOf(i), KeyOf(i) + 1>>
         /\ At(Len(gammas'), cntKey', cntCount')
         /\ ivEncs' = cntKey' + 1
<1>1. Len(gammas) \in Nat
  BY DEF CntInv
<1>2. /\ cntKey' \in Nat /\ cntCount' \in Nat
      /\ At(Len(gammas) + 1, cntKey', cntCount') /\ KeyOf(Len(gammas) + 1) = cntKey'
      /\ Len(gammas) = 0 => cntCount # Mesh /\ cntKey' = 0
      /\ cntCount = 0 <=> Len(gammas) = 0
  BY <1>1, NextKey DEF CntInv, NextGamma
<1>3. ivEncs' = cntKey' + 1
  BY <1>1, <1>2, MeshFact DEF CntInv, NextGamma
<1>4. gammas' \in Seq(Nat \X Nat) /\ Len(gammas') = Len(gammas) + 1
  BY <1>2, <1>3 DEF CntInv, NextGamma
<1>5. ASSUME NEW i \in 1 .. Len(gammas') PROVE gammas'[i] = <<KeyOf(i), KeyOf(i) + 1>>
  <2>1. CASE i = Len(gammas) + 1
    BY <1>1, <1>2, <1>3, <2>1 DEF CntInv, NextGamma
  <2>2. CASE i \in 1 .. Len(gammas)
    BY <1>1, <2>2 DEF CntInv, NextGamma, KeystreamByPosition
  <2> QED BY <1>1, <1>4, <2>1, <2>2
<1> QED BY <1>1, <1>2, <1>3, <1>4, <1>5, Blocks

\* Every turn of a loop keeps the invariant of gostCNT.
LEMMA CntStep == MacInv /\ CntInv /\ [Next]_vars => CntInv'
<1> SUFFICES ASSUME MacInv, CntInv, [Next]_vars PROVE CntInv'
  OBVIOUS
<1>1. CASE Xor
  <2> DEFINE k == Least(Block - num, todo)
  <2>0. Block \in Nat \ {0} /\ Len(gammas) \in Nat /\ Len(gammas) * Block \in Nat
    BY MeshFact, Blocks DEF CntInv
  <2>1. /\ k \in 1 .. Block - num /\ num + k \in 1 .. Block /\ num \in 0 .. Block - 1
        /\ num' = (num + k) % Block /\ used' = used + k /\ used' \in Nat
    BY <1>1, MeshFact DEF MacInv, CntInv, Xor, Least, NumAfter
  <2>2. num' = IF num + k = Block THEN 0 ELSE num + k
    <3> HIDE DEF k
    <3>1. CASE num + k = Block
      BY <2>0, <2>1, <3>1, Remainder
    <3>2. CASE num + k < Block
      <4>1. num + k \in Nat
        BY <2>1, MeshFact
      <4>2. (num + k) % Block = num + k
        BY <2>0, <3>2, <4>1, Remainder
      <4> QED BY <2>1, <3>2, <4>1, <4>2, MeshFact
    <3> QED BY <2>1, <3>1, <3>2, MeshFact
  <2>3. CASE num = 0
    <3>1. NextGamma
      BY <1>1, <2>3 DEF Xor
    <3>2. Len(gammas') * Block - used' = IF num' = 0 THEN 0 ELSE Block - num'
      <4> HIDE DEF k
      <4>1. Len(gammas) * Block - used = 0 /\ used \in Nat
        BY <2>3 DEF CntInv, KeystreamByPosition
      <4>2. Len(gammas') * Block = Len(gammas) * Block + Block
        BY <3>1, GammaStep
      <4> QED BY <2>0, <2>1, <2>2, <2>3, <4>1, <4>2
    <3>3. KeystreamByPosition'
      BY <3>1, <3>2, GammaStep DEF KeystreamByPosition
    <3> QED BY <2>0, <2>1, <3>1, <3>3, GammaStep DEF CntInv
  <2>4. CASE num # 0
    <3>1. UNCHANGED <<cntCount, cntKey, ivEncs, gammas>>
      BY <1>1, <2>4 DEF Xor
    <3>2. Len(gammas) * Block - used' = IF num' = 0 THEN 0 ELSE Block - num'
      <4> HIDE DEF k
      <4>1. Len(gammas) * Block - used = Block - num /\ used \in Nat
        BY <2>4 DEF CntInv, KeystreamByPosition
      <4> QED BY <2>0, <2>1, <2>2, <2>4, <4>1
    <3>3. KeystreamByPosition'
      BY <3>1, <3>2 DEF CntInv, KeystreamByPosition
    <3> QED BY <2>1, <3>1, <3>3 DEF CntInv
  <2> QED BY <2>3, <2>4
<1>2. CASE UNCHANGED cnt
  BY <1>2 DEF CntInv, KeystreamByPosition, cnt
<1>3. Next => Xor \/ UNCHANGED cnt
  BY DEF Next, Start, StageDone, Fill, Flush, WriteBlocks, Buffer, Finalize
<1> QED BY <1>1, <1>2, <1>3 DEF vars

\* No byte of the keystream is used twice or skipped, and each block has the
\* key of its place, for every cut into records.
THEOREM KeystreamByPositionHolds == Spec => []KeystreamByPosition
<1>1. Init => CntInv
  BY MeshFact DEF Init, CntInv, KeystreamByPosition, At
<1>2. CntInv => KeystreamByPosition
  BY DEF CntInv
<1> QED BY <1>1, <1>2, MacInvariance, CntStep, PTL DEF Spec
=============================================================================
