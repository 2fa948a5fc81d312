---------------------------- MODULE TrustProofs -----------------------------
(***************************************************************************)
(* The server is whom the configuration says, for every configuration, set *)
(* of certificates and list of them that the server sends.  First that     *)
(* verification finds exactly the paths there are, then what the parsers   *)
(* and the defaults of a Config do to them, then the theorem.              *)
(***************************************************************************)
EXTENDS Negotiation, Foundations, FiniteSetTheorems

-----------------------------------------------------------------------------
(* Paths *)

\* d has a signature of the kind by one of by.
Signed(d, gost, by) == Certs[d].gostSig = gost /\ Certs[d].issuer \in by

\* g[i] are those from which at most i links lead to roots.
Anchors(g, n, gost, inter, roots) ==
  /\ g[0] = roots
  /\ \A i \in 1 .. n : g[i] = g[i - 1] \cup {d \in inter : Signed(d, gost, g[i - 1])}

\* Anchored is the end of a recursion along the number of links.
LEMMA AnchoredFollows ==
  ASSUME NEW gost, NEW inter, NEW roots, NEW n \in Nat, n = Cardinality(inter)
  PROVE  \E g : /\ Anchors(g, n, gost, inter, roots)
                /\ \A c : Anchored(c, gost, inter, roots) <=> Signed(c, gost, g[n])
<1> DEFINE U == SUBSET (roots \cup inter)
           step == [i \in 1 .. n |-> [v \in U |-> v \cup {d \in inter : Signed(d, gost, v)}]]
           Rec(h) == [i \in 0 .. n |-> IF i = 0 THEN roots
                                       ELSE h[i - 1] \cup {d \in inter : Signed(d, gost, h[i - 1])}]
<1>1. roots \in U /\ \A i \in 1 .. n : step[i] \in [U -> U]
  OBVIOUS
<1>2. PICK f \in [0 .. n -> U] : Follows(f, n, roots, step)
  <2> HIDE DEF U, step
  <2> QED BY <1>1, Recursion
<1>3. f = Rec(f)
  <2>1. ASSUME NEW i \in 0 .. n, i # 0
        PROVE  f[i] = f[i - 1] \cup {d \in inter : Signed(d, gost, f[i - 1])}
    <3>1. i \in 1 .. n /\ i - 1 \in 0 .. n
      BY <2>1
    <3>2. f[i] = step[i][f[i - 1]] /\ f[i - 1] \in U
      <4> HIDE DEF step, U
      <4> QED BY <1>2, <3>1 DEF Follows
    <3> HIDE DEF U
    <3> QED BY <3>1, <3>2
  <2>2. f[0] = roots
    BY <1>2 DEF Follows
  <2>3. f = [i \in 0 .. n |-> f[i]]
    OBVIOUS
  <2> HIDE DEF U
  <2> QED BY ONLY <2>1, <2>2, <2>3, Zenon
<1> HIDE DEF U, step
<1>4. PICK g : g = Rec(g) /\ \A c : Anchored(c, gost, inter, roots) <=> Signed(c, gost, g[n])
  <2> DEFINE h == CHOOSE h : h = Rec(h)
  <2>1. h = Rec(h)
    BY <1>3
  <2>2. \A c : Anchored(c, gost, inter, roots) <=> Signed(c, gost, h[n])
    BY DEF Anchored, Signed
  <2> HIDE DEF h
  <2> QED BY <2>1, <2>2
<1>5. g[0] = roots
  BY <1>4
<1>6. ASSUME NEW i \in 1 .. n
      PROVE  g[i] = g[i - 1] \cup {d \in inter : Signed(d, gost, g[i - 1])}
  <2>1. i \in 0 .. n /\ i # 0
    OBVIOUS
  <2> QED BY ONLY <1>4, <2>1
<1> QED BY <1>4, <1>5, <1>6 DEF Anchors

\* A path of m certificates from d through inter to one of roots, by issuers.
PathTo(path, m, d, gost, inter, roots) ==
  /\ path[1] = d /\ path[m] \in roots
  /\ \A i \in 1 .. m - 1 : Signed(path[i], gost, {path[i + 1]})
  /\ \A i \in 2 .. m - 1 : path[i] \in inter

\* As many links as it has lead along a path to the roots.
LEMMA PathAnchored ==
  ASSUME NEW gost, NEW inter, NEW roots, NEW n \in Nat, NEW g, Anchors(g, n, gost, inter, roots),
         NEW m \in 2 .. n + 2, NEW path, NEW c, PathTo(path, m, c, gost, inter, roots)
  PROVE  Signed(c, gost, g[n])
<1> DEFINE S == {j \in 0 .. m - 2 : path[m - j] \in g[j]}
           M == {j \in 0 .. n : j < m - 2 \/ path[2] \in g[j]}
<1>1. 0 \in S
  BY DEF Anchors, PathTo
<1>2. ASSUME NEW j \in 1 .. m - 2, j - 1 \in S PROVE j \in S
  <2>1. j \in 0 .. m - 2 /\ j \in 1 .. n /\ m - j \in 2 .. m - 1 /\ m - j \in 1 .. m - 1
        /\ (m - j) + 1 = m - (j - 1)
    OBVIOUS
  <2>2. path[m - (j - 1)] \in g[j - 1]
    BY <1>2
  <2>3. path[m - j] \in inter /\ Signed(path[m - j], gost, {path[m - (j - 1)]})
    BY <2>1 DEF PathTo
  <2>4. Signed(path[m - j], gost, g[j - 1])
    BY <2>2, <2>3 DEF Signed
  <2>5. g[j] = g[j - 1] \cup {d \in inter : Signed(d, gost, g[j - 1])}
    BY <2>1 DEF Anchors
  <2>6. path[m - j] \in g[j]
    BY <2>3, <2>4, <2>5
  <2> QED BY <2>1, <2>6
<1>3. path[2] \in g[m - 2]
  <2>1. m - 2 \in Nat /\ m - (m - 2) = 2 /\ m - 2 \in 0 .. m - 2
    OBVIOUS
  <2> HIDE DEF S
  <2>2. m - 2 \in S
    BY <1>1, <1>2, <2>1, UpTo
  <2> QED BY <2>1, <2>2 DEF S
<1>4. 0 \in M
  BY <1>3
<1>5. ASSUME NEW j \in 1 .. n, j - 1 \in M PROVE j \in M
  <2>1. g[j] = g[j - 1] \cup {d \in inter : Signed(d, gost, g[j - 1])}
    BY DEF Anchors
  <2>2. CASE path[2] \in g[j - 1]
    BY <2>1, <2>2
  <2>3. CASE path[2] \notin g[j - 1]
    <3>1. j - 1 < m - 2
      BY <1>5, <2>3
    <3>2. j < m - 2 \/ j = m - 2
      BY <3>1
    <3> QED BY <1>3, <3>2
  <2> QED BY <2>2, <2>3
<1>6. path[2] \in g[n]
  <2> HIDE DEF M
  <2>1. n \in M
    BY <1>4, <1>5, UpTo
  <2> QED BY <2>1 DEF M
<1>7. Signed(path[1], gost, {path[2]}) /\ path[1] = c
  <2>1. 1 \in 1 .. m - 1 /\ 1 + 1 = 2
    OBVIOUS
  <2> QED BY <2>1 DEF PathTo
<1> QED BY <1>6, <1>7 DEF Signed

\* From whatever i links lead to the roots, there is a path of that length.
LEMMA AnchoredPath ==
  ASSUME NEW gost, NEW inter, NEW roots, NEW n \in Nat, NEW g, Anchors(g, n, gost, inter, roots),
         NEW c, Signed(c, gost, g[n])
  PROVE  \E m \in 2 .. n + 2 : \E path \in [1 .. m -> inter \cup {c} \cup roots] :
           PathTo(path, m, c, gost, inter, roots)
<1> DEFINE U == inter \cup {c} \cup roots
           Has(d, k) == \E m \in 1 .. k : \E path \in [1 .. m -> U] :
                          PathTo(path, m, d, gost, inter, roots) /\ (m > 1 => d \in inter)
           S == {i \in 0 .. n : \A d \in g[i] : Has(d, i + 1)}
<1>1. ASSUME NEW k \in Nat, NEW e, Has(e, k), NEW d \in U, Signed(d, gost, {e})
      PROVE  \E m \in 2 .. k + 1 : \E path \in [1 .. m -> U] : PathTo(path, m, d, gost, inter, roots)
  <2>1. PICK m \in 1 .. k : \E path \in [1 .. m -> U] :
                          PathTo(path, m, e, gost, inter, roots) /\ (m > 1 => e \in inter)
    BY <1>1
  <2>2. PICK p \in [1 .. m -> U] : PathTo(p, m, e, gost, inter, roots) /\ (m > 1 => e \in inter)
    BY <2>1
  <2> HIDE DEF U, Has
  <2> DEFINE q == [i \in 1 .. m + 1 |-> IF i = 1 THEN d ELSE p[i - 1]]
  <2>3. q \in [1 .. m + 1 -> U]
    OBVIOUS
  <2>4. q[1] = d /\ q[m + 1] = p[m]
    OBVIOUS
  <2>5. ASSUME NEW i \in 1 .. m PROVE Signed(q[i], gost, {q[i + 1]})
    <3>1. q[i + 1] = p[i]
      OBVIOUS
    <3>2. CASE i = 1
      <4>1. q[i] = d /\ q[i + 1] = e
        BY <2>2, <2>4, <3>1, <3>2 DEF PathTo
      <4> HIDE DEF q
      <4> QED BY <1>1, <4>1
    <3>3. CASE i # 1
      <4>1. i - 1 \in 1 .. m - 1 /\ (i - 1) + 1 = i /\ q[i] = p[i - 1]
        BY <3>3
      <4> HIDE DEF q
      <4> QED BY <2>2, <3>1, <4>1 DEF PathTo
    <3> QED BY <3>2, <3>3
  <2>6. ASSUME NEW i \in 2 .. m PROVE q[i] \in inter
    <3>1. q[i] = p[i - 1]
      OBVIOUS
    <3>2. CASE i = 2
      BY <2>2, <3>1, <3>2 DEF PathTo
    <3>3. CASE i # 2
      <4>1. i - 1 \in 2 .. m - 1
        BY <3>3
      <4> HIDE DEF q
      <4> QED BY <2>2, <3>1, <4>1 DEF PathTo
    <3> QED BY <3>2, <3>3
  <2>7. (m + 1) - 1 = m /\ m + 1 \in 2 .. k + 1
    OBVIOUS
  <2> HIDE DEF q
  <2>8. PathTo(q, m + 1, d, gost, inter, roots)
    BY <2>2, <2>4, <2>5, <2>6, <2>7 DEF PathTo
  <2> QED BY <2>3, <2>7, <2>8
<1>2. ASSUME NEW d \in roots, NEW k \in Nat, k >= 1 PROVE Has(d, k)
  <2> DEFINE p == [i \in 1 .. 1 |-> d]
  <2>1. p \in [1 .. 1 -> U] /\ 1 \in 1 .. k
    BY <1>2
  <2>2. PathTo(p, 1, d, gost, inter, roots)
    BY DEF PathTo
  <2> HIDE DEF p, U
  <2>3. ~(1 > 1)
    OBVIOUS
  <2> QED BY ONLY <2>1, <2>2, <2>3
<1>3. 0 \in S
  <2>1. \A d \in g[0] : d \in roots
    BY DEF Anchors
  <2> HIDE DEF Has
  <2> QED BY <1>2, <2>1
<1>4. ASSUME NEW i \in 1 .. n, i - 1 \in S PROVE i \in S
  <2> SUFFICES ASSUME NEW d \in g[i] PROVE Has(d, i + 1)
    <3> HIDE DEF Has
    <3> QED OBVIOUS
  <2>1. \A e \in g[i - 1] : Has(e, i)
    <3>1. (i - 1) + 1 = i
      OBVIOUS
    <3> HIDE DEF Has
    <3> QED BY <1>4, <3>1
  <2>2. d \in g[i - 1] \/ (d \in inter /\ Signed(d, gost, g[i - 1]))
    BY DEF Anchors
  <2>3. CASE d \in g[i - 1]
    <3>1. Has(d, i)
      BY <2>1, <2>3
    <3>2. 1 .. i \subseteq 1 .. i + 1
      OBVIOUS
    <3> HIDE DEF U
    <3> QED BY <3>1, <3>2
  <2>4. CASE d \in inter /\ Signed(d, gost, g[i - 1])
    <3>1. PICK e \in g[i - 1] : Signed(d, gost, {e})
      BY <2>4 DEF Signed
    <3>2. Has(e, i) /\ i \in Nat /\ d \in U
      BY <2>1, <2>4
    <3>3. PICK m \in 2 .. i + 1 : \E path \in [1 .. m -> U] : PathTo(path, m, d, gost, inter, roots)
      <4> HIDE DEF U, Has
      <4> QED BY <1>1, <3>1, <3>2
    <3>4. m \in 1 .. i + 1
      OBVIOUS
    <3> HIDE DEF U
    <3> QED BY <2>4, <3>3, <3>4
  <2> QED BY <2>2, <2>3, <2>4
<1>5. \A e \in g[n] : Has(e, n + 1)
  <2> HIDE DEF S
  <2>1. n \in S
    BY <1>3, <1>4, UpTo
  <2> QED BY <2>1 DEF S
<1>6. PICK e \in g[n] : Signed(c, gost, {e})
  BY DEF Signed
<1>7. c \in U /\ n + 1 \in Nat /\ (n + 1) + 1 = n + 2
  OBVIOUS
<1>8. Has(e, n + 1)
  <2> HIDE DEF Has
  <2> QED BY <1>5
<1>9. \E m \in 2 .. (n + 1) + 1 : \E path \in [1 .. m -> U] : PathTo(path, m, c, gost, inter, roots)
  <2> HIDE DEF U, Has
  <2> QED BY <1>1, <1>6, <1>7, <1>8
<1> QED BY <1>7, <1>9

\* Verify accepts exactly what a path vouches for.
LEMMA AnchoredIsPath ==
  ASSUME NEW c, NEW gost, NEW inter, NEW roots, IsFiniteSet(inter)
  PROVE  Anchored(c, gost, inter, roots) <=> PathExists(c, gost, inter, roots)
<1>1. PICK n \in Nat : n = Cardinality(inter)
  BY FS_CardinalityType
<1>2. PICK g : /\ Anchors(g, n, gost, inter, roots)
               /\ \A d : Anchored(d, gost, inter, roots) <=> Signed(d, gost, g[n])
  BY <1>1, AnchoredFollows
<1> DEFINE At(path, i) == IF i = 0 THEN c ELSE path[i]
           Links(path, k) == /\ \A i \in 0 .. k : Certs[At(path, i)].gostSig = gost
                             /\ \A i \in 0 .. k - 1 : Certs[At(path, i)].issuer = At(path, i + 1)
                             /\ Certs[At(path, k)].issuer \in roots
<1>3. PathExists(c, gost, inter, roots) <=>
        \E k \in 0 .. n : \E path \in [1 .. k -> inter] : Links(path, k)
  BY <1>1 DEF PathExists
<1>4. ASSUME Signed(c, gost, g[n]) PROVE PathExists(c, gost, inter, roots)
  <2>1. PICK m \in 2 .. n + 2 : \E path \in [1 .. m -> inter \cup {c} \cup roots] :
               PathTo(path, m, c, gost, inter, roots)
    BY <1>2, <1>4, AnchoredPath
  <2>2. PICK p \in [1 .. m -> inter \cup {c} \cup roots] : PathTo(p, m, c, gost, inter, roots)
    BY <2>1
  <2>3. PICK k \in 0 .. n : m = k + 2
    <3>1. m - 2 \in 0 .. n /\ m = (m - 2) + 2
      OBVIOUS
    <3> QED BY <3>1
  <2> DEFINE q == [i \in 1 .. k |-> p[i + 1]]
  <2>4. q \in [1 .. k -> inter]
    <3> SUFFICES ASSUME NEW i \in 1 .. k PROVE p[i + 1] \in inter
      OBVIOUS
    <3>1. i + 1 \in 2 .. m - 1
      BY <2>3
    <3> QED BY <2>2, <3>1 DEF PathTo
  <2>5. ASSUME NEW i \in 0 .. k PROVE At(q, i) = p[i + 1]
    <3>1. CASE i = 0
      BY <2>2, <3>1 DEF PathTo
    <3>2. CASE i # 0
      BY <3>2
    <3> QED BY <3>1, <3>2
  <2>6. ASSUME NEW i \in 0 .. k
        PROVE  Certs[At(q, i)].gostSig = gost /\ Certs[At(q, i)].issuer = p[i + 2]
    <3>1. i + 1 \in 1 .. m - 1 /\ (i + 1) + 1 = i + 2
      BY <2>3
    <3>2. Signed(p[i + 1], gost, {p[i + 2]})
      BY <2>2, <3>1 DEF PathTo
    <3> QED BY <2>5, <3>2 DEF Signed
  <2>7. ASSUME NEW i \in 0 .. k - 1 PROVE Certs[At(q, i)].issuer = At(q, i + 1)
    <3>1. i \in 0 .. k /\ i + 1 \in 0 .. k /\ (i + 1) + 1 = i + 2
      OBVIOUS
    <3>2. At(q, i + 1) = p[i + 2]
      BY <2>5, <3>1
    <3> HIDE DEF At
    <3> QED BY <2>6, <3>1, <3>2
  <2>8. Certs[At(q, k)].issuer \in roots
    <3>1. k \in 0 .. k /\ p[k + 2] \in roots
      BY <2>2, <2>3 DEF PathTo
    <3> HIDE DEF At
    <3> QED BY <2>6, <3>1
  <2> HIDE DEF At, q
  <2>9. Links(q, k)
    BY <2>6, <2>7, <2>8
  <2> HIDE DEF Links
  <2> QED BY <1>3, <2>4, <2>9
<1>5. ASSUME PathExists(c, gost, inter, roots) PROVE Signed(c, gost, g[n])
  <2>1. PICK k \in 0 .. n : \E path \in [1 .. k -> inter] : Links(path, k)
    BY <1>3, <1>5
  <2>2. PICK q \in [1 .. k -> inter] : Links(q, k)
    BY <2>1
  <2> DEFINE p == [i \in 1 .. k + 2 |-> IF i = k + 2 THEN Certs[At(q, k)].issuer ELSE At(q, i - 1)]
  <2>3. ASSUME NEW i \in 0 .. k PROVE p[i + 1] = At(q, i)
    <3>1. i + 1 \in 1 .. k + 2 /\ i + 1 # k + 2 /\ (i + 1) - 1 = i
      OBVIOUS
    <3> HIDE DEF At
    <3> QED BY <3>1
  <2>4. p[k + 2] = Certs[At(q, k)].issuer
    <3>1. k + 2 \in 1 .. k + 2
      OBVIOUS
    <3> HIDE DEF At
    <3> QED BY <3>1
  <2> HIDE DEF p
  <2>5. p[1] = c /\ p[k + 2] \in roots
    <3>1. p[0 + 1] = At(q, 0) /\ 0 + 1 = 1
      BY <2>3
    <3> QED BY <2>2, <2>4, <3>1
  <2>6. ASSUME NEW i \in 1 .. k + 1 PROVE Signed(p[i], gost, {p[i + 1]})
    <3>1. PICK j \in 0 .. k : i = j + 1
      <4>1. i - 1 \in 0 .. k /\ i = (i - 1) + 1
        OBVIOUS
      <4> QED BY <4>1
    <3>2. p[i] = At(q, j) /\ Certs[At(q, j)].gostSig = gost
      BY <2>2, <2>3, <3>1
    <3>3. Certs[At(q, j)].issuer = p[i + 1]
      <4>1. CASE j = k
        <5>1. i + 1 = k + 2
          BY <3>1, <4>1
        <5> HIDE DEF At
        <5> QED BY <2>4, <4>1, <5>1
      <4>2. CASE j # k
        <5>1. j \in 0 .. k - 1 /\ j + 1 \in 0 .. k /\ i + 1 = (j + 1) + 1
          BY <3>1, <4>2
        <5>2. Certs[At(q, j)].issuer = At(q, j + 1)
          BY <2>2, <5>1
        <5>3. p[i + 1] = At(q, j + 1)
          BY <2>3, <5>1
        <5> HIDE DEF At
        <5> QED BY <5>2, <5>3
      <4> QED BY <4>1, <4>2
    <3> HIDE DEF At
    <3> QED BY <3>2, <3>3 DEF Signed
  <2>7. ASSUME NEW i \in 2 .. k + 1 PROVE p[i] \in inter
    <3>1. i - 1 \in 0 .. k /\ i - 1 \in 1 .. k /\ i = (i - 1) + 1 /\ i - 1 # 0
      OBVIOUS
    <3>2. p[i] = At(q, i - 1)
      BY <2>3, <3>1
    <3> QED BY <3>1, <3>2
  <2>8. k + 2 \in 2 .. n + 2 /\ (k + 2) - 1 = k + 1
    OBVIOUS
  <2>9. PathTo(p, k + 2, c, gost, inter, roots)
    BY <2>5, <2>6, <2>7, <2>8 DEF PathTo
  <2> QED BY <1>2, <2>8, <2>9, PathAnchored
<1> QED BY <1>2, <1>4, <1>5

-----------------------------------------------------------------------------
(* Lists of certificates *)

\* The range of a sequence.
LEMMA RangeIs ==
  ASSUME NEW s, IsSeq(s)
  PROVE  Range(s) = {s[i] : i \in 1 .. Len(s)} /\ IsFiniteSet(Range(s))
<1>1. PICK n \in Nat : n = Len(s)
  BY IsSeqLen
<1>2. DOMAIN s = 1 .. n /\ s = [i \in 1 .. n |-> s[i]]
  BY <1>1, IsSeqLen
<1>3. Range(s) = {s[i] : i \in 1 .. n}
  BY <1>2 DEF Range
<1>4. s \in Surjection(1 .. n, Range(s))
  <2>1. s \in [1 .. n -> Range(s)]
    BY ONLY <1>2, <1>3
  <2>2. \A t \in Range(s) : \E i \in 1 .. n : s[i] = t
    BY ONLY <1>3
  <2> QED BY ONLY <2>1, <2>2 DEF Surjection
<1>5. IsFiniteSet(1 .. n)
  BY FS_Interval
<1>6. IsFiniteSet(Range(s))
  BY ONLY <1>4, <1>5, FS_Surjection
<1> QED BY <1>1, <1>3, <1>6

\* The range of a concatenation.
LEMMA RangeCat ==
  ASSUME NEW s, NEW t, IsSeq(s), IsSeq(t)
  PROVE  Range(s \o t) = Range(s) \cup Range(t)
<1> DEFINE c == s \o t
<1>1. PICK m \in Nat, n \in Nat : m = Len(s) /\ n = Len(t)
  BY IsSeqLen
<1>2. /\ IsSeq(c) /\ Len(c) = m + n
      /\ \A i \in 1 .. m : c[i] = s[i]
      /\ \A i \in 1 .. n : c[m + i] = t[i]
  BY <1>1, Cat
<1> HIDE DEF c
<1>3. /\ Range(s) = {s[i] : i \in 1 .. m} /\ Range(t) = {t[i] : i \in 1 .. n}
      /\ Range(c) = {c[i] : i \in 1 .. m + n}
  <2>1. /\ Range(s) = {s[i] : i \in 1 .. Len(s)} /\ Range(t) = {t[i] : i \in 1 .. Len(t)}
        /\ Range(c) = {c[i] : i \in 1 .. Len(c)}
    BY ONLY IsSeq(s), IsSeq(t), <1>2, RangeIs
  <2> QED BY ONLY <1>1, <1>2, <2>1
<1>4. ASSUME NEW x \in Range(c) PROVE x \in Range(s) \cup Range(t)
  <2>1. PICK i \in 1 .. m + n : x = c[i]
    BY <1>3
  <2>2. CASE i \in 1 .. m
    BY <1>2, <1>3, <2>1, <2>2
  <2>3. CASE i \notin 1 .. m
    <3>1. PICK k \in 1 .. n : i = m + k
      <4>1. i - m \in 1 .. n /\ i = m + (i - m)
        BY <2>3
      <4> QED BY <4>1
    <3> QED BY <1>2, <1>3, <2>1, <3>1
  <2> QED BY <2>2, <2>3
<1>5. ASSUME NEW x \in Range(s) PROVE x \in Range(c)
  <2>1. PICK i \in 1 .. m : x = s[i]
    BY <1>3
  <2>2. i \in 1 .. m + n
    OBVIOUS
  <2> QED BY <1>2, <1>3, <2>1, <2>2
<1>6. ASSUME NEW x \in Range(t) PROVE x \in Range(c)
  <2>1. PICK i \in 1 .. n : x = t[i]
    BY <1>3
  <2>2. m + i \in 1 .. m + n
    OBVIOUS
  <2> QED BY <1>2, <1>3, <2>1, <2>2
<1> QED BY <1>4, <1>5, <1>6 DEF c

\* The elements but the first.
LEMMA TailIs ==
  ASSUME NEW s, IsSeq(s), s # <<>>
  PROVE  /\ IsSeq(Tail(s)) /\ Len(Tail(s)) = Len(s) - 1 /\ Len(s) >= 1
         /\ \A i \in 1 .. Len(s) - 1 : Tail(s)[i] = s[i + 1]
<1>1. PICK S : s \in Seq(S)
  BY DEF IsSeq
<1>2. Len(s) \in Nat /\ Len(s) # 0
  BY <1>1
<1>3. Tail(s) \in Seq(S) /\ Len(Tail(s)) = Len(s) - 1
  BY ONLY <1>1, <1>2, s # <<>>
<1>4. \A i \in 1 .. Len(s) - 1 : Tail(s)[i] = s[i + 1]
  BY ONLY <1>1, <1>2, s # <<>>
<1>5. IsSeq(Tail(s))
  BY <1>3 DEF IsSeq
<1> QED BY <1>2, <1>3, <1>4, <1>5

-----------------------------------------------------------------------------
(* Parsing of certificates *)

IsCert(der) == der \in {<<c>> : c \in DOMAIN Certs}

\* One certificate parses exactly if it is one.
LEMMA ParsesTo ==
  ASSUME NEW der, IsSeq(der)
  PROVE  ParseCertificate(der) = IF IsCert(der) THEN {der[1]} ELSE {}
<1>1. Len(der) = 1 /\ der[1] \in DOMAIN Certs => der = <<der[1]>>
  <2> SUFFICES ASSUME Len(der) = 1, der[1] \in DOMAIN Certs PROVE der = <<der[1]>>
    OBVIOUS
  <2>1. PICK c : c = der[1]
    OBVIOUS
  <2>2. IsSeq(<<c>>) /\ Len(<<c>>) = 1 /\ <<c>>[1] = c
    BY IsSeqOne
  <2>3. \A i \in 1 .. Len(der) : der[i] = <<c>>[i]
    BY <2>1, <2>2
  <2>4. der = <<c>>
    BY ONLY IsSeq(der), Len(der) = 1, <2>2, <2>3, SeqExt
  <2> QED BY <2>1, <2>4
<1>2. ASSUME NEW c \in DOMAIN Certs, der = <<c>> PROVE Len(der) = 1 /\ der[1] \in DOMAIN Certs
  BY <1>2, IsSeqOne
<1>3. IsCert(der) <=> Len(der) = 1 /\ der[1] \in DOMAIN Certs
  BY ONLY <1>1, <1>2 DEF IsCert
<1> QED BY ONLY <1>3 DEF ParseCertificate, Check, Fail

\* A list of certificates parses exactly if each of them does.
LEMMA ParsesList ==
  ASSUME NEW ders, IsSeq(ders), \A i \in 1 .. Len(ders) : IsSeq(ders[i]), NEW w
  PROVE  w \in ParseCertificates(ders) <=>
           (\A i \in 1 .. Len(ders) : IsCert(ders[i])) /\ w = [i \in 1 .. Len(ders) |-> ders[i][1]]
<1>1. DOMAIN ders = 1 .. Len(ders)
  BY IsSeqLen
<1>2. ASSUME NEW i \in 1 .. Len(ders)
      PROVE  ParseCertificate(ders[i]) = IF IsCert(ders[i]) THEN {ders[i][1]} ELSE {}
  BY ParsesTo
<1>3. \A i \in 1 .. Len(ders) : ParseCertificate(ders[i]) = Fail <=> ~IsCert(ders[i])
  BY ONLY <1>2 DEF Fail
<1>4. \A i \in 1 .. Len(ders) : IsCert(ders[i]) => Value(ParseCertificate(ders[i])) = ders[i][1]
  BY ONLY <1>2 DEF Value
<1>5. CASE \A i \in 1 .. Len(ders) : IsCert(ders[i])
  <2>1. [i \in DOMAIN ders |-> Value(ParseCertificate(ders[i]))] = [i \in 1 .. Len(ders) |-> ders[i][1]]
    BY ONLY <1>1, <1>4, <1>5, Zenon
  <2>2. ParseCertificates(ders) = {[i \in DOMAIN ders |-> Value(ParseCertificate(ders[i]))]}
    BY ONLY <1>1, <1>3, <1>5 DEF ParseCertificates
  <2> QED BY ONLY <1>5, <2>1, <2>2
<1>6. CASE ~\A i \in 1 .. Len(ders) : IsCert(ders[i])
  <2>1. ParseCertificates(ders) = Fail
    BY ONLY <1>1, <1>3, <1>6 DEF ParseCertificates
  <2> QED BY ONLY <1>6, <2>1 DEF Fail
<1> QED BY <1>5, <1>6

-----------------------------------------------------------------------------
(* Configured and effective trust *)

\* What ConfigAssumption says of a Config.
Proper(config) ==
  /\ config.RootCAs = Nil \/ config.RootCAs = <<config.RootCAs[1]>>
  /\ \A v \in {config.GOSTRoots, config.GOSTIntermediates} :
       v = Nil \/ (v = <<v[1]>> /\ v[1] \in Seq(DOMAIN Certs))

\* The parameters of the handshake are those of the Config, or the Config is refused.
LEMMA ParamsAre ==
  ASSUME NEW config, NEW dialed, NEW available, NEW p \in ClientParams(config, dialed, available)
  PROVE  /\ p.ServerName = IF config.ServerName = <<>> THEN dialed ELSE config.ServerName
         /\ p.ServerName # <<>> \/ config.InsecureSkipVerify
         /\ p.RootCAs \in rootCAPool(config)
         /\ p.GOSTRoots = config.GOSTRoots /\ p.GOSTIntermediates = config.GOSTIntermediates
         /\ p.InsecureSkipVerify = config.InsecureSkipVerify
         /\ p.VerifyPeerCertificate = config.VerifyPeerCertificate
<1> DEFINE offered == IF config.CipherSuites = Nil THEN available ELSE config.CipherSuites[1]
           name == IF config.ServerName = <<>> THEN dialed ELSE config.ServerName
<1>1. PICK roots \in rootCAPool(config), certs \in clientCerts(config) :
        /\ name # <<>> \/ config.InsecureSkipVerify
        /\ p = [ServerName |-> name, OfferedSuites |-> offered, RootCAs |-> roots,
            GOSTRoots |-> config.GOSTRoots, GOSTIntermediates |-> config.GOSTIntermediates,
            InsecureSkipVerify |-> config.InsecureSkipVerify,
            VerifyPeerCertificate |-> config.VerifyPeerCertificate, Certificates |-> certs]
  <2> HIDE DEF name, offered
  <2>1. p \in IF offered = <<>> \/ (name = <<>> /\ ~config.InsecureSkipVerify) THEN Fail
     ELSE {[ServerName |-> name, OfferedSuites |-> offered, RootCAs |-> roots,
            GOSTRoots |-> config.GOSTRoots, GOSTIntermediates |-> config.GOSTIntermediates,
            InsecureSkipVerify |-> config.InsecureSkipVerify,
            VerifyPeerCertificate |-> config.VerifyPeerCertificate, Certificates |-> certs] :
             roots \in rootCAPool(config), certs \in clientCerts(config)}
    BY DEF ClientParams, name, offered
  <2> QED BY ONLY <2>1 DEF Fail
<1> HIDE DEF name, offered
<1>2. /\ p.ServerName = name /\ p.RootCAs = roots
      /\ p.GOSTRoots = config.GOSTRoots /\ p.GOSTIntermediates = config.GOSTIntermediates
      /\ p.InsecureSkipVerify = config.InsecureSkipVerify
      /\ p.VerifyPeerCertificate = config.VerifyPeerCertificate
  BY ONLY <1>1
<1> QED BY ONLY <1>1, <1>2 DEF name

\* The pool is of what the configuration trusts, and the configuration is not
\* one that must be refused.
LEMMA PoolIsTrusted ==
  ASSUME NEW config, Proper(config), NEW pool \in rootCAPool(config)
  PROVE  /\ (IF pool = Nil THEN SystemRoots ELSE pool[1]) = Trusted(config, FALSE)
         /\ config.RootCAs = Nil \/ config.RootCAPEMs = <<>>
         /\ \A b \in Range(config.RootCAPEMs) : InPEM(b) # {}
<1> DEFINE PEMs == config.RootCAPEMs
           els == [i \in DOMAIN PEMs |-> InPEM(PEMs[i])]
<1>1. pool \in IF config.RootCAs # Nil THEN Check(PEMs = <<>>, config.RootCAs)
               ELSE IF PEMs = <<>> THEN {Nil}
               ELSE Check(\A i \in DOMAIN els : els[i] # {}, <<UNION {els[i] : i \in DOMAIN els}>>)
  BY DEF rootCAPool
<1>2. Trusted(config, FALSE) = IF config.RootCAs = Nil /\ PEMs = <<>> THEN SystemRoots
                               ELSE UNION (Range(config.RootCAs) \cup {InPEM(b) : b \in Range(PEMs)})
  BY DEF Trusted
<1>3. \A x : Len(<<x>>) = 1 /\ Range(<<x>>) = {x} /\ <<x>> # Nil /\ <<x>>[1] = x
  BY DEF Range, Nil
<1>4. Range(<<>>) = {}
  BY DEF Range
<1> HIDE DEF PEMs
<1>5. CASE config.RootCAs # Nil
  <2>1. PEMs = <<>> /\ pool = config.RootCAs
    BY ONLY <1>1, <1>5 DEF Check, Fail
  <2>2. PICK x : config.RootCAs = <<x>>
    BY <1>5 DEF Proper
  <2>3. Trusted(config, FALSE) = UNION (Range(config.RootCAs) \cup {InPEM(b) : b \in {}})
    BY ONLY <1>2, <1>4, <1>5, <2>1
  <2>4. Trusted(config, FALSE) = x
    BY ONLY <1>3, <2>2, <2>3
  <2>5. pool # Nil /\ pool[1] = x
    BY ONLY <1>3, <2>1, <2>2
  <2> QED BY ONLY <1>4, <2>1, <2>4, <2>5 DEF PEMs
<1>6. CASE config.RootCAs = Nil /\ PEMs = <<>>
  <2>1. pool = Nil
    BY ONLY <1>1, <1>6
  <2> QED BY ONLY <1>2, <1>4, <1>6, <2>1 DEF PEMs
<1>7. CASE config.RootCAs = Nil /\ PEMs # <<>>
  <2>1. /\ \A i \in DOMAIN els : els[i] # {}
        /\ pool = <<UNION {els[i] : i \in DOMAIN els}>>
    <3> HIDE DEF els
    <3> QED BY ONLY <1>1, <1>7 DEF Check, Fail
  <2>2. {els[i] : i \in DOMAIN els} = {InPEM(b) : b \in Range(PEMs)}
    BY ONLY Zenon DEF Range
  <2>3. \A b \in Range(PEMs) : InPEM(b) # {}
    BY ONLY <2>1, Zenon DEF Range
  <2> HIDE DEF els
  <2>4. pool # Nil /\ pool[1] = UNION {InPEM(b) : b \in Range(PEMs)}
    BY ONLY <1>3, <2>1, <2>2
  <2>5. Trusted(config, FALSE) = UNION ({} \cup {InPEM(b) : b \in Range(PEMs)})
    BY ONLY <1>2, <1>4, <1>7 DEF Nil
  <2> QED BY ONLY <1>7, <2>3, <2>4, <2>5 DEF PEMs
<1> QED BY <1>5, <1>6, <1>7

\* Verification finds a path exactly if there is one to whom the
\* configuration trusts.
LEMMA VerifiedIs ==
  ASSUME NEW config, Proper(config), NEW p, p.RootCAs \in rootCAPool(config),
         p.GOSTRoots = config.GOSTRoots, p.GOSTIntermediates = config.GOSTIntermediates,
         NEW c \in DOMAIN Certs, NEW wire, IsSeq(wire), NEW given,
         given = IF Certs[c].gostSig THEN UNION {Range(r) : r \in Range(config.GOSTIntermediates)} ELSE {}
  PROVE  Verified(p, c, wire) <=>
           PathExists(c, Certs[c].gostSig, Range(wire) \cup given, Trusted(config, Certs[c].gostSig))
<1>1. Certs[c].gostSig \in BOOLEAN
  BY TrustAssumption
<1>2. IsFiniteSet(Range(wire))
  BY RangeIs
<1>3. \A x : Range(<<x>>) = {x} /\ <<x>> # Nil /\ <<x>>[1] = x
  BY DEF Range, Nil
<1>4. Range(Nil) = {}
  BY DEF Range, Nil
<1>5. CASE ~Certs[c].gostSig
  <2>1. Certs[c].gostSig = FALSE /\ given = {}
    BY <1>1, <1>5
  <2>2. Verified(p, c, wire) <=> Anchored(c, FALSE, Range(wire),
                  IF p.RootCAs = Nil THEN SystemRoots ELSE p.RootCAs[1])
    BY ONLY <2>1 DEF Verified
  <2>3. (IF p.RootCAs = Nil THEN SystemRoots ELSE p.RootCAs[1]) = Trusted(config, FALSE)
    BY PoolIsTrusted
  <2>4. Verified(p, c, wire) <=> PathExists(c, FALSE, Range(wire), Trusted(config, FALSE))
    BY ONLY <1>2, <2>2, <2>3, AnchoredIsPath
  <2>5. Range(wire) \cup given = Range(wire)
    BY ONLY <2>1
  <2> QED BY ONLY <2>1, <2>4, <2>5
<1>6. CASE Certs[c].gostSig
  <2> DEFINE GR == config.GOSTRoots
             GI == config.GOSTIntermediates
             inter == extractGOSTIntermediates(GI) \o wire
             tr == Trusted(config, TRUE)
             all == Range(wire) \cup given
  <2>1. /\ Certs[c].gostSig = TRUE /\ given = UNION {Range(r) : r \in Range(GI)}
        /\ tr = UNION {Range(r) : r \in Range(GR)}
    BY <1>1, <1>6 DEF Trusted
  <2>2. Verified(p, c, wire) <=> \E r \in extractGOSTRoots(GR) : Anchored(c, TRUE, Range(inter), Range(r))
    BY <1>6 DEF Verified
  <2>3. (GR = Nil \/ \E x : GR = <<x>>) /\ (GI = Nil \/ \E x : GI = <<x>> /\ IsSeq(x))
    BY DEF Proper, IsSeq
  <2> HIDE DEF GR, GI
  <2>4. Range(inter) = all /\ IsFiniteSet(all)
    <3>1. CASE GI = Nil
      <4>1. extractGOSTIntermediates(GI) = <<>> /\ <<>> \o wire = wire
        BY <3>1, CatEmpty DEF extractGOSTIntermediates
      <4>2. given = {}
        BY ONLY <1>4, <2>1, <3>1
      <4>3. all = Range(wire)
        BY <4>2
      <4> QED BY ONLY <1>2, <4>1, <4>3
    <3>2. CASE GI # Nil
      <4>1. PICK x : GI = <<x>> /\ IsSeq(x)
        BY <2>3, <3>2
      <4>2. extractGOSTIntermediates(GI) = x
        BY ONLY <1>3, <3>2, <4>1 DEF extractGOSTIntermediates
      <4>3. given = Range(x)
        BY ONLY <1>3, <2>1, <4>1
      <4>4. Range(x \o wire) = Range(x) \cup Range(wire)
        BY ONLY <4>1, IsSeq(wire), RangeCat
      <4>5. IsFiniteSet(Range(x))
        BY ONLY <4>1, RangeIs
      <4>6. IsFiniteSet(Range(wire) \cup Range(x))
        BY ONLY <1>2, <4>5, FS_Union
      <4> QED BY ONLY <4>2, <4>3, <4>4, <4>6
    <3> QED BY <3>1, <3>2
  <2> HIDE DEF inter, all, tr
  <2>5. \A S : Anchored(c, TRUE, all, S) <=> PathExists(c, TRUE, all, S)
    BY ONLY <2>4, AnchoredIsPath
  <2>6. ~PathExists(c, TRUE, all, {})
    BY DEF PathExists
  <2>7. CASE GR = Nil
    <3>1. tr = {}
      BY ONLY <1>4, <2>1, <2>7
    <3>2. ~Verified(p, c, wire)
      BY ONLY <2>2, <2>7 DEF extractGOSTRoots, Fail
    <3> QED BY ONLY <2>1, <2>6, <3>1, <3>2 DEF all, tr
  <2>8. CASE GR # Nil
    <3>1. PICK x : GR = <<x>>
      BY <2>3, <2>8
    <3>2. tr = Range(x)
      BY ONLY <1>3, <2>1, <3>1
    <3>3. extractGOSTRoots(GR) = IF x # <<>> THEN {x} ELSE {}
      BY ONLY <1>3, <2>8, <3>1 DEF extractGOSTRoots, Check, Fail
    <3>4. Verified(p, c, wire) <=> x # <<>> /\ PathExists(c, TRUE, all, Range(x))
      BY ONLY <2>2, <2>4, <2>5, <3>3
    <3>5. x = <<>> => Range(x) = {}
      BY ONLY <1>4 DEF Nil
    <3> QED BY ONLY <2>1, <2>6, <3>2, <3>4, <3>5 DEF all, tr
  <2> QED BY <2>7, <2>8
<1> QED BY <1>5, <1>6

\* A chain is accepted exactly if its certificates parse and it is vouched for.
LEMMA ChainIs ==
  ASSUME NEW config, Proper(config), NEW dialed, NEW available,
         NEW p \in ClientParams(config, dialed, available),
         NEW ders \in Seq(Seq(Nat)), ders # <<>>
  PROVE  parseAndVerifyChain(p, ders) # Fail <=>
           WellFormed(config, ders) /\ Vouched(config, p.ServerName, ListOf(ders))
<1>0. PICK list : list = ListOf(ders)
  OBVIOUS
<1>1. PICK n \in Nat : n = Len(ders) /\ n >= 1
  BY IsSeqEmpty
<1>2. IsSeq(ders) /\ DOMAIN ders = 1 .. n /\ \A i \in 1 .. n : IsSeq(ders[i])
  <2>1. \A i \in 1 .. n : ders[i] \in Seq(Nat)
    BY <1>1, Element
  <2> QED BY <1>1, <2>1 DEF IsSeq
<1> DEFINE T == Tail(ders)
           wire == [i \in 1 .. n - 1 |-> T[i][1]]
           c == ders[1][1]
<1>3. IsSeq(T) /\ Len(T) = n - 1 /\ \A i \in 1 .. n - 1 : T[i] = ders[i + 1]
  BY ONLY <1>1, <1>2, ders # <<>>, TailIs
<1>4. \A i \in 1 .. Len(T) : IsSeq(T[i])
  <2>1. \A i \in 1 .. n - 1 : i + 1 \in 1 .. n
    OBVIOUS
  <2> HIDE DEF T
  <2> QED BY ONLY <1>2, <1>3, <2>1
<1> HIDE DEF T
<1>5. IsSeq(list) /\ Len(list) = n /\ list[1] = c /\ list # <<>>
  <2>1. list = [i \in 1 .. n |-> list[i]]
    BY ONLY <1>0, <1>2, Zenon DEF ListOf
  <2>2. IsSeq(list) /\ Len(list) = n
    BY ONLY n \in Nat, <2>1, IsSeqFun
  <2>3. list[1] = c
    BY <1>0, <1>1, <1>2 DEF ListOf
  <2>4. list # <<>>
    BY ONLY n \in Nat, <1>1, <2>2, IsSeqEmpty
  <2> QED BY <2>2, <2>3, <2>4
<1>6. Tail(list) = wire /\ IsSeq(wire)
  <2>1. /\ IsSeq(Tail(list)) /\ Len(Tail(list)) = n - 1
        /\ \A i \in 1 .. n - 1 : Tail(list)[i] = list[i + 1]
    BY ONLY <1>5, TailIs
  <2>2. wire = [i \in 1 .. n - 1 |-> wire[i]] /\ n - 1 \in Nat
    BY <1>1
  <2>3. ASSUME NEW i \in 1 .. n - 1 PROVE list[i + 1] = wire[i]
    <3>1. i + 1 \in 1 .. n
      OBVIOUS
    <3>2. list[i + 1] = ders[i + 1][1]
      BY ONLY <1>0, <1>2, <3>1 DEF ListOf
    <3>3. wire[i] = T[i][1]
      OBVIOUS
    <3> QED BY ONLY i \in 1 .. n - 1, <1>3, <3>2, <3>3
  <2> HIDE DEF wire
  <2>4. IsSeq(wire) /\ Len(wire) = n - 1
    BY ONLY <2>2, IsSeqFun
  <2>5. Tail(list) = wire
    BY ONLY <2>1, <2>3, <2>4, SeqExt
  <2> QED BY <2>4, <2>5
<1>7. \A w : w \in ParseCertificates(T) <=> (\A i \in 1 .. n - 1 : IsCert(T[i])) /\ w = wire
  <2>1. \A w : w \in ParseCertificates(T) <=> (\A i \in 1 .. Len(T) : IsCert(T[i])) /\ w = [i \in 1 .. Len(T) |-> T[i][1]]
    BY ONLY <1>3, <1>4, ParsesList
  <2> QED BY ONLY <1>3, <2>1
<1> HIDE DEF wire
<1>8. ParseCertificate(ders[1]) = IF IsCert(ders[1]) THEN {c} ELSE {}
  <2>1. 1 \in 1 .. n
    BY <1>1
  <2> QED BY ONLY <1>2, <2>1, ParsesTo
<1>9. IsCert(ders[1]) => c \in DOMAIN Certs
  BY ONLY IsSeqOne DEF IsCert
<1> HIDE DEF c
<1>10. parseAndVerifyChain(p, ders) # Fail <=>
         IsCert(ders[1]) /\ (\/ p.InsecureSkipVerify
                             \/ /\ Certs[c].name = p.ServerName
                                /\ \A i \in 1 .. n - 1 : IsCert(T[i])
                                /\ Verified(p, c, wire))
  <2> DEFINE vouched(l) == /\ Certs[l].name = p.ServerName
                           /\ \E w \in ParseCertificates(T) : Verified(p, l, w)
  <2>1. parseAndVerifyChain(p, ders) # Fail <=>
          \E l \in ParseCertificate(ders[1]) : p.InsecureSkipVerify \/ vouched(l)
    BY ONLY Zenon DEF parseAndVerifyChain, Fail, T
  <2>2. parseAndVerifyChain(p, ders) # Fail <=> IsCert(ders[1]) /\ (p.InsecureSkipVerify \/ vouched(c))
    BY ONLY <1>8, <2>1
  <2> QED BY ONLY <1>7, <2>2
<1>11. (\A i \in 1 .. n : IsCert(ders[i])) <=> IsCert(ders[1]) /\ \A i \in 1 .. n - 1 : IsCert(T[i])
  <2>1. ASSUME IsCert(ders[1]), \A i \in 1 .. n - 1 : IsCert(T[i]), NEW i \in 1 .. n PROVE IsCert(ders[i])
    <3>1. CASE i = 1
      BY <2>1, <3>1
    <3>2. CASE i # 1
      <4>1. i - 1 \in 1 .. n - 1 /\ (i - 1) + 1 = i
        BY <3>2
      <4> QED BY ONLY <1>3, <2>1, <4>1
    <3> QED BY <3>1, <3>2
  <2>2. 1 \in 1 .. n /\ \A i \in 1 .. n - 1 : i + 1 \in 1 .. n
    BY <1>1
  <2> QED BY ONLY <1>3, <2>1, <2>2
<1>12. Range(ders) \subseteq {<<d>> : d \in DOMAIN Certs} <=> \A i \in 1 .. n : IsCert(ders[i])
  BY ONLY <1>2, Zenon DEF Range, IsCert
<1>13. Range(<<ders[1]>>) \subseteq {<<d>> : d \in DOMAIN Certs} <=> IsCert(ders[1])
  <2>1. Range(<<ders[1]>>) = {ders[1]}
    BY DEF Range
  <2> QED BY ONLY <2>1 DEF IsCert
<1>14. c \in DOMAIN Certs => (Verified(p, c, wire) <=> VouchedFor(config, list))
  <2> SUFFICES ASSUME c \in DOMAIN Certs PROVE Verified(p, c, wire) <=> VouchedFor(config, list)
    OBVIOUS
  <2>1. /\ p.RootCAs \in rootCAPool(config)
        /\ p.GOSTRoots = config.GOSTRoots /\ p.GOSTIntermediates = config.GOSTIntermediates
    BY ONLY p \in ClientParams(config, dialed, available), ParamsAre
  <2>2. PICK given : given = IF Certs[c].gostSig THEN UNION {Range(r) : r \in Range(config.GOSTIntermediates)} ELSE {}
    OBVIOUS
  <2>3. Verified(p, c, wire) <=>
           PathExists(c, Certs[c].gostSig, Range(wire) \cup given, Trusted(config, Certs[c].gostSig))
    BY ONLY Proper(config), c \in DOMAIN Certs, <1>6, <2>1, <2>2, VerifiedIs
  <2>4. VouchedFor(config, list) <=>
           PathExists(c, Certs[c].gostSig, Range(wire) \cup given, Trusted(config, Certs[c].gostSig))
    BY ONLY <1>5, <1>6, <2>2 DEF VouchedFor
  <2> QED BY ONLY <2>3, <2>4
<1>15. p.ServerName # <<>> \/ config.InsecureSkipVerify
  BY ONLY p \in ClientParams(config, dialed, available), ParamsAre
<1>16. p.InsecureSkipVerify = config.InsecureSkipVerify
  BY ONLY p \in ClientParams(config, dialed, available), ParamsAre
<1>17. parseAndVerifyChain(p, ders) # Fail <=>
         WellFormed(config, ders) /\ Vouched(config, p.ServerName, list)
  BY ONLY <1>5, <1>9, <1>10, <1>11, <1>12, <1>13, <1>14, <1>15, <1>16 DEF WellFormed, Vouched
<1> QED BY ONLY <1>0, <1>17

-----------------------------------------------------------------------------
(* The theorem *)

\* The parameters are made of the Config of the case.
HasParams ==
  case \in Cases /\ \E available : params \in ClientParams(case.config, case.dialed, available)

TInv ==
  /\ pc \in {"start", "recvServerHello", "recvCertificate"} => HasParams
  /\ TrustAnchored

\* Accepting what ChainIs says, and refusing the rest, is the right answer.
LEMMA Answers ==
  ASSUME NEW config, Proper(config), NEW dialed, NEW available,
         NEW p \in ClientParams(config, dialed, available), NEW ders \in Seq(Seq(Nat)), NEW v,
         v = IF ders = <<>> THEN Fail ELSE parseAndVerifyChain(p, ders), NEW accepted,
         accepted <=> v # Fail /\ p.VerifyPeerCertificate # "error"
  PROVE  Answered(config, dialed, ders, accepted)
<1>1. /\ p.ServerName = IF config.ServerName = <<>> THEN dialed ELSE config.ServerName
      /\ p.RootCAs \in rootCAPool(config) /\ p.VerifyPeerCertificate = config.VerifyPeerCertificate
  BY ONLY p \in ClientParams(config, dialed, available), ParamsAre
<1>2. /\ config.RootCAs = Nil \/ config.RootCAPEMs = <<>>
      /\ \A b \in Range(config.RootCAPEMs) : InPEM(b) # {}
  BY ONLY Proper(config), <1>1, PoolIsTrusted
<1>3. v # Fail <=> /\ ders # <<>> /\ WellFormed(config, ders)
                   /\ Vouched(config, p.ServerName, ListOf(ders))
  <2>1. CASE ders = <<>>
    BY ONLY <2>1, v = IF ders = <<>> THEN Fail ELSE parseAndVerifyChain(p, ders)
  <2>2. CASE ders # <<>>
    <3>1. parseAndVerifyChain(p, ders) # Fail <=>
            WellFormed(config, ders) /\ Vouched(config, p.ServerName, ListOf(ders))
      BY ONLY Proper(config), p \in ClientParams(config, dialed, available),
              ders \in Seq(Seq(Nat)), <2>2, ChainIs
    <3> QED BY ONLY <2>2, <3>1, v = IF ders = <<>> THEN Fail ELSE parseAndVerifyChain(p, ders)
  <2> QED BY <2>1, <2>2
<1> QED BY ONLY <1>1, <1>2, <1>3, accepted <=> v # Fail /\ p.VerifyPeerCertificate # "error" DEF Answered

\* The Certificate message is answered right, and the answer is what is left in the state.
LEMMA CertificateAnswer ==
  ASSUME HasParams, recvCertificate
  PROVE  TrustAnchored' /\ pc' \in {"flight", "badCertificate"}
<1>1. PICK list \in ServerCertLists : 
       LET raw == [i \in DOMAIN list |-> <<list[i]>>]
           env == MarshalMessage([type |-> "Certificate", RawCerts |-> raw])
           m   == ParseMessage(env)
           certs == IF m = Fail THEN <<>> ELSE Value(m).msg.RawCerts
           v   == IF certs = <<>> THEN Fail ELSE parseAndVerifyChain(params, certs)
       IN /\ received' = env
          /\ pc' = IF v # Fail /\ params.VerifyPeerCertificate # "error" THEN "flight" ELSE "badCertificate"
  BY DEF recvCertificate
<1> DEFINE raw == [i \in DOMAIN list |-> <<list[i]>>]
           rec == [type |-> "Certificate", RawCerts |-> raw]
           env == MarshalMessage(rec)
           m   == ParseMessage(env)
           ders == IF m = Fail THEN <<>> ELSE Value(m).msg.RawCerts
           v   == IF ders = <<>> THEN Fail ELSE parseAndVerifyChain(params, ders)
           accepted == v # Fail /\ params.VerifyPeerCertificate # "error"
<1>2. received' = env /\ pc' = IF accepted THEN "flight" ELSE "badCertificate"
  BY <1>1
<1>3. list \in Seq(Nat)
  <2>1. CASE Focus("trust")
    <3>1. list \in Seq(0 .. 255)
      BY <2>1, NegotiationAssumption DEF ServerCertLists
    <3>2. PICK n \in Nat : n = Len(list)
      BY <3>1
    <3>3. list = [i \in 1 .. n |-> list[i]]
      BY ONLY <3>1, <3>2, IsSeqLen DEF IsSeq
    <3>4. \A i \in 1 .. n : list[i] \in 0 .. 255
      BY ONLY <3>1, <3>2, Element
    <3>5. \A i \in 1 .. n : list[i] \in Nat
      BY ONLY <3>4, SMT
    <3>6. list \in [1 .. n -> Nat]
      BY ONLY <3>3, <3>5
    <3> QED BY ONLY n \in Nat, <3>6
  <2>2. CASE ~Focus("trust")
    <3>1. PICK l \in Leaves : list = <<l>> \o Inter
      BY <2>2 DEF ServerCertLists
    <3>2. DOMAIN Certs \subseteq Nat
      BY TrustAssumption
    <3>3. l \in Nat /\ Inter \in Seq(Nat)
      BY <3>2, NegotiationAssumption
    <3> QED BY ONLY <3>1, <3>3
  <2> QED BY <2>1, <2>2
<1>4. ders \in Seq(Seq(Nat))
  <2>1. PICK n \in Nat : n = Len(list)
    BY <1>3
  <2>2. raw \in [1 .. n -> Seq(Nat)]
    BY <1>3, <2>1
  <2> DEFINE parts == [i \in DOMAIN raw |-> Prefixed(3, raw[i])]
             body == Prefixed(3, Concat(parts))
  <2>3. parts \in [1 .. n -> Seq(Nat)]
    <3>1. 3 \in Width
      BY DEF Width
    <3> HIDE DEF raw
    <3>2. DOMAIN raw = 1 .. n /\ \A i \in 1 .. n : raw[i] \in Seq(Nat)
      BY ONLY <2>2
    <3>3. \A i \in 1 .. n : Prefixed(3, raw[i]) \in Seq(Nat)
      BY ONLY <3>1, <3>2, PrefixedTyped
    <3> QED BY ONLY <3>2, <3>3
  <2>4. body \in Seq(Nat)
    <3>1. 3 \in Width
      BY DEF Width
    <3> HIDE DEF parts
    <3>2. parts \in Seq(Seq(Nat))
      BY ONLY n \in Nat, <2>3
    <3> QED BY ONLY <3>1, <3>2, ConcatTyped, PrefixedTyped
  <2>5. env = <<TypeCode["Certificate"]>> \o Prefixed(3, body)
    <3> HIDE DEF raw
    <3>1. rec.type = "Certificate" /\ rec.RawCerts = raw
      OBVIOUS
    <3> HIDE DEF rec
    <3>2. Marshal(rec) = marshalCertificate(rec)
      BY ONLY <3>1 DEF Marshal
    <3>3. marshalCertificate(rec) = body
      BY ONLY <3>1 DEF marshalCertificate
    <3> HIDE DEF body
    <3> QED BY ONLY <3>1, <3>2, <3>3 DEF MarshalMessage
  <2> HIDE DEF env, body
  <2>6. \A r \in m : r.msg.RawCerts \in Seq(Seq(Nat))
    BY ONLY <2>4, <2>5, CertificateList
  <2> HIDE DEF m
  <2>7. m # Fail => Value(m) \in m
    BY DEF Value, Fail
  <2>8. <<>> \in Seq(Seq(Nat))
    OBVIOUS
  <2> QED BY ONLY <2>6, <2>7, <2>8
<1>5. PICK available : params \in ClientParams(case.config, case.dialed, available)
  BY DEF HasParams
<1>6. Proper(case.config)
  BY ConfigAssumption DEF HasParams, Proper
<1>7. Answered(case.config, case.dialed, ders, accepted)
  <2>1. v = IF ders = <<>> THEN Fail ELSE parseAndVerifyChain(params, ders)
    OBVIOUS
  <2>2. accepted <=> v # Fail /\ params.VerifyPeerCertificate # "error"
    OBVIOUS
  <2> HIDE DEF ders, v, accepted
  <2> QED BY ONLY <1>4, <1>5, <1>6, <2>1, <2>2, Answers
<1>8. ders = IF ParseMessage(received') = Fail THEN <<>> ELSE Value(ParseMessage(received')).msg.RawCerts
  <2> HIDE DEF env
  <2> QED BY ONLY <1>2
<1>9. case' = case
  BY DEF recvCertificate
<1> HIDE DEF ders, accepted
<1>10. accepted <=> pc' = "flight"
  BY ONLY <1>2
<1>11. TrustAnchored'
  <2>1. ders = RawCertsIn(received')
    BY ONLY <1>8 DEF RawCertsIn, Parsed
  <2> QED BY ONLY <1>7, <1>9, <1>10, <2>1 DEF TrustAnchored
<1> QED BY ONLY <1>2, <1>11

\* The server is whom the configuration says, for every configuration, set of
\* certificates, and list the server sends.
THEOREM TrustAnchoredHolds == Spec => []TrustAnchored
<1>1. Init => TInv
  BY DEF Init, ProtectorsInit, TInv, TrustAnchored
<1>2. TInv /\ [Next]_vars => TInv'
  <2> SUFFICES ASSUME TInv, [Next]_vars PROVE TInv'
    OBVIOUS
  <2> DEFINE Waiting == pc \in {"start", "recvServerHello", "recvCertificate"}
             Asked == pc \in {"flight", "badCertificate"} /\ serverParams = Nil /\ certReq = Nil
  <2>1. ASSUME ~Asked', ~Waiting' PROVE TInv'
    BY ONLY <2>1 DEF TInv, TrustAnchored
  <2>2. ASSUME ~Asked', Waiting, case' = case, params' = params PROVE TInv'
    <3>1. HasParams'
      BY <2>2 DEF TInv, HasParams
    <3> QED BY ONLY <2>2, <3>1 DEF TInv, TrustAnchored
  <2>3. CASE Register /\ UNCHANGED handshakeVars
    BY <2>1, <2>3 DEF Register
  <2>4. CASE Configure
    <3>1. PICK c \in Cases :
            LET p == ClientParams(c.config, c.dialed, AvailableSuites) IN
            /\ case' = c
            /\ params' = IF p = Fail THEN Nil ELSE Value(p)
            /\ pc' = IF p = Fail THEN "refused" ELSE "start"
      BY <2>4 DEF Configure
    <3>2. CASE pc' = "refused"
      BY <2>1, <3>2
    <3>3. CASE pc' # "refused"
      <4> DEFINE p == ClientParams(c.config, c.dialed, AvailableSuites)
      <4>1. p # Fail /\ case' = c /\ params' = Value(p) /\ pc' = "start"
        BY <3>1, <3>3
      <4>2. params' \in p
        <5> HIDE DEF p
        <5> QED BY <4>1 DEF Value, Fail
      <4>3. HasParams'
        BY ONLY c \in Cases, <4>1, <4>2 DEF HasParams
      <4> QED BY ONLY <4>1, <4>3 DEF TInv, TrustAnchored
    <3> QED BY <3>2, <3>3
  <2>5. CASE sendClientHello
    BY <2>2, <2>5 DEF sendClientHello
  <2>6. CASE recvServerHello
    <3>1. Waiting /\ case' = case /\ params' = params /\ pc' \in {"recvCertificate", "aborted"}
      BY <2>6 DEF recvServerHello
    <3> QED BY <2>2, <3>1
  <2>7. CASE recvCertificate
    <3>1. HasParams
      BY <2>7 DEF TInv, recvCertificate
    <3>2. TrustAnchored' /\ pc' \in {"flight", "badCertificate"}
      BY ONLY <2>7, <3>1, CertificateAnswer
    <3> QED BY ONLY <3>2 DEF TInv
  <2>8. CASE recvServerKeyExchange
    <3>1. ~Waiting' /\ (pc' = "aborted" \/ \E x : serverParams' = <<x>>)
      BY <2>8 DEF recvServerKeyExchange
    <3>2. \A x : <<x>> # Nil
      BY DEF Nil
    <3> QED BY <2>1, <3>1, <3>2
  <2>9. CASE recvCertificateRequest
    <3>1. ~Waiting' /\ (pc' = "aborted" \/ \E x : certReq' = <<x>>)
      BY <2>9 DEF recvCertificateRequest
    <3>2. \A x : <<x>> # Nil
      BY DEF Nil
    <3> QED BY <2>1, <3>1, <3>2
  <2>10. CASE recvServerHelloDone
    <3>1. pc' \in {"aborted", "exchange"}
      BY <2>10 DEF recvServerHelloDone
    <3> QED BY <2>1, <3>1
  <2>11. CASE KeyExchangeAndSend
    <3>1. pc' \in {"aborted", "expand"}
      BY <2>11 DEF KeyExchangeAndSend
    <3> QED BY <2>1, <3>1
  <2>12. CASE ReceiveDamaged
    BY <2>1, <2>12 DEF ReceiveDamaged
  <2>13. CASE Expansion
    BY <2>1, <2>13 DEF Expansion, ExpandKeys
  <2>14. CASE BuildProtector /\ UNCHANGED handshakeVars
    BY <2>1, <2>14 DEF BuildProtector
  <2>15. CASE SealAndOpen /\ UNCHANGED handshakeVars
    BY <2>1, <2>15 DEF SealAndOpen
  <2>16. CASE OpenCBC /\ UNCHANGED handshakeVars
    BY <2>1, <2>16 DEF OpenCBC
  <2>17. CASE UNCHANGED vars
    <3>1. UNCHANGED <<pc, case, params, received, serverParams, certReq>>
      BY <2>17 DEF vars, protectorVars, handshakeVars
    <3> QED BY <3>1 DEF TInv, HasParams, TrustAnchored, RawCertsIn, Parsed
  <2> QED BY <2>3, <2>4, <2>5, <2>6, <2>7, <2>8, <2>9, <2>10, <2>11, <2>12, <2>13, <2>14, <2>15,
             <2>16, <2>17 DEF Next
<1>3. TInv => TrustAnchored
  BY DEF TInv
<1> QED BY <1>1, <1>2, <1>3, PTL DEF Spec
=============================================================================
