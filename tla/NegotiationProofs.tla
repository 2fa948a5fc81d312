-------------------------- MODULE NegotiationProofs -------------------------
(***************************************************************************)
(* From a suite to protected records, for every configuration, server and  *)
(* length: each registered suite has a protector, the key block is divided *)
(* without overlap, what is sealed can be opened, CBC padding is checked   *)
(* exactly, and no key and nonce are used twice.                           *)
(***************************************************************************)
EXTENDS Negotiation, TLAPS

-----------------------------------------------------------------------------
(* The registry *)

Ciphers ==
  {specAES128GCM, specAES256GCM, specCHACHA20POLY1305, specAES128CBC, specAES256CBC,
   specGOST28147CNT, specKuznyechikCTROMAC, specMagmaCTROMAC}
MACs ==
  {specNoMAC, specHMACSHA1, specHMACSHA256, specHMACSHA384, specGOST28147IMIT,
   specKuznyechikOMAC, specMagmaOMAC}

HMACs == {specHMACSHA1, specHMACSHA256, specHMACSHA384}

\* The ciphers and MACs that make a suite.
Matches(c, m) ==
  \/ c \in {specAES128GCM, specAES256GCM, specCHACHA20POLY1305} /\ m = specNoMAC
  \/ c \in {specAES128CBC, specAES256CBC} /\ m \in HMACs
  \/ c = specGOST28147CNT /\ m = specGOST28147IMIT
  \/ c = specKuznyechikCTROMAC /\ m = specKuznyechikOMAC
  \/ c = specMagmaCTROMAC /\ m = specMagmaOMAC

KXs == {"ECDHE", "DHE", "RSA", "GOST2001", "GOST2012_256", "GOST2018_256"}
Auths == {"ECDSA", "RSA", "GOST2001", "GOST2012_256"}
Suites == [id : Int, kx : KXs, auth : Auths, cipher : Ciphers, mac : MACs]
Proper == {s \in Suites : Matches(s.cipher, s.mac)}

Ids(f) == {f[i].id : i \in 1 .. Len(f)}
Distinct(f) == \A i, j \in 1 .. Len(f) : f[i].id = f[j].id => i = j

\* Proper suites with the IDs of S, each once.
Table(f, S) == f \in Seq(Proper) /\ Distinct(f) /\ Ids(f) = S

\* Two parts of the registry that have no ID in common.
LEMMA TableConcat ==
  ASSUME NEW f, NEW g, NEW S, NEW T, Table(f, S), Table(g, T), S \cap T = {}
  PROVE  Table(f \o g, S \cup T)
<1> DEFINE h == f \o g
           m == Len(f)
           n == Len(g)
<1>1. /\ f \in Seq(Proper) /\ g \in Seq(Proper) /\ m \in Nat /\ n \in Nat
      /\ h \in Seq(Proper) /\ Len(h) = m + n
  BY DEF Table
<1>2. /\ \A i \in 1 .. m : h[i] = f[i]
      /\ \A i \in 1 .. n : h[m + i] = g[i]
      /\ \A i \in 1 .. m + n : i \in 1 .. m \/ \E k \in 1 .. n : i = m + k
  <2>1. \A i \in 1 .. m + n : i \in 1 .. m \/ (i - m \in 1 .. n /\ i = m + (i - m))
    BY <1>1
  <2> QED BY <1>1, <2>1
<1>3. (\A i \in 1 .. m : f[i].id \in S) /\ (\A i \in 1 .. n : g[i].id \in T)
  BY DEF Table, Ids
<1> HIDE DEF h
<1>4. Distinct(h)
  <2> SUFFICES ASSUME NEW i \in 1 .. m + n, NEW j \in 1 .. m + n, h[i].id = h[j].id
               PROVE  i = j
    BY <1>1 DEF Distinct
  <2>1. CASE i \in 1 .. m /\ j \in 1 .. m
    BY <1>2, <2>1 DEF Table, Distinct
  <2>2. CASE i \in 1 .. m /\ \E k \in 1 .. n : j = m + k
    BY <1>2, <1>3, <2>2
  <2>3. CASE j \in 1 .. m /\ \E k \in 1 .. n : i = m + k
    BY <1>2, <1>3, <2>3
  <2>4. ASSUME NEW k \in 1 .. n, NEW l \in 1 .. n, i = m + k, j = m + l PROVE i = j
    BY <1>2, <2>4 DEF Table, Distinct
  <2> QED BY <1>2, <2>1, <2>2, <2>3, <2>4
<1>5. Ids(h) = S \cup T
  <2>1. ASSUME NEW x \in Ids(h) PROVE x \in S \cup T
    <3>1. PICK i \in 1 .. m + n : x = h[i].id
      BY <1>1 DEF Ids
    <3> QED BY <1>2, <1>3, <3>1
  <2>2. ASSUME NEW x \in S PROVE x \in Ids(h)
    <3>1. PICK i \in 1 .. m : x = f[i].id
      BY DEF Table, Ids
    <3>2. i \in 1 .. Len(h) /\ h[i].id = x
      BY <1>1, <1>2, <3>1
    <3> QED BY <3>2 DEF Ids
  <2>3. ASSUME NEW x \in T PROVE x \in Ids(h)
    <3>1. PICK i \in 1 .. n : x = g[i].id
      BY DEF Table, Ids
    <3>2. m + i \in 1 .. Len(h) /\ h[m + i].id = x
      BY <1>1, <1>2, <3>1
    <3> QED BY <3>2 DEF Ids
  <2> QED BY <2>1, <2>2, <2>3
<1> QED BY <1>1, <1>4, <1>5 DEF Table, h

\* The same of the members of a family.
Members(ms, S) ==
  /\ ms \in Seq(Int \X Ciphers \X MACs)
  /\ \A i \in 1 .. Len(ms) : Matches(ms[i][2], ms[i][3])
  /\ \A i, j \in 1 .. Len(ms) : ms[i][1] = ms[j][1] => i = j
  /\ \A i \in 1 .. Len(ms) : ms[i][1] \in S
  /\ \A x \in S : \E i \in 1 .. Len(ms) : x = ms[i][1]

\* What register is called with is proper if the members of the family are.
LEMMA FamilyTable ==
  ASSUME NEW kx \in KXs, NEW auth \in Auths, NEW ms, NEW S, Members(ms, S)
  PROVE  Table(Family(kx, auth, ms), S)
<1> USE DEF Members
<1> DEFINE f == Family(kx, auth, ms)
           n == Len(ms)
<1>1. n \in Nat /\ f = [i \in 1 .. n |-> Suite(ms[i][1], kx, auth, ms[i][2], ms[i][3])]
  BY DEF Family
<1>2. ASSUME NEW i \in 1 .. n PROVE f[i] \in Proper /\ f[i].id = ms[i][1]
  <2>1. ms[i] \in Int \X Ciphers \X MACs
    OBVIOUS
  <2>2. ms[i][1] \in Int /\ ms[i][2] \in Ciphers /\ ms[i][3] \in MACs
    BY <2>1
  <2>3. f[i] = [id |-> ms[i][1], kx |-> kx, auth |-> auth, cipher |-> ms[i][2], mac |-> ms[i][3]]
    BY <1>1 DEF Suite
  <2>4. Matches(ms[i][2], ms[i][3])
    OBVIOUS
  <2> HIDE DEF f
  <2>5. f[i] \in Suites /\ f[i].cipher = ms[i][2] /\ f[i].mac = ms[i][3] /\ f[i].id = ms[i][1]
    BY <2>2, <2>3 DEF Suites
  <2> QED BY <2>4, <2>5 DEF Proper
<1> HIDE DEF f
<1>3. f \in Seq(Proper) /\ Len(f) = n
  BY <1>1, <1>2
<1>4. Distinct(f)
  BY <1>2, <1>3 DEF Distinct
<1>5. Ids(f) = S
  <2>1. ASSUME NEW x \in Ids(f) PROVE x \in S
    <3>1. PICK i \in 1 .. n : x = f[i].id
      BY <1>3 DEF Ids
    <3> QED BY <1>2, <3>1
  <2>2. ASSUME NEW x \in S PROVE x \in Ids(f)
    <3>1. PICK i \in 1 .. n : x = ms[i][1]
      OBVIOUS
    <3>2. i \in 1 .. Len(f) /\ x = f[i].id
      BY <1>2, <1>3, <3>1
    <3> QED BY <3>2 DEF Ids
  <2> QED BY <2>1, <2>2
<1> QED BY <1>3, <1>4, <1>5 DEF Table, f

\* The ciphers and MACs are what the names say.
LEMMA Pairings ==
  /\ \A c \in {specAES128GCM, specAES256GCM, specCHACHA20POLY1305} :
       c \in Ciphers /\ specNoMAC \in MACs /\ Matches(c, specNoMAC)
  /\ \A c \in {specAES128CBC, specAES256CBC} :
       \A m \in HMACs :
         c \in Ciphers /\ m \in MACs /\ Matches(c, m)
BY DEF Ciphers, MACs, HMACs, Matches

\* A family of two.
LEMMA Family2 ==
  ASSUME NEW kx \in KXs, NEW auth \in Auths,
         NEW i1 \in Int, NEW i2 \in Int, i1 # i2,
         NEW c1 \in Ciphers, NEW c2 \in Ciphers, NEW m1 \in MACs, NEW m2 \in MACs,
         Matches(c1, m1), Matches(c2, m2)
  PROVE  Table(Family(kx, auth, <<<<i1, c1, m1>>, <<i2, c2, m2>>>>), {i1, i2})
<1> DEFINE ms == <<<<i1, c1, m1>>, <<i2, c2, m2>>>>
<1>1. ms \in Seq(Int \X Ciphers \X MACs) /\ Len(ms) = 2
  OBVIOUS
<1>2. /\ ms[1][1] = i1 /\ ms[1][2] = c1 /\ ms[1][3] = m1
      /\ ms[2][1] = i2 /\ ms[2][2] = c2 /\ ms[2][3] = m2
  OBVIOUS
<1> HIDE DEF ms
<1>3. \A i \in 1 .. Len(ms) : i \in {1, 2}
  BY <1>1
<1>4. \A i \in 1 .. Len(ms) : Matches(ms[i][2], ms[i][3])
  BY <1>2, <1>3
<1>5. \A i, j \in 1 .. Len(ms) : ms[i][1] = ms[j][1] => i = j
  BY <1>2, <1>3
<1> DEFINE S == {i1, i2}
<1>6. /\ \A i \in 1 .. Len(ms) : ms[i][1] \in S
      /\ \A x \in S : \E i \in 1 .. Len(ms) : x = ms[i][1]
  BY <1>1, <1>2, <1>3
<1> HIDE DEF S
<1>7. Table(Family(kx, auth, ms), S)
  <2>1. Members(ms, S)
    BY <1>1, <1>4, <1>5, <1>6 DEF Members
  <2> QED BY ONLY <2>1, kx \in KXs, auth \in Auths, FamilyTable
<1> QED BY <1>7 DEF ms, S

\* A family of three.
LEMMA Family3 ==
  ASSUME NEW kx \in KXs, NEW auth \in Auths,
         NEW i1 \in Int, NEW i2 \in Int, NEW i3 \in Int, i1 # i2, i1 # i3, i2 # i3,
         NEW c1 \in Ciphers, NEW c2 \in Ciphers, NEW c3 \in Ciphers,
         NEW m1 \in MACs, NEW m2 \in MACs, NEW m3 \in MACs,
         Matches(c1, m1), Matches(c2, m2), Matches(c3, m3)
  PROVE  Table(Family(kx, auth, <<<<i1, c1, m1>>, <<i2, c2, m2>>, <<i3, c3, m3>>>>), {i1, i2, i3})
<1> DEFINE ms == <<<<i1, c1, m1>>, <<i2, c2, m2>>, <<i3, c3, m3>>>>
<1>1. ms \in Seq(Int \X Ciphers \X MACs) /\ Len(ms) = 3
  OBVIOUS
<1>2. /\ ms[1][1] = i1 /\ ms[1][2] = c1 /\ ms[1][3] = m1
      /\ ms[2][1] = i2 /\ ms[2][2] = c2 /\ ms[2][3] = m2
      /\ ms[3][1] = i3 /\ ms[3][2] = c3 /\ ms[3][3] = m3
  OBVIOUS
<1> HIDE DEF ms
<1>3. \A i \in 1 .. Len(ms) : i \in {1, 2, 3}
  BY <1>1
<1>4. \A i \in 1 .. Len(ms) : Matches(ms[i][2], ms[i][3])
  BY <1>2, <1>3
<1>5. \A i, j \in 1 .. Len(ms) : ms[i][1] = ms[j][1] => i = j
  BY <1>2, <1>3
<1> DEFINE S == {i1, i2, i3}
<1>6. /\ \A i \in 1 .. Len(ms) : ms[i][1] \in S
      /\ \A x \in S : \E i \in 1 .. Len(ms) : x = ms[i][1]
  BY <1>1, <1>2, <1>3
<1> HIDE DEF S
<1>7. Table(Family(kx, auth, ms), S)
  <2>1. Members(ms, S)
    BY <1>1, <1>4, <1>5, <1>6 DEF Members
  <2> QED BY ONLY <2>1, kx \in KXs, auth \in Auths, FamilyTable
<1> QED BY <1>7 DEF ms, S

\* Three AEAD suites.
LEMMA AEADs ==
  ASSUME NEW kx \in KXs, NEW auth \in Auths, NEW i \in Int, NEW j \in Int, NEW k \in Int, i # j, i # k, j # k
  PROVE  Table(Family(kx, auth,
                      <<<<i, specAES256GCM, specNoMAC>>, <<j, specCHACHA20POLY1305, specNoMAC>>,
                        <<k, specAES128GCM, specNoMAC>>>>), {i, j, k})
<1>1. /\ specAES256GCM \in Ciphers /\ Matches(specAES256GCM, specNoMAC) /\ specNoMAC \in MACs
      /\ specCHACHA20POLY1305 \in Ciphers /\ Matches(specCHACHA20POLY1305, specNoMAC)
      /\ specAES128GCM \in Ciphers /\ Matches(specAES128GCM, specNoMAC)
  BY Pairings
<1> QED BY <1>1, Family3, Zenon

\* Two CBC suites.
LEMMA CBCs ==
  ASSUME NEW kx \in KXs, NEW auth \in Auths, NEW i \in Int, NEW j \in Int, i # j,
         NEW m1 \in HMACs,
         NEW m2 \in HMACs
  PROVE  Table(Family(kx, auth, <<<<i, specAES256CBC, m1>>, <<j, specAES128CBC, m2>>>>), {i, j})
<1>1. /\ specAES256CBC \in Ciphers /\ Matches(specAES256CBC, m1) /\ m1 \in MACs
      /\ specAES128CBC \in Ciphers /\ Matches(specAES128CBC, m2) /\ m2 \in MACs
  BY Pairings
<1> QED BY <1>1, Family2, Zenon

\* The 14 ECDHE suites.
LEMMA ECDHETable ==
  Table(ECDHESuites,
        {\hC02C, \hCCA9, \hC02B, \hC030, \hCCA8, \hC02F, \hC024, \hC023, \hC028, \hC027,
         \hC00A, \hC009, \hC014, \hC013})
<1>0. /\ "ECDHE" \in KXs /\ "ECDSA" \in Auths /\ "RSA" \in Auths
      /\ specHMACSHA1 \in HMACs /\ specHMACSHA256 \in HMACs /\ specHMACSHA384 \in HMACs
  BY DEF KXs, Auths, HMACs
<1>1. PICK F1 : /\ F1 = Family("ECDHE", "ECDSA",
                          <<<<\hC02C, specAES256GCM, specNoMAC>>,
                            <<\hCCA9, specCHACHA20POLY1305, specNoMAC>>,
                            <<\hC02B, specAES128GCM, specNoMAC>>>>)
                /\ Table(F1, {\hC02C, \hCCA9, \hC02B})
  BY <1>0, AEADs, SMT
<1>2. PICK F2 : /\ F2 = Family("ECDHE", "RSA",
                          <<<<\hC030, specAES256GCM, specNoMAC>>,
                            <<\hCCA8, specCHACHA20POLY1305, specNoMAC>>,
                            <<\hC02F, specAES128GCM, specNoMAC>>>>)
                /\ Table(F2, {\hC030, \hCCA8, \hC02F})
  BY <1>0, AEADs, SMT
<1>3. PICK F3 : /\ F3 = Family("ECDHE", "ECDSA", <<<<\hC024, specAES256CBC, specHMACSHA384>>,
                                                   <<\hC023, specAES128CBC, specHMACSHA256>>>>)
                /\ Table(F3, {\hC024, \hC023})
  BY <1>0, CBCs, SMT
<1>4. PICK F4 : /\ F4 = Family("ECDHE", "RSA", <<<<\hC028, specAES256CBC, specHMACSHA384>>,
                                                 <<\hC027, specAES128CBC, specHMACSHA256>>>>)
                /\ Table(F4, {\hC028, \hC027})
  BY <1>0, CBCs, SMT
<1>5. PICK F5 : /\ F5 = Family("ECDHE", "ECDSA", <<<<\hC00A, specAES256CBC, specHMACSHA1>>,
                                                   <<\hC009, specAES128CBC, specHMACSHA1>>>>)
                /\ Table(F5, {\hC00A, \hC009})
  BY <1>0, CBCs, SMT
<1>6. PICK F6 : /\ F6 = Family("ECDHE", "RSA", <<<<\hC014, specAES256CBC, specHMACSHA1>>,
                                                 <<\hC013, specAES128CBC, specHMACSHA1>>>>)
                /\ Table(F6, {\hC014, \hC013})
  BY <1>0, CBCs, SMT
<1>7. ECDHESuites = F1 \o F2 \o F3 \o F4 \o F5 \o F6
  BY <1>1, <1>2, <1>3, <1>4, <1>5, <1>6, SMT DEF ECDHESuites
<1>8. Table(F1 \o F2, {\hC02C, \hCCA9, \hC02B} \cup {\hC030, \hCCA8, \hC02F})
  BY <1>1, <1>2, TableConcat, SMT
<1>9. Table(F1 \o F2 \o F3,
            ({\hC02C, \hCCA9, \hC02B} \cup {\hC030, \hCCA8, \hC02F}) \cup {\hC024, \hC023})
  BY <1>3, <1>8, TableConcat, SMT
<1> DEFINE S == {\hC02C, \hCCA9, \hC02B, \hC030, \hCCA8, \hC02F, \hC024, \hC023}
<1>10. S = {\hC02C, \hCCA9, \hC02B, \hC030, \hCCA8, \hC02F, \hC024, \hC023}
  BY SMT
<1> HIDE DEF S
<1>11. Table(F1 \o F2 \o F3 \o F4, S \cup {\hC028, \hC027})
  <2>1. Table(F1 \o F2 \o F3, S)
    BY <1>9, <1>10, SMT
  <2> QED BY <1>4, <1>10, <2>1, TableConcat, SMT
<1>12. Table(F1 \o F2 \o F3 \o F4 \o F5, (S \cup {\hC028, \hC027}) \cup {\hC00A, \hC009})
  BY <1>5, <1>10, <1>11, TableConcat, SMT
<1>13. Table(F1 \o F2 \o F3 \o F4 \o F5 \o F6,
             ((S \cup {\hC028, \hC027}) \cup {\hC00A, \hC009}) \cup {\hC014, \hC013})
  BY <1>6, <1>10, <1>12, TableConcat, SMT
<1> DEFINE T == {\hC02C, \hCCA9, \hC02B, \hC030, \hCCA8, \hC02F, \hC024, \hC023, \hC028, \hC027,
                 \hC00A, \hC009, \hC014, \hC013}
<1>14. T = ((S \cup {\hC028, \hC027}) \cup {\hC00A, \hC009}) \cup {\hC014, \hC013}
  BY <1>10, SMT
<1> HIDE DEF T
<1>15. Table(ECDHESuites, T)
  BY ONLY <1>7, <1>13, <1>14, SMT
<1> QED BY <1>15 DEF T

\* A family in two parts.
LEMMA FamilyConcat ==
  ASSUME NEW kx, NEW auth, NEW X, NEW a \in Seq(X), NEW b \in Seq(X)
  PROVE  Family(kx, auth, a \o b) = Family(kx, auth, a) \o Family(kx, auth, b)
<1> DEFINE S(m) == Suite(m[1], kx, auth, m[2], m[3])
           f == [i \in 1 .. Len(a) |-> S(a[i])]
           g == [i \in 1 .. Len(b) |-> S(b[i])]
           h == [i \in 1 .. Len(a \o b) |-> S((a \o b)[i])]
           R == {S(m) : m \in X}
<1>1. Family(kx, auth, a) = f /\ Family(kx, auth, b) = g /\ Family(kx, auth, a \o b) = h
  BY DEF Family
<1>2. /\ Len(a) \in Nat /\ Len(b) \in Nat /\ Len(a \o b) = Len(a) + Len(b)
      /\ \A i \in 1 .. Len(a) : (a \o b)[i] = a[i] /\ a[i] \in X
      /\ \A i \in 1 .. Len(b) : (a \o b)[Len(a) + i] = b[i] /\ b[i] \in X
  OBVIOUS
<1> HIDE DEF S
<1>3. f \in Seq(R) /\ g \in Seq(R) /\ Len(f) = Len(a) /\ Len(g) = Len(b)
  BY <1>2
<1>4. ASSUME NEW i \in 1 .. Len(a) + Len(b) PROVE (f \o g)[i] = h[i]
  <2>1. CASE i <= Len(a)
    BY <1>2, <1>3, <2>1
  <2>2. CASE ~(i <= Len(a))
    <3>1. i - Len(a) \in 1 .. Len(b) /\ i = Len(a) + (i - Len(a))
      BY <1>2, <2>2
    <3>2. (f \o g)[i] = g[i - Len(a)]
      BY <1>2, <1>3, <2>2
    <3>3. (a \o b)[i] = b[i - Len(a)]
      BY <1>2, <3>1
    <3> QED BY <1>2, <3>1, <3>2, <3>3
  <2> QED BY <2>1, <2>2
<1>5. f \o g = h
  <2>1. /\ DOMAIN (f \o g) = 1 .. Len(a) + Len(b) /\ DOMAIN h = 1 .. Len(a) + Len(b)
        /\ f \o g = [i \in DOMAIN (f \o g) |-> (f \o g)[i]] /\ h = [i \in DOMAIN h |-> h[i]]
    BY <1>2, <1>3
  <2> QED BY <1>4, <2>1
<1> QED BY <1>1, <1>5

\* A family in three parts, whose IDs differ.
LEMMA FamilyParts ==
  ASSUME NEW kx, NEW auth, NEW X, NEW a \in Seq(X), NEW b \in Seq(X), NEW c \in Seq(X),
         NEW S, NEW T, NEW U, Table(Family(kx, auth, a), S), Table(Family(kx, auth, b), T),
         Table(Family(kx, auth, c), U), S \cap T = {}, (S \cup T) \cap U = {}
  PROVE  Table(Family(kx, auth, a \o b \o c), (S \cup T) \cup U)
<1>1. Table(Family(kx, auth, a) \o Family(kx, auth, b), S \cup T)
  BY TableConcat
<1>2. Family(kx, auth, a \o b) = Family(kx, auth, a) \o Family(kx, auth, b)
  BY FamilyConcat
<1>3. Family(kx, auth, a \o b \o c) = Family(kx, auth, a \o b) \o Family(kx, auth, c)
  <2>1. a \o b \in Seq(X)
    BY ONLY a \in Seq(X), b \in Seq(X)
  <2>2. ASSUME NEW d \in Seq(X) PROVE Family(kx, auth, d \o c) = Family(kx, auth, d) \o Family(kx, auth, c)
    BY FamilyConcat
  <2> QED BY ONLY <2>1, <2>2
<1>4. Table(Family(kx, auth, a \o b), S \cup T)
  BY <1>1, <1>2
<1> QED BY <1>3, <1>4, TableConcat

\* The 7 DHE suites.
LEMMA DHETable ==
  Table(DHERSASuites, ({\h009F, \hCCAA, \h009E} \cup {\h006B, \h0067}) \cup {\h0039, \h0033})
<1>0. /\ "DHE" \in KXs /\ "RSA" \in Auths /\ specHMACSHA1 \in HMACs /\ specHMACSHA256 \in HMACs
  BY DEF KXs, Auths, HMACs
<1> DEFINE t == <<\h009F, specAES256GCM, specNoMAC>>
           u == <<\hCCAA, specCHACHA20POLY1305, specNoMAC>>
           v == <<\h009E, specAES128GCM, specNoMAC>>
           w == <<\h006B, specAES256CBC, specHMACSHA256>>
           x == <<\h0067, specAES128CBC, specHMACSHA256>>
           y == <<\h0039, specAES256CBC, specHMACSHA1>>
           z == <<\h0033, specAES128CBC, specHMACSHA1>>
           a == <<t, u, v>>
           b == <<w, x>>
           c == <<y, z>>
           X == {t, u, v, w, x, y, z}
<1>1. Table(Family("DHE", "RSA", a), {\h009F, \hCCAA, \h009E})
  BY <1>0, AEADs, SMT
<1>2. Table(Family("DHE", "RSA", b), {\h006B, \h0067})
  BY <1>0, CBCs, SMT
<1>3. Table(Family("DHE", "RSA", c), {\h0039, \h0033})
  BY <1>0, CBCs, SMT
<1>4. DHERSASuites = Family("DHE", "RSA", a \o b \o c)
  <2>1. DHERSASuites = Family("DHE", "RSA", <<t, u, v, w, x, y, z>>)
    BY SMT DEF DHERSASuites
  <2> HIDE DEF t, u, v, w, x, y, z
  <2>2. <<t, u, v, w, x, y, z>> = <<t, u, v>> \o <<w, x>> \o <<y, z>>
    OBVIOUS
  <2> QED BY <2>1, <2>2
<1> HIDE DEF t, u, v, w, x, y, z
<1>5. a \in Seq(X) /\ b \in Seq(X) /\ c \in Seq(X)
  BY SMT
<1> HIDE DEF a, b, c, X
<1> DEFINE S == {\h009F, \hCCAA, \h009E}
           T == {\h006B, \h0067}
           U == {\h0039, \h0033}
<1>6. S \cap T = {} /\ (S \cup T) \cap U = {}
  BY SMT
<1>7. Table(Family("DHE", "RSA", a), S) /\ Table(Family("DHE", "RSA", b), T) /\ Table(Family("DHE", "RSA", c), U)
  BY <1>1, <1>2, <1>3, SMT
<1> HIDE DEF S, T, U
<1>8. Table(Family("DHE", "RSA", a \o b \o c), (S \cup T) \cup U)
  BY ONLY <1>5, <1>6, <1>7, FamilyParts
<1>9. Table(DHERSASuites, (S \cup T) \cup U)
  BY ONLY <1>4, <1>8
<1> QED BY <1>9, SMT DEF S, T, U

\* The 6 suites of RSA key transport.
LEMMA RSATable ==
  Table(RSAKxSuites, ({\h009D, \h009C} \cup {\h003D, \h003C}) \cup {\h0035, \h002F})
<1>0. /\ "RSA" \in KXs /\ "RSA" \in Auths /\ specHMACSHA1 \in HMACs /\ specHMACSHA256 \in HMACs
  BY DEF KXs, Auths, HMACs
<1> DEFINE u == <<\h009D, specAES256GCM, specNoMAC>>
           v == <<\h009C, specAES128GCM, specNoMAC>>
           w == <<\h003D, specAES256CBC, specHMACSHA256>>
           x == <<\h003C, specAES128CBC, specHMACSHA256>>
           y == <<\h0035, specAES256CBC, specHMACSHA1>>
           z == <<\h002F, specAES128CBC, specHMACSHA1>>
           a == <<u, v>>
           b == <<w, x>>
           c == <<y, z>>
           X == {u, v, w, x, y, z}
<1>1. Table(Family("RSA", "RSA", a), {\h009D, \h009C})
  <2>1. /\ specAES256GCM \in Ciphers /\ Matches(specAES256GCM, specNoMAC) /\ specNoMAC \in MACs
        /\ specAES128GCM \in Ciphers /\ Matches(specAES128GCM, specNoMAC)
    BY Pairings
  <2> QED BY <1>0, <2>1, Family2, SMT
<1>2. Table(Family("RSA", "RSA", b), {\h003D, \h003C})
  BY <1>0, CBCs, SMT
<1>3. Table(Family("RSA", "RSA", c), {\h0035, \h002F})
  BY <1>0, CBCs, SMT
<1>4. RSAKxSuites = Family("RSA", "RSA", a \o b \o c)
  <2>1. RSAKxSuites = Family("RSA", "RSA", <<u, v, w, x, y, z>>)
    BY SMT DEF RSAKxSuites
  <2> HIDE DEF u, v, w, x, y, z
  <2>2. <<u, v, w, x, y, z>> = <<u, v>> \o <<w, x>> \o <<y, z>>
    OBVIOUS
  <2> QED BY <2>1, <2>2
<1> HIDE DEF u, v, w, x, y, z
<1>5. a \in Seq(X) /\ b \in Seq(X) /\ c \in Seq(X)
  BY SMT
<1> HIDE DEF a, b, c, X
<1> DEFINE S == {\h009D, \h009C}
           T == {\h003D, \h003C}
           U == {\h0035, \h002F}
<1>6. S \cap T = {} /\ (S \cup T) \cap U = {}
  BY SMT
<1>7. Table(Family("RSA", "RSA", a), S) /\ Table(Family("RSA", "RSA", b), T) /\ Table(Family("RSA", "RSA", c), U)
  BY <1>1, <1>2, <1>3, SMT
<1> HIDE DEF S, T, U
<1>8. Table(Family("RSA", "RSA", a \o b \o c), (S \cup T) \cup U)
  BY ONLY <1>5, <1>6, <1>7, FamilyParts
<1>9. Table(RSAKxSuites, (S \cup T) \cup U)
  BY ONLY <1>4, <1>8
<1> QED BY <1>9, SMT DEF S, T, U

\* The 5 GOST suites.
LEMMA GOSTTable ==
  Table(GOSTSuites, {\h0081, \hFF85, \hC102, \hC100, \hC101})
<1> DEFINE f == GOSTSuites
<1>1. /\ f[1] = Suite(\h0081, "GOST2001", "GOST2001", specGOST28147CNT, specGOST28147IMIT)
      /\ f[2] = Suite(\hFF85, "GOST2012_256", "GOST2012_256", specGOST28147CNT, specGOST28147IMIT)
      /\ f[3] = Suite(\hC102, "GOST2012_256", "GOST2012_256", specGOST28147CNT, specGOST28147IMIT)
      /\ f[4] = Suite(\hC100, "GOST2018_256", "GOST2012_256", specKuznyechikCTROMAC, specKuznyechikOMAC)
      /\ f[5] = Suite(\hC101, "GOST2018_256", "GOST2012_256", specMagmaCTROMAC, specMagmaOMAC)
      /\ Len(f) = 5
      /\ \A S : f[1] \in S /\ f[2] \in S /\ f[3] \in S /\ f[4] \in S /\ f[5] \in S => f \in Seq(S)
  BY SMT DEF GOSTSuites
<1> HIDE DEF f
<1>2. ASSUME NEW i \in Int, NEW kx \in KXs, NEW auth \in Auths, NEW c \in Ciphers, NEW m \in MACs,
             Matches(c, m)
      PROVE  Suite(i, kx, auth, c, m) \in Proper /\ Suite(i, kx, auth, c, m).id = i
  BY <1>2, SMT DEF Suite, Suites, Proper
<1>3. /\ specGOST28147CNT \in Ciphers /\ specGOST28147IMIT \in MACs
      /\ specKuznyechikCTROMAC \in Ciphers /\ specKuznyechikOMAC \in MACs
      /\ specMagmaCTROMAC \in Ciphers /\ specMagmaOMAC \in MACs
      /\ Matches(specGOST28147CNT, specGOST28147IMIT)
      /\ Matches(specKuznyechikCTROMAC, specKuznyechikOMAC) /\ Matches(specMagmaCTROMAC, specMagmaOMAC)
  BY SMT DEF Ciphers, MACs, Matches
<1>4. /\ "GOST2001" \in KXs /\ "GOST2012_256" \in KXs /\ "GOST2018_256" \in KXs
      /\ "GOST2001" \in Auths /\ "GOST2012_256" \in Auths
  BY SMT DEF KXs, Auths
<1>5. /\ f[1] \in Proper /\ f[2] \in Proper /\ f[3] \in Proper /\ f[4] \in Proper /\ f[5] \in Proper
      /\ f[1].id = \h0081 /\ f[2].id = \hFF85 /\ f[3].id = \hC102 /\ f[4].id = \hC100
      /\ f[5].id = \hC101
  BY ONLY <1>1, <1>2, <1>3, <1>4, SMT
<1>6. f \in Seq(Proper)
  BY <1>1, <1>5, SMT
<1>7. Distinct(f)
  BY <1>1, <1>5, SMT DEF Distinct
<1>8. Ids(f) = {\h0081, \hFF85, \hC102, \hC100, \hC101}
  BY <1>1, <1>5, SMT DEF Ids
<1> QED BY <1>6, <1>7, <1>8, SMT DEF Table, f

\* The IDs of the registered suites.
GOSTIds == {\h0081, \hFF85, \hC102, \hC100, \hC101}
ECDHEIds ==
  {\hC02C, \hCCA9, \hC02B, \hC030, \hCCA8, \hC02F, \hC024, \hC023, \hC028, \hC027,
   \hC00A, \hC009, \hC014, \hC013}
DHEIds == ({\h009F, \hCCAA, \h009E} \cup {\h006B, \h0067}) \cup {\h0039, \h0033}
RSAIds == ({\h009D, \h009C} \cup {\h003D, \h003C}) \cup {\h0035, \h002F}

\* All that register is called with is proper, and no ID is given twice.
LEMMA RegistrationsTable ==
  /\ Registrations \in Seq(Proper) /\ Distinct(Registrations)
  /\ Ids(Registrations) = ((GOSTIds \cup ECDHEIds) \cup DHEIds) \cup RSAIds
<1>1. /\ Table(GOSTSuites, GOSTIds) /\ Table(ECDHESuites, ECDHEIds)
      /\ Table(DHERSASuites, DHEIds) /\ Table(RSAKxSuites, RSAIds)
  BY GOSTTable, ECDHETable, DHETable, RSATable, SMT DEF GOSTIds, ECDHEIds, DHEIds, RSAIds
<1>2. GOSTIds \cap ECDHEIds = {}
  BY SMT DEF GOSTIds, ECDHEIds
<1>3. (GOSTIds \cup ECDHEIds) \cap DHEIds = {}
  BY SMT DEF GOSTIds, ECDHEIds, DHEIds
<1>4. ((GOSTIds \cup ECDHEIds) \cup DHEIds) \cap RSAIds = {}
  BY SMT DEF GOSTIds, ECDHEIds, DHEIds, RSAIds
<1>5. Table(GOSTSuites \o ECDHESuites, GOSTIds \cup ECDHEIds)
  BY ONLY <1>1, <1>2, TableConcat
<1>6. Table(GOSTSuites \o ECDHESuites \o DHERSASuites, (GOSTIds \cup ECDHEIds) \cup DHEIds)
  BY ONLY <1>1, <1>3, <1>5, TableConcat
<1>7. Table(GOSTSuites \o ECDHESuites \o DHERSASuites \o RSAKxSuites,
            ((GOSTIds \cup ECDHEIds) \cup DHEIds) \cup RSAIds)
  BY ONLY <1>1, <1>4, <1>6, TableConcat
<1> QED BY ONLY <1>7 DEF Table, Registrations

-----------------------------------------------------------------------------
(* The protectors *)

\* The protector of a suite, from the lengths its specs say.
KindOf(s) == buildProtector(s, s.cipher.keyLen, s.mac.keyLen, IVLen(s))
Kinds == {"AEAD", "CHACHA20", "CBCHMAC", "GOST28147", "CTROMAC"}

\* What the suites with a protector have in common.
Fits(s) ==
  /\ s.cipher.keyLen \in Nat /\ s.mac.keyLen \in Nat /\ s.mac.macLen \in Nat /\ IVLen(s) \in Nat
  /\ KindOf(s) \in Kinds
  /\ KindOf(s) = "CBCHMAC" => s.mac.macLen \in {20, 32, 48}
  /\ KindOf(s) \in {"GOST28147", "CTROMAC"} => s.mac.macLen \in {4, 8, 16}
  /\ KindOf(s) = "AEAD" => s.cipher.fixedIV = 4
  /\ KindOf(s) = "CHACHA20" => s.cipher.fixedIV = 12
  /\ KindOf(s) = "CTROMAC" => \/ s.cipher.name = "KUZNYECHIK-CTR-OMAC" /\ s.cipher.fixedIV = 8
                              \/ s.cipher.name = "MAGMA-CTR-OMAC" /\ s.cipher.fixedIV = 4

\* Every proper suite has a protector.
LEMMA ProperFits ==
  ASSUME NEW s \in Proper
  PROVE  Fits(s)
<1> USE DEF Fits, KindOf, Kinds, IVLen, Streams, Cipher, MAC
<1>1. Matches(s.cipher, s.mac)
  BY DEF Proper
<1>2. CASE s.cipher \in {specAES128GCM, specAES256GCM} /\ s.mac = specNoMAC
  <2>1. CASE s.cipher = specAES128GCM
    BY <1>2, <2>1, SMT DEF buildProtector, specAES128GCM, specNoMAC
  <2>2. CASE s.cipher = specAES256GCM
    BY <1>2, <2>2, SMT DEF buildProtector, specAES256GCM, specNoMAC
  <2> QED BY <1>2, <2>1, <2>2
<1>3. CASE s.cipher = specCHACHA20POLY1305 /\ s.mac = specNoMAC
  BY <1>3, SMT DEF buildProtector, specCHACHA20POLY1305, specNoMAC
<1>4. CASE s.cipher \in {specAES128CBC, specAES256CBC} /\ s.mac \in HMACs
  <2>1. s.mac.keyLen \in Nat /\ s.mac.macLen \in {20, 32, 48}
    BY <1>4, SMT DEF HMACs, specHMACSHA1, specHMACSHA256, specHMACSHA384
  <2>2. CASE s.cipher = specAES128CBC
    BY <2>1, <2>2, SMT DEF buildProtector, specAES128CBC
  <2>3. CASE s.cipher = specAES256CBC
    BY <2>1, <2>3, SMT DEF buildProtector, specAES256CBC
  <2> QED BY <1>4, <2>2, <2>3
<1>5. CASE s.cipher = specGOST28147CNT /\ s.mac = specGOST28147IMIT
  BY <1>5, SMT DEF buildProtector, specGOST28147CNT, specGOST28147IMIT
<1>6. CASE s.cipher = specKuznyechikCTROMAC /\ s.mac = specKuznyechikOMAC
  BY <1>6, SMT DEF buildProtector, specKuznyechikCTROMAC, specKuznyechikOMAC
<1>7. CASE s.cipher = specMagmaCTROMAC /\ s.mac = specMagmaOMAC
  BY <1>7, SMT DEF buildProtector, specMagmaCTROMAC, specMagmaOMAC
<1>8. \/ s.cipher \in {specAES128GCM, specAES256GCM} /\ s.mac = specNoMAC
      \/ s.cipher = specCHACHA20POLY1305 /\ s.mac = specNoMAC
      \/ s.cipher \in {specAES128CBC, specAES256CBC} /\ s.mac \in HMACs
      \/ s.cipher = specGOST28147CNT /\ s.mac = specGOST28147IMIT
      \/ s.cipher = specKuznyechikCTROMAC /\ s.mac = specKuznyechikOMAC
      \/ s.cipher = specMagmaCTROMAC /\ s.mac = specMagmaOMAC
  BY ONLY <1>1 DEF Matches
<1> QED BY ONLY <1>2, <1>3, <1>4, <1>5, <1>6, <1>7, <1>8

\* The parts of a key block are disjoint and are all of it.
Divided(ks) ==
  /\ UNION {Positions(ks[p]) : p \in Parts} = 0 .. ks.total - 1
  /\ \A p, q \in Parts : p # q => Positions(ks[p]) \cap Positions(ks[q]) = {}

\* The key block of such a suite: six slices end to end.
LEMMA ExpandPartition ==
  ASSUME NEW s, Fits(s)
  PROVE  Divided(Expand(s))
<1> DEFINE m == s.mac.keyLen
           k == s.cipher.keyLen
           v == IVLen(s)
           ks == Expand(s)
<1>0. m \in Nat /\ k \in Nat /\ v \in Nat
  BY DEF Fits
<1>a. ks = [total |-> 2 * m + 2 * k + 2 * v,
            clientMAC |-> Slice(0, m), serverMAC |-> Slice(m, m),
            clientEnc |-> Slice(2 * m, k), serverEnc |-> Slice(2 * m + k, k),
            clientIV |-> Slice(2 * m + 2 * k, v), serverIV |-> Slice(2 * m + 2 * k + v, v)]
  BY DEF Expand
<1> HIDE DEF m, k, v, ks
<1>1. /\ ks.total = 2 * m + 2 * k + 2 * v
      /\ Positions(ks["clientMAC"]) = 0 .. 0 + m - 1
      /\ Positions(ks["serverMAC"]) = m .. m + m - 1
      /\ Positions(ks["clientEnc"]) = 2 * m .. 2 * m + k - 1
      /\ Positions(ks["serverEnc"]) = 2 * m + k .. 2 * m + k + k - 1
      /\ Positions(ks["clientIV"]) = 2 * m + 2 * k .. 2 * m + 2 * k + v - 1
      /\ Positions(ks["serverIV"]) = 2 * m + 2 * k + v .. 2 * m + 2 * k + v + v - 1
  BY <1>0, <1>a DEF Positions, Slice
<1> DEFINE P(p) == Positions(ks[p])
<1>2. UNION {P(p) : p \in Parts}
        = P("clientMAC") \cup P("serverMAC") \cup P("clientEnc") \cup P("serverEnc")
          \cup P("clientIV") \cup P("serverIV")
  <2> HIDE DEF P
  <2> QED BY DEF Parts
<1> DEFINE Bounds(x) ==
             /\ x \in P("clientMAC") <=> x \in Int /\ 0 <= x /\ x < m
             /\ x \in P("serverMAC") <=> x \in Int /\ m <= x /\ x < 2 * m
             /\ x \in P("clientEnc") <=> x \in Int /\ 2 * m <= x /\ x < 2 * m + k
             /\ x \in P("serverEnc") <=> x \in Int /\ 2 * m + k <= x /\ x < 2 * m + 2 * k
             /\ x \in P("clientIV") <=> x \in Int /\ 2 * m + 2 * k <= x /\ x < 2 * m + 2 * k + v
             /\ x \in P("serverIV") <=> x \in Int /\ 2 * m + 2 * k + v <= x /\ x < 2 * m + 2 * k + 2 * v
             /\ x \in 0 .. ks.total - 1 <=> x \in Int /\ 0 <= x /\ x < 2 * m + 2 * k + 2 * v
<1>3. ASSUME NEW x PROVE Bounds(x)
  <2>1. x \in P("clientMAC") <=> x \in Int /\ 0 <= x /\ x < m
    BY <1>0, <1>1
  <2>2. x \in P("serverMAC") <=> x \in Int /\ m <= x /\ x < 2 * m
    BY <1>0, <1>1
  <2>3. x \in P("clientEnc") <=> x \in Int /\ 2 * m <= x /\ x < 2 * m + k
    BY <1>0, <1>1
  <2>4. x \in P("serverEnc") <=> x \in Int /\ 2 * m + k <= x /\ x < 2 * m + 2 * k
    BY <1>0, <1>1
  <2>5. x \in P("clientIV") <=> x \in Int /\ 2 * m + 2 * k <= x /\ x < 2 * m + 2 * k + v
    BY <1>0, <1>1
  <2>6. x \in P("serverIV") <=> x \in Int /\ 2 * m + 2 * k + v <= x /\ x < 2 * m + 2 * k + 2 * v
    BY <1>0, <1>1
  <2>7. x \in 0 .. ks.total - 1 <=> x \in Int /\ 0 <= x /\ x < 2 * m + 2 * k + 2 * v
    BY <1>0, <1>1
  <2> QED BY <2>1, <2>2, <2>3, <2>4, <2>5, <2>6, <2>7
<1> HIDE DEF P
<1>4. UNION {P(p) : p \in Parts} = 0 .. ks.total - 1
  <2>1. ASSUME NEW x PROVE x \in UNION {P(p) : p \in Parts} <=> x \in 0 .. ks.total - 1
    <3>1. x \in Int => x < m \/ (m <= x /\ x < 2 * m) \/ (2 * m <= x /\ x < 2 * m + k)
                       \/ (2 * m + k <= x /\ x < 2 * m + 2 * k)
                       \/ (2 * m + 2 * k <= x /\ x < 2 * m + 2 * k + v) \/ 2 * m + 2 * k + v <= x
      BY <1>0
    <3>2. x \in 0 .. ks.total - 1 => x \in UNION {P(p) : p \in Parts}
      BY <1>0, <1>2, <1>3, <3>1
    <3>3. x \in UNION {P(p) : p \in Parts} => x \in Int /\ 0 <= x /\ x < 2 * m + 2 * k + 2 * v
      BY <1>0, <1>2, <1>3
    <3> QED BY <1>0, <1>3, <3>2, <3>3
  <2> QED BY ONLY <2>1
<1>5. ASSUME NEW x, NEW p \in Parts, NEW q \in Parts, x \in P(p), x \in P(q) PROVE p = q
  <2>1. CASE p = "clientMAC"
    BY <1>0, <1>3, <1>5, <2>1 DEF Parts
  <2>2. CASE p = "serverMAC"
    BY <1>0, <1>3, <1>5, <2>2 DEF Parts
  <2>3. CASE p = "clientEnc"
    BY <1>0, <1>3, <1>5, <2>3 DEF Parts
  <2>4. CASE p = "serverEnc"
    BY <1>0, <1>3, <1>5, <2>4 DEF Parts
  <2>5. CASE p = "clientIV"
    BY <1>0, <1>3, <1>5, <2>5 DEF Parts
  <2>6. CASE p = "serverIV"
    BY <1>0, <1>3, <1>5, <2>6 DEF Parts
  <2> QED BY ONLY p \in Parts, <2>1, <2>2, <2>3, <2>4, <2>5, <2>6 DEF Parts
<1>6. \A p, q \in Parts : p # q => P(p) \cap P(q) = {}
  BY ONLY <1>5
<1> QED BY <1>4, <1>6 DEF P, Divided, ks

\* What Seal makes is of a length ReadRecord and Open accept, and Open finds the
\* plaintext in it.
LEMMA SealOpen ==
  ASSUME NEW s, Fits(s), kind = KindOf(s), NEW len \in Nat, len <= 16384
  PROVE  ~(SealLen(s, len) > MaxFragmentLen) /\ OpenLen(s, SealLen(s, len), len) = len
<1>1. s.mac.macLen \in Nat /\ kind \in Kinds
  BY DEF Fits
<1>2. CASE kind = "CBCHMAC"
  <2>1. s.mac.macLen \in {20, 32, 48}
    BY <1>2 DEF Fits
  <2> DEFINE c == len + s.mac.macLen
             r == (c + 1) % 16
  <2>2. r \in 0 .. 15 /\ (c + 1 + 16 - r) % 16 = 0
    BY <2>1
  <2> HIDE DEF r
  <2>3. SealLen(s, len) = 16 + c + (16 - r) + 1
    BY <1>2 DEF SealLen, PadLen, BlockSize, r
  <2>4. SealLen(s, len) % 16 = 0
    <3>1. c + 1 + 16 - r \in Int /\ 16 + c + (16 - r) + 1 = (c + 1 + 16 - r) + 16
      BY <2>1, <2>2
    <3>2. ((c + 1 + 16 - r) + 16) % 16 = 0
      BY <2>2, <3>1
    <3> QED BY <2>3, <3>1, <3>2
  <2> DEFINE frag == SealLen(s, len)
  <2>5. frag \in Nat /\ ~(frag < 16 + s.mac.macLen + 1) /\ ~(frag > 16384 + 2048)
    BY <2>1, <2>2, <2>3
  <2> HIDE DEF frag
  <2>6. OpenLen(s, frag, len) = frag - 16 - s.mac.macLen - ((16 - r) + 1)
    BY <1>2, <2>4, <2>5 DEF OpenLen, PadLen, BlockSize, r, frag
  <2> QED BY <2>1, <2>2, <2>3, <2>5, <2>6, SMT DEF MaxFragmentLen, tlsMaxPlaintextLen, frag
<1>3. CASE kind = "AEAD"
  BY <1>3, SMT DEF SealLen, OpenLen, MaxFragmentLen, tlsMaxPlaintextLen
<1>4. CASE kind = "CHACHA20"
  BY <1>4, SMT DEF SealLen, OpenLen, MaxFragmentLen, tlsMaxPlaintextLen
<1>5. CASE kind \in {"GOST28147", "CTROMAC"}
  <2>1. s.mac.macLen \in {4, 8, 16}
    BY <1>5 DEF Fits
  <2> QED BY <1>5, <2>1, SMT DEF SealLen, OpenLen, MaxFragmentLen, tlsMaxPlaintextLen
<1> QED BY <1>1, <1>2, <1>3, <1>4, <1>5 DEF Kinds

\* Bytes are numbers.
LEMMA ByteRange ==
  \A k : k \in Byte <=> k \in Nat /\ k <= 255
BY SMT DEF Byte

\* extractCBCPadding finds the padding that is there, and no other.
LEMMA PaddingExact ==
  ASSUME NEW l \in Nat, l >= 1, NEW p \in [1 .. l -> Byte], NEW e, e = extractCBCPadding(p)
  PROVE  /\ e.toRemove = p[l] + 1
         /\ e.good <=> p[l] <= l - 1 /\ \A i \in l - p[l] .. l : p[i] = p[l]
<1> DEFINE k == p[l]
           toCheck == IF l < 256 THEN l ELSE 256
           good == k <= l - 1 /\ \A i \in 0 .. toCheck - 1 : i <= k => p[l - i] = k
<1>1. Len(p) = l /\ k \in Nat /\ k <= 255
  BY ByteRange
<1>2. e.toRemove = k + 1 /\ e.good = good
  BY <1>1 DEF extractCBCPadding
<1>3. ASSUME good, NEW i \in l - k .. l PROVE p[i] = k
  <2>1. l - i \in 0 .. toCheck - 1 /\ l - i <= k /\ l - (l - i) = i
    BY <1>1, <1>3
  <2> QED BY <1>3, <2>1
<1>4. ASSUME k <= l - 1, \A i \in l - k .. l : p[i] = k PROVE good
  <2>1. ASSUME NEW i \in 0 .. toCheck - 1, i <= k PROVE p[l - i] = k
    <3>1. l - i \in l - k .. l
      BY <1>1, <2>1
    <3> QED BY <1>4, <3>1
  <2> QED BY <1>4, <2>1
<1> QED BY <1>2, <1>3, <1>4

\* What CBCExact says of o, the answer to a fragment p of length l.
Exact(o, ok, p, l, m) ==
  IF o >= 0
    THEN \E k \in Byte : /\ k + 1 + m <= l /\ \A i \in l - k .. l : p[i] = k
                         /\ ok /\ o = l - m - k - 1
    ELSE ~ok \/ \A k \in Byte : ~(k + 1 + m <= l /\ \A i \in l - k .. l : p[i] = k)

\* The answer of cbcHMACProtector.Open.
Answer(ok, p, l, m) ==
  LET e == extractCBCPadding(p)
      raw == l - m - e.toRemove
  IN IF ok /\ e.good THEN (IF raw < 0 THEN 0 ELSE raw) ELSE -1

\* Open on a decrypted CBC fragment, for a suite with such a protector.
LEMMA OpenCBCExact ==
  ASSUME NEW l \in Nat, l >= 1, NEW p \in [1 .. l -> Byte], NEW m \in Nat, NEW ok \in BOOLEAN,
         ok => l - m - extractCBCPadding(p).toRemove >= 0
  PROVE  Exact(Answer(ok, p, l, m), ok, p, l, m)
<1> DEFINE e == extractCBCPadding(p)
           raw == l - m - e.toRemove
           o == IF ok /\ e.good THEN (IF raw < 0 THEN 0 ELSE raw) ELSE -1
<1> DEFINE fits(k) == k + 1 + m <= l /\ \A i \in l - k .. l : p[i] = k
<1> DEFINE k == p[l]
<1>1. k \in Byte /\ k \in Nat
  BY ByteRange
<1>2. e.toRemove = k + 1 /\ (e.good <=> k <= l - 1 /\ \A i \in l - k .. l : p[i] = k)
  BY PaddingExact
<1>3. raw \in Int /\ raw = l - m - k - 1
  BY <1>1, <1>2
<1>4. ok => raw >= 0
  OBVIOUS
<1>5. Answer(ok, p, l, m) = o
  BY DEF Answer
<1> HIDE DEF k, e, raw
<1>6. ASSUME ok /\ e.good PROVE o >= 0 /\ \E j \in Byte : fits(j) /\ ok /\ o = l - m - j - 1
  <2>1. o = raw /\ raw >= 0
    BY <1>3, <1>4, <1>6
  <2>2. fits(k)
    BY <1>1, <1>2, <1>3, <1>6, <2>1
  <2> HIDE DEF fits, o
  <2> QED BY <1>1, <1>3, <1>6, <2>1, <2>2
<1>7. ASSUME ~(ok /\ e.good) PROVE ~(o >= 0) /\ (~ok \/ \A j \in Byte : ~fits(j))
  <2>1. o = -1
    BY <1>7
  <2>2. ASSUME ok, NEW j \in Byte, fits(j) PROVE FALSE
    <3>1. j \in Nat /\ j + 1 + m <= l /\ \A i \in l - j .. l : p[i] = j
      BY <2>2, ByteRange
    <3>2. p[l] = j
      BY <3>1
    <3> QED BY <1>2, <1>7, <2>2, <3>1, <3>2 DEF k
  <2> HIDE DEF fits, o
  <2> QED BY <2>1, <2>2
<1> HIDE DEF o
<1> QED BY <1>5, <1>6, <1>7 DEF Exact

-----------------------------------------------------------------------------
(* The invariant *)

\* From the ServerHello on there is a suite, of the registry; then the keys
\* and the protector that follow from it.
HasKind == {"ready", "sealed", "openedCBC"}
HasKeys == HasKind \cup {"build"}
HasSuite == HasKeys \cup {"recvCertificate", "flight", "exchange", "expand"}

IInv ==
  /\ registryOrder \in Seq(Proper) /\ Len(registryOrder) <= Len(Registrations)
  /\ \A i \in 1 .. Len(registryOrder) : registryOrder[i] = Registrations[i]
  /\ EverySuiteBuilds
  /\ pc \in HasSuite => suite \in Proper
  /\ pc \in HasKeys => keys = Expand(suite)
  /\ pc \in HasKind => kind = KindOf(suite)
  /\ SealedOpens /\ CBCExact

LEMMA InvInit == Init => IInv
BY RegistrationsTable DEF Init, ProtectorsInit, IInv, EverySuiteBuilds, HasKind, HasKeys, HasSuite,
   SealedOpens, CBCExact

\* Registration meets no duplicate.
LEMMA InvRegister ==
  ASSUME IInv, Register PROVE IInv'
<1> DEFINE n == Len(registryOrder)
           s == Registrations[n + 1]
<1>1. /\ pc = "register" /\ n \in Nat /\ n < Len(Registrations)
      /\ registryOrder \in Seq(Proper) /\ \A i \in 1 .. n : registryOrder[i] = Registrations[i]
  BY DEF IInv, Register
<1>2. Len(Registrations) \in Nat /\ n + 1 \in 1 .. Len(Registrations) /\ s \in Proper
  BY <1>1, RegistrationsTable
<1>3. ~\E i \in 1 .. n : registryOrder[i].id = s.id
  <2> SUFFICES ASSUME NEW i \in 1 .. n, registryOrder[i].id = s.id PROVE FALSE
    OBVIOUS
  <2>1. i \in 1 .. Len(Registrations) /\ i # n + 1 /\ Registrations[i].id = Registrations[n + 1].id
    BY <1>1, <1>2
  <2> QED BY <1>2, <2>1, RegistrationsTable DEF Distinct
<1>4. registryOrder' = Append(registryOrder, s) /\ pc' = pc
  BY <1>3 DEF Register
<1> HIDE DEF s
<1>5. /\ registryOrder' \in Seq(Proper) /\ Len(registryOrder') = n + 1
      /\ \A i \in 1 .. n + 1 : registryOrder'[i] = IF i = n + 1 THEN s ELSE registryOrder[i]
  BY <1>1, <1>2, <1>4
<1>6. \A i \in 1 .. n + 1 : registryOrder'[i] = Registrations[i]
  BY <1>1, <1>5 DEF s
<1>7. /\ registryOrder' \in Seq(Proper) /\ Len(registryOrder') <= Len(Registrations)
      /\ \A i \in 1 .. Len(registryOrder') : registryOrder'[i] = Registrations[i]
  BY <1>2, <1>5, <1>6
<1>8. pc' = "register"
  BY <1>1, <1>4
<1> QED BY ONLY <1>7, <1>8 DEF IInv, EverySuiteBuilds, HasKind, HasKeys, HasSuite, SealedOpens, CBCExact

\* The handshake ends without a suite or with one of the registry, and touches
\* neither the registry nor what comes after it.
HandshakeStep ==
  \/ Configure \/ sendClientHello \/ recvServerHello \/ recvCertificate
  \/ recvServerKeyExchange \/ recvCertificateRequest \/ recvServerHelloDone
  \/ KeyExchangeAndSend \/ ReceiveDamaged

LEMMA InvHandshake ==
  ASSUME IInv, HandshakeStep PROVE IInv'
<1> DEFINE Before == {"recvCertificate", "flight", "exchange", "expand"}
<1>1. registryOrder' = registryOrder
  BY DEF HandshakeStep, Configure, sendClientHello, recvServerHello, recvCertificate,
     recvServerKeyExchange, recvCertificateRequest, recvServerHelloDone, KeyExchangeAndSend,
     ReceiveDamaged
<1>2. pc' \notin HasKeys \cup {"panic", "failed"}
  <2> USE DEF HasKeys, HasKind
  <2>1. CASE Configure \/ sendClientHello
    BY <2>1 DEF Configure, sendClientHello
  <2>2. CASE recvServerHello
    BY <2>2 DEF recvServerHello
  <2>3. CASE recvCertificate
    BY <2>3 DEF recvCertificate
  <2>4. CASE recvServerKeyExchange \/ recvCertificateRequest
    BY <2>4 DEF recvServerKeyExchange, recvCertificateRequest
  <2>5. CASE recvServerHelloDone \/ KeyExchangeAndSend \/ ReceiveDamaged
    BY <2>5 DEF recvServerHelloDone, KeyExchangeAndSend, ReceiveDamaged
  <2> QED BY <2>1, <2>2, <2>3, <2>4, <2>5 DEF HandshakeStep
<1>3. pc' \in Before => suite' \in Proper
  <2> SUFFICES ASSUME pc' \in Before PROVE suite' \in Proper
    OBVIOUS
  <2>1. CASE Configure \/ sendClientHello \/ ReceiveDamaged
    BY <2>1 DEF Configure, sendClientHello, ReceiveDamaged
  <2>2. CASE recvServerHello
    <3>1. PICK id : suite' \in Registered(id)
      BY <2>2 DEF recvServerHello
    <3>2. suite' \in Range(registryOrder)
      BY <3>1 DEF Registered
    <3> QED BY <3>2 DEF IInv, Range
  <2>3. CASE recvCertificate \/ recvServerKeyExchange \/ recvCertificateRequest
             \/ recvServerHelloDone \/ KeyExchangeAndSend
    <3>1. pc \in HasSuite /\ suite' = suite
      BY <2>3 DEF recvCertificate, recvServerKeyExchange, recvCertificateRequest,
         recvServerHelloDone, KeyExchangeAndSend, HasSuite
    <3> QED BY <3>1 DEF IInv
  <2> QED BY <2>1, <2>2, <2>3 DEF HandshakeStep
<1>4. /\ registryOrder' \in Seq(Proper) /\ Len(registryOrder') <= Len(Registrations)
      /\ \A i \in 1 .. Len(registryOrder') : registryOrder'[i] = Registrations[i]
  BY <1>1 DEF IInv
<1> QED BY ONLY <1>2, <1>3, <1>4
        DEF IInv, EverySuiteBuilds, HasKind, HasKeys, HasSuite, SealedOpens, CBCExact

\* The key block and the protectors.
LEMMA SliceLength == ASSUME NEW from \in Nat, NEW len \in Nat PROVE Length(Slice(from, len)) = len
BY DEF Length, Slice

LEMMA InvKeys ==
  ASSUME IInv, ExpandKeys \/ BuildProtector PROVE IInv'
<1>1. pc \in HasSuite
  BY DEF ExpandKeys, BuildProtector, HasSuite, HasKeys
<1>2. suite \in Proper /\ Fits(suite)
  BY <1>1, ProperFits DEF IInv
<1>3. registryOrder' = registryOrder /\ suite' = suite
  BY DEF ExpandKeys, BuildProtector
<1>4. CASE ExpandKeys
  <2>1. pc' = "build" /\ keys' = Expand(suite)
    BY <1>4 DEF ExpandKeys
  <2>2. keys' = Expand(suite)'
    BY <1>3, <2>1 DEF Expand, IVLen, Slice
  <2> QED BY <1>2, <1>3, <2>1, <2>2
          DEF IInv, EverySuiteBuilds, HasKind, HasKeys, HasSuite, SealedOpens, CBCExact
<1>5. CASE BuildProtector
  <2>1. keys = Expand(suite) /\ keys' = keys
    BY <1>5 DEF BuildProtector, IInv, HasKeys
  <2>2. /\ Length(keys.clientEnc) = suite.cipher.keyLen /\ Length(keys.serverEnc) = suite.cipher.keyLen
        /\ Length(keys.clientMAC) = suite.mac.keyLen /\ Length(keys.serverMAC) = suite.mac.keyLen
        /\ Length(keys.clientIV) = IVLen(suite) /\ Length(keys.serverIV) = IVLen(suite)
    <3> DEFINE m == suite.mac.keyLen
               k == suite.cipher.keyLen
               v == IVLen(suite)
    <3>1. m \in Nat /\ k \in Nat /\ v \in Nat
      BY <1>2 DEF Fits
    <3>2. /\ keys.clientEnc = Slice(2 * m, k) /\ keys.serverEnc = Slice(2 * m + k, k)
          /\ keys.clientMAC = Slice(0, m) /\ keys.serverMAC = Slice(m, m)
          /\ keys.clientIV = Slice(2 * m + 2 * k, v) /\ keys.serverIV = Slice(2 * m + 2 * k + v, v)
      BY <2>1 DEF Expand
    <3> HIDE DEF m, k, v
    <3>3. /\ 0 \in Nat /\ 2 * m \in Nat /\ 2 * m + k \in Nat
          /\ 2 * m + 2 * k \in Nat /\ 2 * m + 2 * k + v \in Nat
      BY ONLY <3>1
    <3>4. /\ Length(keys.clientEnc) = k /\ Length(keys.serverEnc) = k
          /\ Length(keys.clientMAC) = m /\ Length(keys.serverMAC) = m
          /\ Length(keys.clientIV) = v /\ Length(keys.serverIV) = v
      BY ONLY <3>1, <3>2, <3>3, SliceLength
    <3> QED BY <3>4 DEF m, k, v
  <2>3. kind' = KindOf(suite)
    BY <1>5, <2>2 DEF BuildProtector, KindOf
  <2>4. kind' # "error"
    BY <1>2, <2>3 DEF Fits, Kinds
  <2>5. pc' = "ready"
    BY <1>5, <2>4 DEF BuildProtector
  <2>6. keys' = Expand(suite)' /\ kind' = KindOf(suite)'
    BY <1>3, <2>1, <2>3
  <2> QED BY <1>2, <1>3, <2>5, <2>6
          DEF IInv, EverySuiteBuilds, HasKind, HasKeys, HasSuite, SealedOpens, CBCExact
<1> QED BY <1>4, <1>5

\* A record is sealed and opened.
LEMMA InvSeal ==
  ASSUME IInv, SealAndOpen PROVE IInv'
<1>1. /\ suite \in Proper /\ Fits(suite) /\ kind = KindOf(suite) /\ keys = Expand(suite)
  BY ProperFits DEF SealAndOpen, IInv, HasSuite, HasKeys, HasKind
<1>2. /\ registryOrder' = registryOrder /\ suite' = suite /\ kind' = kind /\ keys' = keys
      /\ pc' = "sealed"
  BY DEF SealAndOpen
<1>3. PICK len \in PlainLens :
        /\ plainLen' = len /\ fragLen' = SealLen(suite, len)
        /\ opened' = IF fragLen' > MaxFragmentLen THEN -1 ELSE OpenLen(suite, fragLen', len)
  BY DEF SealAndOpen
<1>4. len \in Nat /\ len <= 16384
  <2>1. len \in 0 .. tlsMaxPlaintextLen
    BY ProtectorsAssumption
  <2>2. len \in Nat /\ len <= tlsMaxPlaintextLen
    BY <2>1
  <2> QED BY ONLY <2>2, SMT DEF tlsMaxPlaintextLen
<1>5. opened' = plainLen'
  <2>1. ~(SealLen(suite, len) > MaxFragmentLen) /\ OpenLen(suite, SealLen(suite, len), len) = len
    BY ONLY <1>1, <1>4, SealOpen
  <2> QED BY <1>3, <2>1
<1>6. keys' = Expand(suite)' /\ kind' = KindOf(suite)'
  BY <1>1, <1>2
<1> QED BY <1>1, <1>2, <1>5, <1>6
        DEF IInv, EverySuiteBuilds, HasKind, HasKeys, HasSuite, SealedOpens, CBCExact

\* A CBC fragment is opened.
LEMMA InvOpenCBC ==
  ASSUME IInv, OpenCBC PROVE IInv'
<1>1. /\ suite \in Proper /\ Fits(suite) /\ kind = KindOf(suite) /\ keys = Expand(suite)
      /\ suite.mac.macLen \in Nat
  BY ProperFits DEF OpenCBC, IInv, HasSuite, HasKeys, HasKind, Fits
<1>2. /\ registryOrder' = registryOrder /\ suite' = suite /\ kind' = kind /\ keys' = keys
      /\ pc' = "openedCBC"
  BY DEF OpenCBC
<1>3. PICK len \in CBCLens, fill \in Bytes, tail \in [1 .. TailLen -> Bytes], ok \in BOOLEAN :
        /\ payload' = [i \in 1 .. len |-> IF i > len - TailLen THEN tail[i - (len - TailLen)] ELSE fill]
        /\ LET e == extractCBCPadding(payload')
               raw == len - suite.mac.macLen - e.toRemove
               n == IF raw < 0 THEN 0 ELSE raw
           IN /\ ok => raw >= 0
              /\ macOK' = ok
              /\ opened' = IF ok /\ e.good THEN n ELSE -1
  BY DEF OpenCBC
<1>4. len \in Nat /\ len >= 1 /\ TailLen \in Nat /\ Bytes \subseteq Byte
  <2>1. len \in Nat /\ len >= 64 /\ TailLen \in Nat /\ Bytes \subseteq Byte
    BY ProtectorsAssumption
  <2> QED BY <2>1
<1>5. payload' \in [1 .. len -> Byte] /\ Len(payload') = len
  <2>1. ASSUME NEW i \in 1 .. len, i > len - TailLen PROVE tail[i - (len - TailLen)] \in Byte
    <3>1. i - (len - TailLen) \in 1 .. TailLen
      BY <1>4, <2>1
    <3> QED BY <1>4, <3>1
  <2> QED BY <1>3, <1>4, <2>1
<1>6. /\ ok => len - suite.mac.macLen - extractCBCPadding(payload').toRemove >= 0
      /\ macOK' = ok
      /\ opened' = Answer(ok, payload', len, suite.mac.macLen)
  BY <1>3 DEF Answer
<1>7. Exact(opened', ok, payload', len, suite.mac.macLen)
  BY ONLY ok \in BOOLEAN, <1>1, <1>4, <1>5, <1>6, OpenCBCExact
<1>8. CBCExact'
  BY <1>2, <1>5, <1>6, <1>7 DEF CBCExact, Exact
<1>9. keys' = Expand(suite)' /\ kind' = KindOf(suite)'
  BY <1>1, <1>2
<1> QED BY <1>1, <1>2, <1>8, <1>9
        DEF IInv, EverySuiteBuilds, HasKind, HasKeys, HasSuite, SealedOpens

\* The invariant holds throughout.
LEMMA InvNext ==
  IInv /\ [Next]_vars => IInv'
<1> SUFFICES ASSUME IInv, [Next]_vars PROVE IInv'
  OBVIOUS
<1>1. CASE UNCHANGED vars
  <2>1. /\ pc' = pc /\ registryOrder' = registryOrder /\ suite' = suite /\ keys' = keys /\ kind' = kind
        /\ plainLen' = plainLen /\ opened' = opened /\ payload' = payload /\ macOK' = macOK
    BY <1>1 DEF vars, protectorVars
  <2> QED BY <2>1 DEF IInv, EverySuiteBuilds, SealedOpens, CBCExact
<1>2. CASE Next
  <2>1. \/ Register \/ HandshakeStep \/ ExpandKeys \/ BuildProtector \/ SealAndOpen \/ OpenCBC
    BY <1>2 DEF Next, HandshakeStep, Expansion
  <2> QED BY <2>1, InvRegister, InvHandshake, InvKeys, InvSeal, InvOpenCBC
<1> QED BY <1>1, <1>2

LEMMA Invariant == Spec => []IInv
BY InvInit, InvNext, PTL DEF Spec

-----------------------------------------------------------------------------
(* Theorems *)

\* No suite is registered twice, and buildProtector accepts the keys of each,
\* in both directions.
THEOREM EverySuiteBuildsHolds == Spec => []EverySuiteBuilds
<1>1. IInv => EverySuiteBuilds
  BY DEF IInv
<1> QED BY <1>1, Invariant, PTL

\* expandKeysManual gives every byte of the key block to exactly one key.
THEOREM KeysPartitionHolds == Spec => []KeysPartition
<1>1. ASSUME IInv PROVE KeysPartition
  <2>1. ASSUME pc = "build" PROVE Fits(suite) /\ keys = Expand(suite)
    BY <1>1, <2>1, ProperFits DEF IInv, HasSuite, HasKeys
  <2>2. ASSUME pc = "build" PROVE Divided(keys)
    BY <2>1, <2>2, ExpandPartition
  <2> QED BY <2>2 DEF KeysPartition, Divided
<1> QED BY <1>1, Invariant, PTL

\* What Seal makes of a plaintext of up to 2^14 bytes, with any suite, ReadRecord
\* and Open accept and turn into as many bytes.
THEOREM SealedOpensHolds == Spec => []SealedOpens
<1>1. IInv => SealedOpens
  BY DEF IInv
<1> QED BY <1>1, Invariant, PTL

\* A CBC fragment opens iff its padding and its MAC are right.
THEOREM CBCExactHolds == Spec => []CBCExact
<1>1. IInv => CBCExact
  BY DEF IInv
<1> QED BY <1>1, Invariant, PTL

-----------------------------------------------------------------------------
(* Recursion along 0 .. n *)

LOCAL INSTANCE WellFoundedInduction

\* Every nonempty set of naturals has a least element.
LEMMA Least ==
  ASSUME NEW T, T \subseteq Nat, T # {}
  PROVE  \E x \in T : \A y \in T : x <= y
<1> DEFINE R == OpToRel(<, Nat)
<1>1. IsWellFoundedOn(R, Nat)
  BY NatLessThanWellFounded
<1>2. \A x, y \in Nat : x < y => <<x, y>> \in R
  BY DEF OpToRel
<1> HIDE DEF R
<1>3. PICK x \in T : \A y \in T : ~ (<<y, x>> \in R)
  BY <1>1, WFMin
<1>4. ASSUME NEW y \in T PROVE x <= y
  <2>1. x \in Nat /\ y \in Nat
    OBVIOUS
  <2>2. ~(y < x)
    BY <1>2, <1>3, <2>1, Zenon
  <2> QED BY <2>1, <2>2
<1> QED BY <1>4

\* A set with 0 and, up to n, the successor of each of its elements.
LEMMA UpTo ==
  ASSUME NEW n \in Nat, NEW S, 0 \in S, \A i \in 1 .. n : i - 1 \in S => i \in S
  PROVE  \A i \in 0 .. n : i \in S
<1> SUFFICES ASSUME NEW j \in 0 .. n, j \notin S PROVE FALSE
  OBVIOUS
<1> DEFINE T == {i \in 0 .. n : i \notin S}
<1>1. T \subseteq Nat /\ T # {}
  OBVIOUS
<1>2. PICK x \in T : \A y \in T : x <= y
  <2> HIDE DEF T
  <2> QED BY <1>1, Least
<1>3. x \in 1 .. n /\ x \notin S
  OBVIOUS
<1>4. x - 1 \in 0 .. n /\ ~(x <= x - 1)
  BY <1>3
<1>5. x - 1 \in S
  BY <1>2, <1>4
<1> QED BY <1>3, <1>5

\* f follows the recursion that starts with a and makes the next value of the
\* one before with the function step[i].
Follows(f, n, a, step) == f[0] = a /\ \A i \in 1 .. n : f[i] = step[i][f[i - 1]]

\* There is such an f.
LEMMA Recursion ==
  ASSUME NEW n \in Nat, NEW V, NEW a \in V, NEW step, \A i \in 1 .. n : step[i] \in [V -> V]
  PROVE  \E f \in [0 .. n -> V] : Follows(f, n, a, step)
<1> DEFINE S == {k \in 0 .. n : \E f \in [0 .. k -> V] : Follows(f, k, a, step)}
<1>1. 0 \in S
  <2>1. [i \in 0 .. 0 |-> a] \in [0 .. 0 -> V]
    OBVIOUS
  <2>2. Follows([i \in 0 .. 0 |-> a], 0, a, step)
    BY DEF Follows
  <2> QED BY <2>1, <2>2
<1>2. ASSUME NEW k \in 1 .. n, k - 1 \in S PROVE k \in S
  <2>1. PICK f \in [0 .. k - 1 -> V] : Follows(f, k - 1, a, step)
    BY <1>2
  <2> DEFINE g == [i \in 0 .. k |-> IF i = k THEN step[k][f[k - 1]] ELSE f[i]]
  <2>2. f[k - 1] \in V /\ step[k] \in [V -> V]
    OBVIOUS
  <2>3. g \in [0 .. k -> V]
    BY <2>2
  <2>4. g[0] = a
    BY <2>1 DEF Follows
  <2>5. ASSUME NEW i \in 1 .. k PROVE g[i] = step[i][g[i - 1]]
    <3>1. i - 1 \in 0 .. k - 1 /\ g[i - 1] = f[i - 1]
      OBVIOUS
    <3>2. CASE i = k
      BY <3>1, <3>2
    <3>3. CASE i # k
      <4>1. i \in 1 .. k - 1 /\ g[i] = f[i]
        BY <3>3
      <4> QED BY <2>1, <3>1, <4>1 DEF Follows
    <3> QED BY <3>2, <3>3
  <2> HIDE DEF g
  <2>6. Follows(g, k, a, step)
    BY <2>4, <2>5 DEF Follows
  <2> QED BY <2>3, <2>6
<1> HIDE DEF S
<1>3. n \in S
  BY <1>1, <1>2, UpTo
<1> QED BY <1>3 DEF S

-----------------------------------------------------------------------------
(* Nonces *)

\* Functions that agree, and functions into a set.
LEMMA FunEqual ==
  ASSUME NEW D, NEW f, NEW h, f = [x \in D |-> f[x]], h = [x \in D |-> h[x]], \A x \in D : f[x] = h[x]
  PROVE  f = h
BY Zenon

LEMMA FunInto ==
  ASSUME NEW D, NEW R, NEW f, f = [x \in D |-> f[x]], \A x \in D : f[x] \in R
  PROVE  f \in [D -> R]
BY Zenon

\* The carries of iv + s, from the right, and the bytes of the sum.
Carries(c, iv, s, n) ==
  /\ c \in [1 .. n + 1 -> {0, 1}] /\ c[n + 1] = 0
  /\ \A j \in 1 .. n : c[j] = (iv[j] + s[j] + c[j + 1]) \div 256
Sums(c, iv, s, n) == [j \in 1 .. n |-> (iv[j] + s[j] + c[j + 1]) % 256]

\* Two bytes and a carry give a carry and a byte.
Column(a, b, x, d, r) == d = (a + b + x) \div 256 /\ r = (a + b + x) % 256

LEMMA CarryOne ==
  ASSUME NEW a \in Byte, NEW b \in Byte, NEW x \in {0, 1}, NEW d, NEW r, Column(a, b, x, d, r)
  PROVE  d \in {0, 1} /\ r \in Byte /\ a + b + x = 256 * d + r
<1> DEFINE t == a + b + x
<1>1. t \in Nat /\ t <= 511
  BY ByteRange, SMT
<1>2. d = t \div 256 /\ r = t % 256
  BY SMT DEF Column
<1> HIDE DEF t
<1>3. (t < 256 => d = 0 /\ r = t) /\ (256 <= t => d = 1 /\ r = t - 256)
  BY ONLY <1>1, <1>2, SMT
<1>4. d \in {0, 1} /\ r \in Nat /\ r <= 255 /\ t = 256 * d + r
  BY ONLY <1>1, <1>3, SMT
<1>5. d \in {0, 1} /\ r \in Byte /\ t = 256 * d + r
  BY ONLY <1>4, ByteRange, SMT
<1> QED BY ONLY <1>5, SMT DEF t

\* The recursion of adjustIV has a solution.
CarryRec(g, iv, s, n) ==
  [j \in 1 .. n + 1 |-> IF j > n THEN 0 ELSE (iv[j] + s[j] + g[j + 1]) \div 256]

LEMMA CarriesExist ==
  ASSUME NEW n \in Nat, NEW iv \in [1 .. n -> Byte], NEW s \in [1 .. n -> Byte]
  PROVE  \E g : g = CarryRec(g, iv, s, n)
<1> DEFINE V == {0, 1}
           step == [i \in 1 .. n |-> [x \in V |-> (iv[n + 1 - i] + s[n + 1 - i] + x) \div 256]]
<1>1. \A i \in 1 .. n : step[i] \in [V -> V]
  <2> SUFFICES ASSUME NEW i \in 1 .. n, NEW x \in V
               PROVE  (iv[n + 1 - i] + s[n + 1 - i] + x) \div 256 \in V
    BY SMT
  <2>1. n + 1 - i \in 1 .. n
    BY SMT
  <2>2. iv[n + 1 - i] \in Byte /\ s[n + 1 - i] \in Byte
    BY <2>1, SMT
  <2> QED BY ONLY <2>2, x \in V, CarryOne DEF Column
<1>2. 0 \in V
  OBVIOUS
<1>3. \A i \in 1 .. n : \A x \in V : step[i][x] = (iv[n + 1 - i] + s[n + 1 - i] + x) \div 256
  BY SMT
<1> HIDE DEF step, V
<1>4. PICK f \in [0 .. n -> V] : Follows(f, n, 0, step)
  BY <1>1, <1>2, Recursion
<1> DEFINE g == [j \in 1 .. n + 1 |-> f[n + 1 - j]]
<1>5. ASSUME NEW j \in 1 .. n + 1
      PROVE  g[j] = IF j > n THEN 0 ELSE (iv[j] + s[j] + g[j + 1]) \div 256
  <2>1. CASE j > n
    <3>1. j = n + 1 /\ n + 1 - j = 0
      BY <2>1, SMT
    <3>2. g[j] = f[0]
      BY <3>1, SMT
    <3> QED BY <1>4, <2>1, <3>2 DEF Follows
  <2>2. CASE ~(j > n)
    <3> DEFINE i == n + 1 - j
    <3>1. i \in 1 .. n /\ j = n + 1 - i /\ i - 1 = n + 1 - (j + 1) /\ j + 1 \in 1 .. n + 1
      BY <2>2, SMT
    <3>2. g[j] = f[i] /\ g[j + 1] = f[i - 1]
      BY <3>1, SMT
    <3>3. f[i - 1] \in V
      BY <3>1, SMT
    <3> HIDE DEF i, g
    <3>4. f[i] = step[i][f[i - 1]]
      BY <1>4, <3>1 DEF Follows
    <3>5. step[i][f[i - 1]] = (iv[n + 1 - i] + s[n + 1 - i] + f[i - 1]) \div 256
      BY ONLY <1>3, <3>1, <3>3
    <3>6. g[j] = (iv[j] + s[j] + g[j + 1]) \div 256
      BY ONLY <3>1, <3>2, <3>4, <3>5, SMT
    <3> QED BY ONLY <2>2, <3>6, SMT
  <2> QED BY <2>1, <2>2
<1> HIDE DEF g
<1>6. g = CarryRec(g, iv, s, n)
  <2> DEFINE h == [j \in 1 .. n + 1 |-> IF j > n THEN 0 ELSE (iv[j] + s[j] + g[j + 1]) \div 256]
             D == 1 .. n + 1
  <2>1. g = [j \in D |-> g[j]]
    BY DEF g
  <2>2. h = [j \in D |-> h[j]] /\ \A j \in D : g[j] = h[j]
    BY <1>5, SMT
  <2> HIDE DEF h, D
  <2>3. g = h
    BY ONLY <2>1, <2>2, FunEqual
  <2> QED BY <2>3 DEF h, CarryRec
<1> QED BY <1>6

\* A solution of it is made of carries.
LEMMA CarriesAre ==
  ASSUME NEW n \in Nat, NEW iv \in [1 .. n -> Byte], NEW s \in [1 .. n -> Byte], NEW g,
         g = CarryRec(g, iv, s, n)
  PROVE  Carries(g, iv, s, n)
<1>1. /\ g[n + 1] = 0
      /\ \A j \in 1 .. n : g[j] = (iv[j] + s[j] + g[j + 1]) \div 256
  BY SMT DEF CarryRec
<1> DEFINE S == {i \in 0 .. n : g[n + 1 - i] \in {0, 1}}
<1>2. 0 \in S
  BY <1>1, SMT
<1>3. ASSUME NEW i \in 1 .. n, i - 1 \in S PROVE i \in S
  <2> DEFINE j == n + 1 - i
  <2>1. j \in 1 .. n /\ n + 1 - (i - 1) = j + 1
    BY SMT
  <2>2. g[j + 1] \in {0, 1}
    BY <1>3, <2>1, SMT
  <2>3. iv[j] \in Byte /\ s[j] \in Byte
    BY <2>1, SMT
  <2>4. g[j] = (iv[j] + s[j] + g[j + 1]) \div 256
    BY <1>1, <2>1, SMT
  <2> HIDE DEF j
  <2>5. g[j] \in {0, 1}
    BY ONLY <2>2, <2>3, <2>4, CarryOne DEF Column
  <2> QED BY <2>5 DEF j
<1> HIDE DEF S
<1>4. \A i \in 0 .. n : i \in S
  BY <1>2, <1>3, UpTo
<1>5. ASSUME NEW j \in 1 .. n + 1 PROVE g[j] \in {0, 1}
  <2> DEFINE i == n + 1 - j
  <2>1. i \in 0 .. n /\ n + 1 - i = j
    BY SMT
  <2> HIDE DEF i
  <2>2. g[n + 1 - i] \in {0, 1}
    BY <1>4, <2>1 DEF S
  <2> QED BY ONLY <2>1, <2>2
<1>6. g \in [1 .. n + 1 -> {0, 1}]
  <2> DEFINE D == 1 .. n + 1
  <2>1. g = [j \in D |-> g[j]] /\ \A j \in D : g[j] \in {0, 1}
    BY <1>5, SMT DEF CarryRec
  <2> HIDE DEF D
  <2>2. g \in [D -> {0, 1}]
    BY ONLY <2>1, FunInto
  <2> QED BY <2>2 DEF D
<1> QED BY <1>1, <1>6 DEF Carries

\* Each byte of the sum, with its carries.
Adds(iv, s, c, r, n) ==
  /\ r \in [1 .. n -> Byte]
  /\ \A j \in 1 .. n : /\ j + 1 \in 1 .. n + 1 /\ c[j] \in {0, 1} /\ c[j + 1] \in {0, 1}
                       /\ iv[j] + s[j] + c[j + 1] = 256 * c[j] + r[j]

LEMMA SumsAre ==
  ASSUME NEW n \in Nat, NEW iv \in [1 .. n -> Byte], NEW s \in [1 .. n -> Byte], NEW c,
         Carries(c, iv, s, n)
  PROVE  Adds(iv, s, c, Sums(c, iv, s, n), n)
<1> DEFINE r == Sums(c, iv, s, n)
<1>1. ASSUME NEW j \in 1 .. n
      PROVE  /\ j + 1 \in 1 .. n + 1 /\ c[j] \in {0, 1} /\ c[j + 1] \in {0, 1}
             /\ Column(iv[j], s[j], c[j + 1], c[j], r[j])
  BY SMT DEF Carries, Sums, Column
<1>2. r = [j \in 1 .. n |-> r[j]]
  BY SMT DEF Sums
<1> HIDE DEF r
<1>3. ASSUME NEW j \in 1 .. n
      PROVE  r[j] \in Byte /\ iv[j] + s[j] + c[j + 1] = 256 * c[j] + r[j]
  <2>1. iv[j] \in Byte /\ s[j] \in Byte
    OBVIOUS
  <2>2. c[j + 1] \in {0, 1} /\ Column(iv[j], s[j], c[j + 1], c[j], r[j])
    BY <1>1
  <2> QED BY ONLY <2>1, <2>2, CarryOne
<1>4. r \in [1 .. n -> Byte]
  BY ONLY <1>2, <1>3, FunInto
<1> QED BY <1>1, <1>3, <1>4 DEF r, Adds

\* The same, without division.
Total(a, b, x, d, r) == a + b + x = 256 * d + r

\* One byte of the sum tells what was added to it.
LEMMA ColumnInjective ==
  ASSUME NEW a \in Nat, NEW s \in Nat, s <= 255, NEW u \in Nat, u <= 255, NEW x \in {0, 1},
         NEW c \in {0, 1}, NEW d \in {0, 1}, NEW r \in Nat,
         Total(a, s, x, c, r), Total(a, u, x, d, r)
  PROVE  c = d /\ s = u
<1>1. s - u = 256 * c - 256 * d
  BY SMT DEF Total
<1>2. CASE c = d
  BY <1>1, <1>2, SMT
<1>3. CASE c # d
  BY <1>1, <1>3, SMT
<1> QED BY <1>2, <1>3

\* The sum tells what was added.
LEMMA SumsInjective ==
  ASSUME NEW n \in Nat, NEW iv \in [1 .. n -> Byte], NEW s \in [1 .. n -> Byte],
         NEW u \in [1 .. n -> Byte], NEW c, NEW d, Carries(c, iv, s, n), Carries(d, iv, u, n),
         Sums(c, iv, s, n) = Sums(d, iv, u, n)
  PROVE  \A j \in 1 .. n : s[j] = u[j]
<1> DEFINE r == Sums(c, iv, s, n)
           S == {i \in 0 .. n : /\ c[n + 1 - i] = d[n + 1 - i]
                                /\ i # 0 => s[n + 1 - i] = u[n + 1 - i]}
<1>1. 0 \in S
  BY SMT DEF Carries
<1>2. Adds(iv, s, c, r, n)
  BY SumsAre
<1>3. Adds(iv, u, d, r, n)
  BY SumsAre
<1> HIDE DEF r
<1>4. ASSUME NEW i \in 1 .. n, i - 1 \in S PROVE i \in S
  <2> DEFINE j == n + 1 - i
  <2>1. j \in 1 .. n /\ n + 1 - (i - 1) = j + 1
    BY SMT
  <2>2. c[j + 1] = d[j + 1]
    BY <1>4, <2>1, SMT
  <2> HIDE DEF j
  <2>3. /\ iv[j] \in Nat /\ r[j] \in Nat
        /\ s[j] \in Nat /\ s[j] <= 255 /\ u[j] \in Nat /\ u[j] <= 255
    BY <1>2, <2>1, ByteRange DEF Adds
  <2>4. /\ c[j] \in {0, 1} /\ c[j + 1] \in {0, 1} /\ d[j] \in {0, 1}
        /\ Total(iv[j], s[j], c[j + 1], c[j], r[j])
        /\ Total(iv[j], u[j], c[j + 1], d[j], r[j])
    BY ONLY <1>2, <1>3, <2>1, <2>2, SMT DEF Adds, Total
  <2>5. c[j] = d[j] /\ s[j] = u[j]
    BY ONLY <2>3, <2>4, ColumnInjective
  <2> QED BY <2>5 DEF j
<1> HIDE DEF S
<1>5. \A i \in 0 .. n : i \in S
  BY <1>1, <1>4, UpTo
<1>6. ASSUME NEW j \in 1 .. n PROVE s[j] = u[j]
  <2> DEFINE i == n + 1 - j
  <2>1. i \in 0 .. n /\ i # 0 /\ n + 1 - i = j
    BY SMT
  <2> HIDE DEF i
  <2>2. s[n + 1 - i] = u[n + 1 - i]
    BY <1>5, <2>1 DEF S
  <2> QED BY ONLY <2>1, <2>2
<1> QED BY <1>6

\* A byte to which k is added, and what is carried then.
PlusByte(b, k) == IF k = 1 THEN (b + 1) % 256 ELSE b
PlusCarry(b, k) == IF k = 1 /\ b = 255 THEN 1 ELSE 0

\* One byte of the sum, when 1 (m) is added to it or 1 (k) to the second summand.
Columns(a, b, c1, d1, k, m, c0, d0, r, r2) ==
  /\ a \in Nat /\ b \in Nat /\ b <= 255 /\ r \in Nat /\ r <= 255 /\ r2 \in Nat /\ r2 <= 255
  /\ {c1, d1, k, m, c0, d0} \subseteq {0, 1} /\ d1 + k = c1 + m
  /\ Total(a, b, c1, c0, r) /\ Total(a, PlusByte(b, k), d1, d0, r2)

LEMMA IncByte ==
  ASSUME NEW a, NEW b, NEW c1, NEW d1, NEW k, NEW m, NEW c0, NEW d0, NEW r, NEW r2,
         Columns(a, b, c1, d1, k, m, c0, d0, r, r2)
  PROVE  /\ r2 = PlusByte(r, m)
         /\ d0 + PlusCarry(b, k) = c0 + PlusCarry(r, m)
<1>0. /\ a \in Nat /\ b \in Nat /\ b <= 255 /\ r \in Nat /\ r <= 255 /\ r2 \in Nat /\ r2 <= 255
      /\ c1 \in {0, 1} /\ d1 \in {0, 1} /\ k \in {0, 1} /\ m \in {0, 1} /\ c0 \in {0, 1}
      /\ d0 \in {0, 1} /\ d1 + k = c1 + m
  BY SMT DEF Columns
<1>1. ASSUME NEW x \in Nat, x <= 255, NEW y \in {0, 1}
      PROVE  PlusByte(x, y) = IF y = 1 THEN (IF x = 255 THEN 0 ELSE x + 1) ELSE x
  BY <1>1, SMT DEF PlusByte
<1> DEFINE b2 == PlusByte(b, k)
           r1 == PlusByte(r, m)
<1>2. /\ b2 = IF k = 1 THEN (IF b = 255 THEN 0 ELSE b + 1) ELSE b
      /\ r1 = IF m = 1 THEN (IF r = 255 THEN 0 ELSE r + 1) ELSE r
  BY <1>0, <1>1, SMT
<1>3. a + b + c1 = 256 * c0 + r /\ a + b2 + d1 = 256 * d0 + r2
  BY SMT DEF Columns, Total
<1> HIDE DEF r1, b2
<1>4. r2 = r1 /\ d0 + PlusCarry(b, k) = c0 + PlusCarry(r, m)
  BY ONLY <1>0, <1>2, <1>3, SMT DEF PlusCarry
<1> QED BY <1>4 DEF r1

\* Whether the bytes after the j-th of b are all 255.
Full(b, n, j) == IF \A l \in j + 1 .. n : b[l] = 255 THEN 1 ELSE 0

\* Inc, with this.
LEMMA IncIs ==
  ASSUME NEW n \in Nat, NEW b \in [1 .. n -> Byte]
  PROVE  /\ Inc(b) \in [1 .. n -> Byte]
         /\ \A j \in 1 .. n : Inc(b)[j] = PlusByte(b[j], Full(b, n, j))
         /\ \A j \in 1 .. n : Full(b, n, j - 1) = PlusCarry(b[j], Full(b, n, j))
         /\ Full(b, n, n) = 1 /\ \A j \in Int : Full(b, n, j) \in {0, 1}
<1>1. Len(b) = n /\ DOMAIN b = 1 .. n
  BY SMT
<1> DEFINE g == Inc(b)
<1>2. ASSUME NEW j \in 1 .. n PROVE g[j] = PlusByte(b[j], Full(b, n, j))
  BY <1>1, SMT DEF Inc, PlusByte, Full
<1>3. g = [j \in 1 .. n |-> g[j]]
  BY <1>1, SMT DEF Inc
<1> HIDE DEF g
<1>4. ASSUME NEW j \in 1 .. n PROVE g[j] \in Byte
  <2>1. b[j] \in Nat /\ b[j] <= 255
    BY ByteRange
  <2>2. (b[j] + 1) % 256 \in Nat /\ (b[j] + 1) % 256 <= 255
    BY <2>1, SMT
  <2>3. (b[j] + 1) % 256 \in Byte
    BY ONLY <2>2, ByteRange, SMT
  <2> QED BY <1>2, <2>3 DEF PlusByte
<1>5. g \in [1 .. n -> Byte]
  BY ONLY <1>3, <1>4, FunInto
<1>6. ASSUME NEW j \in 1 .. n PROVE Full(b, n, j - 1) = PlusCarry(b[j], Full(b, n, j))
  <2>1. (j - 1) + 1 = j /\ \A l : l \in j .. n <=> l = j \/ l \in j + 1 .. n
    BY SMT
  <2>2. (\A l \in (j - 1) + 1 .. n : b[l] = 255) <=> b[j] = 255 /\ \A l \in j + 1 .. n : b[l] = 255
    BY ONLY <2>1, SMT
  <2> QED BY <2>2, SMT DEF Full, PlusCarry
<1>7. Full(b, n, n) = 1 /\ \A j \in Int : Full(b, n, j) \in {0, 1}
  BY SMT DEF Full
<1> QED BY <1>2, <1>5, <1>6, <1>7 DEF g

\* adjustIV for the next sequence number gives the next counter.
LEMMA SumsInc ==
  ASSUME NEW n \in Nat, NEW iv \in [1 .. n -> Byte], NEW s \in [1 .. n -> Byte], NEW c, NEW d,
         Carries(c, iv, s, n), Carries(d, iv, Inc(s), n)
  PROVE  Sums(d, iv, Inc(s), n) = Inc(Sums(c, iv, s, n))
<1> DEFINE u == Inc(s)
           r == Sums(c, iv, s, n)
           q == Sums(d, iv, u, n)
           K(j) == Full(s, n, j)
           M(j) == Full(r, n, j)
<1>1. /\ u \in [1 .. n -> Byte] /\ \A j \in 1 .. n : u[j] = PlusByte(s[j], K(j))
      /\ \A j \in 1 .. n : K(j - 1) = PlusCarry(s[j], K(j))
      /\ K(n) = 1 /\ \A j \in Int : K(j) \in {0, 1}
  BY IncIs
<1>2. Adds(iv, s, c, r, n)
  BY SumsAre
<1>3. Adds(iv, u, d, q, n)
  BY <1>1, SumsAre
<1>4. r \in [1 .. n -> Byte]
  BY <1>2 DEF Adds
<1>5. /\ Inc(r) \in [1 .. n -> Byte] /\ \A j \in 1 .. n : Inc(r)[j] = PlusByte(r[j], M(j))
      /\ \A j \in 1 .. n : M(j - 1) = PlusCarry(r[j], M(j))
      /\ M(n) = 1 /\ \A j \in Int : M(j) \in {0, 1}
  BY <1>4, IncIs
<1>6. c[n + 1] = 0 /\ d[n + 1] = 0
  BY DEF Carries
<1> HIDE DEF u, r, q, K, M
<1>7. ASSUME NEW j \in 1 .. n, d[j + 1] + K(j) = c[j + 1] + M(j)
      PROVE  q[j] = Inc(r)[j] /\ d[j] + K(j - 1) = c[j] + M(j - 1)
  <2>1. /\ c[j] \in {0, 1} /\ c[j + 1] \in {0, 1} /\ d[j] \in {0, 1} /\ d[j + 1] \in {0, 1}
        /\ Total(iv[j], s[j], c[j + 1], c[j], r[j])
        /\ Total(iv[j], u[j], d[j + 1], d[j], q[j])
        /\ q[j] \in Byte
    BY ONLY <1>2, <1>3, j \in 1 .. n, SMT DEF Adds, Total
  <2>2. /\ iv[j] \in Nat /\ s[j] \in Nat /\ s[j] <= 255
        /\ r[j] \in Nat /\ r[j] <= 255 /\ q[j] \in Nat /\ q[j] <= 255
    BY <1>4, <2>1, ByteRange
  <2>3. /\ K(j) \in {0, 1} /\ M(j) \in {0, 1}
        /\ Total(iv[j], PlusByte(s[j], K(j)), d[j + 1], d[j], q[j])
    <3>1. K(j) \in {0, 1} /\ M(j) \in {0, 1} /\ u[j] = PlusByte(s[j], K(j))
      BY <1>1, <1>5
    <3> QED BY ONLY <2>1, <3>1
  <2>4. /\ q[j] = PlusByte(r[j], M(j))
        /\ d[j] + PlusCarry(s[j], K(j)) = c[j] + PlusCarry(r[j], M(j))
    <3> DEFINE k == K(j)
               m == M(j)
    <3>1. k \in {0, 1} /\ m \in {0, 1} /\ d[j + 1] + k = c[j + 1] + m
      BY <1>7, <2>3
    <3>2. Total(iv[j], PlusByte(s[j], k), d[j + 1], d[j], q[j])
      BY <2>3
    <3> HIDE DEF k, m
    <3>3. /\ q[j] = PlusByte(r[j], m)
          /\ d[j] + PlusCarry(s[j], k) = c[j] + PlusCarry(r[j], m)
      <4>1. Columns(iv[j], s[j], c[j + 1], d[j + 1], k, m, c[j], d[j], r[j], q[j])
        BY ONLY <2>1, <2>2, <3>1, <3>2 DEF Columns
      <4> QED BY ONLY <4>1, IncByte
    <3> QED BY <3>3 DEF k, m
  <2> QED BY ONLY <1>1, <1>5, <2>4, j \in 1 .. n
<1> DEFINE S == {i \in 0 .. n : d[n + 1 - i] + K(n - i) = c[n + 1 - i] + M(n - i)}
<1>8. 0 \in S
  BY <1>1, <1>5, <1>6
<1>9. ASSUME NEW i \in 1 .. n, i - 1 \in S PROVE i \in S
  <2> DEFINE j == n + 1 - i
  <2>1. j \in 1 .. n /\ n + 1 - (i - 1) = j + 1 /\ n - (i - 1) = j /\ n - i = j - 1
    OBVIOUS
  <2>2. d[n + 1 - (i - 1)] + K(n - (i - 1)) = c[n + 1 - (i - 1)] + M(n - (i - 1))
    BY <1>9
  <2> HIDE DEF j
  <2>3. d[j + 1] + K(j) = c[j + 1] + M(j)
    BY ONLY <2>1, <2>2
  <2>4. d[j] + K(j - 1) = c[j] + M(j - 1)
    BY ONLY <1>7, <2>1, <2>3
  <2> QED BY <2>1, <2>4 DEF j
<1> HIDE DEF S
<1>10. \A i \in 0 .. n : i \in S
  BY <1>8, <1>9, UpTo
<1>11. ASSUME NEW j \in 1 .. n PROVE q[j] = Inc(r)[j]
  <2> DEFINE i == n - j
  <2>1. i \in 0 .. n /\ n + 1 - i = j + 1 /\ n - i = j
    OBVIOUS
  <2> HIDE DEF i
  <2>2. d[n + 1 - i] + K(n - i) = c[n + 1 - i] + M(n - i)
    BY <1>10, <2>1 DEF S
  <2>3. d[j + 1] + K(j) = c[j + 1] + M(j)
    BY ONLY <2>1, <2>2
  <2> QED BY ONLY <1>7, <2>3, j \in 1 .. n
<1>12. q = [j \in 1 .. n |-> q[j]] /\ Inc(r) = [j \in 1 .. n |-> Inc(r)[j]]
  BY <1>3, <1>5 DEF Adds
<1>13. q = Inc(r)
  BY ONLY <1>11, <1>12, FunEqual
<1> QED BY <1>13 DEF q, r, u

\* Eight bits make a byte in one way.
Byte8(x1, x2, x4, x8, x16, x32, x64, x128) ==
  x1 + 2 * x2 + 4 * x4 + 8 * x8 + 16 * x16 + 32 * x32 + 64 * x64 + 128 * x128

SameByte(x1, x2, x4, x8, x16, x32, x64, x128, y1, y2, y4, y8, y16, y32, y64, y128) ==
  /\ x1 \in {0, 1} /\ x2 \in {0, 1} /\ x4 \in {0, 1} /\ x8 \in {0, 1}
  /\ x16 \in {0, 1} /\ x32 \in {0, 1} /\ x64 \in {0, 1} /\ x128 \in {0, 1}
  /\ y1 \in {0, 1} /\ y2 \in {0, 1} /\ y4 \in {0, 1} /\ y8 \in {0, 1}
  /\ y16 \in {0, 1} /\ y32 \in {0, 1} /\ y64 \in {0, 1} /\ y128 \in {0, 1}
  /\ Byte8(x1, x2, x4, x8, x16, x32, x64, x128) = Byte8(y1, y2, y4, y8, y16, y32, y64, y128)

LEMMA BitsUnique ==
  ASSUME NEW x1, NEW x2, NEW x4, NEW x8, NEW x16, NEW x32, NEW x64, NEW x128,
         NEW y1, NEW y2, NEW y4, NEW y8, NEW y16, NEW y32, NEW y64, NEW y128,
         SameByte(x1, x2, x4, x8, x16, x32, x64, x128, y1, y2, y4, y8, y16, y32, y64, y128)
  PROVE  /\ x1 = y1 /\ x2 = y2 /\ x4 = y4 /\ x8 = y8
         /\ x16 = y16 /\ x32 = y32 /\ x64 = y64 /\ x128 = y128
<1>0. /\ x1 \in {0, 1} /\ x2 \in {0, 1} /\ x4 \in {0, 1} /\ x8 \in {0, 1}
      /\ x16 \in {0, 1} /\ x32 \in {0, 1} /\ x64 \in {0, 1} /\ x128 \in {0, 1}
      /\ y1 \in {0, 1} /\ y2 \in {0, 1} /\ y4 \in {0, 1} /\ y8 \in {0, 1}
      /\ y16 \in {0, 1} /\ y32 \in {0, 1} /\ y64 \in {0, 1} /\ y128 \in {0, 1}
      /\ Byte8(x1, x2, x4, x8, x16, x32, x64, x128) = Byte8(y1, y2, y4, y8, y16, y32, y64, y128)
  BY SMT DEF SameByte
<1>1. x1 = y1
  BY ONLY <1>0, SMT DEF Byte8
<1>2. x2 = y2
  BY ONLY <1>0, <1>1, SMT DEF Byte8
<1>3. x4 = y4
  BY ONLY <1>0, <1>1, <1>2, SMT DEF Byte8
<1>4. x8 = y8
  BY ONLY <1>0, <1>1, <1>2, <1>3, SMT DEF Byte8
<1>5. x16 = y16
  BY ONLY <1>0, <1>1, <1>2, <1>3, <1>4, SMT DEF Byte8
<1>6. x32 = y32
  BY ONLY <1>0, <1>1, <1>2, <1>3, <1>4, <1>5, SMT DEF Byte8
<1>7. x64 = y64
  BY ONLY <1>0, <1>1, <1>2, <1>3, <1>4, <1>5, <1>6, SMT DEF Byte8
<1>8. x128 = y128
  BY ONLY <1>0, <1>1, <1>2, <1>3, <1>4, <1>5, <1>6, <1>7, SMT DEF Byte8
<1> QED BY <1>1, <1>2, <1>3, <1>4, <1>5, <1>6, <1>7, <1>8

\* The bits of a byte.
Bit(a, w) == (a \div w) % 2

LEMMA BitsOf ==
  ASSUME NEW a \in Nat, a <= 255
  PROVE  a = Byte8(Bit(a, 1), Bit(a, 2), Bit(a, 4), Bit(a, 8),
                   Bit(a, 16), Bit(a, 32), Bit(a, 64), Bit(a, 128))
<1> DEFINE q1 == a \div 1
           q2 == a \div 2
           q4 == a \div 4
           q8 == a \div 8
           q16 == a \div 16
           q32 == a \div 32
           q64 == a \div 64
           q128 == a \div 128
<1> DEFINE b1 == q1 % 2
           b2 == q2 % 2
           b4 == q4 % 2
           b8 == q8 % 2
           b16 == q16 % 2
           b32 == q32 % 2
           b64 == q64 % 2
           b128 == q128 % 2
<1>1. q1 = a /\ q128 \in {0, 1} /\ b128 = q128
  BY SMT
<1>2. q1 = 2 * q2 + b1 /\ q1 \in Nat /\ b1 \in Nat
  BY SMT
<1>3. q2 = 2 * q4 + b2 /\ q2 \in Nat /\ b2 \in Nat
  BY SMT
<1>4. q4 = 2 * q8 + b4 /\ q4 \in Nat /\ b4 \in Nat
  BY SMT
<1>5. q8 = 2 * q16 + b8 /\ q8 \in Nat /\ b8 \in Nat
  BY SMT
<1>6. q16 = 2 * q32 + b16 /\ q16 \in Nat /\ b16 \in Nat
  BY SMT
<1>7. q32 = 2 * q64 + b32 /\ q32 \in Nat /\ b32 \in Nat
  BY SMT
<1>8. q64 = 2 * q128 + b64 /\ q64 \in Nat /\ b64 \in Nat
  BY SMT
<1>9. Bit(a, 1) = b1 /\ Bit(a, 2) = b2 /\ Bit(a, 4) = b4 /\ Bit(a, 8) = b8
      /\ Bit(a, 16) = b16 /\ Bit(a, 32) = b32 /\ Bit(a, 64) = b64 /\ Bit(a, 128) = b128
  BY DEF Bit
<1> HIDE DEF q1, q2, q4, q8, q16, q32, q64, q128, b1, b2, b4, b8, b16, b32, b64, b128
<1>10. a = Byte8(b1, b2, b4, b8, b16, b32, b64, b128)
  BY ONLY <1>1, <1>2, <1>3, <1>4, <1>5, <1>6, <1>7, <1>8, SMT DEF Byte8
<1> QED BY ONLY <1>9, <1>10

\* The exclusive or with a byte can be undone.
LEMMA XorInjective ==
  ASSUME NEW a \in Byte, NEW b \in Byte, NEW c \in Byte, XorByte(a, c) = XorByte(b, c)
  PROVE  a = b
<1> DEFINE X(e, w) == (e \div w + c \div w) % 2
<1>1. /\ a \in Nat /\ a <= 255 /\ b \in Nat /\ b <= 255 /\ c \in Nat
  BY ByteRange
<1>2. ASSUME NEW e \in Nat, NEW w \in Nat \ {0}
      PROVE  X(e, w) \in {0, 1} /\ e \div w \in Nat /\ c \div w \in Nat
  <2>1. e \div w \in Nat /\ c \div w \in Nat
    BY <1>1, SMT
  <2> DEFINE y == e \div w
             z == c \div w
  <2> HIDE DEF y, z
  <2>2. y \in Nat /\ z \in Nat
    BY <2>1 DEF y, z
  <2>3. (y + z) % 2 \in {0, 1}
    BY ONLY <2>2, SMT
  <2> QED BY <2>1, <2>3 DEF y, z
<1>3. ASSUME NEW w \in Nat \ {0}, X(a, w) = X(b, w) PROVE Bit(a, w) = Bit(b, w)
  <2> DEFINE x == a \div w
             y == b \div w
             z == c \div w
  <2>1. x \in Nat /\ y \in Nat /\ z \in Nat /\ (x + z) % 2 = (y + z) % 2
    BY <1>1, <1>2, <1>3
  <2> HIDE DEF x, y, z
  <2>2. x % 2 = y % 2
    BY ONLY <2>1, SMT
  <2> QED BY <2>2 DEF Bit, x, y
<1>4. /\ XorByte(a, c) = Byte8(X(a, 1), X(a, 2), X(a, 4), X(a, 8), X(a, 16), X(a, 32), X(a, 64), X(a, 128))
      /\ XorByte(b, c) = Byte8(X(b, 1), X(b, 2), X(b, 4), X(b, 8), X(b, 16), X(b, 32), X(b, 64), X(b, 128))
  BY ONLY TRUE, SMT DEF XorByte, Byte8
<1> HIDE DEF X
<1>5. /\ X(a, 1) \in {0, 1} /\ X(a, 2) \in {0, 1} /\ X(a, 4) \in {0, 1} /\ X(a, 8) \in {0, 1}
      /\ X(a, 16) \in {0, 1} /\ X(a, 32) \in {0, 1} /\ X(a, 64) \in {0, 1} /\ X(a, 128) \in {0, 1}
      /\ X(b, 1) \in {0, 1} /\ X(b, 2) \in {0, 1} /\ X(b, 4) \in {0, 1} /\ X(b, 8) \in {0, 1}
      /\ X(b, 16) \in {0, 1} /\ X(b, 32) \in {0, 1} /\ X(b, 64) \in {0, 1} /\ X(b, 128) \in {0, 1}
  BY ONLY <1>1, <1>2, SMT
<1>6. /\ X(a, 1) = X(b, 1) /\ X(a, 2) = X(b, 2) /\ X(a, 4) = X(b, 4) /\ X(a, 8) = X(b, 8)
      /\ X(a, 16) = X(b, 16) /\ X(a, 32) = X(b, 32) /\ X(a, 64) = X(b, 64) /\ X(a, 128) = X(b, 128)
  <2> DEFINE x1 == X(a, 1)
             x2 == X(a, 2)
             x4 == X(a, 4)
             x8 == X(a, 8)
             x16 == X(a, 16)
             x32 == X(a, 32)
             x64 == X(a, 64)
             x128 == X(a, 128)
             y1 == X(b, 1)
             y2 == X(b, 2)
             y4 == X(b, 4)
             y8 == X(b, 8)
             y16 == X(b, 16)
             y32 == X(b, 32)
             y64 == X(b, 64)
             y128 == X(b, 128)
  <2>1. Byte8(x1, x2, x4, x8, x16, x32, x64, x128) = Byte8(y1, y2, y4, y8, y16, y32, y64, y128)
    BY <1>4
  <2>2. /\ x1 \in {0, 1} /\ x2 \in {0, 1} /\ x4 \in {0, 1} /\ x8 \in {0, 1}
        /\ x16 \in {0, 1} /\ x32 \in {0, 1} /\ x64 \in {0, 1} /\ x128 \in {0, 1}
        /\ y1 \in {0, 1} /\ y2 \in {0, 1} /\ y4 \in {0, 1} /\ y8 \in {0, 1}
        /\ y16 \in {0, 1} /\ y32 \in {0, 1} /\ y64 \in {0, 1} /\ y128 \in {0, 1}
    BY ONLY <1>5
  <2> HIDE DEF x1, x2, x4, x8, x16, x32, x64, x128, y1, y2, y4, y8, y16, y32, y64, y128
  <2>3. /\ x1 = y1 /\ x2 = y2 /\ x4 = y4 /\ x8 = y8
        /\ x16 = y16 /\ x32 = y32 /\ x64 = y64 /\ x128 = y128
    <3>1. SameByte(x1, x2, x4, x8, x16, x32, x64, x128, y1, y2, y4, y8, y16, y32, y64, y128)
      BY ONLY <2>1, <2>2 DEF SameByte
    <3> QED BY ONLY <3>1, BitsUnique
  <2> QED BY <2>3 DEF x1, x2, x4, x8, x16, x32, x64, x128, y1, y2, y4, y8, y16, y32, y64, y128
<1>7. /\ Bit(a, 1) = Bit(b, 1) /\ Bit(a, 2) = Bit(b, 2) /\ Bit(a, 4) = Bit(b, 4) /\ Bit(a, 8) = Bit(b, 8)
      /\ Bit(a, 16) = Bit(b, 16) /\ Bit(a, 32) = Bit(b, 32) /\ Bit(a, 64) = Bit(b, 64)
      /\ Bit(a, 128) = Bit(b, 128)
  BY ONLY <1>3, <1>6, SMT
<1> QED BY ONLY <1>1, <1>7, BitsOf, SMT

\* A sequence number is a sequence.
LEMMA EightBytes ==
  ASSUME NEW p \in [1 .. 8 -> Byte]
  PROVE  p \in Seq(Byte) /\ Len(p) = 8
<1> DEFINE e == 8
<1>1. e \in Nat /\ p \in [1 .. e -> Byte]
  OBVIOUS
<1> HIDE DEF e
<1>2. p \in Seq(Byte) /\ Len(p) = e
  BY ONLY <1>1
<1> QED BY <1>2 DEF e

\* What adjustIV computes: the last bytes of seq added to the IV.
Adjustment(n, iv, p, s) ==
  /\ iv \in [1 .. n -> Byte] /\ s \in [1 .. n -> Byte]
  /\ \A j \in 1 .. n : s[j] = p[8 - n + j]
  /\ \E c : Carries(c, iv, s, n) /\ adjustIV(iv, p) = Sums(c, iv, s, n) \o Zeros(n)

LEMMA Adjusted ==
  ASSUME NEW n \in Nat, n <= 8, NEW iv \in Seq(Byte), Len(iv) = n, NEW p \in [1 .. 8 -> Byte],
         NEW s, s = SubSeq(p, 9 - n, 8)
  PROVE  Adjustment(n, iv, p, s)
<1>1. iv \in [1 .. n -> Byte]
  BY SMT
<1>2. s \in [1 .. n -> Byte] /\ \A j \in 1 .. n : s[j] = p[8 - n + j]
  <2>1. p \in Seq(Byte) /\ Len(p) = 8
    BY EightBytes
  <2>2. Len(s) = n /\ s \in Seq(Byte)
    BY <2>1, SMT
  <2>3. ASSUME NEW j \in 1 .. n PROVE s[j] = p[8 - n + j]
    <3>1. j \in 1 .. 8 - (9 - n) + 1 /\ (9 - n) + j - 1 = 8 - n + j
      BY SMT
    <3> QED BY <2>1, <3>1, SMT
  <2> QED BY ONLY n \in Nat, <2>2, <2>3, SMT
<1>3. \E g : g = CarryRec(g, iv, s, n)
  BY ONLY n \in Nat, <1>1, <1>2, CarriesExist
<1>4. \E g : g = CarryRec(g, iv, s, n) /\ adjustIV(iv, p) = Sums(g, iv, s, n) \o Zeros(n)
  <2>1. \E g : g = CarryRec(g, iv, SubSeq(p, 9 - Len(iv), 8), Len(iv))
    BY <1>3
  <2>2. \E g : /\ g = CarryRec(g, iv, SubSeq(p, 9 - Len(iv), 8), Len(iv))
               /\ adjustIV(iv, p) = Sums(g, iv, SubSeq(p, 9 - Len(iv), 8), Len(iv)) \o Zeros(Len(iv))
    BY ONLY <2>1 DEF adjustIV, CarryRec, Sums
  <2> QED BY <2>2
<1>5. PICK g : g = CarryRec(g, iv, s, n) /\ adjustIV(iv, p) = Sums(g, iv, s, n) \o Zeros(n)
  BY <1>4
<1>6. Carries(g, iv, s, n)
  BY ONLY n \in Nat, <1>1, <1>2, <1>5, CarriesAre
<1> QED BY <1>1, <1>2, <1>5, <1>6 DEF Adjustment

\* Sequence numbers that agree byte by byte.
LEMMA SeqEqual ==
  ASSUME NEW p \in [1 .. 8 -> Byte], NEW q \in [1 .. 8 -> Byte], \A i \in 1 .. 8 : p[i] = q[i]
  PROVE  p = q
<1> DEFINE D == 1 .. 8
<1>1. p = [i \in D |-> p[i]] /\ q = [i \in D |-> q[i]] /\ \A i \in D : p[i] = q[i]
  OBVIOUS
<1> HIDE DEF D
<1> QED BY ONLY <1>1, FunEqual

\* Where the elements of a concatenation are.
LEMMA CatAt ==
  ASSUME NEW a \in Seq(Byte), NEW b \in Seq(Byte)
  PROVE  /\ a \o b \in Seq(Byte) /\ Len(a \o b) = Len(a) + Len(b)
         /\ \A i \in 1 .. Len(a) : (a \o b)[i] = a[i]
         /\ \A i \in 1 .. Len(b) : (a \o b)[Len(a) + i] = b[i]
<1>1. \A i \in 1 .. Len(b) : (a \o b)[Len(a) + i] = b[i]
  <2> SUFFICES ASSUME NEW i \in 1 .. Len(b) PROVE (a \o b)[Len(a) + i] = b[i]
    OBVIOUS
  <2>1. Len(a) + i \in 1 .. Len(a) + Len(b) /\ ~(Len(a) + i <= Len(a)) /\ (Len(a) + i) - Len(a) = i
    OBVIOUS
  <2> QED BY <2>1, SMT
<1> QED BY <1>1

LEMMA ZerosBytes ==
  \A n \in Nat : Zeros(n) \in Seq(Byte) /\ Len(Zeros(n)) = n
<1>1. 0 \in Byte
  BY ByteRange
<1> QED BY <1>1 DEF Zeros

\* The nonces of AEAD suites.
LEMMA AEADFresh ==
  ASSUME NEW iv \in Seq(Byte), NEW p \in [1 .. 8 -> Byte], NEW q \in [1 .. 8 -> Byte],
         AEADNonce(iv, p) = AEADNonce(iv, q)
  PROVE  p = q
<1>1. p \in Seq(Byte) /\ Len(p) = 8 /\ q \in Seq(Byte) /\ Len(q) = 8
  BY EightBytes
<1>2. ASSUME NEW i \in 1 .. 8 PROVE p[i] = q[i]
  <2>1. i \in 1 .. Len(p) /\ i \in 1 .. Len(q)
    BY <1>1
  <2>2. (iv \o p)[Len(iv) + i] = p[i]
    BY ONLY iv \in Seq(Byte), <1>1, <2>1, CatAt
  <2>3. (iv \o q)[Len(iv) + i] = q[i]
    BY ONLY iv \in Seq(Byte), <1>1, <2>1, CatAt
  <2> QED BY <2>2, <2>3 DEF AEADNonce
<1> QED BY <1>2, SeqEqual

\* The nonces of CHACHA20 suites.
LEMMA CHACHA20Fresh ==
  ASSUME NEW iv \in Seq(Byte), Len(iv) = 12, NEW p \in [1 .. 8 -> Byte], NEW q \in [1 .. 8 -> Byte],
         CHACHA20Nonce(iv, p) = CHACHA20Nonce(iv, q)
  PROVE  p = q
<1>1. p \in Seq(Byte) /\ Len(p) = 8 /\ q \in Seq(Byte) /\ Len(q) = 8
  BY EightBytes
<1>2. Zeros(4) \in Seq(Byte) /\ Len(Zeros(4)) = 4
  BY ONLY 4 \in Nat, ZerosBytes
<1> DEFINE z == Zeros(4)
<1> HIDE DEF z
<1>3. ASSUME NEW i \in 1 .. 8 PROVE p[i] = q[i]
  <2>1. i \in 1 .. Len(p) /\ i \in 1 .. Len(q) /\ 4 + i \in 1 .. 12 /\ 4 + i \in 1 .. Len(iv)
    BY <1>1
  <2>2. z \in Seq(Byte) /\ Len(z) = 4
    BY <1>2 DEF z
  <2>3. (z \o p)[4 + i] = p[i] /\ (z \o q)[4 + i] = q[i]
    <3>1. (z \o p)[Len(z) + i] = p[i]
      BY ONLY <1>1, <2>1, <2>2, CatAt
    <3>2. (z \o q)[Len(z) + i] = q[i]
      BY ONLY <1>1, <2>1, <2>2, CatAt
    <3> QED BY ONLY <2>2, <3>1, <3>2
  <2>4. XorByte((z \o p)[4 + i], iv[4 + i]) = XorByte((z \o q)[4 + i], iv[4 + i])
    BY <2>1 DEF CHACHA20Nonce, z
  <2>5. XorByte(p[i], iv[4 + i]) = XorByte(q[i], iv[4 + i])
    BY ONLY <2>3, <2>4
  <2>6. p[i] \in Byte /\ q[i] \in Byte
    OBVIOUS
  <2>7. iv[4 + i] \in Byte
    BY ONLY iv \in Seq(Byte), <2>1
  <2> QED BY ONLY <2>5, <2>6, <2>7, XorInjective
<1> QED BY <1>3, SeqEqual

\* The bytes that adjustIV returns, without the zeros after them.
LEMMA AdjustedPrefix ==
  ASSUME NEW n \in Nat, NEW r \in [1 .. n -> Byte], NEW t \in [1 .. n -> Byte]
  PROVE  /\ SubSeq(r \o Zeros(n), 1, n) = r
         /\ r \o Zeros(n) = t \o Zeros(n) => r = t
<1>1. r \in Seq(Byte) /\ Len(r) = n /\ t \in Seq(Byte) /\ Len(t) = n
  BY ByteRange
<1>2. Zeros(n) \in Seq(Byte) /\ Len(Zeros(n)) = n
  BY ZerosBytes
<1> DEFINE z == Zeros(n)
<1> HIDE DEF z
<1>3. \A i \in 1 .. n : (r \o z)[i] = r[i] /\ (t \o z)[i] = t[i]
  BY <1>1, <1>2 DEF z
<1>4. SubSeq(r \o z, 1, n) = r
  <2>1. r \o z \in Seq(Byte) /\ Len(r \o z) = n + n
    <3>1. z \in Seq(Byte) /\ Len(z) = n
      BY <1>2 DEF z
    <3>2. r \o z \in Seq(Byte) /\ Len(r \o z) = Len(r) + Len(z)
      BY ONLY <1>1, <3>1, CatAt
    <3> QED BY ONLY <1>1, <3>1, <3>2
  <2> DEFINE x == SubSeq(r \o z, 1, n)
  <2>2. x = [i \in 1 .. n |-> x[i]] /\ \A i \in 1 .. n : x[i] = (r \o z)[i]
    BY ONLY n \in Nat, <2>1, SMT
  <2>3. r = [i \in 1 .. n |-> r[i]] /\ \A i \in 1 .. n : x[i] = r[i]
    BY <1>3, <2>2
  <2> HIDE DEF x
  <2>4. x = r
    BY ONLY <2>2, <2>3, FunEqual
  <2> QED BY <2>4 DEF x
<1>5. ASSUME r \o z = t \o z PROVE r = t
  <2>1. r = [i \in 1 .. n |-> r[i]] /\ t = [i \in 1 .. n |-> t[i]] /\ \A i \in 1 .. n : r[i] = t[i]
    BY <1>3, <1>5
  <2> QED BY ONLY <2>1, FunEqual
<1> QED BY <1>4, <1>5 DEF z

\* The sums of the two halves of a nonce, for two sequence numbers.
LEMMA AdjustFresh ==
  ASSUME NEW n \in Nat, n <= 8, NEW iv \in Seq(Byte), Len(iv) = n, NEW p \in [1 .. 8 -> Byte],
         NEW q \in [1 .. 8 -> Byte], adjustIV(iv, p) = adjustIV(iv, q)
  PROVE  \A j \in 1 .. n : p[8 - n + j] = q[8 - n + j]
<1> SUFFICES ASSUME NEW s, s = SubSeq(p, 9 - n, 8), NEW u, u = SubSeq(q, 9 - n, 8)
             PROVE  \A j \in 1 .. n : p[8 - n + j] = q[8 - n + j]
  OBVIOUS
<1>1. /\ iv \in [1 .. n -> Byte] /\ s \in [1 .. n -> Byte]
      /\ \A j \in 1 .. n : s[j] = p[8 - n + j]
      /\ \E c : Carries(c, iv, s, n) /\ adjustIV(iv, p) = Sums(c, iv, s, n) \o Zeros(n)
  <2>1. Adjustment(n, iv, p, s)
    BY Adjusted
  <2> QED BY <2>1 DEF Adjustment
<1>2. /\ u \in [1 .. n -> Byte]
      /\ \A j \in 1 .. n : u[j] = q[8 - n + j]
      /\ \E c : Carries(c, iv, u, n) /\ adjustIV(iv, q) = Sums(c, iv, u, n) \o Zeros(n)
  <2>1. Adjustment(n, iv, q, u)
    BY Adjusted
  <2> QED BY <2>1 DEF Adjustment
<1>3. PICK c : Carries(c, iv, s, n) /\ adjustIV(iv, p) = Sums(c, iv, s, n) \o Zeros(n)
  BY <1>1
<1>4. PICK d : Carries(d, iv, u, n) /\ adjustIV(iv, q) = Sums(d, iv, u, n) \o Zeros(n)
  BY <1>2
<1>5. Sums(c, iv, s, n) \in [1 .. n -> Byte] /\ Sums(d, iv, u, n) \in [1 .. n -> Byte]
  <2>1. Adds(iv, s, c, Sums(c, iv, s, n), n)
    BY ONLY n \in Nat, <1>1, <1>3, SumsAre
  <2>2. Adds(iv, u, d, Sums(d, iv, u, n), n)
    BY ONLY n \in Nat, <1>1, <1>2, <1>4, SumsAre
  <2> QED BY ONLY <2>1, <2>2 DEF Adds
<1>6. Sums(c, iv, s, n) \o Zeros(n) = Sums(d, iv, u, n) \o Zeros(n)
  BY <1>3, <1>4
<1>7. Sums(c, iv, s, n) = Sums(d, iv, u, n)
  BY ONLY n \in Nat, <1>5, <1>6, AdjustedPrefix
<1>8. \A j \in 1 .. n : s[j] = u[j]
  BY ONLY n \in Nat, <1>1, <1>2, <1>3, <1>4, <1>7, SumsInjective
<1> QED BY <1>1, <1>2, <1>8

\* The keys and nonces of CTR-OMAC suites: adjustIV tells the last bytes of
\* sequence numbers apart and, for Magma, TLSTree those before them.
LEMMA CTROMACFresh ==
  ASSUME NEW name, NEW iv \in Seq(Byte), NEW p \in [1 .. 8 -> Byte], NEW q \in [1 .. 8 -> Byte],
         \/ name = "KUZNYECHIK-CTR-OMAC" /\ Len(iv) = 8
         \/ name = "MAGMA-CTR-OMAC" /\ Len(iv) = 4,
         TLSTree(name, p) = TLSTree(name, q), adjustIV(iv, p) = adjustIV(iv, q)
  PROVE  p = q
<1> SUFFICES ASSUME NEW n \in Nat, n = Len(iv) PROVE p = q
  OBVIOUS
<1>0. n = 8 \/ n = 4
  OBVIOUS
<1>1. CASE Len(iv) = 8
  <2>1. \A j \in 1 .. n : p[8 - n + j] = q[8 - n + j]
    <3>1. n <= 8
      BY ONLY <1>0
    <3> QED BY <3>1, AdjustFresh
  <2>2. \A j \in 1 .. 8 : p[j] = q[j]
    BY <1>1, <2>1
  <2> QED BY <2>2, SeqEqual
<1>2. CASE name = "MAGMA-CTR-OMAC" /\ Len(iv) = 4
  <2>1. \A j \in 1 .. n : p[8 - n + j] = q[8 - n + j]
    <3>1. n <= 8
      BY ONLY <1>0
    <3> QED BY <3>1, AdjustFresh
  <2>2. p[5] = q[5] /\ p[6] = q[6] /\ p[7] = q[7] /\ p[8] = q[8]
    BY <1>2, <2>1
  <2>3. TLSTree(name, p)[1] = p[1] /\ TLSTree(name, p)[2] = p[2]
        /\ TLSTree(name, p)[3] = p[3] /\ TLSTree(name, p)[4] = p[4]
    BY <1>2 DEF TLSTree
  <2>4. TLSTree(name, q)[1] = q[1] /\ TLSTree(name, q)[2] = q[2]
        /\ TLSTree(name, q)[3] = q[3] /\ TLSTree(name, q)[4] = q[4]
    BY <1>2 DEF TLSTree
  <2>5. \A j \in 1 .. 8 : p[j] = q[j]
    BY <2>2, <2>3, <2>4
  <2> QED BY <2>5, SeqEqual
<1> QED BY <1>1, <1>2

\* The last bytes of the next sequence number are the next of the last bytes.
LEMMA IncSuffix ==
  ASSUME NEW n \in Nat, n <= 8, NEW p \in [1 .. 8 -> Byte], NEW s \in [1 .. n -> Byte],
         \A j \in 1 .. n : s[j] = p[8 - n + j]
  PROVE  \A j \in 1 .. n : Inc(p)[8 - n + j] = Inc(s)[j]
<1> DEFINE e == 8
<1>1. e \in Nat /\ n <= e /\ p \in [1 .. e -> Byte] /\ \A j \in 1 .. n : s[j] = p[e - n + j]
  OBVIOUS
<1> HIDE DEF e
<1>2. \A i \in 1 .. e : Inc(p)[i] = PlusByte(p[i], Full(p, e, i))
  BY ONLY <1>1, IncIs
<1>3. \A j \in 1 .. n : Inc(s)[j] = PlusByte(s[j], Full(s, n, j))
  BY ONLY n \in Nat, s \in [1 .. n -> Byte], IncIs
<1>4. ASSUME NEW j \in 1 .. n PROVE Inc(p)[e - n + j] = Inc(s)[j]
  <2>1. e - n + j \in 1 .. e /\ j \in Nat
    BY ONLY n \in Nat, j \in 1 .. n, <1>1
  <2>2. (\A l \in (e - n + j) + 1 .. e : p[l] = 255) <=> (\A l \in j + 1 .. n : s[l] = 255)
    <3>1. ASSUME \A l \in (e - n + j) + 1 .. e : p[l] = 255, NEW l \in j + 1 .. n PROVE s[l] = 255
      <4>1. e - n + l \in (e - n + j) + 1 .. e /\ l \in 1 .. n
        BY ONLY n \in Nat, j \in 1 .. n, l \in j + 1 .. n, <1>1
      <4> QED BY ONLY <1>1, <3>1, <4>1
    <3>2. ASSUME \A l \in j + 1 .. n : s[l] = 255, NEW l \in (e - n + j) + 1 .. e PROVE p[l] = 255
      <4>1. l - (e - n) \in j + 1 .. n /\ l - (e - n) \in 1 .. n /\ e - n + (l - (e - n)) = l
        BY ONLY n \in Nat, j \in 1 .. n, l \in (e - n + j) + 1 .. e, <1>1
      <4>2. s[l - (e - n)] = 255 /\ s[l - (e - n)] = p[e - n + (l - (e - n))]
        BY ONLY <1>1, <3>2, <4>1
      <4> QED BY ONLY <4>1, <4>2
    <3> QED BY <3>1, <3>2
  <2>3. Full(p, e, e - n + j) = Full(s, n, j)
    BY ONLY <2>2 DEF Full
  <2>4. s[j] = p[e - n + j]
    BY <1>1
  <2> QED BY ONLY j \in 1 .. n, <1>2, <1>3, <2>1, <2>3, <2>4
<1> QED BY <1>4 DEF e

\* The nonce of the next record is the next nonce.
LEMMA AdjustNext ==
  ASSUME NEW n \in Nat, n <= 8, NEW iv \in Seq(Byte), Len(iv) = n, NEW p \in [1 .. 8 -> Byte]
  PROVE  SubSeq(adjustIV(iv, Inc(p)), 1, n) = Inc(SubSeq(adjustIV(iv, p), 1, n))
<1> SUFFICES ASSUME NEW q, q = Inc(p), NEW s, s = SubSeq(p, 9 - n, 8), NEW u, u = SubSeq(q, 9 - n, 8)
             PROVE  SubSeq(adjustIV(iv, q), 1, n) = Inc(SubSeq(adjustIV(iv, p), 1, n))
  OBVIOUS
<1>1. q \in [1 .. 8 -> Byte]
  <2> DEFINE e == 8
  <2>1. e \in Nat /\ p \in [1 .. e -> Byte]
    OBVIOUS
  <2> HIDE DEF e
  <2>2. Inc(p) \in [1 .. e -> Byte]
    BY ONLY <2>1, IncIs
  <2> QED BY <2>2 DEF e
<1>2. /\ iv \in [1 .. n -> Byte] /\ s \in [1 .. n -> Byte]
      /\ \A j \in 1 .. n : s[j] = p[8 - n + j]
      /\ \E c : Carries(c, iv, s, n) /\ adjustIV(iv, p) = Sums(c, iv, s, n) \o Zeros(n)
  <2>1. Adjustment(n, iv, p, s)
    BY Adjusted
  <2> QED BY <2>1 DEF Adjustment
<1>3. /\ u \in [1 .. n -> Byte]
      /\ \A j \in 1 .. n : u[j] = q[8 - n + j]
      /\ \E c : Carries(c, iv, u, n) /\ adjustIV(iv, q) = Sums(c, iv, u, n) \o Zeros(n)
  <2>1. Adjustment(n, iv, q, u)
    BY <1>1, Adjusted
  <2> QED BY <2>1 DEF Adjustment
<1>4. PICK c : Carries(c, iv, s, n) /\ adjustIV(iv, p) = Sums(c, iv, s, n) \o Zeros(n)
  BY <1>2
<1>5. PICK d : Carries(d, iv, u, n) /\ adjustIV(iv, q) = Sums(d, iv, u, n) \o Zeros(n)
  BY <1>3
<1>6. u = Inc(s)
  <2>1. Inc(s) \in [1 .. n -> Byte]
    BY ONLY n \in Nat, <1>2, IncIs
  <2>2. \A j \in 1 .. n : q[8 - n + j] = Inc(s)[j]
    BY <1>2, IncSuffix
  <2>3. \A j \in 1 .. n : u[j] = Inc(s)[j]
    BY ONLY <1>3, <2>2
  <2> DEFINE t == Inc(s)
  <2> HIDE DEF t
  <2>4. u = [j \in 1 .. n |-> u[j]] /\ t = [j \in 1 .. n |-> t[j]] /\ \A j \in 1 .. n : u[j] = t[j]
    BY <1>3, <2>1, <2>3 DEF t
  <2>5. u = t
    BY ONLY <2>4, FunEqual
  <2> QED BY <2>5 DEF t
<1>7. Sums(c, iv, s, n) \in [1 .. n -> Byte] /\ Sums(d, iv, u, n) \in [1 .. n -> Byte]
  <2>1. Adds(iv, s, c, Sums(c, iv, s, n), n)
    BY ONLY n \in Nat, <1>2, <1>4, SumsAre
  <2>2. Adds(iv, u, d, Sums(d, iv, u, n), n)
    BY ONLY n \in Nat, <1>2, <1>3, <1>5, SumsAre
  <2> QED BY ONLY <2>1, <2>2 DEF Adds
<1>8. /\ SubSeq(Sums(c, iv, s, n) \o Zeros(n), 1, n) = Sums(c, iv, s, n)
      /\ SubSeq(Sums(d, iv, u, n) \o Zeros(n), 1, n) = Sums(d, iv, u, n)
  BY ONLY n \in Nat, <1>7, AdjustedPrefix
<1>9. Carries(d, iv, Inc(s), n)
  BY <1>5, <1>6
<1>10. Sums(d, iv, Inc(s), n) = Inc(Sums(c, iv, s, n))
  <2>1. iv \in [1 .. n -> Byte] /\ s \in [1 .. n -> Byte] /\ Carries(c, iv, s, n)
    BY ONLY <1>2, <1>4
  <2> QED BY ONLY n \in Nat, <1>9, <2>1, SumsInc
<1>11. Sums(d, iv, u, n) = Inc(Sums(c, iv, s, n))
  BY ONLY <1>6, <1>10
<1> QED BY ONLY <1>4, <1>5, <1>8, <1>11

\* No key is used with a nonce twice, whatever the suite, its fixed IV and the
\* sequence numbers; and with CTR-OMAC a record's nonce is the successor of that
\* of the record before.
THEOREM NonceFreshHolds == Spec => []NonceFresh
<1>1. IInv => NonceFresh
  <2> SUFFICES ASSUME IInv, pc = "ready", kind \in {"AEAD", "CHACHA20", "CTROMAC"},
                      NEW iv \in FixedIVs, Len(iv) = suite.cipher.fixedIV
               PROVE  /\ IsInjective([p \in Seqs |-> RecordNonce(iv, p)])
                      /\ kind = "CTROMAC" =>
                           \A p \in Seqs : SubSeq(adjustIV(iv, Inc(p)), 1, Len(iv))
                                           = Inc(SubSeq(adjustIV(iv, p), 1, Len(iv)))
    BY DEF NonceFresh
  <2>1. iv \in Seq(Byte) /\ Len(iv) \in Nat /\ \A p \in Seqs : p \in [1 .. 8 -> Byte]
    BY ProtectorsAssumption
  <2>2. /\ kind = "CHACHA20" => Len(iv) = 12
        /\ kind = "CTROMAC" => \/ suite.cipher.name = "KUZNYECHIK-CTR-OMAC" /\ Len(iv) = 8
                               \/ suite.cipher.name = "MAGMA-CTR-OMAC" /\ Len(iv) = 4
    <3>1. suite \in Proper /\ kind = KindOf(suite)
      BY DEF IInv, HasSuite, HasKeys, HasKind
    <3>2. Fits(suite)
      BY <3>1, ProperFits
    <3> QED BY <3>1, <3>2 DEF Fits
  <2>3. ASSUME NEW p \in Seqs, NEW q \in Seqs, RecordNonce(iv, p) = RecordNonce(iv, q) PROVE p = q
    <3>0. p \in [1 .. 8 -> Byte] /\ q \in [1 .. 8 -> Byte]
      BY <2>1
    <3>1. CASE kind = "AEAD"
      <4>1. AEADNonce(iv, p) = AEADNonce(iv, q)
        BY <2>3, <3>1 DEF RecordNonce
      <4> QED BY ONLY <2>1, <3>0, <4>1, AEADFresh
    <3>2. CASE kind = "CHACHA20"
      <4>1. CHACHA20Nonce(iv, p) = CHACHA20Nonce(iv, q)
        BY <2>3, <3>2 DEF RecordNonce
      <4>2. Len(iv) = 12
        BY <2>2, <3>2
      <4> QED BY ONLY <2>1, <3>0, <4>1, <4>2, CHACHA20Fresh
    <3>3. CASE kind = "CTROMAC"
      <4>1. TLSTree(suite.cipher.name, p) = TLSTree(suite.cipher.name, q) /\ adjustIV(iv, p) = adjustIV(iv, q)
        BY <2>3, <3>3 DEF RecordNonce
      <4>2. \/ suite.cipher.name = "KUZNYECHIK-CTR-OMAC" /\ Len(iv) = 8
            \/ suite.cipher.name = "MAGMA-CTR-OMAC" /\ Len(iv) = 4
        BY <2>2, <3>3
      <4> QED BY ONLY <2>1, <3>0, <4>1, <4>2, CTROMACFresh
    <3> QED BY <3>1, <3>2, <3>3
  <2>4. IsInjective([p \in Seqs |-> RecordNonce(iv, p)])
    BY <2>3 DEF IsInjective
  <2>5. ASSUME kind = "CTROMAC", NEW p \in Seqs
        PROVE  SubSeq(adjustIV(iv, Inc(p)), 1, Len(iv)) = Inc(SubSeq(adjustIV(iv, p), 1, Len(iv)))
    <3>1. Len(iv) = 8 \/ Len(iv) = 4
      BY <2>2, <2>5
    <3>2. PICK n \in Nat : n = Len(iv)
      BY <2>1
    <3>3. n <= 8
      BY ONLY <3>1, <3>2
    <3>4. SubSeq(adjustIV(iv, Inc(p)), 1, n) = Inc(SubSeq(adjustIV(iv, p), 1, n))
      BY ONLY <2>1, p \in Seqs, <3>2, <3>3, AdjustNext
    <3> QED BY <3>2, <3>4
  <2> QED BY <2>4, <2>5
<1> QED BY <1>1, Invariant, PTL
=============================================================================
