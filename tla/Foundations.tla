---------------------------- MODULE Foundations -----------------------------
(***************************************************************************)
(* What the proofs about sequences of any length rest on.  Induction over  *)
(* the naturals and recursion along 0 .. n, stated with sets and functions *)
(* instead of predicates; sequences; numbers in bytes; and the fields and  *)
(* lists of fields of the wire format.                                     *)
(***************************************************************************)
EXTENDS Codec, TLAPS
LOCAL INSTANCE WellFoundedInduction

-----------------------------------------------------------------------------
(* Induction and recursion *)

\* Every nonempty set of naturals has a least element.
LEMMA Least ==
  ASSUME NEW T, T \subseteq Nat, T # {}
  PROVE  \E x \in T : \A y \in T : x <= y
<1> DEFINE R == OpToRel(<, Nat)
<1>1. IsWellFoundedOn(R, Nat)
  BY NatLessThanWellFounded
<1>2. \A x, y \in Nat : x < y => <<x, y>> \in R
  BY DEF OpToRel
<1> HIDE DEF R
<1>3. PICK x \in T : \A y \in T : ~ (<<y, x>> \in R)
  BY <1>1, WFMin
<1>4. ASSUME NEW y \in T PROVE x <= y
  <2>1. x \in Nat /\ y \in Nat
    OBVIOUS
  <2>2. ~(y < x)
    BY <1>2, <1>3, <2>1, Zenon
  <2> QED BY <2>1, <2>2
<1> QED BY <1>4

\* A set with 0 and, up to n, the successor of each of its elements.
LEMMA UpTo ==
  ASSUME NEW n \in Nat, NEW S, 0 \in S, \A i \in 1 .. n : i - 1 \in S => i \in S
  PROVE  \A i \in 0 .. n : i \in S
<1> SUFFICES ASSUME NEW j \in 0 .. n, j \notin S PROVE FALSE
  OBVIOUS
<1> DEFINE T == {i \in 0 .. n : i \notin S}
<1>1. T \subseteq Nat /\ T # {}
  OBVIOUS
<1>2. PICK x \in T : \A y \in T : x <= y
  <2> HIDE DEF T
  <2> QED BY <1>1, Least
<1>3. x \in 1 .. n /\ x \notin S
  OBVIOUS
<1>4. x - 1 \in 0 .. n /\ ~(x <= x - 1)
  BY <1>3
<1>5. x - 1 \in S
  BY <1>2, <1>4
<1> QED BY <1>3, <1>5

\* f follows the recursion that starts with a and makes the next value of the
\* one before with the function step[i].
Follows(f, n, a, step) == f[0] = a /\ \A i \in 1 .. n : f[i] = step[i][f[i - 1]]

\* There is such an f ...
LEMMA Recursion ==
  ASSUME NEW n \in Nat, NEW V, NEW a \in V, NEW step, \A i \in 1 .. n : step[i] \in [V -> V]
  PROVE  \E f \in [0 .. n -> V] : Follows(f, n, a, step)
<1> DEFINE S == {k \in 0 .. n : \E f \in [0 .. k -> V] : Follows(f, k, a, step)}
<1>1. 0 \in S
  <2>1. [i \in 0 .. 0 |-> a] \in [0 .. 0 -> V]
    OBVIOUS
  <2>2. Follows([i \in 0 .. 0 |-> a], 0, a, step)
    BY DEF Follows
  <2> QED BY <2>1, <2>2
<1>2. ASSUME NEW k \in 1 .. n, k - 1 \in S PROVE k \in S
  <2>1. PICK f \in [0 .. k - 1 -> V] : Follows(f, k - 1, a, step)
    BY <1>2
  <2> DEFINE g == [i \in 0 .. k |-> IF i = k THEN step[k][f[k - 1]] ELSE f[i]]
  <2>2. f[k - 1] \in V /\ step[k] \in [V -> V]
    OBVIOUS
  <2>3. g \in [0 .. k -> V]
    BY <2>2
  <2>4. g[0] = a
    BY <2>1 DEF Follows
  <2>5. ASSUME NEW i \in 1 .. k PROVE g[i] = step[i][g[i - 1]]
    <3>1. i - 1 \in 0 .. k - 1 /\ g[i - 1] = f[i - 1]
      OBVIOUS
    <3>2. CASE i = k
      BY <3>1, <3>2
    <3>3. CASE i # k
      <4>1. i \in 1 .. k - 1 /\ g[i] = f[i]
        BY <3>3
      <4> QED BY <2>1, <3>1, <4>1 DEF Follows
    <3> QED BY <3>2, <3>3
  <2> HIDE DEF g
  <2>6. Follows(g, k, a, step)
    BY <2>4, <2>5 DEF Follows
  <2> QED BY <2>3, <2>6
<1> HIDE DEF S
<1>3. n \in S
  BY <1>1, <1>2, UpTo
<1> QED BY <1>3 DEF S

\* ... and all such agree.
LEMMA Unique ==
  ASSUME NEW n \in Nat, NEW a, NEW step, NEW f, NEW g,
         Follows(f, n, a, step), Follows(g, n, a, step)
  PROVE  \A i \in 0 .. n : f[i] = g[i]
<1> DEFINE S == {i \in 0 .. n : f[i] = g[i]}
<1>1. 0 \in S
  BY DEF Follows
<1>2. ASSUME NEW i \in 1 .. n, i - 1 \in S PROVE i \in S
  BY <1>2 DEF Follows
<1> HIDE DEF S
<1>3. \A i \in 0 .. n : i \in S
  BY <1>1, <1>2, UpTo
<1> QED BY <1>3 DEF S

-----------------------------------------------------------------------------
(* Sequences of anything *)

IsSeq(s) == \E S : s \in Seq(S)

\* A sequence is a function on its indices.
LEMMA IsSeqLen ==
  ASSUME NEW s, IsSeq(s)
  PROVE  Len(s) \in Nat /\ DOMAIN s = 1 .. Len(s) /\ s = [i \in 1 .. Len(s) |-> s[i]]
BY DEF IsSeq

\* A function on 1 .. n is a sequence.
LEMMA IsSeqFun ==
  ASSUME NEW n \in Nat, NEW s, s = [i \in 1 .. n |-> s[i]]
  PROVE  IsSeq(s) /\ Len(s) = n
<1>1. s \in Seq({s[i] : i \in 1 .. n})
  <2>1. s \in [1 .. n -> {s[i] : i \in 1 .. n}]
    OBVIOUS
  <2> QED BY <2>1
<1>2. Len(s) = n
  OBVIOUS
<1> QED BY <1>1, <1>2 DEF IsSeq

\* Sequences with the same elements are the same.
LEMMA SeqExt ==
  ASSUME NEW s, NEW t, IsSeq(s), IsSeq(t), Len(s) = Len(t), \A i \in 1 .. Len(s) : s[i] = t[i]
  PROVE  s = t
<1>1. s = [i \in 1 .. Len(s) |-> s[i]] /\ t = [i \in 1 .. Len(s) |-> t[i]]
  BY IsSeqLen
<1> QED BY ONLY <1>1, \A i \in 1 .. Len(s) : s[i] = t[i], Zenon

\* Two sequences have a set of elements in common.
LEMMA Both ==
  ASSUME NEW s, NEW t, IsSeq(s), IsSeq(t)
  PROVE  \E S : s \in Seq(S) /\ t \in Seq(S)
<1>1. PICK A : s \in Seq(A)
  BY DEF IsSeq
<1>2. PICK B : t \in Seq(B)
  BY DEF IsSeq
<1>3. s \in Seq(A \cup B) /\ t \in Seq(A \cup B)
  <2>1. s \in [1 .. Len(s) -> A \cup B] /\ Len(s) \in Nat
    BY <1>1
  <2>2. t \in [1 .. Len(t) -> A \cup B] /\ Len(t) \in Nat
    BY <1>2
  <2> QED BY ONLY <2>1, <2>2
<1> QED BY <1>3

\* Where the elements of a concatenation are.
LEMMA Cat ==
  ASSUME NEW s, NEW t, IsSeq(s), IsSeq(t)
  PROVE  /\ IsSeq(s \o t) /\ Len(s \o t) = Len(s) + Len(t)
         /\ \A i \in 1 .. Len(s) : (s \o t)[i] = s[i]
         /\ \A i \in 1 .. Len(t) : (s \o t)[Len(s) + i] = t[i]
<1>1. PICK S : s \in Seq(S) /\ t \in Seq(S)
  BY Both
<1>2. s \o t \in Seq(S) /\ Len(s \o t) = Len(s) + Len(t) /\ Len(s) \in Nat /\ Len(t) \in Nat
  BY ONLY <1>1
<1>3. ASSUME NEW i \in 1 .. Len(s) PROVE (s \o t)[i] = s[i]
  BY ONLY <1>1, <1>2, i \in 1 .. Len(s)
<1>4. ASSUME NEW i \in 1 .. Len(t) PROVE (s \o t)[Len(s) + i] = t[i]
  BY ONLY <1>1, <1>2, i \in 1 .. Len(t)
<1> QED BY <1>2, <1>3, <1>4 DEF IsSeq

\* Where the elements of a subsequence are.
LEMMA Sub ==
  ASSUME NEW s, IsSeq(s), NEW m \in Nat, NEW n \in Nat, m >= 1, n <= Len(s)
  PROVE  /\ IsSeq(SubSeq(s, m, n)) /\ Len(SubSeq(s, m, n)) = IF m <= n THEN n - m + 1 ELSE 0
         /\ \A i \in 1 .. n - m + 1 : SubSeq(s, m, n)[i] = s[m + i - 1]
<1>1. PICK S : s \in Seq(S)
  BY DEF IsSeq
<1>2. Len(s) \in Nat
  BY <1>1
<1>3. SubSeq(s, m, n) \in Seq(S) /\ Len(SubSeq(s, m, n)) = IF m <= n THEN n - m + 1 ELSE 0
  BY <1>1, <1>2
<1>4. ASSUME NEW i \in 1 .. n - m + 1 PROVE SubSeq(s, m, n)[i] = s[m + i - 1]
  BY <1>1, <1>2
<1> QED BY <1>3, <1>4 DEF IsSeq

\* Where the elements are after Append.
LEMMA App ==
  ASSUME NEW s, IsSeq(s), NEW x
  PROVE  /\ IsSeq(Append(s, x)) /\ Len(Append(s, x)) = Len(s) + 1
         /\ \A i \in 1 .. Len(s) : Append(s, x)[i] = s[i]
         /\ Append(s, x)[Len(s) + 1] = x
<1>1. PICK A : s \in Seq(A)
  BY DEF IsSeq
<1>2. s \in Seq(A \cup {x})
  <2>1. s \in [1 .. Len(s) -> A \cup {x}] /\ Len(s) \in Nat
    BY <1>1
  <2> QED BY ONLY <2>1
<1>3. Append(s, x) \in Seq(A \cup {x}) /\ Len(Append(s, x)) = Len(s) + 1 /\ Len(s) \in Nat
  BY ONLY <1>2
<1>4. ASSUME NEW i \in 1 .. Len(s) PROVE Append(s, x)[i] = s[i]
  BY ONLY <1>2, <1>3, i \in 1 .. Len(s)
<1>5. Append(s, x)[Len(s) + 1] = x
  BY ONLY <1>2, <1>3
<1> QED BY <1>3, <1>4, <1>5 DEF IsSeq

\* The empty sequence is the one of length 0.
LEMMA IsSeqEmpty == IsSeq(<<>>) /\ Len(<<>>) = 0 /\ \A s : IsSeq(s) => (s = <<>> <=> Len(s) = 0)
<1>1. <<>> \in Seq({}) /\ Len(<<>>) = 0
  OBVIOUS
<1>2. IsSeq(<<>>)
  BY <1>1 DEF IsSeq
<1>3. ASSUME NEW s, IsSeq(s), Len(s) = 0 PROVE s = <<>>
  BY <1>1, <1>2, <1>3, SeqExt
<1> QED BY <1>1, <1>2, <1>3

\* A sequence of one.
LEMMA IsSeqOne ==
  ASSUME NEW a
  PROVE  IsSeq(<<a>>) /\ Len(<<a>>) = 1 /\ <<a>>[1] = a
<1>1. <<a>> \in Seq({a})
  OBVIOUS
<1> QED BY <1>1 DEF IsSeq

\* Nothing before or after.
LEMMA CatEmpty ==
  ASSUME NEW s, IsSeq(s)
  PROVE  s \o <<>> = s /\ <<>> \o s = s
<1>1. PICK S : s \in Seq(S)
  BY DEF IsSeq
<1> QED BY ONLY <1>1

\* Concatenation is associative.
LEMMA CatAssoc ==
  ASSUME NEW s, NEW t, NEW u, IsSeq(s), IsSeq(t), IsSeq(u)
  PROVE  (s \o t) \o u = s \o (t \o u)
<1>1. PICK A : s \in Seq(A) /\ t \in Seq(A)
  BY Both
<1>2. PICK B : u \in Seq(B)
  BY DEF IsSeq
<1> DEFINE S == A \cup B
<1>3. s \in Seq(S) /\ t \in Seq(S) /\ u \in Seq(S)
  <2>1. s \in [1 .. Len(s) -> S] /\ Len(s) \in Nat /\ t \in [1 .. Len(t) -> S] /\ Len(t) \in Nat
    BY <1>1
  <2>2. u \in [1 .. Len(u) -> S] /\ Len(u) \in Nat
    BY <1>2
  <2> HIDE DEF S
  <2> QED BY ONLY <2>1, <2>2
<1> HIDE DEF S
<1> QED BY ONLY <1>3, SMT

\* The parts of a concatenation.
LEMMA CatParts ==
  ASSUME NEW s, NEW t, IsSeq(s), IsSeq(t)
  PROVE  SubSeq(s \o t, 1, Len(s)) = s /\ Drop(s \o t, Len(s)) = t
<1>1. Len(s) \in Nat /\ Len(t) \in Nat
  BY IsSeqLen
<1> DEFINE c == s \o t
<1>2. /\ IsSeq(c) /\ Len(c) = Len(s) + Len(t)
      /\ \A i \in 1 .. Len(s) : c[i] = s[i]
      /\ \A i \in 1 .. Len(t) : c[Len(s) + i] = t[i]
  BY Cat
<1> HIDE DEF c
<1> DEFINE a == SubSeq(c, 1, Len(s))
           b == SubSeq(c, Len(s) + 1, Len(c))
<1>3. /\ IsSeq(a) /\ Len(a) = Len(s) /\ \A i \in 1 .. Len(s) : a[i] = c[i]
  <2>1. /\ IsSeq(a) /\ Len(a) = IF 1 <= Len(s) THEN Len(s) - 1 + 1 ELSE 0
        /\ \A i \in 1 .. Len(s) - 1 + 1 : a[i] = c[1 + i - 1]
    <3>1. 1 \in Nat /\ 1 >= 1 /\ Len(s) <= Len(c)
      BY <1>1, <1>2
    <3> QED BY ONLY <1>1, <1>2, <3>1, Sub
  <2> HIDE DEF a
  <2>2. Len(s) - 1 + 1 = Len(s) /\ \A i \in 1 .. Len(s) : 1 + i - 1 = i
    BY ONLY <1>1
  <2>3. Len(a) = Len(s)
    BY ONLY <1>1, <2>1
  <2> QED BY ONLY <2>1, <2>2, <2>3
<1>4. /\ IsSeq(b) /\ Len(b) = Len(t) /\ \A i \in 1 .. Len(t) : b[i] = c[Len(s) + i]
  <2>1. /\ IsSeq(b) /\ Len(b) = IF Len(s) + 1 <= Len(c) THEN Len(c) - (Len(s) + 1) + 1 ELSE 0
        /\ \A i \in 1 .. Len(c) - (Len(s) + 1) + 1 : b[i] = c[(Len(s) + 1) + i - 1]
    <3>1. Len(s) + 1 \in Nat /\ Len(s) + 1 >= 1 /\ Len(c) \in Nat /\ Len(c) <= Len(c)
      BY <1>1, <1>2
    <3> QED BY ONLY <1>2, <3>1, Sub
  <2> HIDE DEF b
  <2>2. Len(c) - (Len(s) + 1) + 1 = Len(t) /\ \A i \in 1 .. Len(t) : (Len(s) + 1) + i - 1 = Len(s) + i
    BY ONLY <1>1, <1>2
  <2>3. Len(b) = Len(t)
    BY ONLY <1>1, <1>2, <2>1
  <2> QED BY ONLY <2>1, <2>2, <2>3
<1> HIDE DEF a, b
<1>5. a = s
  BY <1>2, <1>3, SeqExt
<1>6. b = t
  BY <1>2, <1>4, SeqExt
<1> QED BY <1>5, <1>6 DEF a, b, c, Drop

-----------------------------------------------------------------------------
(* Numbers in bytes *)

\* Val is the end of a recursion along the bytes.
LEMMA ValFollows ==
  ASSUME NEW b, IsSeq(b), \A i \in 1 .. Len(b) : b[i] \in Nat
  PROVE  \E g : /\ g[0] = 0 /\ (\A i \in 1 .. Len(b) : g[i] = g[i - 1] * 256 + b[i])
                /\ (\A i \in 0 .. Len(b) : g[i] \in Nat)
                /\ Val(b) = g[Len(b)]
<1>1. PICK n \in Nat : n = Len(b)
  BY IsSeqLen
<1> DEFINE step == [i \in 1 .. n |-> [v \in Nat |-> v * 256 + b[i]]]
           Rec(h) == [i \in 0 .. n |-> IF i = 0 THEN 0 ELSE h[i - 1] * 256 + b[i]]
<1>2. \A i \in 1 .. n : step[i] \in [Nat -> Nat]
  <2> SUFFICES ASSUME NEW i \in 1 .. n PROVE step[i] \in [Nat -> Nat]
    OBVIOUS
  <2>1. b[i] \in Nat
    BY <1>1
  <2>2. \A v \in Nat : v * 256 + b[i] \in Nat
    BY ONLY <2>1
  <2> QED BY <2>2
<1>3. PICK f \in [0 .. n -> Nat] : Follows(f, n, 0, step)
  <2> HIDE DEF step
  <2>1. 0 \in Nat
    OBVIOUS
  <2> QED BY <1>2, <2>1, Recursion
<1>4. f = Rec(f)
  <2>1. ASSUME NEW i \in 0 .. n, i # 0 PROVE f[i] = f[i - 1] * 256 + b[i]
    <3>1. i \in 1 .. n /\ i - 1 \in 0 .. n
      BY <2>1
    <3>2. f[i] = step[i][f[i - 1]] /\ f[i - 1] \in Nat
      <4> HIDE DEF step
      <4> QED BY <1>3, <3>1 DEF Follows
    <3> QED BY <3>1, <3>2
  <2>2. f[0] = 0
    BY <1>3 DEF Follows
  <2>3. f = [i \in 0 .. n |-> f[i]]
    OBVIOUS
  <2> QED BY ONLY <2>1, <2>2, <2>3, Zenon
<1> HIDE DEF step
<1>5. PICK g : g = Rec(g) /\ Val(b) = g[n]
  <2> DEFINE h == CHOOSE h : h = Rec(h)
  <2>1. h = Rec(h)
    BY <1>4
  <2>2. Val(b) = h[n]
    BY <1>1 DEF Val, Radix
  <2> HIDE DEF h
  <2> QED BY <2>1, <2>2
<1>6. g[0] = 0
  BY <1>5
<1>7. ASSUME NEW i \in 1 .. n PROVE g[i] = g[i - 1] * 256 + b[i]
  <2>1. i \in 0 .. n /\ i # 0
    OBVIOUS
  <2> QED BY ONLY <1>5, <2>1
<1> HIDE DEF Rec
<1> DEFINE S == {i \in 0 .. n : g[i] \in Nat}
<1>8. 0 \in S
  BY <1>6
<1>9. ASSUME NEW i \in 1 .. n, i - 1 \in S PROVE i \in S
  <2>1. g[i - 1] \in Nat /\ b[i] \in Nat
    BY <1>1, <1>9
  <2>2. g[i] \in Nat
    BY ONLY <1>7, <2>1
  <2> QED BY <2>2
<1> HIDE DEF S
<1>10. \A i \in 0 .. n : i \in S
  BY <1>8, <1>9, UpTo
<1> QED BY <1>1, <1>5, <1>6, <1>7, <1>10 DEF S

\* The numbers of one, two and three bytes.
LEMMA Vals ==
  ASSUME NEW b, IsSeq(b), \A i \in 1 .. Len(b) : b[i] \in Nat
  PROVE  /\ Val(b) \in Nat
         /\ Len(b) = 1 => Val(b) = b[1]
         /\ Len(b) = 2 => Val(b) = b[1] * 256 + b[2]
         /\ Len(b) = 3 => Val(b) = (b[1] * 256 + b[2]) * 256 + b[3]
<1>1. PICK g : /\ g[0] = 0 /\ (\A i \in 1 .. Len(b) : g[i] = g[i - 1] * 256 + b[i])
               /\ (\A i \in 0 .. Len(b) : g[i] \in Nat)
               /\ Val(b) = g[Len(b)]
  BY ValFollows
<1>2. Len(b) \in Nat
  BY IsSeqLen
<1>3. Val(b) \in Nat
  BY <1>1, <1>2
<1>4. ASSUME Len(b) >= 1 PROVE g[1] = b[1] /\ b[1] \in Nat
  <2>1. 1 \in 1 .. Len(b) /\ 1 - 1 = 0
    BY <1>2, <1>4
  <2>2. g[1] = g[0] * 256 + b[1] /\ b[1] \in Nat
    BY ONLY <1>1, <2>1, \A i \in 1 .. Len(b) : b[i] \in Nat
  <2> QED BY ONLY <1>1, <2>2
<1>5. ASSUME Len(b) >= 2 PROVE g[2] = b[1] * 256 + b[2] /\ b[2] \in Nat
  <2>1. 2 \in 1 .. Len(b) /\ 2 - 1 = 1 /\ Len(b) >= 1
    BY <1>2, <1>5
  <2> QED BY ONLY <1>1, <1>4, <2>1, \A i \in 1 .. Len(b) : b[i] \in Nat
<1>6. ASSUME Len(b) >= 3 PROVE g[3] = (b[1] * 256 + b[2]) * 256 + b[3]
  <2>1. 3 \in 1 .. Len(b) /\ 3 - 1 = 2 /\ Len(b) >= 2
    BY <1>2, <1>6
  <2> QED BY ONLY <1>1, <1>5, <2>1
<1>7. Len(b) = 1 => Val(b) = b[1]
  BY <1>1, <1>4
<1>8. Len(b) = 2 => Val(b) = b[1] * 256 + b[2]
  BY <1>1, <1>5
<1>9. Len(b) = 3 => Val(b) = (b[1] * 256 + b[2]) * 256 + b[3]
  BY <1>1, <1>6
<1> QED BY <1>3, <1>7, <1>8, <1>9

Width == {1, 2, 3}
Limit(w) == IF w = 1 THEN 256 ELSE IF w = 2 THEN 65536 ELSE 16777216

\* The bytes of a number below the limit of its width.
LEMMA EncIs ==
  ASSUME NEW v \in Nat, NEW w \in Width
  PROVE  /\ IsSeq(Enc(v, w)) /\ Len(Enc(v, w)) = w
         /\ \A i \in 1 .. w : Enc(v, w)[i] \in Nat
<1>1. w \in Nat
  BY DEF Width
<1>2. Enc(v, w) = [i \in 1 .. w |-> Enc(v, w)[i]]
  BY DEF Enc
<1>3. ASSUME NEW i \in 1 .. w PROVE Enc(v, w)[i] \in Nat
  <2>1. Enc(v, w)[i] = (v \div 256 ^ (w - i)) % 256
    BY DEF Enc, Radix
  <2>2. w - i = 0 \/ w - i = 1 \/ w - i = 2
    BY DEF Width
  <2>3. 256 ^ 0 = 1 /\ 256 ^ 1 = 256 /\ 256 ^ 2 = 65536
    BY SMT
  <2>4. CASE w - i = 0
    <3>1. Enc(v, w)[i] = (v \div 256 ^ 0) % 256
      BY ONLY <2>1, <2>4, Zenon
    <3> QED BY ONLY <2>3, <3>1, v \in Nat, SMT
  <2>5. CASE w - i = 1
    <3>1. Enc(v, w)[i] = (v \div 256 ^ 1) % 256
      BY ONLY <2>1, <2>5, Zenon
    <3> QED BY ONLY <2>3, <3>1, v \in Nat, SMT
  <2>6. CASE w - i = 2
    <3>1. Enc(v, w)[i] = (v \div 256 ^ 2) % 256
      BY ONLY <2>1, <2>6, Zenon
    <3> QED BY ONLY <2>3, <3>1, v \in Nat, SMT
  <2> QED BY <2>2, <2>4, <2>5, <2>6
<1> HIDE DEF Width
<1> QED BY <1>1, <1>2, <1>3, IsSeqFun

\* What Enc writes, Val reads.
LEMMA ValEnc ==
  ASSUME NEW v \in Nat, NEW w \in Width, v < Limit(w)
  PROVE  Val(Enc(v, w)) = v
<1> DEFINE b == Enc(v, w)
<1>1. IsSeq(b) /\ Len(b) = w /\ \A i \in 1 .. w : b[i] \in Nat
  BY EncIs
<1>2. \A i \in 1 .. Len(b) : b[i] \in Nat
  <2> HIDE DEF b
  <2> QED BY ONLY <1>1
<1>3. /\ Len(b) = 1 => Val(b) = b[1]
      /\ Len(b) = 2 => Val(b) = b[1] * 256 + b[2]
      /\ Len(b) = 3 => Val(b) = (b[1] * 256 + b[2]) * 256 + b[3]
  <2> HIDE DEF b
  <2> QED BY ONLY <1>1, <1>2, Vals
<1>4. 256 ^ 0 = 1 /\ 256 ^ 1 = 256 /\ 256 ^ 2 = 65536
  BY SMT
<1>5. CASE w = 1
  <2>1. b[1] = (v \div 256 ^ 0) % 256
    BY <1>5 DEF Enc, Radix
  <2> HIDE DEF b
  <2>2. v < 256
    BY <1>5 DEF Limit
  <2>3. b[1] = v
    BY ONLY <1>4, <2>1, <2>2, v \in Nat, SMT
  <2> QED BY <1>1, <1>3, <1>5, <2>3 DEF b
<1>6. CASE w = 2
  <2>1. b[1] = (v \div 256 ^ 1) % 256 /\ b[2] = (v \div 256 ^ 0) % 256
    BY <1>6 DEF Enc, Radix
  <2> HIDE DEF b
  <2>2. v < 65536
    BY <1>6 DEF Limit
  <2>3. b[1] * 256 + b[2] = v
    BY ONLY <1>4, <2>1, <2>2, v \in Nat, SMT
  <2> QED BY <1>1, <1>3, <1>6, <2>3 DEF b
<1>7. CASE w = 3
  <2>1. b[1] = (v \div 256 ^ 2) % 256 /\ b[2] = (v \div 256 ^ 1) % 256 /\ b[3] = (v \div 256 ^ 0) % 256
    BY <1>7 DEF Enc, Radix
  <2> HIDE DEF b
  <2>2. v < 16777216
    BY <1>7 DEF Limit
  <2>3. (b[1] * 256 + b[2]) * 256 + b[3] = v
    BY ONLY <1>4, <2>1, <2>2, v \in Nat, SMT
  <2> QED BY <1>1, <1>3, <1>7, <2>3 DEF b
<1> QED BY <1>5, <1>6, <1>7 DEF Width

-----------------------------------------------------------------------------
(* Fields *)

\* All of a sequence.
LEMMA WholeSeq ==
  ASSUME NEW s, IsSeq(s)
  PROVE  Drop(s, 0) = s /\ SubSeq(s, 1, Len(s)) = s
<1>1. IsSeq(<<>>) /\ Len(<<>>) = 0
  BY IsSeqEmpty
<1>2. s \o <<>> = s /\ <<>> \o s = s
  BY CatEmpty
<1>3. SubSeq(s \o <<>>, 1, Len(s)) = s
  BY <1>1, CatParts
<1>4. Drop(<<>> \o s, Len(<<>>)) = s
  BY <1>1, CatParts
<1> QED BY <1>1, <1>2, <1>3, <1>4

\* A field with a length in front is read back, and what follows is left.
LEMMA ReadVar ==
  ASSUME NEW w \in Width, NEW d, NEW r, IsSeq(d), IsSeq(r), Len(d) < Limit(w)
  PROVE  ReadField(Prefixed(w, d) \o r, Var(w)) = {[value |-> d, rest |-> r]}
<1> DEFINE e == Enc(Len(d), w)
           t == d \o r
           b == Prefixed(w, d) \o r
<1>1. Len(d) \in Nat /\ Len(r) \in Nat /\ w \in Nat /\ w # 0
  BY IsSeqLen DEF Width
<1>2. IsSeq(e) /\ Len(e) = w /\ Val(e) = Len(d)
  BY <1>1, EncIs, ValEnc
<1> HIDE DEF e
<1>3. IsSeq(t) /\ Len(t) = Len(d) + Len(r)
  BY Cat
<1>4. SubSeq(t, 1, Len(d)) = d /\ Drop(t, Len(d)) = r
  BY CatParts
<1>5. b = e \o t
  BY <1>2, CatAssoc DEF Prefixed, e
<1> HIDE DEF t, b
<1>6. IsSeq(b) /\ Len(b) = w + Len(t)
  BY <1>2, <1>3, <1>5, Cat
<1>7. SubSeq(b, 1, w) = e /\ Drop(b, w) = t
  BY <1>2, <1>3, <1>5, CatParts
<1>8. Var(w).pfx = w /\ Var(w).len = 0
  BY DEF Var
<1>9. ~(Len(b) < w) /\ Len(t) >= Len(d)
  BY <1>1, <1>3, <1>6
<1>10. ReadField(b, Var(w)) =
         IF Len(b) < w THEN {} ELSE
         IF Len(t) >= Len(d) THEN {[value |-> SubSeq(t, 1, Len(d)), rest |-> Drop(t, Len(d))]} ELSE {}
  BY ONLY <1>1, <1>2, <1>7, <1>8, Zenon DEF ReadField, Check, Fail
<1> QED BY <1>4, <1>9, <1>10 DEF b

\* So is a field of fixed length.
LEMMA ReadFixed ==
  ASSUME NEW k, NEW d, NEW r, IsSeq(d), IsSeq(r), k = Len(d)
  PROVE  ReadField(d \o r, Fixed(k)) = {[value |-> d, rest |-> r]}
<1> DEFINE t == d \o r
<1>1. Len(d) \in Nat /\ Len(r) \in Nat
  BY IsSeqLen
<1>2. IsSeq(t) /\ Len(t) = Len(d) + Len(r)
  BY Cat
<1>3. SubSeq(t, 1, Len(d)) = d /\ Drop(t, Len(d)) = r
  BY CatParts
<1> HIDE DEF t
<1>4. Drop(t, 0) = t
  BY <1>2, WholeSeq
<1>5. Fixed(k).pfx = 0 /\ Fixed(k).len = Len(d)
  BY DEF Fixed
<1>6. ~(Len(t) < 0) /\ Len(t) >= Len(d)
  BY <1>1, <1>2
<1>7. ReadField(t, Fixed(k)) =
         IF Len(t) < 0 THEN {} ELSE
         IF Len(t) >= Len(d) THEN {[value |-> SubSeq(t, 1, Len(d)), rest |-> Drop(t, Len(d))]} ELSE {}
  BY ONLY <1>4, <1>5, Zenon DEF ReadField, Check, Fail
<1> QED BY <1>3, <1>6, <1>7 DEF t

\* What the next field makes of the results so far.
Further(S, field) ==
  UNION {{[f |-> Append(s.f, r.value), rest |-> r.rest] : r \in ReadField(s.rest, field)} : s \in S}

Splits(g, b, layout) ==
  g[0] = {[f |-> <<>>, rest |-> b]} /\ \A i \in 1 .. Len(layout) : g[i] = Further(g[i - 1], layout[i])

\* Split is the end of a recursion along the layout.
LEMMA SplitFollows ==
  ASSUME NEW b, NEW layout, IsSeq(layout)
  PROVE  \E g : Splits(g, b, layout) /\ Split(b, layout) = g[Len(layout)]
<1>1. PICK n \in Nat : n = Len(layout)
  BY IsSeqLen
<1> DEFINE a == {[f |-> <<>>, rest |-> b]}
           Rec(h, k) == [i \in 0 .. k |-> IF i = 0 THEN a ELSE Further(h[i - 1], layout[i])]
           S == {k \in 0 .. n : \E h : h = Rec(h, k)}
<1> HIDE DEF a
<1>2. 0 \in S
  <2> DEFINE h == [i \in 0 .. 0 |-> a]
  <2>1. h = Rec(h, 0)
    OBVIOUS
  <2> HIDE DEF h
  <2> QED BY <2>1
<1>3. ASSUME NEW k \in 1 .. n, k - 1 \in S PROVE k \in S
  <2>1. PICK h : h = Rec(h, k - 1)
    BY <1>3
  <2> DEFINE q == [i \in 0 .. k |-> IF i = k THEN Further(h[k - 1], layout[k]) ELSE h[i]]
  <2>2. ASSUME NEW i \in 0 .. k
        PROVE  q[i] = IF i = 0 THEN a ELSE Further(q[i - 1], layout[i])
    <3>1. CASE i = k
      <4>1. i # 0 /\ i - 1 \in 0 .. k /\ i - 1 # k /\ q[i] = Further(h[i - 1], layout[i])
        BY <3>1
      <4>2. q[i - 1] = h[i - 1]
        BY <4>1
      <4> QED BY ONLY <4>1, <4>2
    <3>2. CASE i # k
      <4>1. i \in 0 .. k - 1 /\ q[i] = h[i]
        BY <3>2
      <4>2. h[i] = IF i = 0 THEN a ELSE Further(h[i - 1], layout[i])
        BY ONLY <2>1, <4>1, Zenon
      <4>3. i = 0 \/ (i - 1 \in 0 .. k /\ i - 1 # k)
        BY <4>1
      <4>4. i = 0 \/ q[i - 1] = h[i - 1]
        BY <4>3
      <4> QED BY ONLY <4>1, <4>2, <4>4
    <3> QED BY <3>1, <3>2
  <2>3. q = [i \in 0 .. k |-> q[i]]
    OBVIOUS
  <2> HIDE DEF q
  <2>4. q = Rec(q, k)
    BY ONLY <2>2, <2>3, Zenon
  <2> HIDE DEF Rec
  <2> QED BY <2>4
<1>4. \E h : h = Rec(h, n)
  <2>1. n \in S
    <3> HIDE DEF S
    <3> QED BY <1>2, <1>3, UpTo
  <2> HIDE DEF Rec
  <2> QED BY <2>1
<1>5. PICK g : g = Rec(g, n) /\ Split(b, layout) = g[n]
  <2> DEFINE h == CHOOSE h : h = Rec(h, n)
  <2>1. h = Rec(h, n)
    BY <1>4
  <2>2. Split(b, layout) = h[n]
    BY <1>1 DEF Split, Further, a
  <2> HIDE DEF h
  <2> QED BY <2>1, <2>2
<1>6. g[0] = a
  BY <1>5
<1>7. ASSUME NEW i \in 1 .. n PROVE g[i] = Further(g[i - 1], layout[i])
  <2>1. i \in 0 .. n /\ i # 0
    OBVIOUS
  <2> QED BY ONLY <1>5, <2>1
<1> QED BY <1>1, <1>5, <1>6, <1>7 DEF Splits, a

\* What a layout can consist of.
Fields == {Fixed(k) : k \in Nat} \cup {Var(w) : w \in Nat}

\* An element of a sequence.
LEMMA Element ==
  ASSUME NEW V, NEW f \in Seq(V), NEW i \in 1 .. Len(f)
  PROVE  f[i] \in V
OBVIOUS

\* A part of bytes is bytes.
LEMMA SubNat ==
  ASSUME NEW b \in Seq(Nat), NEW m \in Nat, NEW n \in Nat, m >= 1, n <= Len(b)
  PROVE  SubSeq(b, m, n) \in Seq(Nat)
OBVIOUS

\* Fields of bytes are bytes.
LEMMA ReadTyped ==
  ASSUME NEW b \in Seq(Nat), NEW field \in Fields, NEW r \in ReadField(b, field)
  PROVE  r.value \in Seq(Nat) /\ r.rest \in Seq(Nat)
<1> DEFINE n    == IF field.pfx = 0 THEN field.len ELSE Val(SubSeq(b, 1, field.pfx))
           data == Drop(b, field.pfx)
<1>1. field.pfx \in Nat /\ field.len \in Nat
  BY DEF Fields, Fixed, Var
<1>2. Len(b) >= field.pfx /\ Len(data) >= n /\ r = [value |-> SubSeq(data, 1, n), rest |-> Drop(data, n)]
  <2>1. ~(Len(b) < field.pfx) /\ Len(data) >= n /\ r = [value |-> SubSeq(data, 1, n), rest |-> Drop(data, n)]
    BY DEF ReadField, Check, Fail
  <2> QED BY <1>1, <2>1
<1>3. Len(b) \in Nat /\ SubSeq(b, 1, field.pfx) \in Seq(Nat) /\ data \in Seq(Nat)
  <2>1. PICK k \in Nat : k = field.pfx
    BY <1>1
  <2>2. Len(b) \in Nat /\ k <= Len(b) /\ k + 1 \in Nat /\ k + 1 >= 1
    BY <1>2, <2>1
  <2>3. SubSeq(b, 1, k) \in Seq(Nat) /\ SubSeq(b, k + 1, Len(b)) \in Seq(Nat)
    BY <2>2, SubNat
  <2> QED BY <2>1, <2>2, <2>3 DEF Drop
<1>4. n \in Nat
  <2>1. Val(SubSeq(b, 1, field.pfx)) \in Nat
    <3>1. PICK q \in Seq(Nat) : q = SubSeq(b, 1, field.pfx)
      BY <1>3
    <3>2. IsSeq(q) /\ \A i \in 1 .. Len(q) : q[i] \in Nat
      BY DEF IsSeq
    <3> QED BY <3>1, <3>2, Vals
  <2> QED BY <1>1, <2>1
<1> HIDE DEF n, data
<1>5. SubSeq(data, 1, n) \in Seq(Nat) /\ Drop(data, n) \in Seq(Nat)
  <2>1. Len(data) \in Nat /\ n + 1 \in Nat /\ n + 1 >= 1
    BY <1>3, <1>4
  <2> QED BY <1>2, <1>3, <1>4, <2>1, SubNat DEF Drop
<1> QED BY <1>2, <1>5

\* All fields of bytes are bytes.
LEMMA SplitTyped ==
  ASSUME NEW b \in Seq(Nat), NEW layout \in Seq(Fields), NEW s \in Split(b, layout)
  PROVE  s.f \in Seq(Seq(Nat)) /\ Len(s.f) = Len(layout) /\ s.rest \in Seq(Nat)
<1>1. PICK n \in Nat : n = Len(layout)
  OBVIOUS
<1>2. PICK g : Splits(g, b, layout) /\ Split(b, layout) = g[n]
  BY <1>1, SplitFollows DEF IsSeq
<1> DEFINE Typed(r, i) == r.f \in Seq(Seq(Nat)) /\ Len(r.f) = i /\ r.rest \in Seq(Nat)
           S == {i \in 0 .. n : \A r \in g[i] : Typed(r, i)}
<1>3. 0 \in S
  <2>1. \A r \in g[0] : r = [f |-> <<>>, rest |-> b]
    BY <1>2 DEF Splits
  <2>2. \A r \in g[0] : r.f = <<>> /\ r.rest = b
    BY <2>1
  <2>3. <<>> \in Seq(Seq(Nat)) /\ Len(<<>>) = 0
    OBVIOUS
  <2>4. \A r \in g[0] : Typed(r, 0)
    BY <2>2, <2>3
  <2> HIDE DEF Typed
  <2> QED BY <2>4
<1>4. ASSUME NEW i \in 1 .. n, i - 1 \in S PROVE i \in S
  <2> SUFFICES ASSUME NEW r \in g[i] PROVE Typed(r, i)
    OBVIOUS
  <2>1. r \in Further(g[i - 1], layout[i])
    BY <1>1, <1>2 DEF Splits
  <2>2. PICK t \in g[i - 1] : \E u \in ReadField(t.rest, layout[i]) :
          r = [f |-> Append(t.f, u.value), rest |-> u.rest]
    BY <2>1 DEF Further
  <2>3. PICK u \in ReadField(t.rest, layout[i]) : r = [f |-> Append(t.f, u.value), rest |-> u.rest]
    BY <2>2
  <2>4. Typed(t, i - 1)
    BY <1>4
  <2>5. layout[i] \in Fields
    BY <1>1
  <2>6. u.value \in Seq(Nat) /\ u.rest \in Seq(Nat)
    BY <2>4, <2>5, ReadTyped
  <2>7. r.f = Append(t.f, u.value) /\ r.rest = u.rest
    BY <2>3
  <2> QED BY ONLY n \in Nat, i \in 1 .. n, <2>4, <2>6, <2>7
<1>5. n \in S
  <2>1. n \in 0 .. n
    OBVIOUS
  <2> HIDE DEF S
  <2>2. \A i \in 0 .. n : i \in S
    BY ONLY n \in Nat, <1>3, <1>4, UpTo
  <2> QED BY <2>1, <2>2
<1> QED BY <1>1, <1>2, <1>5

\* The first of two fields.
LEMMA SplitTwo ==
  ASSUME NEW b, NEW x, NEW y, NEW s \in Split(b, <<x, y>>)
  PROVE  \E r \in ReadField(b, x) : s.f[1] = r.value
<1> DEFINE L == <<x, y>>
<1>1. L \in Seq({x, y}) /\ Len(L) = 2 /\ L[1] = x /\ L[2] = y
  OBVIOUS
<1> HIDE DEF L
<1>2. PICK g : Splits(g, b, L) /\ Split(b, L) = g[2]
  BY <1>1, SplitFollows DEF IsSeq
<1>3. g[0] = {[f |-> <<>>, rest |-> b]} /\ g[1] = Further(g[0], x) /\ g[2] = Further(g[1], y)
  <2>1. 1 \in 1 .. 2 /\ 2 \in 1 .. 2 /\ 1 - 1 = 0 /\ 2 - 1 = 1
    OBVIOUS
  <2> QED BY <1>1, <1>2, <2>1 DEF Splits
<1>4. PICK t \in g[1] : \E u \in ReadField(t.rest, y) : s = [f |-> Append(t.f, u.value), rest |-> u.rest]
  <2>1. s \in Further(g[1], y)
    BY <1>2, <1>3 DEF L
  <2> QED BY <2>1 DEF Further
<1>5. PICK z \in g[0] : \E r \in ReadField(z.rest, x) : t = [f |-> Append(z.f, r.value), rest |-> r.rest]
  <2>1. t \in Further(g[0], x)
    BY <1>3
  <2> QED BY ONLY <2>1 DEF Further
<1>6. PICK r \in ReadField(b, x) : t = [f |-> Append(<<>>, r.value), rest |-> r.rest]
  <2>1. z = [f |-> <<>>, rest |-> b]
    BY <1>3, <1>5
  <2>2. z.f = <<>> /\ z.rest = b
    BY <2>1
  <2> QED BY ONLY <1>5, <2>2
<1>7. PICK v : s.f = Append(Append(<<>>, r.value), v)
  BY <1>4, <1>6
<1>8. IsSeq(<<>>) /\ Len(<<>>) = 0
  BY IsSeqEmpty
<1>9. IsSeq(Append(<<>>, r.value)) /\ Len(Append(<<>>, r.value)) = 1 /\ Append(<<>>, r.value)[1] = r.value
  <2>1. /\ IsSeq(Append(<<>>, r.value)) /\ Len(Append(<<>>, r.value)) = Len(<<>>) + 1
        /\ Append(<<>>, r.value)[Len(<<>>) + 1] = r.value
    BY ONLY <1>8, App
  <2>2. Len(<<>>) + 1 = 1
    BY <1>8
  <2> QED BY ONLY <2>1, <2>2
<1>10. Append(Append(<<>>, r.value), v)[1] = Append(<<>>, r.value)[1]
  <2>1. 1 \in 1 .. 1
    OBVIOUS
  <2> QED BY <1>9, <2>1, App
<1> QED BY <1>7, <1>9, <1>10

\* One turn of the loop over a list of structs.
Turn(S, layout) ==
  UNION {IF e.rest = <<>> THEN {e}
         ELSE {[es |-> Append(e.es, s.f), rest |-> s.rest] : s \in Split(e.rest, layout)} : e \in S}

Walks(g, b, layout) ==
  g[0] = {[es |-> <<>>, rest |-> b]} /\ \A i \in 1 .. Len(b) : g[i] = Turn(g[i - 1], layout)

\* Entries is the end of a loop of as many turns as there are bytes.
LEMMA EntriesFollows ==
  ASSUME NEW b, NEW layout, IsSeq(b)
  PROVE  \E g : Walks(g, b, layout) /\ Entries(b, layout) = {e.es : e \in g[Len(b)]}
<1>1. PICK n \in Nat : n = Len(b)
  BY IsSeqLen
<1> DEFINE a == {[es |-> <<>>, rest |-> b]}
           Rec(h, k) == [i \in 0 .. k |-> IF i = 0 THEN a ELSE Turn(h[i - 1], layout)]
           S == {k \in 0 .. n : \E h : h = Rec(h, k)}
<1> HIDE DEF a
<1>2. 0 \in S
  <2> DEFINE h == [i \in 0 .. 0 |-> a]
  <2>1. h = Rec(h, 0)
    OBVIOUS
  <2> HIDE DEF h
  <2> QED BY <2>1
<1>3. ASSUME NEW k \in 1 .. n, k - 1 \in S PROVE k \in S
  <2>1. PICK h : h = Rec(h, k - 1)
    BY <1>3
  <2> DEFINE q == [i \in 0 .. k |-> IF i = k THEN Turn(h[k - 1], layout) ELSE h[i]]
  <2>2. ASSUME NEW i \in 0 .. k
        PROVE  q[i] = IF i = 0 THEN a ELSE Turn(q[i - 1], layout)
    <3>1. CASE i = k
      <4>1. i # 0 /\ i - 1 \in 0 .. k /\ i - 1 # k /\ q[i] = Turn(h[i - 1], layout)
        BY <3>1
      <4>2. q[i - 1] = h[i - 1]
        BY <4>1
      <4> QED BY ONLY <4>1, <4>2
    <3>2. CASE i # k
      <4>1. i \in 0 .. k - 1 /\ q[i] = h[i]
        BY <3>2
      <4>2. h[i] = IF i = 0 THEN a ELSE Turn(h[i - 1], layout)
        BY ONLY <2>1, <4>1, Zenon
      <4>3. i = 0 \/ (i - 1 \in 0 .. k /\ i - 1 # k)
        BY <4>1
      <4>4. i = 0 \/ q[i - 1] = h[i - 1]
        BY <4>3
      <4> QED BY ONLY <4>1, <4>2, <4>4
    <3> QED BY <3>1, <3>2
  <2>3. q = [i \in 0 .. k |-> q[i]]
    OBVIOUS
  <2> HIDE DEF q
  <2>4. q = Rec(q, k)
    BY ONLY <2>2, <2>3, Zenon
  <2> HIDE DEF Rec
  <2> QED BY <2>4
<1>4. \E h : h = Rec(h, n)
  <2>1. n \in S
    <3> HIDE DEF S
    <3> QED BY <1>2, <1>3, UpTo
  <2> HIDE DEF Rec
  <2> QED BY <2>1
<1>5. PICK g : g = Rec(g, n) /\ Entries(b, layout) = {e.es : e \in g[n]}
  <2> DEFINE h == CHOOSE h : h = Rec(h, n)
  <2>1. h = Rec(h, n)
    BY <1>4
  <2>2. Entries(b, layout) = {e.es : e \in h[n]}
    BY <1>1 DEF Entries, Turn, a
  <2> HIDE DEF h
  <2> QED BY <2>1, <2>2
<1>6. g[0] = a
  BY <1>5
<1>7. ASSUME NEW i \in 1 .. n PROVE g[i] = Turn(g[i - 1], layout)
  <2>1. i \in 0 .. n /\ i # 0
    OBVIOUS
  <2> QED BY ONLY <1>5, <2>1
<1> QED BY <1>1, <1>5, <1>6, <1>7 DEF Walks, a

\* A list of structs is a list, of as many fields each.
LEMMA EntriesTyped ==
  ASSUME NEW b \in Seq(Nat), NEW layout \in Seq(Fields), NEW es \in Entries(b, layout)
  PROVE  es \in Seq({f \in Seq(Seq(Nat)) : Len(f) = Len(layout)})
<1>1. PICK n \in Nat : n = Len(b)
  OBVIOUS
<1>2. PICK g : Walks(g, b, layout) /\ Entries(b, layout) = {e.es : e \in g[n]}
  BY <1>1, EntriesFollows DEF IsSeq
<1> DEFINE F == {f \in Seq(Seq(Nat)) : Len(f) = Len(layout)}
           S == {i \in 0 .. n : \A e \in g[i] : e.es \in Seq(F) /\ e.rest \in Seq(Nat)}
<1>3. 0 \in S
  <2>1. \A e \in g[0] : e = [es |-> <<>>, rest |-> b]
    BY <1>2 DEF Walks
  <2>2. \A e \in g[0] : e.es = <<>> /\ e.rest = b
    BY <2>1
  <2> HIDE DEF F
  <2>3. <<>> \in Seq(F)
    OBVIOUS
  <2>4. \A e \in g[0] : e.es \in Seq(F) /\ e.rest \in Seq(Nat)
    BY ONLY b \in Seq(Nat), <2>2, <2>3, Zenon
  <2>5. 0 \in 0 .. n
    OBVIOUS
  <2> QED BY ONLY <2>4, <2>5
<1>4. ASSUME NEW i \in 1 .. n, i - 1 \in S PROVE i \in S
  <2> SUFFICES ASSUME NEW e \in g[i] PROVE e.es \in Seq(F) /\ e.rest \in Seq(Nat)
    <3> HIDE DEF F
    <3> QED OBVIOUS
  <2>1. e \in Turn(g[i - 1], layout)
    BY <1>1, <1>2 DEF Walks
  <2>2. PICK d \in g[i - 1] : e \in IF d.rest = <<>> THEN {d}
          ELSE {[es |-> Append(d.es, s.f), rest |-> s.rest] : s \in Split(d.rest, layout)}
    BY ONLY <2>1 DEF Turn
  <2>3. d.es \in Seq(F) /\ d.rest \in Seq(Nat)
    <3> HIDE DEF F
    <3> QED BY <1>4
  <2>4. CASE d.rest = <<>>
    <3> HIDE DEF F, S
    <3> QED BY <2>2, <2>3, <2>4
  <2>5. CASE d.rest # <<>>
    <3>1. PICK s \in Split(d.rest, layout) : e = [es |-> Append(d.es, s.f), rest |-> s.rest]
      BY ONLY <2>2, <2>5
    <3>2. e.es = Append(d.es, s.f) /\ e.rest = s.rest
      BY ONLY <3>1
    <3>3. s.f \in F /\ s.rest \in Seq(Nat)
      BY ONLY layout \in Seq(Fields), <2>3, <3>1, SplitTyped
    <3> HIDE DEF F, S
    <3> QED BY ONLY <2>3, <3>2, <3>3
  <2> QED BY <2>4, <2>5
<1>5. n \in S
  <2>1. n \in 0 .. n
    OBVIOUS
  <2> HIDE DEF S
  <2>2. \A i \in 0 .. n : i \in S
    BY ONLY n \in Nat, <1>3, <1>4, UpTo
  <2> QED BY <2>1, <2>2
<1> QED BY <1>2, <1>5

\* A field of bytes is bytes.
LEMMA PrefixedTyped ==
  ASSUME NEW w \in Width, NEW d \in Seq(Nat)
  PROVE  Prefixed(w, d) \in Seq(Nat)
<1>1. w \in Nat /\ Len(d) \in Nat
  BY DEF Width
<1>2. PICK e : e = Enc(Len(d), w)
  OBVIOUS
<1>3. IsSeq(e) /\ Len(e) = w /\ \A i \in 1 .. w : e[i] \in Nat
  BY <1>1, <1>2, EncIs
<1>4. e = [i \in 1 .. w |-> e[i]]
  BY ONLY <1>3, IsSeqLen
<1>5. e \in [1 .. w -> Nat]
  BY ONLY <1>3, <1>4
<1>6. e \in Seq(Nat)
  BY ONLY <1>1, <1>5
<1>7. e \o d \in Seq(Nat)
  BY ONLY d \in Seq(Nat), <1>6
<1> QED BY <1>2, <1>7 DEF Prefixed

\* A Certificate message is parsed as one, to a list.
LEMMA CertificateList ==
  ASSUME NEW body \in Seq(Nat), NEW r \in ParseMessage(<<TypeCode["Certificate"]>> \o Prefixed(3, body))
  PROVE  r.msg.RawCerts \in Seq(Seq(Nat))
<1> DEFINE d == Prefixed(3, body)
           t == <<TypeCode["Certificate"]>>
           b == t \o d
           L == <<Fixed(1), Var(3)>>
<1>1. t \in Seq(Nat) /\ IsSeq(t) /\ Len(t) = 1 /\ t[1] = 11
  BY IsSeqOne DEF TypeCode
<1>2. d \in Seq(Nat) /\ IsSeq(d)
  <2>1. d \in Seq(Nat)
    <3>1. 3 \in Width
      BY DEF Width
    <3> QED BY <3>1, PrefixedTyped
  <2> QED BY <2>1 DEF IsSeq
<1>3. b \in Seq(Nat)
  <2> HIDE DEF t, d
  <2> QED BY <1>1, <1>2
<1>4. PICK s \in Split(b, L) : \E u \in {v \in DOMAIN TypeCode : TypeCode[v] = s.f[1][1]} :
        \E m \in ParseBody(u, s.f[2]) : r = [msg |-> m, rest |-> s.rest]
  <2> HIDE DEF b
  <2>1. r \in ParseMessage(b)
    BY DEF b
  <2> QED BY <2>1 DEF ParseMessage
<1>5. L \in Seq(Fields) /\ Len(L) = 2
  BY DEF Fields
<1>6. s.f[2] \in Seq(Nat)
  <2>1. s.f \in Seq(Seq(Nat)) /\ Len(s.f) = 2
    <3> HIDE DEF L, b
    <3> QED BY <1>3, <1>5, SplitTyped
  <2> QED BY <2>1
<1>7. s.f[1] = t
  <2>1. PICK q \in ReadField(b, Fixed(1)) : s.f[1] = q.value
    <3> HIDE DEF b
    <3> QED BY SplitTwo
  <2>2. ReadField(b, Fixed(1)) = {[value |-> t, rest |-> d]}
    <3> HIDE DEF t, d
    <3> QED BY <1>1, <1>2, ReadFixed
  <2>3. q = [value |-> t, rest |-> d]
    BY ONLY <2>1, <2>2
  <2> HIDE DEF t, d
  <2> QED BY ONLY <2>1, <2>3
<1> HIDE DEF t, d, b, L
<1>8. PICK m \in ParseBody("Certificate", s.f[2]) : r = [msg |-> m, rest |-> s.rest]
  <2>1. PICK u \in DOMAIN TypeCode : TypeCode[u] = 11 /\ \E m \in ParseBody(u, s.f[2]) : r = [msg |-> m, rest |-> s.rest]
    BY <1>1, <1>4, <1>7
  <2>2. u = "Certificate"
    BY <2>1 DEF TypeCode
  <2> QED BY ONLY <2>1, <2>2
<1>9. m \in parseCertificate(s.f[2])
  BY <1>8 DEF ParseBody
<1>10. PICK z \in Split(s.f[2], <<Var(3)>>) : \E es \in Entries(z.f[1], <<Var(3)>>) :
         m = [type |-> "Certificate", RawCerts |-> [i \in DOMAIN es |-> es[i][1]]]
  BY <1>9 DEF parseCertificate
<1>11. PICK es \in Entries(z.f[1], <<Var(3)>>) :
         m = [type |-> "Certificate", RawCerts |-> [i \in DOMAIN es |-> es[i][1]]]
  BY <1>10
<1>12. <<Var(3)>> \in Seq(Fields) /\ Len(<<Var(3)>>) = 1
  BY DEF Fields
<1>13. z.f[1] \in Seq(Nat)
  <2>1. z.f \in Seq(Seq(Nat)) /\ Len(z.f) = 1
    BY ONLY <1>6, <1>10, <1>12, SplitTyped
  <2> QED BY <2>1
<1>14. es \in Seq({f \in Seq(Seq(Nat)) : Len(f) = 1})
  BY ONLY <1>11, <1>12, <1>13, EntriesTyped
<1>15. r.msg.RawCerts = [i \in DOMAIN es |-> es[i][1]]
  BY <1>8, <1>11
<1>16. Len(es) \in Nat /\ DOMAIN es = 1 .. Len(es) /\ \A i \in 1 .. Len(es) : es[i][1] \in Seq(Nat)
  <2>1. \A i \in 1 .. Len(es) : es[i] \in Seq(Seq(Nat)) /\ Len(es[i]) = 1
    BY <1>14
  <2>2. ASSUME NEW f, f \in Seq(Seq(Nat)), Len(f) = 1 PROVE f[1] \in Seq(Nat)
    <3>1. PICK V : V = Seq(Nat)
      OBVIOUS
    <3>2. f \in Seq(V) /\ Len(f) = 1
      BY ONLY f \in Seq(Seq(Nat)), Len(f) = 1, <3>1, Zenon
    <3>3. f[1] \in V
      <4>1. 1 \in 1 .. Len(f)
        BY ONLY <3>2
      <4> QED BY ONLY <3>2, <4>1, Element
    <3> QED BY ONLY <3>1, <3>3
  <2>3. Len(es) \in Nat /\ DOMAIN es = 1 .. Len(es)
    BY ONLY <1>14
  <2> QED BY ONLY <2>1, <2>2, <2>3
<1>17. PICK n \in Nat : n = Len(es)
  BY <1>16
<1>18. r.msg.RawCerts \in [1 .. n -> Seq(Nat)]
  BY ONLY <1>15, <1>16, <1>17
<1> QED BY ONLY n \in Nat, <1>18

\* Lists of bytes, one after the other, are bytes.
LEMMA ConcatTyped ==
  ASSUME NEW ss \in Seq(Seq(Nat))
  PROVE  Concat(ss) \in Seq(Nat)
<1>1. PICK n \in Nat : n = Len(ss)
  OBVIOUS
<1> DEFINE V == Seq(Nat)
           step == [i \in 1 .. n |-> [v \in V |-> v \o ss[i]]]
           Rec(h) == [i \in 0 .. n |-> IF i = 0 THEN <<>> ELSE h[i - 1] \o ss[i]]
<1>2. <<>> \in V /\ \A i \in 1 .. n : step[i] \in [V -> V]
  <2>1. \A i \in 1 .. n : ss[i] \in Seq(Nat)
    BY <1>1
  <2> QED BY <2>1
<1>3. PICK f \in [0 .. n -> V] : Follows(f, n, <<>>, step)
  <2> HIDE DEF V, step
  <2> QED BY <1>2, Recursion
<1>4. ASSUME NEW i \in 1 .. n PROVE f[i] = f[i - 1] \o ss[i]
  <2>1. f[i] = step[i][f[i - 1]] /\ f[i - 1] \in V
    <3> HIDE DEF V, step
    <3> QED BY <1>3 DEF Follows
  <2> HIDE DEF V
  <2> QED BY <2>1
<1>5. f = Rec(f)
  <2>1. f = [i \in 0 .. n |-> f[i]] /\ f[0] = <<>>
    BY <1>3 DEF Follows
  <2>2. \A i \in 0 .. n : i = 0 \/ i \in 1 .. n
    OBVIOUS
  <2> HIDE DEF V, step
  <2> QED BY ONLY <1>4, <2>1, <2>2, Zenon
<1>6. PICK g : g = Rec(g) /\ Concat(ss) = g[n]
  <2> DEFINE h == CHOOSE h : h = Rec(h)
  <2>1. h = Rec(h)
    BY <1>5
  <2>2. Concat(ss) = h[n]
    BY <1>1 DEF Concat
  <2> HIDE DEF h
  <2> QED BY <2>1, <2>2
<1> HIDE DEF step
<1> DEFINE S == {i \in 0 .. n : g[i] \in V}
<1>7. 0 \in S
  <2>1. g[0] = <<>>
    BY <1>6
  <2> HIDE DEF V
  <2> QED BY <1>2, <2>1
<1>8. ASSUME NEW i \in 1 .. n, i - 1 \in S PROVE i \in S
  <2>1. i \in 0 .. n /\ i # 0
    OBVIOUS
  <2>2. g[i] = g[i - 1] \o ss[i]
    BY ONLY <1>6, <2>1
  <2>3. g[i - 1] \in Seq(Nat) /\ ss[i] \in Seq(Nat)
    BY <1>1, <1>8
  <2>4. g[i] \in Seq(Nat)
    BY ONLY <2>2, <2>3
  <2> QED BY <2>1, <2>4
<1>9. \A i \in 0 .. n : i \in S
  <2> HIDE DEF S
  <2> QED BY ONLY n \in Nat, <1>7, <1>8, UpTo
<1> QED BY <1>6, <1>9
=============================================================================
