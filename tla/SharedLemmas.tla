--------------------------- MODULE SharedLemmas ---------------------------
(***************************************************************************)
(* Induction and recursion over the numbers of an interval, in the form    *)
(* the other proofs cite: a property is a set of numbers, and what a round *)
(* of a loop does is a function, for no prover here instantiates a theorem *)
(* about an operator.  And what the flattening of a sequence of sequences  *)
(* is, which the library defines by a recursive function.                  *)
(***************************************************************************)
EXTENDS Integers, Sequences, SequencesExt, SequenceTheorems, WellFoundedInduction, TLAPS

(* A set of numbers has a least one.                                       *)
LEMMA LeastNumber ==
    ASSUME NEW T, T \subseteq Nat, T # {}
    PROVE  \E x \in T : \A y \in T : x <= y
<1> DEFINE R == OpToRel(<, Nat)
<1>1. \A x, y \in Nat : x < y => <<x, y>> \in R
  BY DEF OpToRel
<1>2. IsWellFoundedOn(R, Nat)
  BY NatLessThanWellFounded
<1> HIDE DEF R
<1>3. PICK x \in T : \A y \in T : ~(<<y, x>> \in R)
  BY <1>2, WFMin
<1>4. \A y \in T : ~(y < x)
  BY <1>1, <1>3
<1> QED
  BY <1>4

(* What holds at 0 and of the next number holds up to m.                   *)
LEMMA Induction ==
    ASSUME NEW m \in Nat, NEW T, 0 \in T,
           \A n \in 0 .. m : n # m /\ n \in T => n + 1 \in T
    PROVE  \A n \in 0 .. m : n \in T
<1> SUFFICES ASSUME NEW k \in 0 .. m, k \notin T PROVE FALSE
  OBVIOUS
<1> DEFINE U == {n \in 0 .. m : n \notin T}
<1>1. U \subseteq Nat /\ U # {}
  OBVIOUS
<1>2. PICK x \in U : \A y \in U : x <= y
  BY <1>1, LeastNumber
<1>3. x # 0 /\ x \in Nat /\ x <= m /\ x \notin T
  BY <1>2
<1>4. PICK y \in Nat : y + 1 = x
  BY <1>3
<1>5. y \in 0 .. m /\ y # m /\ ~(x <= y)
  BY <1>3, <1>4
<1>6. y \in T
  BY <1>2, <1>5
<1> QED
  BY <1>3, <1>4, <1>5, <1>6

(* A loop: where F says what round n makes of what it finds.               *)
Iterates(f, x, F, m) == f[0] = x /\ \A n \in 1 .. m : f[n] = F[<<n, f[n - 1]>>]

(* A loop that stays in S has its values.                                  *)
LEMMA Recursion ==
    ASSUME NEW m \in Nat, NEW S, NEW x \in S, NEW F,
           \A n \in 1 .. m : \A v \in S : F[<<n, v>>] \in S
    PROVE  \E f \in [0 .. m -> S] : Iterates(f, x, F, m)
<1> DEFINE T == {n \in 0 .. m : \E f \in [0 .. n -> S] : Iterates(f, x, F, n)}
<1>1. 0 \in T
  <2>1. [n \in 0 .. 0 |-> x] \in [0 .. 0 -> S] /\ Iterates([n \in 0 .. 0 |-> x], x, F, 0)
    BY DEF Iterates
  <2> QED
    BY <2>1
<1>2. ASSUME NEW n \in 0 .. m, n # m, n \in T PROVE n + 1 \in T
  <2>1. PICK f \in [0 .. n -> S] : Iterates(f, x, F, n)
    BY <1>2
  <2>2. PICK k \in 1 .. m : k = n + 1
    BY <1>2
  <2>3. F[<<k, f[n]>>] \in S
    OBVIOUS
  <2>4. PICK g : g = [i \in 0 .. k |-> IF i = k THEN F[<<k, f[n]>>] ELSE f[i]]
    OBVIOUS
  <2>5. g \in [0 .. k -> S]
    BY <2>2, <2>3, <2>4
  <2>6. g[0] = x /\ g[k] = F[<<k, f[n]>>] /\ \A i \in 0 .. n : g[i] = f[i]
    BY <2>1, <2>2, <2>4 DEF Iterates
  <2>7. ASSUME NEW i \in 1 .. k PROVE g[i] = F[<<i, g[i - 1]>>]
    <3>1. CASE i = k
      <4>1. i - 1 = n /\ n \in 0 .. n
        BY <2>2, <3>1
      <4> QED
        BY <2>6, <3>1, <4>1
    <3>2. CASE i # k
      <4>1. i \in 1 .. n /\ i \in 0 .. n /\ i - 1 \in 0 .. n
        BY <2>2, <3>2
      <4> QED
        BY <2>1, <2>6, <4>1 DEF Iterates
    <3> QED
      BY <3>1, <3>2
  <2>8. Iterates(g, x, F, k)
    BY <2>6, <2>7 DEF Iterates
  <2> QED
    BY <2>2, <2>5, <2>8
<1> HIDE DEF T
<1>3. \A n \in 0 .. m : n \in T
  BY <1>1, <1>2, Induction
<1> QED
  BY <1>3 DEF T

-----------------------------------------------------------------------------
(* Concatenation associates.                                               *)
Associates(a, b, c) == (a \o b) \o c = a \o (b \o c)

LEMMA Regrouping ==
    ASSUME NEW S, NEW a \in Seq(S), NEW b \in Seq(S), NEW c \in Seq(S)
    PROVE  Associates(a, b, c)
<1> SUFFICES (a \o b) \o c = a \o (b \o c)
  BY DEF Associates
<1> QED
  BY SMTT(40), ConcatAssociative

-----------------------------------------------------------------------------
(* Sequences of sequences, end to end.                                     *)

AreLists(ss, S, m) ==
    m \in Nat /\ Len(ss) = m /\ DOMAIN ss = 1 .. m /\ \A n \in 1 .. m : ss[n] \in Seq(S)

Joins(f, ss, m) == f[0] = << >> /\ \A n \in 1 .. m : f[n] = f[n - 1] \o ss[n]

LEMMA SameJoins ==
    ASSUME NEW m \in Nat, NEW f, NEW g, NEW r, NEW s, Joins(f, r, m), Joins(g, s, m),
           \A n \in 1 .. m : r[n] = s[n]
    PROVE  \A n \in 0 .. m : f[n] = g[n]
<1> DEFINE T == {n \in 0 .. m : f[n] = g[n]}
<1>1. 0 \in T
  BY DEF Joins
<1>2. ASSUME NEW n \in 0 .. m, n # m, n \in T PROVE n + 1 \in T
  <2>1. PICK k \in 1 .. m : k = n + 1
    BY <1>2
  <2>2. k - 1 = n
    BY <2>1
  <2>3. f[k] = f[k - 1] \o r[k] /\ g[k] = g[k - 1] \o s[k] /\ r[k] = s[k]
    BY Zenon DEF Joins
  <2>4. f[k] = g[k]
    BY <1>2, <2>2, <2>3
  <2> QED
    BY <2>1, <2>4
<1> HIDE DEF T
<1>3. \A n \in 0 .. m : n \in T
  BY <1>1, <1>2, Induction
<1> QED
  BY <1>3 DEF T

LEMMA FlattenJoins ==
    ASSUME NEW S, NEW ss, NEW m, AreLists(ss, S, m)
    PROVE  \E f \in [0 .. m -> Seq(S)] : Joins(f, ss, m) /\ FlattenSeq(ss) = f[m]
<1>0. PICK Q : Q = Seq(S)
  OBVIOUS
<1> DEFINE F == [p \in (1 .. m) \X Q |-> p[2] \o ss[p[1]]]
<1>1. m \in Nat /\ Len(ss) = m /\ \A n \in 1 .. m : ss[n] \in Q
  BY <1>0 DEF AreLists
<1>2. << >> \in Q /\ \A u, v \in Q : u \o v \in Q /\ << >> \o v = v
  BY <1>0, ConcatProperties, ConcatEmptySeq, EmptySeq
<1>3. \A n \in 1 .. m : \A v \in Q : F[<<n, v>>] = v \o ss[n] /\ F[<<n, v>>] \in Q
  BY <1>1, <1>2
<1> HIDE DEF F
<1>4. \A n \in 1 .. m : \A v \in Q : F[<<n, v>>] \in Q
  BY <1>3
<1>5. PICK f \in [0 .. m -> Q] : Iterates(f, << >>, F, m)
  BY <1>1, <1>2, <1>4, Recursion
<1>6. ASSUME NEW n \in 1 .. m PROVE f[n - 1] \in Q /\ f[n] = f[n - 1] \o ss[n]
  <2>1. f[n - 1] \in Q
    BY <1>1, <1>5
  <2> QED
    BY <1>3, <1>5, <2>1 DEF Iterates
<1>7. f[0] = << >>
  BY <1>5 DEF Iterates
<1>8. Joins(f, ss, m)
  BY <1>6, <1>7 DEF Joins
<1>9. CASE m = 0
  <2>1. FlattenSeq(ss) = ss /\ ss = << >>
    BY <1>1, <1>9 DEF FlattenSeq, AreLists
  <2> QED
    BY <1>0, <1>5, <1>7, <1>8, <1>9, <2>1
<1>10. CASE m # 0
  <2> DEFINE Is(h) == h = [n \in 1 .. m |-> IF n = 1 THEN ss[n] ELSE h[n - 1] \o ss[n]]
  <2>1. PICK c : c = [n \in 1 .. m |-> f[n]]
    OBVIOUS
  <2>2. ASSUME NEW n \in 1 .. m PROVE c[n] = IF n = 1 THEN ss[n] ELSE c[n - 1] \o ss[n]
    <3>1. CASE n = 1
      <4>1. n - 1 = 0
        BY <3>1
      <4>2. f[n] = f[n - 1] \o ss[n]
        BY <1>6
      <4> QED
        BY <1>1, <1>2, <1>7, <2>1, <3>1, <4>1, <4>2
    <3>2. CASE n # 1
      <4>1. n - 1 \in 1 .. m
        BY <1>1, <3>2
      <4> QED
        BY <1>6, <2>1, <3>2, <4>1
    <3> QED
      BY <3>1, <3>2
  <2>3. Is(c)
    BY <2>1, <2>2
  <2>4. PICK g : g = (CHOOSE h : Is(h)) /\ Is(g)
    BY ZenonT(60), <2>3
  <2>5. FlattenSeq(ss) = g[m]
    BY <1>1, <1>10, <2>4 DEF FlattenSeq
  <2>6. \A n \in 1 .. m : g[n] = IF n = 1 THEN ss[n] ELSE g[n - 1] \o ss[n]
    BY Zenon, <2>4
  <2>7. PICK e : e = [n \in 0 .. m |-> IF n = 0 THEN << >> ELSE g[n]]
    OBVIOUS
  <2>8. ASSUME NEW n \in 1 .. m PROVE e[n] = e[n - 1] \o ss[n]
    <3>1. CASE n = 1
      <4>1. e[n] = ss[n] /\ e[0] = << >> /\ n - 1 = 0
        BY <1>1, <2>6, <2>7, <3>1
      <4> QED
        BY <1>1, <1>2, <4>1
    <3>2. CASE n # 1
      <4>1. n - 1 \in 1 .. m /\ n - 1 \in 0 .. m /\ n \in 0 .. m /\ n # 0 /\ n - 1 # 0
        BY <1>1, <3>2
      <4>2. e[n] = g[n] /\ e[n - 1] = g[n - 1]
        BY <2>7, <4>1
      <4> QED
        BY <2>6, <3>2, <4>2
    <3> QED
      BY <3>1, <3>2
  <2>11. 0 \in 0 .. m /\ m \in 0 .. m
    BY <1>1
  <2>12. e[0] = << >> /\ e[m] = g[m]
    BY <1>10, <2>7, <2>11
  <2>9. Joins(e, ss, m) /\ e[m] = g[m]
    BY <2>8, <2>12 DEF Joins
  <2>10. e[m] = f[m]
    BY <1>1, <1>8, <2>9, SameJoins
  <2> QED
    BY <1>0, <1>5, <1>8, <2>5, <2>9, <2>10
<1> QED
  BY <1>9, <1>10

LEMMA FlattenTyped ==
    ASSUME NEW S, NEW ss, NEW m, AreLists(ss, S, m)
    PROVE  FlattenSeq(ss) \in Seq(S)
<1>1. PICK f \in [0 .. m -> Seq(S)] : FlattenSeq(ss) = f[m]
  BY FlattenJoins
<1>2. m \in 0 .. m
  BY DEF AreLists
<1> QED
  BY <1>1, <1>2

LEMMA FlattenEmpty ==
    ASSUME NEW S, NEW ss, AreLists(ss, S, 0)
    PROVE  FlattenSeq(ss) = << >>
<1>1. PICK f \in [0 .. 0 -> Seq(S)] : Joins(f, ss, 0) /\ FlattenSeq(ss) = f[0]
  BY FlattenJoins
<1> QED
  BY <1>1 DEF Joins

(* Two sequences, and one that goes on as the second where the first ends. *)
Continues(t, r, s, S, m, k) ==
    /\ AreLists(r, S, m) /\ AreLists(s, S, k) /\ AreLists(t, S, m + k)
    /\ \A n \in 1 .. m : t[n] = r[n]
    /\ \A n \in 1 .. k : t[m + n] = s[n]

LEMMA FlattenConcat ==
    ASSUME NEW S, NEW r, NEW s, NEW t, NEW m, NEW k, Continues(t, r, s, S, m, k)
    PROVE  FlattenSeq(t) = FlattenSeq(r) \o FlattenSeq(s)
<1>0. PICK Q : Q = Seq(S)
  OBVIOUS
<1>1. /\ m \in Nat /\ k \in Nat
      /\ \A n \in 1 .. m : t[n] = r[n]
      /\ \A n \in 1 .. k : t[m + n] = s[n] /\ s[n] \in Q
  BY <1>0 DEF Continues, AreLists
<1>2. PICK l \in Nat : l = m + k
  BY <1>1
<1>13. AreLists(r, S, m) /\ AreLists(s, S, k) /\ AreLists(t, S, l)
  BY <1>2 DEF Continues
<1>14. \E f \in [0 .. m -> Seq(S)] : Joins(f, r, m) /\ FlattenSeq(r) = f[m]
  BY <1>13, FlattenJoins
<1>15. \E g \in [0 .. k -> Seq(S)] : Joins(g, s, k) /\ FlattenSeq(s) = g[k]
  BY <1>13, FlattenJoins
<1>16. \E h \in [0 .. l -> Seq(S)] : Joins(h, t, l) /\ FlattenSeq(t) = h[l]
  BY <1>13, FlattenJoins
<1>3. PICK f \in [0 .. m -> Q] : Joins(f, r, m) /\ FlattenSeq(r) = f[m]
  BY <1>0, <1>14
<1>4. PICK g \in [0 .. k -> Q] : Joins(g, s, k) /\ FlattenSeq(s) = g[k]
  BY <1>0, <1>15
<1>5. PICK h \in [0 .. l -> Q] : Joins(h, t, l) /\ FlattenSeq(t) = h[l]
  BY <1>0, <1>16
<1>6. Joins(h, t, m)
  <2>1. \A n \in 1 .. m : n \in 1 .. l
    BY <1>1, <1>2
  <2> QED
    BY <1>5, <2>1 DEF Joins
<1>7. h[m] = f[m] /\ f[m] \in Q
  <2>1. m \in 0 .. m
    BY <1>1
  <2> QED
    BY <1>1, <1>3, <1>6, <2>1, SameJoins
<1> DEFINE T == {n \in 0 .. k : h[m + n] = h[m] \o g[n]}
<1>8. 0 \in T
  <2>1. g[0] = << >> /\ m + 0 = m /\ 0 \in 0 .. k
    BY <1>1, <1>4 DEF Joins
  <2>2. h[m] \o << >> = h[m]
    BY <1>0, <1>7, ConcatEmptySeq
  <2> QED
    BY <2>1, <2>2
<1>9. ASSUME NEW n \in 0 .. k, n # k, n \in T PROVE n + 1 \in T
  <2>1. PICK j \in 1 .. k : j = n + 1
    BY <1>1, <1>9
  <2>2. PICK i \in 1 .. l : i = m + j
    BY <1>1, <1>2
  <2>3. j - 1 = n /\ i - 1 = m + n
    BY <1>1, <2>1, <2>2
  <2>4. h[i] = h[i - 1] \o t[i]
    BY <1>5 DEF Joins
  <2>5. g[j] = g[j - 1] \o s[j]
    BY <1>4 DEF Joins
  <2>6. t[i] = s[j] /\ s[j] \in Q /\ g[n] \in Q
    BY <1>1, <1>4, <2>2
  <2>7. h[i] = (h[m] \o g[n]) \o s[j]
    BY <1>9, <2>3, <2>4, <2>6
  <2>8. h[m] \in Seq(S) /\ g[n] \in Seq(S) /\ s[j] \in Seq(S)
    BY <1>0, <1>7, <2>6
  <2>9. (h[m] \o g[n]) \o s[j] = h[m] \o (g[n] \o s[j])
    <3>1. PICK a, b, c : a = h[m] /\ b = g[n] /\ c = s[j]
      OBVIOUS
    <3>2. a \in Seq(S) /\ b \in Seq(S) /\ c \in Seq(S)
      BY <2>8, <3>1
    <3>3. (a \o b) \o c = a \o (b \o c)
      <4>1. Associates(a, b, c)
        BY <3>2, Regrouping
      <4> QED
        BY <4>1 DEF Associates
    <3> QED
      BY <3>1, <3>3
  <2>10. h[m + j] = h[m] \o g[j]
    BY <2>2, <2>3, <2>5, <2>7, <2>9
  <2>11. j \in 0 .. k
    BY <1>1
  <2> QED
    BY <2>1, <2>10, <2>11
<1> HIDE DEF T
<1>10. \A n \in 0 .. k : n \in T
  BY <1>1, <1>8, <1>9, Induction
<1>11. k \in T
  BY <1>1, <1>10
<1>12. h[l] = h[m] \o g[k]
  BY <1>2, <1>11 DEF T
<1> QED
  BY <1>3, <1>4, <1>5, <1>7, <1>12

-----------------------------------------------------------------------------
(* The end of a sequence.                                                  *)

LEMMA FrontLast ==
    ASSUME NEW S, NEW s \in Seq(S), s # << >>
    PROVE  /\ Front(s) \in Seq(S) /\ Len(Front(s)) = Len(s) - 1
           /\ \A i \in 1 .. Len(s) - 1 : Front(s)[i] = s[i]
           /\ Last(s) \in S /\ Last(s) = s[Len(s)]
           /\ Len(s) \in Nat /\ Len(s) >= 1
<1>1. PICK m \in Nat : m = Len(s) /\ m >= 1
  OBVIOUS
<1>2. PICK n \in Nat : n = m - 1
  BY <1>1
<1>3. \A i \in 1 .. n : s[i] \in S
  BY <1>1, <1>2
<1>4. /\ SubSeq(s, 1, n) \in Seq(S)
      /\ Len(SubSeq(s, 1, n)) = IF 1 <= n THEN n - 1 + 1 ELSE 0
      /\ \A i \in 1 .. n - 1 + 1 : SubSeq(s, 1, n)[i] = s[1 + i - 1]
  BY <1>3, SubSeqProperties
<1>5. Front(s) = SubSeq(s, 1, n)
  BY <1>1, <1>2 DEF Front
<1>6. Len(SubSeq(s, 1, n)) = n /\ \A i \in 1 .. n : SubSeq(s, 1, n)[i] = s[i]
  BY <1>2, <1>4
<1> QED
  BY <1>1, <1>2, <1>4, <1>5, <1>6 DEF Last

LEMMA FrontAndLast ==
    ASSUME NEW S, NEW s \in Seq(S), s # << >>
    PROVE  s = Front(s) \o <<Last(s)>>
<1>1. PICK p \in Seq(S), x \in S : p = Front(s) /\ x = Last(s)
  BY FrontLast
<1>2. Len(p) = Len(s) - 1 /\ (\A i \in 1 .. Len(s) - 1 : p[i] = s[i]) /\ x = s[Len(s)]
  BY <1>1, FrontLast
<1> QED
  BY <1>1, <1>2

IsConcat(c, a, b) == c = a \o b

(* What is appended to a sequence has its end.                             *)
LEMMA EndOfConcat ==
    ASSUME NEW S, NEW p \in Seq(S), NEW s \in Seq(S), s # << >>, NEW t, IsConcat(t, p, s)
    PROVE  /\ t \in Seq(S) /\ t # << >> /\ Last(t) = Last(s)
           /\ IsConcat(Front(t), p, Front(s))
<1> USE DEF IsConcat
<1>1. t \in Seq(S) /\ Len(t) = Len(p) + Len(s) /\ t # << >> /\ t[Len(t)] = s[Len(s)]
  BY SMTT(40), ConcatProperties
<1>2. PICK f \in Seq(S) : f = Front(s) /\ Len(f) = Len(s) - 1
  BY FrontLast
<1>3. \A i \in 1 .. Len(s) - 1 : f[i] = s[i]
  BY <1>2, FrontLast
<1>4. PICK g \in Seq(S) : g = Front(t) /\ Len(g) = Len(t) - 1
  BY <1>1, FrontLast
<1>5. \A i \in 1 .. Len(t) - 1 : g[i] = t[i]
  BY <1>1, <1>4, FrontLast
<1>6. g = p \o f
  <2>1. PICK q \in Seq(S) : q = p \o f
    BY ConcatProperties
  <2>2. Len(q) = Len(p) + Len(f)
    BY <2>1, ConcatProperties
  <2>3. \A i \in 1 .. Len(q) : q[i] = IF i <= Len(p) THEN p[i] ELSE f[i - Len(p)]
    BY <2>1, <2>2, ConcatProperties
  <2>4. \A i \in 1 .. Len(t) : t[i] = IF i <= Len(p) THEN p[i] ELSE s[i - Len(p)]
    BY <1>1, ConcatProperties
  <2>5. Len(g) = Len(q)
    BY <1>1, <1>2, <1>4, <2>2
  <2>6. ASSUME NEW i \in 1 .. Len(g) PROVE g[i] = q[i]
    <3>1. i \in 1 .. Len(t) - 1 /\ i \in 1 .. Len(t) /\ i \in 1 .. Len(q)
      BY <1>1, <1>4, <2>5
    <3>2. CASE i <= Len(p)
      BY <1>5, <2>3, <2>4, <3>1, <3>2
    <3>3. CASE i > Len(p)
      <4>1. PICK j \in 1 .. Len(s) - 1 : j = i - Len(p)
        <5>1. PICK k, m \in Nat : k = Len(p) /\ m = Len(s)
          OBVIOUS
        <5>2. i \in Nat /\ i > k /\ i <= k + m - 1
          BY <1>1, <3>1, <3>3, <5>1
        <5>3. i - k \in 1 .. m - 1
          BY <5>1, <5>2
        <5> QED
          BY <5>1, <5>3
      <4>2. q[i] = f[j] /\ t[i] = s[j]
        BY <2>3, <2>4, <3>1, <3>3, <4>1
      <4> QED
        BY <1>3, <1>5, <3>1, <4>2
    <3> QED
      BY <3>1, <3>2, <3>3
  <2> QED
    BY <1>4, <2>1, <2>5, <2>6, SeqEqual
<1>7. Last(t) = Last(s)
  BY <1>1 DEF Last
<1> QED
  BY <1>1, <1>2, <1>4, <1>6, <1>7

-----------------------------------------------------------------------------
(* The lesser of two, the least of all, and a division rounded up.         *)

LEMMA OfTwo ==
    ASSUME NEW a \in Int, NEW b \in Int
    PROVE  /\ Min({a, b}) = IF a <= b THEN a ELSE b
           /\ Max({a, b}) = IF a <= b THEN b ELSE a
<1>1. Min({a, b}) \in {a, b} /\ \A y \in {a, b} : Min({a, b}) <= y
  <2>1. \E x \in {a, b} : \A y \in {a, b} : x <= y
    OBVIOUS
  <2> QED
    BY <2>1 DEF Min
<1>2. Max({a, b}) \in {a, b} /\ \A y \in {a, b} : Max({a, b}) >= y
  <2>1. \E x \in {a, b} : \A y \in {a, b} : x >= y
    OBVIOUS
  <2> QED
    BY <2>1 DEF Max
<1> QED
  BY <1>1, <1>2

LEMMA Least ==
    ASSUME NEW T, T \subseteq Nat, T # {}
    PROVE  Min(T) \in T /\ \A y \in T : Min(T) <= y
<1>1. \E x \in T : \A y \in T : x <= y
  BY LeastNumber
<1> QED
  BY <1>1 DEF Min

(* a things in n groups of B, of which the last is not empty.              *)
Cut(B, a, n) ==
    /\ n \in Nat /\ n >= 1 /\ n * B \in Nat /\ (n - 1) * B \in Nat
    /\ n * B = (n - 1) * B + B
    /\ (n - 1) * B < a /\ a <= n * B

LEMMA CutInGroups ==
    ASSUME NEW B \in Nat, B >= 1, NEW a \in Nat, a >= 1
    PROVE  Cut(B, a, (a + B - 1) \div B)
<1>1. B >= 1
  OBVIOUS
<1>2. PICK x \in Nat : x = a + B - 1
  <2>1. a + B - 1 \in Nat
    BY <1>1
  <2> QED
    BY <2>1
<1>3. x \div B \in Nat /\ (x \div B) * B <= x /\ x < (x \div B) * B + B
  BY SMTT(40), <1>1
<1>4. PICK n \in Nat : n = x \div B
  BY <1>3
<1>5. PICK y \in Nat : y = n * B
  BY <1>4
<1>6. y <= x /\ x < y + B
  BY <1>3, <1>4, <1>5
<1>7. n >= 1
  <2>1. CASE n = 0
    <3>1. y = 0
      BY <1>1, <1>5, <2>1
    <3> QED
      BY <1>1, <1>2, <1>6, <3>1
  <2> QED
    BY <1>4, <2>1
<1>8. (n - 1) * B = y - B
  BY <1>1, <1>4, <1>5
<1>9. y - B < a /\ a <= y
  BY <1>1, <1>2, <1>6
<1>10. y - B \in Nat
  <2>1. PICK k \in Nat : k = n - 1
    BY <1>4, <1>7
  <2>2. k * B \in Nat
    BY <2>1
  <2> QED
    BY <1>8, <2>1, <2>2
<1>11. (a + B - 1) \div B = n
  BY <1>1, <1>2, <1>4
<1>12. y = (y - B) + B
  BY <1>1, <1>5
<1> QED
  BY <1>1, <1>4, <1>5, <1>7, <1>8, <1>9, <1>10, <1>11, <1>12 DEF Cut

(* P holds the ends of the groups.                                         *)
CutAt(B, P, m, n) ==
    /\ P \in [0 .. n -> 0 .. m] /\ P[0] = 0 /\ P[n] = m
    /\ \A i \in 1 .. n :
        /\ P[i - 1] = (i - 1) * B /\ P[i] = Min({i * B, m})
        /\ P[i - 1] < P[i] /\ P[i] <= P[i - 1] + B

LEMMA CutPoints ==
    ASSUME NEW B \in Nat, B >= 1, NEW m \in Nat, m >= 1, NEW n, Cut(B, m, n)
    PROVE  \E P : CutAt(B, P, m, n)
<1>1. B >= 1
  OBVIOUS
<1>2. /\ n \in Nat /\ n >= 1 /\ n * B = (n - 1) * B + B
      /\ (n - 1) * B < m /\ m <= n * B /\ n * B \in Nat /\ (n - 1) * B \in Nat
  BY <1>1 DEF Cut
<1>3. ASSUME NEW i \in 0 .. n PROVE i * B \in Nat /\ (i + 1) * B = i * B + B
  BY <1>1
<1>4. ASSUME NEW i \in 0 .. n, i < n PROVE i * B <= (n - 1) * B
  <2>1. PICK d \in Nat : n - 1 = i + d
    BY <1>2, <1>4
  <2>2. (i + d) * B = i * B + d * B /\ d * B \in Nat
    BY <1>1
  <2> QED
    BY <1>3, <2>1, <2>2
<1>5. PICK P : P = [i \in 0 .. n |-> IF i = n THEN m ELSE i * B]
  OBVIOUS
<1>6. \A i \in 0 .. n : i < n => P[i] = i * B /\ P[i] \in Nat /\ P[i] < m
  BY <1>2, <1>3, <1>4, <1>5
<1>7. P[n] = m /\ P \in [0 .. n -> 0 .. m]
  BY <1>2, <1>5, <1>6
<1>8. P[0] = 0
  BY <1>1, <1>2, <1>6
<1>9. ASSUME NEW i \in 1 .. n
      PROVE /\ P[i - 1] = (i - 1) * B /\ P[i] = Min({i * B, m})
            /\ P[i - 1] < P[i] /\ P[i] <= P[i - 1] + B
  <2>1. PICK j \in 0 .. n : j = i - 1 /\ j < n
    BY <1>2
  <2>2. PICK x, y \in Nat : x = j * B /\ y = i * B
    BY <1>3, <2>1
  <2>3. y = x + B /\ P[j] = x /\ x < m
    <3>1. j + 1 = i
      BY <2>1
    <3> QED
      BY <1>3, <1>6, <2>1, <2>2, <3>1
  <2>4. P[i] = IF y <= m THEN y ELSE m
    <3>1. CASE i = n
      BY <1>2, <1>7, <2>2, <3>1
    <3>2. CASE i # n
      <4>1. i \in 0 .. n /\ i < n
        BY <1>2, <3>2
      <4> QED
        BY <1>6, <2>2, <4>1
    <3> QED
      BY <3>1, <3>2
  <2>5. Min({y, m}) = IF y <= m THEN y ELSE m
    BY OfTwo
  <2> QED
    BY <1>1, <2>1, <2>2, <2>3, <2>4, <2>5
<1> QED
  BY <1>1, <1>7, <1>8, <1>9 DEF CutAt

=============================================================================
