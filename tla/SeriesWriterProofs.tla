------------------------- MODULE SeriesWriterProofs -------------------------
(***************************************************************************)
(* Proofs about SeriesWriter: for any names, batches, page sizes and       *)
(* limits, and any number of sessions that end in a checkpoint, an abort   *)
(* or a failure, every accepted batch is in the pages and the buffer of    *)
(* its series, what is published is whole batches in order of time, a name *)
(* and an id belong to one series, and the manifest of a checkpoint is     *)
(* never refused.                                                          *)
(*                                                                         *)
(* Each of the four needs the same invariant (SeriesInv): a usable writer  *)
(* knows every published series, its rows are the points of the accepted   *)
(* batches, a series with anything to publish is listed once among the     *)
(* dirty ones, and the counters that createSeries and checkpoint test are  *)
(* sums over the series: the size of the manifest that would be encoded,   *)
(* the number of series in it, the size of the one on file.                *)
(***************************************************************************)
EXTENDS SeriesWriter, SharedLemmas

-----------------------------------------------------------------------------
(* Sums.                                                                   *)

Sums(f, sizes, m) == f[0] = 0 /\ \A n \in 1 .. m : f[n] = f[n - 1] + sizes[n]

AgreeFrom(first, f, g, m) == \A n \in first .. m : f[n] = g[n]

(* Sums of the same sizes are the same.                                    *)
LEMMA SameSums ==
    ASSUME NEW m \in Nat, NEW f, NEW g, NEW r, NEW s, Sums(f, r, m), Sums(g, s, m),
           AgreeFrom(1, r, s, m)
    PROVE  AgreeFrom(0, f, g, m)
<1> USE DEF AgreeFrom
<1> DEFINE T == {n \in 0 .. m : f[n] = g[n]}
<1>1. 0 \in T
  BY DEF Sums
<1>2. ASSUME NEW n \in 0 .. m, n # m, n \in T PROVE n + 1 \in T
  <2>1. PICK k \in 1 .. m : k = n + 1
    BY <1>2
  <2>2. k - 1 = n
    BY <2>1
  <2>3. f[k] = g[k]
    BY <1>2, <2>2 DEF Sums
  <2> QED
    BY <2>1, <2>3
<1> HIDE DEF T
<1>3. \A n \in 0 .. m : n \in T
  BY <1>1, <1>2, Induction
<1> QED
  BY <1>3 DEF T

LEMMA TotalSums ==
    ASSUME NEW sizes \in Seq(Nat), NEW m, m = Len(sizes)
    PROVE  \E f \in [0 .. m -> Nat] : Sums(f, sizes, m) /\ Total(sizes) = f[m]
<1> DEFINE F == [p \in (1 .. m) \X Nat |-> p[2] + sizes[p[1]]]
<1>1. m \in Nat /\ \A n \in 1 .. m : sizes[n] \in Nat
  OBVIOUS
<1>2. \A n \in 1 .. m : \A v \in Nat : F[<<n, v>>] = v + sizes[n] /\ F[<<n, v>>] \in Nat
  BY <1>1
<1> HIDE DEF F
<1>3. PICK f \in [0 .. m -> Nat] : Iterates(f, 0, F, m)
  BY <1>1, <1>2, Recursion
<1>4. ASSUME NEW n \in 1 .. m PROVE f[n] = f[n - 1] + sizes[n]
  <2>1. f[n - 1] \in Nat
    BY SMTT(40), <1>1
  <2> QED
    BY <1>2, <1>3, <2>1 DEF Iterates
<1>5. f[0] = 0
  BY <1>3 DEF Iterates
<1>6. Sums(f, sizes, m)
  BY <1>4, <1>5 DEF Sums
<1> DEFINE Is(h) == h = [n \in 0 .. m |-> IF n = 0 THEN 0 ELSE h[n - 1] + sizes[n]]
<1>7. Is(f)
  BY <1>4, <1>5
<1>8. PICK g : g = (CHOOSE h : Is(h)) /\ Is(g)
  BY ZenonT(60), <1>7
<1>9. Total(sizes) = g[m]
  BY <1>8 DEF Total
<1>10. Sums(g, sizes, m)
  <2>1. \A n \in 0 .. m : g[n] = IF n = 0 THEN 0 ELSE g[n - 1] + sizes[n]
    BY Zenon, <1>8
  <2> QED
    BY <1>1, <2>1 DEF Sums
<1>11. m \in 0 .. m /\ g[m] = f[m]
  <2>1. AgreeFrom(1, sizes, sizes, m)
    BY DEF AgreeFrom
  <2>2. AgreeFrom(0, g, f, m)
    BY <1>1, <1>6, <1>10, <2>1, SameSums
  <2> QED
    BY <1>1, <2>2 DEF AgreeFrom
<1> QED
  BY <1>6, <1>9, <1>11

LEMMA TotalTyped ==
    ASSUME NEW sizes \in Seq(Nat)
    PROVE  Total(sizes) \in Nat
<1>1. PICK m \in Nat : m = Len(sizes)
  OBVIOUS
<1>2. PICK f \in [0 .. m -> Nat] : Total(sizes) = f[m]
  BY <1>1, TotalSums
<1> QED
  BY <1>1, <1>2

LEMMA TotalEmpty == Total(<< >>) = 0
<1>1. << >> \in Seq(Nat) /\ 0 = Len(<< >>)
  OBVIOUS
<1>2. PICK f \in [0 .. 0 -> Nat] : Sums(f, << >>, 0) /\ Total(<< >>) = f[0]
  BY <1>1, TotalSums
<1> QED
  BY <1>2 DEF Sums

(* Sums of sequences that agree in the first m places.                     *)
LEMMA TotalLonger ==
    ASSUME NEW r \in Seq(Nat), NEW s \in Seq(Nat), Len(s) = Len(r) + 1,
           \A n \in 1 .. Len(r) : s[n] = r[n]
    PROVE  Total(s) = Total(r) + s[Len(s)]
<1>1. PICK m \in Nat : m = Len(r)
  OBVIOUS
<1>2. PICK k \in Nat : k = m + 1 /\ k = Len(s)
  BY <1>1
<1>3. PICK f \in [0 .. m -> Nat] : Sums(f, r, m) /\ Total(r) = f[m]
  BY <1>1, TotalSums
<1>4. PICK g \in [0 .. k -> Nat] : Sums(g, s, k) /\ Total(s) = g[k]
  BY <1>2, TotalSums
<1>5. Sums(g, s, m)
  BY <1>2, <1>4 DEF Sums
<1>6. AgreeFrom(1, r, s, m)
  BY <1>1 DEF AgreeFrom
<1>9. AgreeFrom(0, f, g, m)
  BY <1>3, <1>5, <1>6, SameSums
<1>7. k \in 1 .. k /\ k - 1 = m
  BY <1>2
<1>8. g[k] = g[m] + s[k]
  BY <1>4, <1>7 DEF Sums
<1> QED
  BY <1>2, <1>3, <1>4, <1>8, <1>9 DEF AgreeFrom

LEMMA TotalAppend ==
    ASSUME NEW s \in Seq(Nat), NEW x \in Nat
    PROVE  Total(Append(s, x)) = Total(s) + x
<1>1. PICK t \in Seq(Nat) : t = Append(s, x)
  BY AppendProperties
<1>2. Len(t) = Len(s) + 1 /\ t[Len(t)] = x /\ \A n \in 1 .. Len(s) : t[n] = s[n]
  BY <1>1
<1> QED
  BY <1>1, <1>2, TotalLonger

(* Sums of sizes that are sums.                                            *)
IsSum(t, r, s, m) ==
    /\ m \in Nat /\ r \in Seq(Nat) /\ s \in Seq(Nat) /\ t \in Seq(Nat)
    /\ Len(r) = m /\ Len(s) = m /\ Len(t) = m
    /\ \A n \in 1 .. m : t[n] = r[n] + s[n]

LEMMA TotalPlus ==
    ASSUME NEW m, NEW r, NEW s, NEW t, IsSum(t, r, s, m)
    PROVE  Total(t) = Total(r) + Total(s)
<1> USE DEF IsSum
<1>1. PICK f \in [0 .. m -> Nat] : Sums(f, r, m) /\ Total(r) = f[m]
  BY TotalSums
<1>2. PICK g \in [0 .. m -> Nat] : Sums(g, s, m) /\ Total(s) = g[m]
  BY TotalSums
<1>3. PICK h \in [0 .. m -> Nat] : Sums(h, t, m) /\ Total(t) = h[m]
  BY TotalSums
<1> DEFINE T == {n \in 0 .. m : h[n] = f[n] + g[n]}
<1>4. 0 \in T
  BY <1>1, <1>2, <1>3 DEF Sums
<1>5. ASSUME NEW n \in 0 .. m, n # m, n \in T PROVE n + 1 \in T
  <2>1. PICK k \in 1 .. m : k = n + 1
    BY <1>5
  <2>2. k - 1 = n
    BY <2>1
  <2>3. /\ f[k] = f[n] + r[k] /\ g[k] = g[n] + s[k] /\ h[k] = h[n] + t[k]
    BY <1>1, <1>2, <1>3, <2>2 DEF Sums
  <2>4. f[n] \in Nat /\ g[n] \in Nat
    OBVIOUS
  <2>6. r[k] \in Nat /\ s[k] \in Nat
    BY ElementOfSeq
  <2>5. h[k] = f[k] + g[k]
    BY <1>5, <2>3, <2>4, <2>6
  <2> QED
    BY <2>1, <2>5
<1> HIDE DEF T
<1>6. \A n \in 0 .. m : n \in T
  BY <1>4, <1>5, Induction
<1>7. m \in T
  BY <1>6
<1> QED
  BY <1>1, <1>2, <1>3, <1>7 DEF T

LEMMA TotalSame ==
    ASSUME NEW m \in Nat, NEW r \in Seq(Nat), NEW s \in Seq(Nat),
           Len(r) = m, Len(s) = m, \A n \in 1 .. m : r[n] = s[n]
    PROVE  Total(r) = Total(s)
<1>1. PICK f \in [0 .. m -> Nat] : Sums(f, r, m) /\ Total(r) = f[m]
  BY TotalSums
<1>2. PICK g \in [0 .. m -> Nat] : Sums(g, s, m) /\ Total(s) = g[m]
  BY TotalSums
<1>3. AgreeFrom(1, r, s, m)
  BY DEF AgreeFrom
<1>4. AgreeFrom(0, f, g, m)
  BY <1>1, <1>2, <1>3, SameSums
<1> QED
  BY <1>1, <1>2, <1>4 DEF AgreeFrom

LEMMA TotalAtMost ==
    ASSUME NEW m \in Nat, NEW r \in Seq(Nat), NEW s \in Seq(Nat),
           Len(r) = m, Len(s) = m, \A n \in 1 .. m : r[n] <= s[n]
    PROVE  Total(r) <= Total(s)
<1>1. PICK t : t = [n \in 1 .. m |-> s[n] - r[n]]
  OBVIOUS
<1>2. \A n \in 1 .. m : t[n] \in Nat /\ s[n] = r[n] + t[n]
  BY <1>1
<1>3. t \in Seq(Nat) /\ Len(t) = m
  BY <1>1, <1>2
<1>4. \A n \in 1 .. m : s[n] = r[n] + t[n]
  BY <1>2
<1>5. IsSum(s, r, t, m)
  BY <1>3, <1>4 DEF IsSum
<1>6. Total(s) = Total(r) + Total(t)
  BY <1>5, TotalPlus
<1> QED
  BY <1>3, <1>6, TotalTyped

(* One size that is not zero.                                              *)
LEMMA TotalSingle ==
    ASSUME NEW m \in Nat, NEW i \in 1 .. m, NEW x \in Nat, NEW s \in Seq(Nat), Len(s) = m,
           \A n \in 1 .. m : s[n] = IF n = i THEN x ELSE 0
    PROVE  Total(s) = x
<1>1. PICK f \in [0 .. m -> Nat] : Sums(f, s, m) /\ Total(s) = f[m]
  BY TotalSums
<1> DEFINE T == {n \in 0 .. m : f[n] = IF n < i THEN 0 ELSE x}
<1>2. 0 \in T
  BY <1>1 DEF Sums
<1>3. ASSUME NEW n \in 0 .. m, n # m, n \in T PROVE n + 1 \in T
  <2>1. PICK k \in 1 .. m : k = n + 1
    BY <1>3
  <2>2. k - 1 = n
    BY <2>1
  <2>3. f[k] = f[n] + s[k] /\ s[k] = IF k = i THEN x ELSE 0
    BY <1>1, <2>2 DEF Sums
  <2>4. f[k] = IF k < i THEN 0 ELSE x
    BY <1>3, <2>1, <2>3
  <2> QED
    BY <2>1, <2>4
<1> HIDE DEF T
<1>4. \A n \in 0 .. m : n \in T
  BY <1>2, <1>3, Induction
<1>5. m \in T /\ ~(m < i)
  BY <1>4
<1> QED
  BY <1>1, <1>5 DEF T

(* One size that grows.                                                    *)
Grows(s, r, i, x, m) ==
    /\ m \in Nat /\ i \in 1 .. m /\ x \in Nat /\ r \in Seq(Nat) /\ s \in Seq(Nat)
    /\ Len(r) = m /\ Len(s) = m
    /\ \A n \in 1 .. m : s[n] = IF n = i THEN r[n] + x ELSE r[n]

LEMMA TotalGrows ==
    ASSUME NEW m, NEW i, NEW x, NEW r, NEW s, Grows(s, r, i, x, m)
    PROVE  Total(s) = Total(r) + x
<1>0. m \in Nat /\ i \in 1 .. m /\ x \in Nat
  BY DEF Grows
<1>1. PICK t : t = [n \in 1 .. m |-> IF n = i THEN x ELSE 0]
  OBVIOUS
<1>2. t \in Seq(Nat) /\ Len(t) = m /\ \A n \in 1 .. m : t[n] = IF n = i THEN x ELSE 0
  BY <1>0, <1>1
<1>3. Total(t) = x
  BY ZenonT(60), <1>0, <1>2, TotalSingle
<1>4. \A n \in 1 .. m : s[n] = r[n] + t[n]
  BY <1>0, <1>2 DEF Grows
<1>5. IsSum(s, r, t, m)
  BY <1>2, <1>4 DEF IsSum, Grows
<1>6. Total(s) = Total(r) + Total(t)
  BY <1>5, TotalPlus
<1> QED
  BY <1>3, <1>6

(* The sizes of the members of a set of places.                            *)
Chosen(v, D) == [i \in DOMAIN v |-> IF i \in D THEN v[i] ELSE 0]

LEMMA ChosenTyped ==
    ASSUME NEW m \in Nat, NEW v \in Seq(Nat), Len(v) = m, NEW D
    PROVE  /\ Chosen(v, D) \in Seq(Nat) /\ Len(Chosen(v, D)) = m
           /\ \A i \in 1 .. m : Chosen(v, D)[i] = IF i \in D THEN v[i] ELSE 0
<1>1. DOMAIN v = 1 .. m /\ \A i \in 1 .. m : v[i] \in Nat
  OBVIOUS
<1>2. PICK c : c = [i \in 1 .. m |-> IF i \in D THEN v[i] ELSE 0]
  OBVIOUS
<1>3. c = Chosen(v, D)
  BY <1>1, <1>2 DEF Chosen
<1>4. c \in [1 .. m -> Nat]
  BY <1>1, <1>2
<1>5. c \in Seq(Nat) /\ Len(c) = m
  BY <1>4
<1> QED
  BY <1>2, <1>3, <1>5

LEMMA TotalOfEmpty ==
    ASSUME NEW m \in Nat, NEW v \in Seq(Nat), Len(v) = m
    PROVE  Total(Chosen(v, {})) = 0
<1>1. PICK c \in Seq(Nat) : c = Chosen(v, {}) /\ Len(c) = m /\ \A i \in 1 .. m : c[i] = 0
  BY ChosenTyped
<1>2. \A i \in 1 .. m : c[i] = c[i] + c[i]
  BY <1>1
<1>3. IsSum(c, c, c, m)
  BY <1>1, <1>2 DEF IsSum
<1>4. Total(c) = Total(c) + Total(c)
  BY <1>3, TotalPlus
<1>5. Total(c) \in Nat
  BY <1>1, TotalTyped
<1> QED
  BY <1>1, <1>4, <1>5

LEMMA TotalOfOneMore ==
    ASSUME NEW m \in Nat, NEW v \in Seq(Nat), Len(v) = m, NEW D, NEW i \in 1 .. m, i \notin D
    PROVE  Total(Chosen(v, D \cup {i})) = Total(Chosen(v, D)) + v[i]
<1>1. PICK r \in Seq(Nat) : r = Chosen(v, D) /\ Len(r) = m
                            /\ \A n \in 1 .. m : r[n] = IF n \in D THEN v[n] ELSE 0
  BY ChosenTyped
<1>2. PICK E : E = D \cup {i}
  OBVIOUS
<1>3. PICK s \in Seq(Nat) : s = Chosen(v, E) /\ Len(s) = m
                            /\ \A n \in 1 .. m : s[n] = IF n \in E THEN v[n] ELSE 0
  BY ChosenTyped
<1>4. v[i] \in Nat
  BY ElementOfSeq
<1>5. ASSUME NEW n \in 1 .. m PROVE s[n] = IF n = i THEN r[n] + v[i] ELSE r[n]
  <2>1. n \in E <=> (n \in D \/ n = i)
    BY <1>2
  <2>2. s[n] = (IF n \in E THEN v[n] ELSE 0) /\ r[n] = (IF n \in D THEN v[n] ELSE 0)
    BY <1>1, <1>3
  <2>3. CASE n = i
    BY <1>4, <2>1, <2>2, <2>3
  <2>4. CASE n # i
    BY <2>1, <2>2, <2>4
  <2> QED
    BY <2>3, <2>4
<1>7. r \in Seq(Nat) /\ s \in Seq(Nat) /\ Len(r) = m /\ Len(s) = m
  BY <1>1, <1>3
<1>8. Grows(s, r, i, v[i], m)
  BY <1>4, <1>5, <1>7 DEF Grows
<1>6. Total(s) = Total(r) + v[i]
  BY <1>8, TotalGrows
<1> QED
  BY <1>1, <1>2, <1>3, <1>6

LEMMA TotalOfUnion ==
    ASSUME NEW m \in Nat, NEW v \in Seq(Nat), Len(v) = m, NEW D, NEW E, D \cap E = {}
    PROVE  Total(Chosen(v, D \cup E)) = Total(Chosen(v, D)) + Total(Chosen(v, E))
<1>1. PICK r \in Seq(Nat) : r = Chosen(v, D) /\ Len(r) = m
                            /\ \A n \in 1 .. m : r[n] = IF n \in D THEN v[n] ELSE 0
  BY ChosenTyped
<1>2. PICK s \in Seq(Nat) : s = Chosen(v, E) /\ Len(s) = m
                            /\ \A n \in 1 .. m : s[n] = IF n \in E THEN v[n] ELSE 0
  BY ChosenTyped
<1>3. PICK B : B = D \cup E
  OBVIOUS
<1>4. PICK t \in Seq(Nat) : t = Chosen(v, B) /\ Len(t) = m
                            /\ \A n \in 1 .. m : t[n] = IF n \in B THEN v[n] ELSE 0
  BY ChosenTyped
<1>5. ASSUME NEW n \in 1 .. m PROVE t[n] = r[n] + s[n]
  <2>1. v[n] \in Nat
    BY ElementOfSeq
  <2>2. ~(n \in D /\ n \in E) /\ (n \in B <=> (n \in D \/ n \in E))
    BY <1>3
  <2>3. /\ r[n] = (IF n \in D THEN v[n] ELSE 0) /\ s[n] = (IF n \in E THEN v[n] ELSE 0)
        /\ t[n] = (IF n \in B THEN v[n] ELSE 0)
    BY <1>1, <1>2, <1>4
  <2>4. CASE n \in D
    BY <2>1, <2>2, <2>3, <2>4
  <2>5. CASE n \notin D
    BY SMTT(40), <2>1, <2>2, <2>3, <2>5
  <2> QED
    BY <2>4, <2>5
<1>7. /\ r \in Seq(Nat) /\ s \in Seq(Nat) /\ t \in Seq(Nat)
      /\ Len(r) = m /\ Len(s) = m /\ Len(t) = m
  BY <1>1, <1>2, <1>4
<1>8. IsSum(t, r, s, m)
  BY <1>5, <1>7 DEF IsSum
<1>6. Total(t) = Total(r) + Total(s)
  BY <1>8, TotalPlus
<1> QED
  BY <1>1, <1>2, <1>3, <1>4, <1>6

LEMMA TotalOfPart ==
    ASSUME NEW m \in Nat, NEW v \in Seq(Nat), Len(v) = m, NEW D
    PROVE  Total(Chosen(v, D)) <= Total(v)
<1>1. PICK r \in Seq(Nat) : r = Chosen(v, D) /\ Len(r) = m
                            /\ \A n \in 1 .. m : r[n] = IF n \in D THEN v[n] ELSE 0
  BY ChosenTyped
<1>2. ASSUME NEW n \in 1 .. m PROVE r[n] <= v[n]
  BY <1>1
<1> QED
  BY <1>1, <1>2, TotalAtMost

Widened(v, m, D, E, i) ==
    m \in Nat /\ v \in Seq(Nat) /\ Len(v) = m /\ i \in 1 .. m /\ i \notin D /\ E = D \cup {i}

LEMMA TotalWidened ==
    ASSUME NEW v, NEW m, NEW D, NEW E, NEW i, Widened(v, m, D, E, i)
    PROVE  Total(Chosen(v, E)) = Total(Chosen(v, D)) + v[i]
BY TotalOfOneMore DEF Widened

(* The sum of sizes looked up in any order.                                *)
Gathers(s, v, e, l, m, D) ==
    /\ m \in Nat /\ v \in Seq(Nat) /\ Len(v) = m
    /\ l \in Nat /\ e \in Seq(1 .. m) /\ Len(e) = l
    /\ \A j, k \in 1 .. l : e[j] = e[k] => j = k
    /\ s \in Seq(Nat) /\ Len(s) = l
    /\ \A k \in 1 .. l : s[k] = IF e[k] \in D THEN v[e[k]] ELSE 0

Gathered(e, l, m, D) == {i \in 1 .. m : i \in D /\ \E k \in 1 .. l : e[k] = i}

LEMMA TotalInOrder ==
    ASSUME NEW s, NEW v, NEW e, NEW l, NEW m, NEW D, Gathers(s, v, e, l, m, D)
    PROVE  Total(s) = Total(Chosen(v, Gathered(e, l, m, D)))
<1> SUFFICES ASSUME m \in Nat, v \in Seq(Nat), Len(v) = m,
                    l \in Nat, e \in Seq(1 .. m), Len(e) = l,
                    \A j, k \in 1 .. l : e[j] = e[k] => j = k,
                    s \in Seq(Nat), Len(s) = l,
                    \A k \in 1 .. l : s[k] = IF e[k] \in D THEN v[e[k]] ELSE 0
             PROVE  Total(s) = Total(Chosen(v, Gathered(e, l, m, D)))
  BY DEF Gathers
<1> DEFINE Seen(k) == {i \in 1 .. m : i \in D /\ \E j \in 1 .. k : e[j] = i}
<1>1. PICK f \in [0 .. l -> Nat] : Sums(f, s, l) /\ Total(s) = f[l]
  BY TotalSums
<1> DEFINE T == {k \in 0 .. l : f[k] = Total(Chosen(v, Seen(k)))}
<1>2. 0 \in T
  <2>1. Seen(0) = {}
    OBVIOUS
  <2> HIDE DEF Seen
  <2>2. f[0] = Total(Chosen(v, Seen(0)))
    BY <1>1, <2>1, TotalOfEmpty DEF Sums
  <2> QED
    BY <2>2
<1>3. ASSUME NEW k \in 0 .. l, k # l, k \in T PROVE k + 1 \in T
  <2>1. PICK n \in 1 .. l : n = k + 1
    BY <1>3
  <2>2. n - 1 = k
    BY <2>1
  <2>3. f[n] = f[k] + s[n] /\ f[k] \in Nat
    BY <1>1, <2>2 DEF Sums
  <2>4. PICK i \in 1 .. m : i = e[n]
    OBVIOUS
  <2>5. \A j \in 1 .. k : j \in 1 .. l /\ j # n
    BY <2>1
  <2>6. i \notin Seen(k)
    BY <2>4, <2>5
  <2>7. ASSUME NEW j PROVE (\E x \in 1 .. n : e[x] = j) <=> ((\E x \in 1 .. k : e[x] = j) \/ j = i)
    <3>1. \A x \in 1 .. n : x \in 1 .. k \/ x = n
      BY <2>1
    <3>2. n \in 1 .. n /\ \A x \in 1 .. k : x \in 1 .. n
      BY <2>1
    <3> QED
      BY Zenon, <2>4, <3>1, <3>2
  <2>8. CASE i \in D
    <3>1. Seen(n) = Seen(k) \cup {i}
      <4>1. \A j \in 1 .. m : j \in Seen(n) <=> (j \in Seen(k) \/ j = i)
        BY Zenon, <2>7, <2>8
      <4>2. Seen(n) \subseteq 1 .. m /\ Seen(k) \subseteq 1 .. m
        OBVIOUS
      <4> HIDE DEF Seen
      <4> QED
        BY <4>1, <4>2
    <3> HIDE DEF Seen
    <3>2. Total(Chosen(v, Seen(n))) = Total(Chosen(v, Seen(k))) + v[i]
      <4>1. Widened(v, m, Seen(k), Seen(n), i)
        BY <2>4, <2>6, <3>1 DEF Widened
      <4> QED
        BY <4>1, TotalWidened
    <3>3. f[n] = Total(Chosen(v, Seen(n)))
      BY <1>3, <2>3, <2>4, <2>8, <3>2
    <3> QED
      BY <2>1, <3>3
  <2>9. CASE i \notin D
    <3>1. Seen(n) = Seen(k)
      <4>1. \A j \in 1 .. m : j \in Seen(n) <=> j \in Seen(k)
        BY Zenon, <2>7, <2>9
      <4> QED
        BY <4>1
    <3> HIDE DEF Seen
    <3>2. f[n] = Total(Chosen(v, Seen(n)))
      BY <1>3, <2>3, <2>4, <2>9, <3>1
    <3> QED
      BY <2>1, <3>2
  <2> QED
    BY <2>8, <2>9
<1> HIDE DEF T
<1>4. \A k \in 0 .. l : k \in T
  BY <1>2, <1>3, Induction
<1>5. l \in T
  BY <1>4
<1>6. Gathered(e, l, m, D) = Seen(l)
  BY DEF Gathered
<1> QED
  BY <1>1, <1>5, <1>6 DEF T

-----------------------------------------------------------------------------
(* The points of pages.                                                    *)

PointRecord == [timestamp : Int, batch : Nat]
PageRecord == [series_id : Nat, points : Seq(PointRecord)]

PointLists(pages) == [i \in DOMAIN pages |-> pages[i].points]

LEMMA PagesAreLists ==
    ASSUME NEW pages \in Seq(PageRecord)
    PROVE  /\ AreLists(PointLists(pages), PointRecord, Len(pages))
           /\ \A i \in 1 .. Len(pages) : PointLists(pages)[i] = pages[i].points
           /\ PagePoints(pages) = FlattenSeq(PointLists(pages))
<1>0. PICK Q : Q = Seq(PointRecord)
  OBVIOUS
<1>1. PICK m \in Nat : m = Len(pages) /\ DOMAIN pages = 1 .. m
  OBVIOUS
<1>2. ASSUME NEW i \in 1 .. m PROVE pages[i].points \in Q
  <2>1. pages[i] \in PageRecord
    BY <1>1
  <2> QED
    BY <1>0, <2>1 DEF PageRecord
<1>3. PICK t : t = [i \in 1 .. m |-> pages[i].points]
  OBVIOUS
<1>4. t = PointLists(pages)
  BY <1>1, <1>3 DEF PointLists
<1>5. t \in Seq(Q) /\ Len(t) = m /\ DOMAIN t = 1 .. m
  BY <1>2, <1>3
<1>6. AreLists(t, PointRecord, m)
  BY <1>0, <1>2, <1>3, <1>5 DEF AreLists
<1> QED
  BY <1>1, <1>3, <1>4, <1>6 DEF PagePoints, PointLists

LEMMA PagePointsTyped ==
    ASSUME NEW pages \in Seq(PageRecord)
    PROVE  PagePoints(pages) \in Seq(PointRecord)
<1>1. AreLists(PointLists(pages), PointRecord, Len(pages))
  BY PagesAreLists
<1>2. FlattenSeq(PointLists(pages)) \in Seq(PointRecord)
  BY <1>1, FlattenTyped
<1> QED
  BY <1>2, PagesAreLists

LEMMA PagePointsEmpty == PagePoints(<< >>) = << >>
<1>1. << >> \in Seq(PageRecord) /\ Len(<< >>) = 0
  BY EmptySeq
<1>2. AreLists(PointLists(<< >>), PointRecord, 0) /\ PagePoints(<< >>) = FlattenSeq(PointLists(<< >>))
  BY <1>1, PagesAreLists
<1> QED
  BY <1>2, FlattenEmpty

LEMMA PagePointsConcat ==
    ASSUME NEW p \in Seq(PageRecord), NEW q \in Seq(PageRecord)
    PROVE  PagePoints(p \o q) = PagePoints(p) \o PagePoints(q)
<1>1. PICK m \in Nat, k \in Nat : m = Len(p) /\ k = Len(q)
  OBVIOUS
<1>2. PICK b \in Seq(PageRecord) : b = p \o q
  BY ConcatProperties
<1>3. /\ Len(b) = m + k
      /\ \A i \in 1 .. m + k : b[i] = IF i <= m THEN p[i] ELSE q[i - m]
  BY <1>1, <1>2, ConcatProperties
<1>4. PICK r, s, t : r = PointLists(p) /\ s = PointLists(q) /\ t = PointLists(b)
  OBVIOUS
<1>5. /\ AreLists(r, PointRecord, m) /\ PagePoints(p) = FlattenSeq(r)
      /\ \A i \in 1 .. m : r[i] = p[i].points
  BY <1>1, <1>4, PagesAreLists
<1>6. /\ AreLists(s, PointRecord, k) /\ PagePoints(q) = FlattenSeq(s)
      /\ \A i \in 1 .. k : s[i] = q[i].points
  BY <1>1, <1>4, PagesAreLists
<1>7. /\ AreLists(t, PointRecord, m + k) /\ PagePoints(b) = FlattenSeq(t)
      /\ \A i \in 1 .. m + k : t[i] = b[i].points
  BY <1>2, <1>3, <1>4, PagesAreLists
<1>8. ASSUME NEW n \in 1 .. m PROVE t[n] = r[n]
  <2>1. n \in 1 .. m + k /\ n <= m
    BY <1>1
  <2>2. b[n] = p[n]
    BY <1>3, <2>1
  <2> QED
    BY <1>5, <1>7, <2>1, <2>2
<1>9. ASSUME NEW n \in 1 .. k PROVE t[m + n] = s[n]
  <2>1. m + n \in 1 .. m + k /\ ~(m + n <= m) /\ (m + n) - m = n
    BY <1>1
  <2>2. b[m + n] = q[n]
    BY <1>3, <2>1
  <2> QED
    BY <1>6, <1>7, <2>1, <2>2
<1>10. Continues(t, r, s, PointRecord, m, k)
  BY <1>5, <1>6, <1>7, <1>8, <1>9 DEF Continues
<1>11. FlattenSeq(t) = FlattenSeq(r) \o FlattenSeq(s)
  BY <1>10, FlattenConcat
<1> QED
  BY <1>2, <1>5, <1>6, <1>7, <1>11

LEMMA PagePointsOne ==
    ASSUME NEW page \in PageRecord
    PROVE  PagePoints(<<page>>) = page.points
<1>1. PICK p \in Seq(PageRecord) : p = <<page>>
  <2>1. <<page>> \in Seq(PageRecord)
    OBVIOUS
  <2> QED
    BY <2>1
<1>2. Len(p) = 1 /\ p[1] = page
  BY <1>1
<1>3. PICK t : t = PointLists(p)
  OBVIOUS
<1>4. /\ AreLists(t, PointRecord, 1) /\ PagePoints(p) = FlattenSeq(t)
      /\ \A i \in 1 .. 1 : t[i] = p[i].points
  BY <1>1, <1>2, <1>3, PagesAreLists
<1>9. AreLists(t, PointRecord, 1)
  BY <1>4
<1>5. PICK f \in [0 .. 1 -> Seq(PointRecord)] : Joins(f, t, 1) /\ FlattenSeq(t) = f[1]
  BY ZenonT(60), <1>9, FlattenJoins
<1>6. 1 \in 1 .. 1 /\ 1 - 1 = 0
  OBVIOUS
<1>7. f[1] = << >> \o t[1] /\ t[1] = page.points
  BY <1>2, <1>4, <1>5, <1>6 DEF Joins
<1>8. page.points \in Seq(PointRecord)
  BY DEF PageRecord
<1> QED
  BY <1>1, <1>4, <1>5, <1>7, <1>8, ConcatEmptySeq

LEMMA PagePointsAppend ==
    ASSUME NEW p \in Seq(PageRecord), NEW page \in PageRecord
    PROVE  PagePoints(Append(p, page)) = PagePoints(p) \o page.points
<1>1. <<page>> \in Seq(PageRecord) /\ Append(p, page) = p \o <<page>>
  BY AppendIsConcat
<1>2. PagePoints(p \o <<page>>) = PagePoints(p) \o PagePoints(<<page>>)
  BY <1>1, PagePointsConcat
<1> QED
  BY <1>1, <1>2, PagePointsOne

LEMMA PagesHoldPoints ==
    ASSUME NEW p \in Seq(PageRecord), p # << >>,
           \A i \in 1 .. Len(p) : p[i].points # << >>
    PROVE  PagePoints(p) # << >>
<1>1. PICK q \in Seq(PageRecord), page \in PageRecord : p = Append(q, page)
  BY SequenceEmptyOrAppend
<1>2. Len(q) \in Nat /\ Len(p) = Len(q) + 1 /\ p[Len(q) + 1] = page
  BY <1>1, AppendProperties
<1>3. Len(q) + 1 \in 1 .. Len(p)
  BY <1>2
<1>4. page.points # << >>
  BY <1>2, <1>3
<1>5. PagePoints(p) = PagePoints(q) \o page.points
  BY <1>1, PagePointsAppend
<1>6. PagePoints(q) \in Seq(PointRecord) /\ page.points \in Seq(PointRecord)
  BY <1>1, PagePointsTyped DEF PageRecord
<1> QED
  BY <1>4, <1>5, <1>6, ConcatEqualIffEmpty

PagesJoin(pages, l) ==
    \E f \in [0 .. l -> Seq(PointRecord)] :
        /\ f[0] = << >> /\ f[l] = PagePoints(pages)
        /\ \A i \in 1 .. l : f[i] = f[i - 1] \o pages[i].points

LEMMA PagePointsJoin ==
    ASSUME NEW pages \in Seq(PageRecord), NEW l, l = Len(pages)
    PROVE  PagesJoin(pages, l)
<1>1. PICK t : t = PointLists(pages)
  OBVIOUS
<1>2. AreLists(t, PointRecord, l)
  BY <1>1, PagesAreLists
<1>3. PagePoints(pages) = FlattenSeq(t) /\ \A i \in 1 .. l : t[i] = pages[i].points
  BY <1>1, PagesAreLists
<1>4. PICK f \in [0 .. l -> Seq(PointRecord)] : Joins(f, t, l) /\ FlattenSeq(t) = f[l]
  BY <1>2, FlattenJoins
<1>5. f[0] = << >> /\ f[l] = PagePoints(pages)
  BY <1>3, <1>4 DEF Joins
<1>6. \A i \in 1 .. l : f[i] = f[i - 1] \o pages[i].points
  BY <1>3, <1>4 DEF Joins
<1> QED
  BY <1>4, <1>5, <1>6 DEF PagesJoin

(* Full pages cut from a batch hold the part of it that they are cut from. *)
Sliced(p, points, e, c, l) ==
    /\ l \in Nat /\ c \in 0 .. Len(points)
    /\ e \in [0 .. l -> c .. Len(points)] /\ e[0] = c /\ \A i \in 1 .. l : e[i - 1] <= e[i]
    /\ p \in Seq(PageRecord) /\ Len(p) = l
    /\ \A i \in 1 .. l : p[i].points = SubSeq(points, e[i - 1] + 1, e[i])

LEMMA SlicedPages ==
    ASSUME NEW points \in Seq(PointRecord), NEW e, NEW l, NEW c, NEW p, Sliced(p, points, e, c, l)
    PROVE  PagePoints(p) = SubSeq(points, c + 1, e[l])
<1> USE DEF Sliced
<1>1. PagesJoin(p, l)
  BY PagePointsJoin
<1>2. PICK f \in [0 .. l -> Seq(PointRecord)] :
        /\ f[0] = << >> /\ f[l] = PagePoints(p)
        /\ \A i \in 1 .. l : f[i] = f[i - 1] \o p[i].points
  BY Zenon, <1>1 DEF PagesJoin
<1> DEFINE T == {i \in 0 .. l : f[i] = SubSeq(points, c + 1, e[i])}
<1>4. 0 \in T
  <2>1. SubSeq(points, c + 1, c) = << >>
    BY SubSeqEmpty
  <2> QED
    BY SMTT(40), <1>2, <2>1
<1>5. ASSUME NEW i \in 0 .. l, i # l, i \in T PROVE i + 1 \in T
  <2>1. PICK k \in 1 .. l : k = i + 1
    BY <1>5
  <2>2. k - 1 = i /\ k \in 0 .. l
    BY <2>1
  <2>3. f[k] = f[i] \o SubSeq(points, e[i] + 1, e[k]) /\ e[i] <= e[k]
    BY <1>2, <2>2
  <2>4. PICK x, y : x = e[i] /\ y = e[k]
    OBVIOUS
  <2>5. x \in c .. Len(points) /\ y \in c .. Len(points) /\ x <= y /\ Len(points) \in Nat
    BY <2>2, <2>3, <2>4
  <2>6. PICK d : d = c + 1
    OBVIOUS
  <2>7. d \in 1 .. Len(points) + 1 /\ x \in d - 1 .. Len(points) /\ y \in x .. Len(points)
    BY <2>5, <2>6
  <2>8. SubSeq(points, d, x) \o SubSeq(points, x + 1, y) = SubSeq(points, d, y)
    BY <2>7, ConcatAdjacentSubSeq
  <2>9. f[k] = SubSeq(points, c + 1, e[k])
    BY <1>5, <2>3, <2>4, <2>6, <2>8
  <2> QED
    BY <2>1, <2>2, <2>9
<1> HIDE DEF T
<1>6. \A i \in 0 .. l : i \in T
  BY <1>4, <1>5, Induction
<1>7. l \in T
  BY <1>6
<1> QED
  BY <1>2, <1>7 DEF T

-----------------------------------------------------------------------------
(* What a series holds.                                                    *)

SeriesRecord ==
    [name : Names, id : Nat, root : Seq(PageRecord), buffer : Seq(PointRecord),
     pending_entries : Seq(PageRecord), last_timestamp : Seq(Int), dirty : BOOLEAN]

(* The pages of a series carry its id, and none is empty.                  *)
OwnPages(pages, id) ==
    \A k \in DOMAIN pages : pages[k].series_id = id /\ pages[k].points # << >>

Sound(s) ==
    /\ s \in SeriesRecord
    /\ Len(s.buffer) <= RecordsMax
    /\ OwnPages(s.root, s.id)
    /\ OwnPages(s.pending_entries, s.id)

SameSeries(s, t) ==
    /\ t.name = s.name
    /\ t.id = s.id
    /\ t.root = s.root
    /\ t.last_timestamp = s.last_timestamp
    /\ t.dirty = s.dirty

LEMMA SameSeriesTrans ==
    ASSUME NEW r, NEW s, NEW t, SameSeries(r, s), SameSeries(s, t)
    PROVE  SameSeries(r, t)
BY Zenon DEF SameSeries

LEMMA SeriesFields ==
    ASSUME NEW s \in SeriesRecord
    PROVE  /\ s.name \in Names /\ s.id \in Nat /\ s.root \in Seq(PageRecord)
           /\ s.buffer \in Seq(PointRecord) /\ s.pending_entries \in Seq(PageRecord)
           /\ s.last_timestamp \in Seq(Int) /\ s.dirty \in BOOLEAN
           /\ Len(s.buffer) \in Nat
           /\ PagePoints(s.root) \in Seq(PointRecord)
           /\ PagePoints(s.pending_entries) \in Seq(PointRecord)
<1>1. /\ s.name \in Names /\ s.id \in Nat /\ s.root \in Seq(PageRecord)
      /\ s.buffer \in Seq(PointRecord) /\ s.pending_entries \in Seq(PageRecord)
      /\ s.last_timestamp \in Seq(Int)
  BY DEF SeriesRecord
<1>2. s.dirty \in BOOLEAN
  BY Zenon DEF SeriesRecord
<1>3. Len(s.buffer) \in Nat
  BY <1>1
<1>4. PagePoints(s.root) \in Seq(PointRecord) /\ PagePoints(s.pending_entries) \in Seq(PointRecord)
  BY <1>1, PagePointsTyped
<1> QED
  BY <1>1, <1>2, <1>3, <1>4

WithPages(s, p) == [s EXCEPT !.pending_entries = p]
WithBuffer(s, b) == [s EXCEPT !.buffer = b]
WithBoth(s, p, b) == [s EXCEPT !.pending_entries = p, !.buffer = b]

LEMMA PagesReplaced ==
    ASSUME NEW s \in SeriesRecord, NEW p \in Seq(PageRecord), NEW t, t = WithPages(s, p)
    PROVE  t \in SeriesRecord /\ SameSeries(s, t) /\ t.pending_entries = p /\ t.buffer = s.buffer
BY DEF SeriesRecord, SameSeries, WithPages

LEMMA BufferReplaced ==
    ASSUME NEW s \in SeriesRecord, NEW b \in Seq(PointRecord), NEW t, t = WithBuffer(s, b)
    PROVE  /\ t \in SeriesRecord /\ SameSeries(s, t) /\ t.buffer = b
           /\ t.pending_entries = s.pending_entries
BY DEF SeriesRecord, SameSeries, WithBuffer

LEMMA BothReplaced ==
    ASSUME NEW s \in SeriesRecord, NEW p \in Seq(PageRecord), NEW b \in Seq(PointRecord), NEW t,
           t = WithBoth(s, p, b)
    PROVE  t \in SeriesRecord /\ SameSeries(s, t) /\ t.pending_entries = p /\ t.buffer = b
BY DEF SeriesRecord, SameSeries, WithBoth

LEMMA OwnPagesConcat ==
    ASSUME NEW p \in Seq(PageRecord), NEW q \in Seq(PageRecord), NEW id,
           OwnPages(p, id), OwnPages(q, id)
    PROVE  OwnPages(p \o q, id)
<1>1. PICK m \in Nat, k \in Nat : m = Len(p) /\ k = Len(q) /\ DOMAIN p = 1 .. m /\ DOMAIN q = 1 .. k
  OBVIOUS
<1>2. PICK b \in Seq(PageRecord) : b = p \o q
  BY ConcatProperties
<1>3. /\ DOMAIN b = 1 .. m + k
      /\ \A i \in 1 .. m + k : b[i] = IF i <= m THEN p[i] ELSE q[i - m]
  BY <1>1, <1>2, ConcatProperties
<1>4. ASSUME NEW i \in 1 .. m + k PROVE b[i].series_id = id /\ b[i].points # << >>
  <2>1. CASE i <= m
    <3>1. i \in 1 .. m
      BY <1>1, <2>1
    <3> QED
      BY <1>1, <1>3, <2>1, <3>1 DEF OwnPages
  <2>2. CASE ~(i <= m)
    <3>1. i - m \in 1 .. k
      BY <1>1, <2>2
    <3> QED
      BY ZenonT(60), <1>1, <1>3, <2>2, <3>1 DEF OwnPages
  <2> QED
    BY <2>1, <2>2
<1> QED
  BY <1>2, <1>3, <1>4 DEF OwnPages

(* A buffer written as a page: flushSeries, and appendBatch when it is     *)
(* full.                                                                   *)
Pushed(s) == [s EXCEPT !.pending_entries = Append(@, Page(s.id, s.buffer)), !.buffer = << >>]

LEMMA PushKeeps ==
    ASSUME NEW s, Sound(s), s.buffer # << >>, NEW t, t = Pushed(s)
    PROVE  /\ Sound(t) /\ SameSeries(s, t) /\ SeriesPoints(t) = SeriesPoints(s)
           /\ t.buffer = << >> /\ t.pending_entries # << >>
<1>1. s \in SeriesRecord
  BY DEF Sound
<1>2. PICK page : page = Page(s.id, s.buffer)
  OBVIOUS
<1>3. page \in PageRecord /\ page.points = s.buffer /\ page.series_id = s.id
  BY <1>1, <1>2, SeriesFields DEF Page, PageRecord
<1>4. PICK p \in Seq(PageRecord) : p = Append(s.pending_entries, page) /\ p # << >>
  BY ZenonT(60), <1>1, <1>3, SeriesFields, AppendProperties
<1>5. << >> \in Seq(PointRecord) /\ Len(<< >>) = 0
  OBVIOUS
<1>6. t = [s EXCEPT !.pending_entries = p, !.buffer = << >>]
  BY <1>2, <1>4 DEF Pushed
<1>7. t \in SeriesRecord /\ SameSeries(s, t) /\ t.pending_entries = p /\ t.buffer = << >>
  <2>1. PICK b : b = << >>
    OBVIOUS
  <2>2. b \in Seq(PointRecord) /\ p \in Seq(PageRecord)
    BY <1>4, <1>5, <2>1
  <2>3. t = WithBoth(s, p, b)
    BY <1>6, <2>1 DEF WithBoth
  <2>4. t \in SeriesRecord /\ SameSeries(s, t) /\ t.pending_entries = p /\ t.buffer = b
    BY <1>1, <2>2, <2>3, BothReplaced
  <2> QED
    BY <2>1, <2>4
<1>8. OwnPages(p, s.id)
  <2>1. <<page>> \in Seq(PageRecord) /\ s.pending_entries \in Seq(PageRecord)
    BY <1>1, <1>3, SeriesFields
  <2>2. OwnPages(<<page>>, s.id)
    BY <1>3 DEF OwnPages
  <2>3. p = s.pending_entries \o <<page>>
    BY <1>3, <1>4, <2>1, AppendIsConcat
  <2>4. OwnPages(s.pending_entries, s.id)
    BY DEF Sound
  <2> QED
    BY <2>1, <2>2, <2>3, <2>4, OwnPagesConcat
<1>9. Sound(t)
  BY <1>5, <1>7, <1>8, SeriesWriterAssumption DEF Sound, SameSeries
<1>10. SeriesPoints(t) = SeriesPoints(s)
  <2>1. PICK a, b, c : a = PagePoints(s.root) /\ b = PagePoints(s.pending_entries) /\ c = s.buffer
    OBVIOUS
  <2>2. a \in Seq(PointRecord) /\ b \in Seq(PointRecord) /\ c \in Seq(PointRecord)
    BY <1>1, <2>1, SeriesFields
  <2>3. PagePoints(p) = b \o c
    BY <1>1, <1>3, <1>4, <2>1, PagePointsAppend, SeriesFields
  <2>4. SeriesPoints(s) = (a \o b) \o c
    BY <2>1 DEF SeriesPoints
  <2>5. SeriesPoints(t) = (a \o (b \o c)) \o << >>
    BY <1>7, <2>1, <2>3 DEF SeriesPoints, SameSeries
  <2>6. (a \o b) \o c = a \o (b \o c)
    <3>1. Associates(a, b, c)
      BY <2>2, Regrouping
    <3> QED
      BY <3>1 DEF Associates
  <2>7. PICK d \in Seq(PointRecord) : d = b \o c
    BY <2>2, ConcatProperties
  <2>8. PICK e \in Seq(PointRecord) : e = a \o d
    BY <2>2, <2>7, ConcatProperties
  <2>9. e \o << >> = e
    BY <2>8, ConcatEmptySeq
  <2> QED
    BY <2>4, <2>5, <2>6, <2>7, <2>8, <2>9
<1> QED
  BY <1>4, <1>7, <1>9, <1>10

LEMMA FlushedKeeps ==
    ASSUME NEW s, Sound(s), NEW t, t = Flushed(s)
    PROVE  /\ Sound(t) /\ SameSeries(s, t) /\ SeriesPoints(t) = SeriesPoints(s)
           /\ Len(t.buffer) < RecordsMax
<1>1. s \in SeriesRecord /\ Len(s.buffer) <= RecordsMax
  BY DEF Sound
<1>2. Len(s.buffer) \in Nat /\ RecordsMax \in Nat /\ RecordsMax # 0 /\ Len(<< >>) = 0
  BY <1>1, SeriesFields, SeriesWriterAssumption
<1>3. CASE Len(s.buffer) = RecordsMax
  <2>1. t = Pushed(s) /\ s.buffer # << >>
    BY <1>2, <1>3 DEF Flushed, Pushed
  <2> QED
    BY <1>2, <2>1, PushKeeps
<1>4. CASE Len(s.buffer) # RecordsMax
  <2>1. t = s /\ SameSeries(s, s)
    BY <1>4 DEF Flushed, SameSeries
  <2> QED
    BY <1>1, <1>2, <1>4, <2>1
<1> QED
  BY <1>3, <1>4

LEMMA DivFacts ==
    ASSUME NEW a \in Nat, NEW b \in Nat \ {0}
    PROVE  a \div b \in Nat /\ (a \div b) * b <= a
OBVIOUS

LEMMA MinOfTwo ==
    ASSUME NEW a \in Nat, NEW b \in Nat
    PROVE  Min({a, b}) = IF a <= b THEN a ELSE b
<1>1. PICK c : c = (IF a <= b THEN a ELSE b)
  OBVIOUS
<1>2. c \in {a, b} /\ \A y \in {a, b} : c <= y
  BY <1>1
<1>3. \A x \in {a, b} : (\A y \in {a, b} : x <= y) => x = c
  BY <1>1
<1> QED
  BY <1>1, <1>2, <1>3 DEF Min

(* A round of appendBatch moves points from the batch into the series, in  *)
(* order, and at least one of them while there are any.                    *)
Moved(s, consumed, points, r) ==
    /\ Sound(r.target) /\ SameSeries(s, r.target)
    /\ r.consumed \in consumed .. Len(points)
    /\ consumed < Len(points) => consumed < r.consumed
    /\ SeriesPoints(r.target) = SeriesPoints(s) \o SubSeq(points, consumed + 1, r.consumed)

PagesCut(t, points, c, l) ==
    [t EXCEPT !.pending_entries =
        @ \o [i \in 1 .. l |-> Page(t.id, SubSeq(points, c + (i - 1) * RecordsMax + 1,
                                                         c + i * RecordsMax))]]
BufferCut(t, points, c, a) == [t EXCEPT !.buffer = @ \o SubSeq(points, c + 1, c + a)]

LEMMA PagesMoved ==
    ASSUME NEW points \in Seq(PointRecord), NEW c \in Nat, NEW n \in Nat, n = Len(points),
           NEW t, Sound(t), t.buffer = << >>,
           NEW l \in Nat \ {0}, NEW y \in Nat, y = l * RecordsMax, c + y <= n,
           NEW u, u = PagesCut(t, points, c, l), NEW r, r.consumed = c + y, r.target = u
    PROVE  Moved(t, c, points, r)
<1>20. PICK q : q = [i \in 1 .. l |-> Page(t.id, SubSeq(points, c + (i - 1) * RecordsMax + 1,
                                                               c + i * RecordsMax))]
  OBVIOUS
<1>0. PICK R \in Nat \ {0} : R = RecordsMax
  BY SeriesWriterAssumption
<1>1. t \in SeriesRecord
  BY DEF Sound
<1>2. PICK e : e = [i \in 0 .. l |-> c + i * R]
  OBVIOUS
<1>3. ASSUME NEW i \in 0 .. l PROVE e[i] \in c .. n
  <2>1. i * R <= l * R /\ i * R \in Nat
    <3>1. PICK d \in Nat : l = i + d
      <4>1. l - i \in Nat /\ l = i + (l - i)
        OBVIOUS
      <4> QED
        BY <4>1
    <3>2. l * R = i * R + d * R /\ i * R \in Nat /\ d * R \in Nat
      BY <3>1
    <3> QED
      BY <3>2
  <2>2. e[i] = c + i * R
    BY <1>2
  <2>3. PICK x, z \in Nat : x = i * R /\ z = l * R
    BY <2>1
  <2> QED
    BY <1>0, <2>1, <2>2, <2>3
<1>4. ASSUME NEW i \in 1 .. l
      PROVE  /\ i - 1 \in 0 .. l /\ i \in 0 .. l
             /\ e[i - 1] = c + (i - 1) * R /\ e[i] = c + i * R /\ e[i] = e[i - 1] + R
  <2>1. i - 1 \in 0 .. l /\ i \in 0 .. l
    OBVIOUS
  <2>2. e[i - 1] = c + (i - 1) * R /\ e[i] = c + i * R
    BY <1>2, <2>1
  <2>3. (i - 1) * R + R = i * R
    OBVIOUS
  <2> QED
    BY <2>1, <2>2, <2>3
<1>5. e \in [0 .. l -> c .. Len(points)] /\ e[0] = c /\ e[l] = c + l * R
  <2>1. 0 \in 0 .. l /\ l \in 0 .. l
    OBVIOUS
  <2>2. e[0] = c + 0 * R /\ 0 * R = 0 /\ e[l] = c + l * R
    BY <1>2, <2>1
  <2>3. e \in [0 .. l -> c .. n]
    BY Zenon, <1>2, <1>3
  <2> QED
    BY <2>2, <2>3
<1>6. ASSUME NEW i \in 1 .. l
      PROVE  /\ q[i] \in PageRecord /\ q[i].series_id = t.id
             /\ q[i].points = SubSeq(points, e[i - 1] + 1, e[i])
             /\ q[i].points # << >>
  <2>1. PICK x \in c .. n, z \in c .. n : x = e[i - 1] /\ z = e[i] /\ z = x + R
    BY <1>3, <1>4
  <2>2. PICK b : b = SubSeq(points, x + 1, z)
    OBVIOUS
  <2>3. \A k \in x + 1 .. z : points[k] \in PointRecord
    <3>1. \A k \in x + 1 .. z : k \in 1 .. Len(points)
      BY SMTT(40), <2>1
    <3> QED
      BY <3>1, ElementOfSeq
  <2>4. b \in Seq(PointRecord) /\ Len(b) = R
    <3>1. x + 1 \in Int /\ z \in Int /\ x + 1 <= z /\ z - (x + 1) + 1 = R
      BY SMTT(40), <2>1
    <3> QED
      BY <2>2, <2>3, <3>1, SubSeqProperties
  <2>5. b # << >>
    BY <2>4
  <2>6. q[i] = Page(t.id, SubSeq(points, c + (i - 1) * R + 1, c + i * R))
    BY <1>0, <1>20
  <2>7. q[i] = Page(t.id, b)
    BY <1>4, <2>1, <2>2, <2>6
  <2>8. t.id \in Nat
    BY <1>1, SeriesFields
  <2>9. q[i].series_id = t.id /\ q[i].points = b
    BY <2>7 DEF Page
  <2>10. q[i] \in PageRecord
    BY <2>4, <2>7, <2>8 DEF Page, PageRecord
  <2> QED
    BY <2>1, <2>2, <2>5, <2>9, <2>10
<1>7. q \in Seq(PageRecord) /\ Len(q) = l /\ DOMAIN q = 1 .. l
  <2>1. q \in [1 .. l -> PageRecord]
    BY <1>6, <1>20
  <2> QED
    BY <2>1
<1>8. PagePoints(q) = SubSeq(points, c + 1, e[l])
  <2>1. \A i \in 1 .. l : e[i - 1] <= e[i]
    <3>1. ASSUME NEW i \in 1 .. l PROVE e[i - 1] <= e[i]
      <4>1. e[i - 1] \in c .. n /\ e[i] = e[i - 1] + R
        BY <1>3, <1>4
      <4> QED
        BY <4>1
    <3> QED
      BY <3>1
  <2>2. \A i \in 1 .. l : q[i].points = SubSeq(points, e[i - 1] + 1, e[i])
    BY <1>6
  <2>3. c \in 0 .. Len(points)
    BY <1>3, <1>5
  <2> QED
    <3>1. Sliced(q, points, e, c, l)
      BY <1>5, <1>7, <2>1, <2>2, <2>3 DEF Sliced
    <3> QED
      BY ZenonT(60), <3>1, SlicedPages
<1>9. OwnPages(q, t.id)
  BY <1>6, <1>7 DEF OwnPages
<1>10. PICK p \in Seq(PageRecord) : p = t.pending_entries \o q
  BY <1>1, <1>7, SeriesFields, ConcatProperties
<1>11. u \in SeriesRecord /\ SameSeries(t, u) /\ u.pending_entries = p /\ u.buffer = t.buffer
  <2>1. u = WithPages(t, p) /\ p \in Seq(PageRecord)
    BY <1>10, <1>20 DEF WithPages, PagesCut
  <2> QED
    BY <1>1, <2>1, PagesReplaced
<1>12. OwnPages(p, t.id)
  <2>1. OwnPages(t.pending_entries, t.id) /\ t.pending_entries \in Seq(PageRecord)
    BY <1>1, SeriesFields DEF Sound
  <2> QED
    BY <1>7, <1>9, <1>10, <2>1, OwnPagesConcat
<1>13. Sound(u)
  BY <1>11, <1>12 DEF Sound, SameSeries
<1>14. PICK z : z = SubSeq(points, c + 1, e[l])
  OBVIOUS
<1>15. SeriesPoints(u) = SeriesPoints(t) \o z
  <2>1. PICK a, b : a = PagePoints(t.root) /\ b = PagePoints(t.pending_entries)
    OBVIOUS
  <2>2. a \in Seq(PointRecord) /\ b \in Seq(PointRecord) /\ z \in Seq(PointRecord)
    BY <1>1, <1>7, <1>8, <1>14, <2>1, SeriesFields, PagePointsTyped
  <2>3. PagePoints(p) = b \o z
    BY ZenonT(60), <1>1, <1>7, <1>8, <1>10, <1>14, <2>1, SeriesFields, PagePointsConcat
  <2>4. SeriesPoints(u) = (a \o (b \o z)) \o << >> /\ SeriesPoints(t) = (a \o b) \o << >>
    BY <1>11, <2>1, <2>3 DEF SeriesPoints, SameSeries
  <2>5. (a \o b) \o z = a \o (b \o z)
    <3>1. Associates(a, b, z)
      BY <2>2, Regrouping
    <3> QED
      BY <3>1 DEF Associates
  <2>6. PICK d \in Seq(PointRecord) : d = a \o b
    BY <2>2, ConcatProperties
  <2>7. PICK f \in Seq(PointRecord) : f = d \o z
    BY <2>2, <2>6, ConcatProperties
  <2>8. d \o << >> = d /\ f \o << >> = f
    BY <2>6, <2>7, ConcatEmptySeq
  <2> QED
    BY <2>4, <2>5, <2>6, <2>7, <2>8
<1>16. PICK x \in c .. n : x = e[l] /\ c < x
  <2>1. l \in 1 .. l
    OBVIOUS
  <2>2. e[l] \in c .. n /\ e[l] = e[l - 1] + R /\ e[l - 1] \in c .. n
    BY <1>3, <1>4, <2>1
  <2> QED
    BY <2>2
<1>17. r.consumed = x
  BY <1>0, <1>5, <1>16
<1> QED
  BY <1>11, <1>13, <1>14, <1>15, <1>16, <1>17 DEF Moved

LEMMA BufferMoved ==
    ASSUME NEW points \in Seq(PointRecord), NEW c \in Nat, NEW n \in Nat, n = Len(points),
           NEW t, Sound(t), NEW a \in Nat \ {0}, c + a <= n, Len(t.buffer) + a <= RecordsMax,
           NEW u, u = BufferCut(t, points, c, a), NEW r, r.consumed = c + a, r.target = u
    PROVE  Moved(t, c, points, r)
<1>1. t \in SeriesRecord
  BY DEF Sound
<1>2. PICK x \in c .. n : x = c + a /\ c < x
  OBVIOUS
<1>3. PICK z : z = SubSeq(points, c + 1, x)
  OBVIOUS
<1>4. z \in Seq(PointRecord) /\ Len(z) = a
  <2>1. \A k \in c + 1 .. x : points[k] \in PointRecord
    <3>1. \A k \in c + 1 .. x : k \in 1 .. Len(points)
      BY <1>2
    <3> QED
      BY <3>1, ElementOfSeq
  <2>2. PICK d : d = c + 1
    OBVIOUS
  <2>3. d \in Int /\ x \in Int /\ d <= x /\ x - d + 1 = a
    BY <1>2, <2>2
  <2>4. \A k \in d .. x : points[k] \in PointRecord
    BY <2>1, <2>2
  <2>5. SubSeq(points, d, x) \in Seq(PointRecord) /\ Len(SubSeq(points, d, x)) = a
    BY <2>3, <2>4, SubSeqProperties
  <2> QED
    BY <1>3, <2>2, <2>5
<1>5. t.buffer \in Seq(PointRecord) /\ Len(t.buffer) \in Nat
  BY <1>1, SeriesFields
<1>6. PICK b \in Seq(PointRecord) : b = t.buffer \o z /\ Len(b) = Len(t.buffer) + a
  BY ZenonT(60), <1>4, <1>5, ConcatProperties
<1>7. /\ u \in SeriesRecord /\ SameSeries(t, u) /\ u.buffer = b
      /\ u.pending_entries = t.pending_entries
  <2>1. u = WithBuffer(t, b) /\ b \in Seq(PointRecord)
    BY <1>2, <1>3, <1>6 DEF WithBuffer, BufferCut
  <2> QED
    BY <1>1, <2>1, BufferReplaced
<1>8. Sound(u)
  BY <1>6, <1>7 DEF Sound, SameSeries
<1>9. SeriesPoints(u) = SeriesPoints(t) \o z
  <2>1. PICK d, e : d = PagePoints(t.root) \o PagePoints(t.pending_entries) /\ e = t.buffer
    OBVIOUS
  <2>2. d \in Seq(PointRecord) /\ e \in Seq(PointRecord) /\ z \in Seq(PointRecord)
    BY <1>1, <1>4, <2>1, SeriesFields, ConcatProperties
  <2>3. SeriesPoints(u) = d \o (e \o z) /\ SeriesPoints(t) = d \o e
    BY <1>6, <1>7, <2>1 DEF SeriesPoints, SameSeries
  <2>4. (d \o e) \o z = d \o (e \o z)
    <3>1. Associates(d, e, z)
      BY <2>2, Regrouping
    <3> QED
      BY <3>1 DEF Associates
  <2> QED
    BY <2>3, <2>4
<1> QED
  BY <1>2, <1>3, <1>7, <1>8, <1>9 DEF Moved

LEMMA RoundMoves ==
    ASSUME NEW points \in Seq(PointRecord), NEW s, Sound(s), NEW c \in 0 .. Len(points)
    PROVE  Moved(s, c, points, Round(s, c, points))
<1>0. PICK n \in Nat : n = Len(points)
  OBVIOUS
<1>1. PICK r : r = Round(s, c, points)
  OBVIOUS
<1>2. PICK t : t = Flushed(s)
  OBVIOUS
<1>3. /\ Sound(t) /\ SameSeries(s, t) /\ SeriesPoints(t) = SeriesPoints(s)
      /\ Len(t.buffer) < RecordsMax
  BY <1>2, FlushedKeeps
<1>4. PICK left \in Nat : left = n - c
  <2>1. n - c \in Nat
    BY <1>0
  <2> QED
    BY <2>1
<1>5. CASE left = 0
  <2>1. r = [target |-> s, consumed |-> c]
    BY <1>0, <1>1, <1>4, <1>5 DEF Round
  <2>2. r.target = s /\ r.consumed = c /\ c = n
    BY <1>4, <1>5, <2>1
  <2>3. s \in SeriesRecord
    BY DEF Sound
  <2>4. PICK d : d = PagePoints(s.root) \o PagePoints(s.pending_entries)
    OBVIOUS
  <2>5. d \in Seq(PointRecord) /\ s.buffer \in Seq(PointRecord)
    BY <2>3, <2>4, SeriesFields, ConcatProperties
  <2>6. PICK e \in Seq(PointRecord) : e = SeriesPoints(s)
    BY <2>4, <2>5, ConcatProperties DEF SeriesPoints
  <2>7. SubSeq(points, c + 1, c) = << >>
    BY SubSeqEmpty
  <2>8. e \o << >> = e
    BY <2>6, ConcatEmptySeq
  <2>9. SameSeries(s, s)
    BY DEF SameSeries
  <2> QED
    BY <1>0, <1>1, <2>2, <2>6, <2>7, <2>8, <2>9 DEF Moved
<1>6. CASE left # 0
  <2>1. RecordsMax \in Nat \ {0} /\ PageWriteBatchMax \in Nat \ {0}
    BY SeriesWriterAssumption
  <2>2. t.buffer \in Seq(PointRecord) /\ Len(t.buffer) \in Nat
    BY <1>3, SeriesFields DEF Sound
  <2>3. PICK room \in Nat \ {0} : room = RecordsMax - Len(t.buffer)
    BY SMTT(40), <1>3, <2>1, <2>2
  <2>4. PICK whole \in Nat : whole = left \div RecordsMax /\ whole * RecordsMax <= left
    BY <2>1, DivFacts
  <2>5. PICK l : l = IF t.buffer = << >> THEN Min({whole, PageWriteBatchMax}) ELSE 0
    OBVIOUS
  <2>6. Min({whole, PageWriteBatchMax}) = IF whole <= PageWriteBatchMax THEN whole ELSE PageWriteBatchMax
    BY <2>1, MinOfTwo
  <2>7. l \in Nat /\ l <= whole /\ (l # 0 => t.buffer = << >>)
    BY <2>1, <2>5, <2>6
  <2>8. CASE l # 0
    <3>1. l > 0
      BY <2>7, <2>8
    <3>2. l * RecordsMax <= whole * RecordsMax
      <4>1. PICK d \in Nat : whole = l + d
        <5>1. whole - l \in Nat /\ whole = l + (whole - l)
          BY <2>7
        <5> QED
          BY <5>1
      <4>2. whole * RecordsMax = l * RecordsMax + d * RecordsMax /\ d * RecordsMax \in Nat
                /\ l * RecordsMax \in Nat
        BY <2>1, <2>7, <4>1
      <4> QED
        BY <4>2
    <3>3. PICK y \in Nat : y = l * RecordsMax
      BY <2>1, <2>7
    <3>4. c + y <= n
      BY <1>4, <2>1, <2>4, <2>7, <3>2, <3>3
    <3>5. PICK u : u = PagesCut(t, points, c, l)
      OBVIOUS
    <3>7. r = [consumed |-> c + l * RecordsMax, target |-> u]
      <4>1. t.id = s.id
        BY <1>3 DEF SameSeries
      <4>2. Len(points) - c = left
        BY <1>0, <1>4
      <4> QED
        BY <1>1, <1>2, <1>6, <2>4, <2>5, <3>1, <3>5, <4>1, <4>2 DEF Round, PagesCut
    <3>6. r.consumed = c + y /\ r.target = u
      BY <3>3, <3>7
    <3>8. Moved(t, c, points, r)
      BY <1>0, <1>3, <2>7, <2>8, <3>3, <3>4, <3>5, <3>6, PagesMoved
    <3> QED
      BY <1>1, <1>3, <3>8, SameSeriesTrans DEF Moved
  <2>9. CASE l = 0
    <3>1. ~(l > 0)
      BY <2>9
    <3>2. Min({room, left}) = IF room <= left THEN room ELSE left
      BY MinOfTwo
    <3>3. PICK a \in Nat \ {0} : a = Min({room, left}) /\ a <= room /\ a <= left
      BY <1>6, <3>2
    <3>4. c + a <= n /\ Len(t.buffer) + a <= RecordsMax
      BY <1>4, <2>1, <2>2, <2>3, <3>3
    <3>5. PICK u : u = BufferCut(t, points, c, a)
      OBVIOUS
    <3>6. r = [consumed |-> c + a, target |-> u]
      <4>1. Len(points) - c = left
        BY <1>0, <1>4
      <4> QED
        BY <1>1, <1>2, <1>6, <2>3, <2>4, <2>5, <3>1, <3>3, <3>5, <4>1 DEF Round, BufferCut
    <3>8. r.consumed = c + a /\ r.target = u
      BY <3>6
    <3>7. Moved(t, c, points, r)
      BY <1>0, <1>3, <3>3, <3>4, <3>5, <3>8, BufferMoved
    <3> QED
      BY <1>1, <1>3, <3>7, SameSeriesTrans DEF Moved
  <2> QED
    BY <2>8, <2>9
<1> QED
  BY <1>5, <1>6

LEMMA RoundRecord ==
    ASSUME NEW s, NEW c, NEW points
    PROVE  \E a, b : Round(s, c, points) = [consumed |-> a, target |-> b]
BY DEF Round

(* After as many rounds as a batch has points, the series holds all of it. *)
Filled(s, points, rounds, r) ==
    /\ Sound(r.target) /\ SameSeries(s, r.target)
    /\ r.consumed \in 0 .. Len(points)
    /\ r.consumed >= rounds \/ r.consumed = Len(points)
    /\ SeriesPoints(r.target) = SeriesPoints(s) \o SubSeq(points, 1, r.consumed)

LEMMA SeriesPointsTyped ==
    ASSUME NEW s, Sound(s)
    PROVE  SeriesPoints(s) \in Seq(PointRecord)
<1>1. s \in SeriesRecord
  BY DEF Sound
<1>2. PICK d : d = PagePoints(s.root) \o PagePoints(s.pending_entries)
  OBVIOUS
<1>3. d \in Seq(PointRecord) /\ s.buffer \in Seq(PointRecord)
  BY <1>1, <1>2, SeriesFields, ConcatProperties
<1> QED
  BY <1>2, <1>3, ConcatProperties DEF SeriesPoints

LEMMA FilledStarts ==
    ASSUME NEW points \in Seq(PointRecord), NEW s, Sound(s), NEW r, r = [target |-> s, consumed |-> 0]
    PROVE  Filled(s, points, 0, r)
<1>1. r.target = s /\ r.consumed = 0 /\ SubSeq(points, 1, 0) = << >> /\ Len(points) \in Nat
  BY SubSeqEmpty
<1>2. SeriesPoints(s) \o << >> = SeriesPoints(s)
  BY SeriesPointsTyped, ConcatEmptySeq
<1>3. SameSeries(s, s)
  BY DEF SameSeries
<1>4. SeriesPoints(r.target) = SeriesPoints(s) \o SubSeq(points, 1, r.consumed)
  BY <1>1, <1>2
<1>5. Sound(r.target) /\ SameSeries(s, r.target)
  BY <1>1, <1>3
<1>6. r.consumed \in 0 .. Len(points) /\ r.consumed >= 0
  BY <1>1
<1> QED
  BY <1>4, <1>5, <1>6 DEF Filled

LEMMA FilledGoesOn ==
    ASSUME NEW points \in Seq(PointRecord), NEW s, Sound(s), NEW n \in Nat, NEW r, Filled(s, points, n, r)
    PROVE  Filled(s, points, n + 1, Round(r.target, r.consumed, points))
<1>1. PICK t, c, m : t = r.target /\ c = r.consumed /\ m = Len(points)
  OBVIOUS
<1>2. /\ m \in Nat /\ c \in 0 .. m /\ Sound(t) /\ SameSeries(s, t)
      /\ c >= n \/ c = m
      /\ SeriesPoints(t) = SeriesPoints(s) \o SubSeq(points, 1, c)
  BY <1>1 DEF Filled
<1>3. PICK q : q = Round(t, c, points)
  OBVIOUS
<1>4. Moved(t, c, points, q)
  BY <1>1, <1>2, <1>3, RoundMoves
<1>5. PICK u, d : u = q.target /\ d = q.consumed
  OBVIOUS
<1>6. /\ Sound(u) /\ SameSeries(t, u) /\ d \in c .. m /\ (c < m => c < d)
      /\ SeriesPoints(u) = SeriesPoints(t) \o SubSeq(points, c + 1, d)
  BY <1>1, <1>4, <1>5 DEF Moved
<1>7. d \in 0 .. m /\ (d >= n + 1 \/ d = m)
  BY <1>2, <1>6
<1>8. SameSeries(s, u)
  BY <1>2, <1>6, SameSeriesTrans
<1>9. SeriesPoints(u) = SeriesPoints(s) \o SubSeq(points, 1, d)
  <2>1. PICK v, x, y : v = SeriesPoints(s) /\ x = SubSeq(points, 1, c) /\ y = SubSeq(points, c + 1, d)
    OBVIOUS
  <2>2. 1 \in 1 .. m + 1 /\ c \in 1 - 1 .. m /\ d \in c .. m
    BY <1>2, <1>6
  <2>3. x \o y = SubSeq(points, 1, d)
    BY <1>1, <2>1, <2>2, ConcatAdjacentSubSeq
  <2>4. v \in Seq(PointRecord)
    BY <2>1, SeriesPointsTyped
  <2>5. x \in Seq(PointRecord)
    <3>1. \A i \in 1 .. c : points[i] \in PointRecord
      BY <1>1, <1>2, ElementOfSeq
    <3>2. 1 \in Int /\ c \in Int
      BY <1>2
    <3> QED
      BY <2>1, <3>1, <3>2, SubSeqProperties
  <2>6. y \in Seq(PointRecord)
    <3>1. PICK e : e = c + 1
      OBVIOUS
    <3>2. \A i \in e .. d : points[i] \in PointRecord
      <4>1. \A i \in e .. d : i \in 1 .. m
        BY <1>2, <1>6, <3>1
      <4> QED
        BY <1>1, <4>1, ElementOfSeq
    <3>3. e \in Int /\ d \in Int
      BY <1>2, <1>6, <3>1
    <3>4. SubSeq(points, e, d) \in Seq(PointRecord)
      BY <3>2, <3>3, SubSeqProperties
    <3> QED
      BY <2>1, <3>1, <3>4
  <2>7. (v \o x) \o y = v \o (x \o y)
    <3>1. Associates(v, x, y)
      BY <2>4, <2>5, <2>6, Regrouping
    <3> QED
      BY <3>1 DEF Associates
  <2> QED
    BY <1>2, <1>6, <2>1, <2>3, <2>7
<1>10. Filled(s, points, n + 1, q)
  BY <1>1, <1>5, <1>6, <1>7, <1>8, <1>9 DEF Filled
<1> QED
  BY <1>1, <1>3, <1>10

LEMMA RoundsFill ==
    ASSUME NEW points \in Seq(PointRecord), NEW s, Sound(s), NEW rounds \in Nat
    PROVE  Filled(s, points, rounds, AfterRounds(rounds, s, points))
<1> DEFINE St == {st \in [target : SeriesRecord, consumed : 0 .. Len(points)] : Sound(st.target)}
           F == [p \in (1 .. rounds) \X St |-> Round(p[2].target, p[2].consumed, points)]
           Is(h) == h = [n \in 0 .. rounds |->
                            IF n = 0 THEN [target |-> s, consumed |-> 0]
                            ELSE Round(h[n - 1].target, h[n - 1].consumed, points)]
<1>1. PICK x : x = [target |-> s, consumed |-> 0]
  OBVIOUS
<1>2. x \in St
  <2>1. s \in SeriesRecord /\ 0 \in 0 .. Len(points) /\ x.target = s
    BY <1>1 DEF Sound
  <2> QED
    BY <1>1, <2>1
<1>3. ASSUME NEW st \in St PROVE Round(st.target, st.consumed, points) \in St
  <2>1. Sound(st.target) /\ st.consumed \in 0 .. Len(points)
    OBVIOUS
  <2>2. PICK r : r = Round(st.target, st.consumed, points)
    OBVIOUS
  <2>3. Moved(st.target, st.consumed, points, r)
    BY <2>1, <2>2, RoundMoves
  <2>4. PICK a, b : r = [consumed |-> a, target |-> b]
    BY <2>2, RoundRecord
  <2>5. r.target = b /\ r.consumed = a
    BY <2>4
  <2>6. Sound(b) /\ a \in st.consumed .. Len(points)
    BY <2>3, <2>5 DEF Moved
  <2>7. b \in SeriesRecord /\ a \in 0 .. Len(points)
    BY <2>1, <2>6 DEF Sound
  <2> QED
    BY <2>2, <2>4, <2>5, <2>6, <2>7
<1> HIDE DEF St
<1>4. \A n \in 1 .. rounds : \A v \in St :
        F[<<n, v>>] = Round(v.target, v.consumed, points) /\ F[<<n, v>>] \in St
  BY <1>3
<1> HIDE DEF F
<1>5. \A n \in 1 .. rounds : \A v \in St : F[<<n, v>>] \in St
  BY <1>4
<1>6. PICK f \in [0 .. rounds -> St] : Iterates(f, x, F, rounds)
  BY <1>2, <1>5, Recursion
<1>7. ASSUME NEW n \in 1 .. rounds PROVE f[n] = Round(f[n - 1].target, f[n - 1].consumed, points)
  <2>1. f[n - 1] \in St
    BY <1>6
  <2>2. f[n] = F[<<n, f[n - 1]>>]
    BY <1>6 DEF Iterates
  <2> QED
    BY <1>4, <2>1, <2>2
<1>8. f[0] = x
  BY <1>6 DEF Iterates
<1>9. Is(f)
  <2>1. ASSUME NEW n \in 0 .. rounds
        PROVE  f[n] = IF n = 0 THEN [target |-> s, consumed |-> 0]
                      ELSE Round(f[n - 1].target, f[n - 1].consumed, points)
    <3>1. CASE n = 0
      BY <1>1, <1>8, <3>1
    <3>2. CASE n # 0
      <4>1. n \in 1 .. rounds
        BY <3>2
      <4> QED
        BY <1>7, <3>2, <4>1
    <3> QED
      BY <3>1, <3>2
  <2> QED
    BY <1>6, <2>1
<1>10. PICK g : g = (CHOOSE h : Is(h)) /\ Is(g)
  BY <1>9
<1>11. AfterRounds(rounds, s, points) = g[rounds]
  BY <1>10 DEF AfterRounds
<1>12. \A n \in 0 .. rounds : g[n] = IF n = 0 THEN [target |-> s, consumed |-> 0]
                                     ELSE Round(g[n - 1].target, g[n - 1].consumed, points)
  BY Zenon, <1>10
<1> DEFINE T == {n \in 0 .. rounds : Filled(s, points, n, g[n])}
<1>13. 0 \in T
  <2>1. 0 \in 0 .. rounds
    OBVIOUS
  <2>2. g[0] = [target |-> s, consumed |-> 0]
    BY <1>12, <2>1
  <2> QED
    BY <2>1, <2>2, FilledStarts
<1>14. ASSUME NEW n \in 0 .. rounds, n # rounds, n \in T PROVE n + 1 \in T
  <2>1. PICK k \in 1 .. rounds : k = n + 1
    BY <1>14
  <2>2. k - 1 = n /\ k \in 0 .. rounds /\ k # 0 /\ n \in Nat
    BY <2>1
  <2>3. g[k] = Round(g[n].target, g[n].consumed, points)
    BY <1>12, <2>2
  <2>4. Filled(s, points, n, g[n])
    BY <1>14
  <2>5. Filled(s, points, k, g[k])
    BY <2>1, <2>2, <2>3, <2>4, FilledGoesOn
  <2> QED
    BY <2>1, <2>2, <2>5
<1> HIDE DEF T
<1>15. \A n \in 0 .. rounds : n \in T
  BY <1>13, <1>14, Induction
<1>16. rounds \in T
  BY <1>15
<1> QED
  BY <1>11, <1>16 DEF T

-----------------------------------------------------------------------------
(* The manifest of a checkpoint.                                           *)

EntryRecord == [name : Names, id : Nat, pages : Seq(PageRecord)]

Catalogue(known) ==
    /\ known \in Seq(SeriesRecord)
    /\ \A i \in DOMAIN known : Sound(known[i])
    /\ \A i, j \in DOMAIN known :
            i < j => known[i].id < known[j].id /\ known[i].name # known[j].name

(* A series is dirty when it has pages or points that are not published.   *)
Tidy(s) == s.dirty <=> (s.pending_entries # << >> \/ s.buffer # << >>)

LEMMA FlushSeriesKeeps ==
    ASSUME NEW s, Sound(s), Tidy(s), NEW t, t = FlushSeries(s)
    PROVE  /\ Sound(t) /\ SameSeries(s, t) /\ SeriesPoints(t) = SeriesPoints(s)
           /\ t.buffer = << >> /\ (t.pending_entries # << >> <=> s.dirty)
<1>1. s.dirty \in BOOLEAN
  BY SeriesFields DEF Sound
<1>2. CASE s.dirty /\ s.buffer # << >>
  <2>1. t = Pushed(s)
    BY <1>2 DEF FlushSeries, Pushed
  <2> QED
    BY <1>2, <2>1, PushKeeps
<1>3. CASE ~(s.dirty /\ s.buffer # << >>)
  <2>1. t = s
    BY <1>3 DEF FlushSeries
  <2>2. s.buffer = << >> /\ (s.pending_entries # << >> <=> s.dirty)
    BY <1>1, <1>3 DEF Tidy
  <2>3. SameSeries(s, s)
    BY DEF SameSeries
  <2> QED
    BY <2>1, <2>2, <2>3
<1> QED
  BY <1>2, <1>3

(* The entry of a series: its pages, all of them and nothing else.         *)
LEMMA NextEntryFacts ==
    ASSUME NEW i, Sound(series[i]), Tidy(series[i])
    PROVE  /\ NextEntry(i) \in EntryRecord
           /\ NextEntry(i).name = series[i].name /\ NextEntry(i).id = series[i].id
           /\ OwnPages(NextEntry(i).pages, series[i].id)
           /\ PagePoints(NextEntry(i).pages) = SeriesPoints(series[i])
           /\ NextEntry(i).pages # << >> <=> (series[i].root # << >> \/ series[i].dirty)
<1>1. PICK s, t : s = series[i] /\ t = FlushSeries(series[i])
  OBVIOUS
<1>2. /\ Sound(t) /\ SameSeries(s, t) /\ SeriesPoints(t) = SeriesPoints(s)
      /\ t.buffer = << >> /\ (t.pending_entries # << >> <=> s.dirty)
  BY <1>1, FlushSeriesKeeps
<1>3. /\ t.root \in Seq(PageRecord) /\ t.pending_entries \in Seq(PageRecord)
      /\ s.name \in Names /\ s.id \in Nat
  BY <1>1, <1>2, SeriesFields DEF Sound
<1>4. PICK p \in Seq(PageRecord) : p = t.root \o t.pending_entries
  BY <1>3, ConcatProperties
<1>5. NextEntry(i) = [name |-> s.name, id |-> s.id, pages |-> p]
  BY <1>1, <1>4 DEF NextEntry
<1>6. /\ NextEntry(i).name = s.name /\ NextEntry(i).id = s.id /\ NextEntry(i).pages = p
      /\ NextEntry(i) \in EntryRecord
  <2>1. PICK e, a, b : e = NextEntry(i) /\ a = s.name /\ b = s.id
    OBVIOUS
  <2>2. e = [name |-> a, id |-> b, pages |-> p] /\ a \in Names /\ b \in Nat /\ p \in Seq(PageRecord)
    BY <1>3, <1>4, <1>5, <2>1
  <2>3. e.name = a /\ e.id = b /\ e.pages = p /\ e \in EntryRecord
    BY <2>2 DEF EntryRecord
  <2> QED
    BY <2>1, <2>3
<1>7. OwnPages(p, s.id)
  <2>1. OwnPages(t.root, s.id) /\ OwnPages(t.pending_entries, s.id)
    BY <1>2 DEF Sound, SameSeries
  <2> QED
    BY <1>3, <1>4, <2>1, OwnPagesConcat
<1>8. p # << >> <=> (s.root # << >> \/ s.dirty)
  <2>1. p = << >> <=> t.root = << >> /\ t.pending_entries = << >>
    BY <1>3, <1>4, ConcatEqualIffEmpty
  <2>2. t.root = s.root
    BY <1>2 DEF SameSeries
  <2> QED
    BY <1>2, <2>1, <2>2
<1>9. PagePoints(p) = SeriesPoints(s)
  <2>1. PICK a, b : a = PagePoints(t.root) /\ b = PagePoints(t.pending_entries)
    OBVIOUS
  <2>2. a \in Seq(PointRecord) /\ b \in Seq(PointRecord)
    BY <1>3, <2>1, PagePointsTyped
  <2>3. PagePoints(p) = a \o b
    BY <1>3, <1>4, <2>1, PagePointsConcat
  <2>4. SeriesPoints(t) = (a \o b) \o << >>
    BY <1>2, <2>1 DEF SeriesPoints
  <2>5. PICK d \in Seq(PointRecord) : d = a \o b
    BY <2>2, ConcatProperties
  <2>6. d \o << >> = d
    BY <2>5, ConcatEmptySeq
  <2> QED
    BY <1>2, <2>3, <2>4, <2>5, <2>6
<1> QED
  BY <1>1, <1>6, <1>7, <1>8, <1>9

(* The manifest of the first n series.                                     *)
Keeps(k, n) ==
    /\ k[0] = << >>
    /\ \A i \in 1 .. n : k[i] = IF NextEntry(i).pages = << >> THEN k[i - 1]
                                ELSE Append(k[i - 1], NextEntry(i))

LEMMA NextManifestKeeps ==
    ASSUME NEW N \in Nat, N = Len(series), \A i \in 1 .. N : NextEntry(i) \in EntryRecord
    PROVE  \E k \in [0 .. N -> Seq(EntryRecord)] : Keeps(k, N) /\ NextManifest = k[N]
<1>0. PICK Q : Q = Seq(EntryRecord)
  OBVIOUS
<1>1. << >> \in Q /\ \A v \in Q : \A e \in EntryRecord : Append(v, e) \in Q
  BY <1>0, EmptySeq, AppendProperties
<1> DEFINE F == [p \in (1 .. N) \X Q |-> IF NextEntry(p[1]).pages = << >> THEN p[2]
                                         ELSE Append(p[2], NextEntry(p[1]))]
           Is(h) == h = [n \in 0 .. N |-> IF n = 0 THEN << >>
                                          ELSE IF NextEntry(n).pages = << >> THEN h[n - 1]
                                          ELSE Append(h[n - 1], NextEntry(n))]
<1>2. \A n \in 1 .. N : \A v \in Q :
        /\ F[<<n, v>>] = (IF NextEntry(n).pages = << >> THEN v ELSE Append(v, NextEntry(n)))
        /\ F[<<n, v>>] \in Q
  BY <1>1
<1> HIDE DEF F
<1>3. \A n \in 1 .. N : \A v \in Q : F[<<n, v>>] \in Q
  BY <1>2
<1>4. PICK f \in [0 .. N -> Q] : Iterates(f, << >>, F, N)
  BY <1>1, <1>3, Recursion
<1>5. ASSUME NEW n \in 1 .. N
      PROVE  f[n] = IF NextEntry(n).pages = << >> THEN f[n - 1] ELSE Append(f[n - 1], NextEntry(n))
  <2>1. f[n - 1] \in Q
    BY <1>4
  <2>2. f[n] = F[<<n, f[n - 1]>>]
    BY <1>4 DEF Iterates
  <2> QED
    BY <1>2, <2>1, <2>2
<1>6. f[0] = << >>
  BY <1>4 DEF Iterates
<1>7. Is(f)
  <2>1. ASSUME NEW n \in 0 .. N
        PROVE  f[n] = IF n = 0 THEN << >>
                      ELSE IF NextEntry(n).pages = << >> THEN f[n - 1]
                      ELSE Append(f[n - 1], NextEntry(n))
    <3>1. CASE n = 0
      BY <1>6, <3>1
    <3>2. CASE n # 0
      <4>1. n \in 1 .. N
        BY <3>2
      <4> QED
        BY <1>5, <3>2, <4>1
    <3> QED
      BY <3>1, <3>2
  <2> QED
    BY <1>4, <2>1
<1>8. PICK g : g = (CHOOSE h : Is(h)) /\ Is(g)
  BY ZenonT(60), <1>7
<1>9. NextManifest = g[N]
  BY <1>8 DEF NextManifest
<1>10. \A n \in 0 .. N : g[n] = IF n = 0 THEN << >>
                                ELSE IF NextEntry(n).pages = << >> THEN g[n - 1]
                                ELSE Append(g[n - 1], NextEntry(n))
  BY Zenon, <1>8
<1>11. Keeps(g, N)
  <2>1. 0 \in 0 .. N /\ \A i \in 1 .. N : i \in 0 .. N /\ i # 0
    OBVIOUS
  <2> QED
    BY <1>10, <2>1 DEF Keeps
<1> DEFINE T == {n \in 0 .. N : g[n] = f[n]}
<1>12. 0 \in T
  BY <1>6, <1>11 DEF Keeps
<1>13. ASSUME NEW n \in 0 .. N, n # N, n \in T PROVE n + 1 \in T
  <2>1. PICK k \in 1 .. N : k = n + 1
    BY <1>13
  <2>2. k - 1 = n /\ k \in 0 .. N
    BY <2>1
  <2>3. g[k] = f[k]
    BY <1>5, <1>11, <1>13, <2>2 DEF Keeps
  <2> QED
    BY <2>1, <2>2, <2>3
<1> HIDE DEF T
<1>14. \A n \in 0 .. N : n \in T
  BY <1>12, <1>13, Induction
<1>15. N \in T
  BY <1>14
<1>16. NextManifest = f[N] /\ Keeps(f, N)
  BY <1>5, <1>6, <1>9, <1>15 DEF Keeps, T
<1> QED
  BY <1>0, <1>4, <1>16

(* Its entries are those of the series with pages, in the same order.      *)
InOrder(entries) ==
    \A i, j \in DOMAIN entries :
        i < j => entries[i].id < entries[j].id /\ entries[i].name # entries[j].name

Built(entries, n) ==
    /\ entries \in Seq(EntryRecord)
    /\ \A j \in DOMAIN entries : \E i \in 1 .. n :
            entries[j] = NextEntry(i) /\ NextEntry(i).pages # << >>
    /\ \A i \in 1 .. n : NextEntry(i).pages # << >> =>
            \E j \in DOMAIN entries : entries[j] = NextEntry(i)
    /\ InOrder(entries)

LEMMA BuiltMore ==
    ASSUME NEW N \in Nat, N = Len(series), Catalogue(series), \A i \in 1 .. N : Tidy(series[i]),
           NEW n \in 0 .. N, NEW k \in 1 .. N, k = n + 1, NEW before, Built(before, n), NEW after,
           after = IF NextEntry(k).pages = << >> THEN before ELSE Append(before, NextEntry(k))
    PROVE  Built(after, k)
<1>1. DOMAIN series = 1 .. N
  BY DEF Catalogue
<1>2. \A i \in 1 .. N : /\ NextEntry(i) \in EntryRecord
                        /\ NextEntry(i).name = series[i].name /\ NextEntry(i).id = series[i].id
  BY <1>1, NextEntryFacts DEF Catalogue
<1>3. \A i \in 1 .. n : i \in 1 .. k /\ i \in 1 .. N /\ i < k
  OBVIOUS
<1>4. \A i \in 1 .. k : i \in 1 .. n \/ i = k
  OBVIOUS
<1>5. CASE NextEntry(k).pages = << >>
  <2>1. after = before
    BY <1>5
  <2> QED
    BY Zenon, <1>3, <1>4, <1>5, <2>1 DEF Built
<1>6. CASE NextEntry(k).pages # << >>
  <2>1. PICK e \in EntryRecord : e = NextEntry(k)
    BY <1>2
  <2>2. before \in Seq(EntryRecord) /\ after = Append(before, e)
    BY <1>6, <2>1 DEF Built
  <2>3. PICK m \in Nat : m = Len(before) /\ DOMAIN before = 1 .. m
    BY <2>2
  <2>4. PICK l \in Nat : l = m + 1
    BY <2>3
  <2>5. /\ after \in Seq(EntryRecord) /\ DOMAIN after = 1 .. l /\ after[l] = e
        /\ \A j \in 1 .. m : after[j] = before[j]
    BY <2>2, <2>3, <2>4, AppendProperties
  <2>6. l \in 1 .. l /\ \A j \in 1 .. m : j \in 1 .. l
    BY <2>4
  <2>7. \A j \in 1 .. l : j \in 1 .. m \/ j = l
    BY <2>4
  <2>8. k \in 1 .. k
    OBVIOUS
  <2>9. ASSUME NEW j \in 1 .. l
        PROVE  \E i \in 1 .. k : after[j] = NextEntry(i) /\ NextEntry(i).pages # << >>
    <3>1. CASE j \in 1 .. m
      <4>1. PICK i \in 1 .. n : before[j] = NextEntry(i) /\ NextEntry(i).pages # << >>
        BY <2>3, <3>1 DEF Built
      <4> QED
        BY <1>3, <2>5, <3>1, <4>1
    <3>2. CASE j = l
      BY <1>6, <2>1, <2>5, <2>8, <3>2
    <3> QED
      BY <2>7, <3>1, <3>2
  <2>10. ASSUME NEW i \in 1 .. k, NextEntry(i).pages # << >>
         PROVE  \E j \in 1 .. l : after[j] = NextEntry(i)
    <3>1. CASE i \in 1 .. n
      <4>1. PICK j \in 1 .. m : before[j] = NextEntry(i)
        BY <2>3, <2>10, <3>1 DEF Built
      <4> QED
        BY <2>5, <2>6, <4>1
    <3>2. CASE i = k
      BY <2>1, <2>5, <2>6, <3>2
    <3> QED
      BY <1>4, <3>1, <3>2
  <2>11. ASSUME NEW i \in 1 .. l, NEW j \in 1 .. l, i < j
         PROVE  after[i].id < after[j].id /\ after[i].name # after[j].name
    <3>1. i \in 1 .. m
      BY <2>4, <2>11
    <3>2. CASE j \in 1 .. m
      <4>1. i \in DOMAIN before /\ j \in DOMAIN before /\ InOrder(before)
        BY <2>3, <3>1, <3>2 DEF Built
      <4>2. before[i].id < before[j].id /\ before[i].name # before[j].name
        BY Zenon, <2>11, <4>1 DEF InOrder
      <4>3. after[i] = before[i] /\ after[j] = before[j]
        BY <2>5, <3>1, <3>2
      <4> QED
        BY Zenon, <4>2, <4>3
    <3>3. CASE j = l
      <4>1. PICK d \in 1 .. n : before[i] = NextEntry(d)
        BY <2>3, <3>1 DEF Built
      <4>2. after[i].id = series[d].id /\ after[i].name = series[d].name
        BY <1>2, <1>3, <2>5, <3>1, <4>1
      <4>3. after[j].id = series[k].id /\ after[j].name = series[k].name
        BY <1>2, <2>1, <2>5, <3>3
      <4>4. series[d].id < series[k].id /\ series[d].name # series[k].name
        <5>1. d \in DOMAIN series /\ k \in DOMAIN series /\ d < k
          BY <1>1, <1>3
        <5> QED
          BY Zenon, <5>1 DEF Catalogue
      <4> QED
        BY Zenon, <4>2, <4>3, <4>4
    <3> QED
      BY <2>7, <3>2, <3>3
  <2>12. InOrder(after)
    <3> SUFFICES ASSUME NEW i \in DOMAIN after, NEW j \in DOMAIN after, i < j
                 PROVE  after[i].id < after[j].id /\ after[i].name # after[j].name
      BY Zenon DEF InOrder
    <3>1. i \in 1 .. l /\ j \in 1 .. l
      BY <2>5
    <3> QED
      BY <2>11, <3>1
  <2> QED
    BY Zenon, <2>5, <2>9, <2>10, <2>12 DEF Built
<1> QED
  BY <1>5, <1>6

LEMMA NextManifestBuilt ==
    ASSUME NEW N \in Nat, N = Len(series), Catalogue(series), \A i \in 1 .. N : Tidy(series[i])
    PROVE  Built(NextManifest, N)
<1>1. DOMAIN series = 1 .. N
  BY DEF Catalogue
<1>2. \A i \in 1 .. N : NextEntry(i) \in EntryRecord
  BY <1>1, NextEntryFacts DEF Catalogue
<1>3. PICK k \in [0 .. N -> Seq(EntryRecord)] : Keeps(k, N) /\ NextManifest = k[N]
  BY <1>2, NextManifestKeeps
<1> DEFINE T == {n \in 0 .. N : Built(k[n], n)}
<1>4. 0 \in T
  <2>1. 0 \in 0 .. N /\ k[0] = << >>
    BY <1>3 DEF Keeps
  <2>2. Built(<< >>, 0)
    BY DEF Built, InOrder
  <2> QED
    BY <2>1, <2>2
<1>5. ASSUME NEW n \in 0 .. N, n # N, n \in T PROVE n + 1 \in T
  <2>1. PICK j \in 1 .. N : j = n + 1
    BY <1>5
  <2>2. j - 1 = n /\ j \in 0 .. N
    BY <2>1
  <2>3. k[j] = IF NextEntry(j).pages = << >> THEN k[n] ELSE Append(k[n], NextEntry(j))
    BY <1>3, <2>2 DEF Keeps
  <2>4. Built(k[n], n)
    BY <1>5
  <2>5. Built(k[j], j)
    BY <2>1, <2>3, <2>4, BuiltMore
  <2> QED
    BY <2>1, <2>2, <2>5
<1> HIDE DEF T
<1>6. \A n \in 0 .. N : n \in T
  BY <1>4, <1>5, Induction
<1>7. N \in T
  BY <1>6
<1> QED
  BY <1>3, <1>7 DEF T

(* What the writer adds up.                                                *)
Sizes(known) == [i \in DOMAIN known |-> SeriesSize(known[i].name)]
Ones(known) == [i \in DOMAIN known |-> 1]
Rooted(known) == {i \in DOMAIN known : known[i].root # << >>}
Dirty(known) == {i \in DOMAIN known : known[i].dirty}

SizesOf(entries) == [i \in DOMAIN entries |-> SeriesSize(entries[i].name)]

LEMMA SeriesSizeTyped ==
    ASSUME NEW name \in Names
    PROVE  SeriesSize(name) \in Nat
BY SeriesWriterAssumption DEF SeriesSize

LEMMA SizesTyped ==
    ASSUME NEW known \in Seq(SeriesRecord), NEW N \in Nat, N = Len(known)
    PROVE  /\ Sizes(known) \in Seq(Nat) /\ Len(Sizes(known)) = N
           /\ \A i \in 1 .. N : Sizes(known)[i] = SeriesSize(known[i].name)
           /\ Ones(known) \in Seq(Nat) /\ Len(Ones(known)) = N
           /\ \A i \in 1 .. N : Ones(known)[i] = 1
<1>1. DOMAIN known = 1 .. N
  OBVIOUS
<1>2. ASSUME NEW i \in 1 .. N PROVE SeriesSize(known[i].name) \in Nat
  <2>1. known[i] \in SeriesRecord
    BY ElementOfSeq
  <2> QED
    BY <2>1, SeriesFields, SeriesSizeTyped
<1>3. Sizes(known) \in [1 .. N -> Nat] /\ \A i \in 1 .. N : Sizes(known)[i] = SeriesSize(known[i].name)
  BY <1>1, <1>2 DEF Sizes
<1>4. Ones(known) \in [1 .. N -> Nat] /\ \A i \in 1 .. N : Ones(known)[i] = 1
  BY <1>1 DEF Ones
<1> QED
  BY <1>3, <1>4

Weighs(v, w, known, N) ==
    /\ v \in Seq(Nat) /\ w \in Seq(Nat) /\ v = Sizes(known) /\ w = Ones(known)
    /\ Len(v) = N /\ Len(w) = N
    /\ \A i \in 1 .. N : v[i] = SeriesSize(known[i].name) /\ w[i] = 1

LEMMA SeriesWeigh ==
    ASSUME NEW known \in Seq(SeriesRecord), NEW N \in Nat, N = Len(known)
    PROVE  \E v, w : Weighs(v, w, known, N)
<1>1. Weighs(Sizes(known), Ones(known), known, N)
  BY SizesTyped DEF Weighs
<1> QED
  BY Zenon, <1>1

LEMMA SizesOfTyped ==
    ASSUME NEW entries \in Seq(EntryRecord)
    PROVE  /\ SizesOf(entries) \in Seq(Nat) /\ Len(SizesOf(entries)) = Len(entries)
           /\ \A i \in 1 .. Len(entries) : SizesOf(entries)[i] = SeriesSize(entries[i].name)
           /\ EntriesSize(entries) = HeaderSize + Total(SizesOf(entries))
<1>1. PICK m \in Nat : m = Len(entries) /\ DOMAIN entries = 1 .. m
  OBVIOUS
<1>2. ASSUME NEW i \in 1 .. m PROVE SeriesSize(entries[i].name) \in Nat
  <2>1. entries[i] \in EntryRecord
    BY <1>1
  <2>2. entries[i].name \in Names
    BY <2>1 DEF EntryRecord
  <2> QED
    BY <2>2, SeriesSizeTyped
<1>3. SizesOf(entries) \in [1 .. m -> Nat] /\ \A i \in 1 .. m : SizesOf(entries)[i] = SeriesSize(entries[i].name)
  BY <1>1, <1>2 DEF SizesOf
<1> QED
  BY <1>1, <1>3 DEF EntriesSize, SizesOf

(* The size and the number of its entries.                                 *)
LEMMA NextManifestSize ==
    ASSUME NEW N \in Nat, N = Len(series), Catalogue(series), \A i \in 1 .. N : Tidy(series[i])
    PROVE  /\ EntriesSize(NextManifest) = HeaderSize + Total(Chosen(Sizes(series), Rooted(series) \cup Dirty(series)))
           /\ Len(NextManifest) = Total(Chosen(Ones(series), Rooted(series) \cup Dirty(series)))
<1>1. DOMAIN series = 1 .. N /\ series \in Seq(SeriesRecord)
  BY DEF Catalogue
<1>2. PICK P : P = Rooted(series) \cup Dirty(series)
  OBVIOUS
<1>3. \A i \in 1 .. N : /\ NextEntry(i) \in EntryRecord /\ NextEntry(i).name = series[i].name
                        /\ NextEntry(i).pages # << >> <=> (series[i].root # << >> \/ series[i].dirty)
  BY <1>1, NextEntryFacts DEF Catalogue
<1>4. \A i \in 1 .. N : i \in P <=> NextEntry(i).pages # << >>
  <2>1. \A i \in 1 .. N : i \in P <=> (series[i].root # << >> \/ series[i].dirty)
    BY Zenon, <1>1, <1>2 DEF Rooted, Dirty
  <2> QED
    BY Zenon, <1>3, <2>1
<1>5. PICK k \in [0 .. N -> Seq(EntryRecord)] : Keeps(k, N) /\ NextManifest = k[N]
  BY <1>3, NextManifestKeeps
<1>6. PICK v, w : v = Chosen(Sizes(series), P) /\ w = Chosen(Ones(series), P)
  OBVIOUS
<1>7. /\ v \in Seq(Nat) /\ Len(v) = N
      /\ \A i \in 1 .. N : v[i] = IF i \in P THEN SeriesSize(series[i].name) ELSE 0
  BY SMTT(40), <1>1, <1>6, SizesTyped, ChosenTyped
<1>8. /\ w \in Seq(Nat) /\ Len(w) = N
      /\ \A i \in 1 .. N : w[i] = IF i \in P THEN 1 ELSE 0
  BY SMTT(40), <1>1, <1>6, SizesTyped, ChosenTyped
<1>9. PICK f \in [0 .. N -> Nat] : Sums(f, v, N) /\ Total(v) = f[N]
  BY <1>7, TotalSums
<1>10. PICK g \in [0 .. N -> Nat] : Sums(g, w, N) /\ Total(w) = g[N]
  BY <1>8, TotalSums
<1> DEFINE T == {n \in 0 .. N : Total(SizesOf(k[n])) = f[n] /\ Len(k[n]) = g[n]}
<1>11. 0 \in T
  <2>1. 0 \in 0 .. N /\ k[0] = << >> /\ f[0] = 0 /\ g[0] = 0
    BY <1>5, <1>9, <1>10 DEF Keeps, Sums
  <2>2. SizesOf(<< >>) = << >> /\ Len(<< >>) = 0
    BY DEF SizesOf
  <2> QED
    BY <2>1, <2>2, TotalEmpty
<1>12. ASSUME NEW n \in 0 .. N, n # N, n \in T PROVE n + 1 \in T
  <2>1. PICK j \in 1 .. N : j = n + 1
    BY <1>12
  <2>2. j - 1 = n /\ j \in 0 .. N
    BY <2>1
  <2>3. PICK a, b : a = k[n] /\ b = k[j]
    OBVIOUS
  <2>4. b = (IF NextEntry(j).pages = << >> THEN a ELSE Append(a, NextEntry(j)))
        /\ a \in Seq(EntryRecord) /\ b \in Seq(EntryRecord)
    BY <1>5, <2>2, <2>3 DEF Keeps
  <2>5. f[j] = f[n] + v[j] /\ g[j] = g[n] + w[j] /\ f[n] \in Nat /\ g[n] \in Nat
    BY <1>9, <1>10, <2>2 DEF Sums
  <2>6. Total(SizesOf(a)) = f[n] /\ Len(a) = g[n]
    BY <1>12, <2>3
  <2>7. CASE j \notin P
    <3>1. v[j] = 0 /\ w[j] = 0 /\ b = a
      BY <1>4, <1>7, <1>8, <2>4, <2>7
    <3>2. Total(SizesOf(b)) = f[j] /\ Len(b) = g[j]
      BY <2>5, <2>6, <3>1
    <3> QED
      BY <2>1, <2>2, <2>3, <3>2
  <2>8. CASE j \in P
    <3>1. v[j] = SeriesSize(series[j].name) /\ w[j] = 1 /\ b = Append(a, NextEntry(j))
      BY <1>4, <1>7, <1>8, <2>4, <2>8
    <3>2. PICK e \in EntryRecord : e = NextEntry(j) /\ e.name = series[j].name
      BY <1>3
    <3>3. Len(b) = Len(a) + 1 /\ b[Len(b)] = e /\ \A i \in 1 .. Len(a) : b[i] = a[i]
      BY <2>4, <3>1, <3>2, AppendProperties
    <3>4. PICK r \in Seq(Nat), s \in Seq(Nat) : r = SizesOf(a) /\ s = SizesOf(b)
      BY <2>4, SizesOfTyped
    <3>10. a \in Seq(EntryRecord)
      BY <2>4
    <3>5. PICK m \in Nat : m = Len(a)
      BY <3>10
    <3>6. Len(r) = m /\ Len(s) = m + 1 /\ s[m + 1] = SeriesSize(series[j].name)
      <4>1. Len(r) = m /\ Len(s) = m + 1
        BY <2>4, <3>3, <3>4, <3>5, SizesOfTyped
      <4>2. m + 1 \in 1 .. Len(b) /\ b[m + 1] = e
        BY <3>3, <3>5
      <4>3. s[m + 1] = SeriesSize(b[m + 1].name)
        BY <2>4, <3>4, <4>2, SizesOfTyped
      <4> QED
        BY <3>2, <4>1, <4>2, <4>3
    <3>7. ASSUME NEW i \in 1 .. m PROVE s[i] = r[i]
      <4>1. i \in 1 .. Len(a) /\ i \in 1 .. Len(b)
        BY <3>3, <3>5
      <4>2. s[i] = SeriesSize(b[i].name) /\ r[i] = SeriesSize(a[i].name)
        BY <2>4, <3>4, <4>1, SizesOfTyped
      <4> QED
        BY <3>3, <4>1, <4>2
    <3>8. Total(s) = Total(r) + s[m + 1]
      BY <3>4, <3>6, <3>7, TotalLonger
    <3>9. Total(SizesOf(b)) = f[j] /\ Len(b) = g[j]
      BY <2>5, <2>6, <3>1, <3>3, <3>4, <3>6, <3>8
    <3> QED
      BY <2>1, <2>2, <2>3, <3>9
  <2> QED
    BY <2>7, <2>8
<1> HIDE DEF T
<1>13. \A n \in 0 .. N : n \in T
  BY <1>11, <1>12, Induction
<1>14. N \in T
  BY <1>13
<1>15. Total(SizesOf(NextManifest)) = Total(v) /\ Len(NextManifest) = Total(w)
  BY <1>5, <1>9, <1>10, <1>14 DEF T
<1>16. NextManifest \in Seq(EntryRecord)
  BY <1>5
<1> QED
  BY <1>2, <1>6, <1>15, <1>16, SizesOfTyped


-----------------------------------------------------------------------------
(* The invariant.  The published manifest and, while the writer is usable, *)
(* its memory hold the same batches: a predicate each, of the state they   *)
(* speak about.                                                            *)

PointsOf(all, b) == [i \in DOMAIN all[b] |-> Point(all[b][i], b)]
ListPoints(all, list) == FlattenSeq([k \in DOMAIN list |-> PointsOf(all, list[k])])

Increasing(points) ==
    \A k \in 1 .. Len(points) - 1 : points[k].timestamp < points[k + 1].timestamp

Rows(all, rows) ==
    /\ all \in Seq(Seq(Int))
    /\ rows \in [Names -> Seq(1 .. Len(all))]
    /\ \A name \in Names : Increasing(ListPoints(all, rows[name]))

EntriesHold(entries, all, rows) ==
    /\ \A i \in DOMAIN entries :
            PagePoints(entries[i].pages) = ListPoints(all, rows[entries[i].name])
    /\ \A name \in Names :
            (\A i \in DOMAIN entries : entries[i].name # name) =>
                ListPoints(all, rows[name]) = << >>

Entries(entries) ==
    /\ entries \in Seq(EntryRecord)
    /\ InOrder(entries)
    /\ \A i \in DOMAIN entries :
            OwnPages(entries[i].pages, entries[i].id) /\ entries[i].pages # << >>
    /\ EntriesSize(entries) <= ManifestSizeMax

(* The timestamp the next batch has to follow.                             *)
Stamp(points) == IF points = << >> THEN NoTimestamp ELSE <<points[Len(points)].timestamp>>

SeriesHold(known, all, rows) ==
    /\ \A i \in DOMAIN known :
            /\ SeriesPoints(known[i]) = ListPoints(all, rows[known[i].name])
            /\ known[i].last_timestamp = Stamp(SeriesPoints(known[i]))
    /\ \A name \in Names :
            (\A i \in DOMAIN known : known[i].name # name) =>
                ListPoints(all, rows[name]) = << >>

ListsDirty(list, known) ==
    /\ list \in Seq(1 .. Len(known))
    /\ \A j, k \in 1 .. Len(list) : list[j] = list[k] => j = k
    /\ \A i \in 1 .. Len(known) : known[i].dirty <=> \E k \in 1 .. Len(list) : list[k] = i

Counted(known, size, count, all_size) ==
    /\ size = HeaderSize + Total(Chosen(Sizes(known), Rooted(known)))
    /\ count = Total(Chosen(Ones(known), Rooted(known)))
    /\ all_size = HeaderSize + Total(Sizes(known))
    /\ all_size <= ManifestSizeMax

Known(known) == Catalogue(known) /\ \A i \in DOMAIN known : Tidy(known[i])

Publishes(entries, all, rows) ==
    Rows(all, rows) /\ Entries(entries) /\ EntriesHold(entries, all, rows)

PublishedState == Publishes(manifest, batches, published)

Writes(known, all, rows, list, size, count, all_size) ==
    /\ Rows(all, rows)
    /\ Known(known)
    /\ SeriesHold(known, all, rows)
    /\ ListsDirty(list, known)
    /\ Counted(known, size, count, all_size)

WriterState ==
    Writes(series, batches, accepted, dirty_series, manifest_size, manifest_series_count,
           catalog_manifest_size)

SeriesInv ==
    /\ open \in BOOLEAN /\ poisoned \in BOOLEAN
    /\ PublishedState
    /\ (open /\ ~poisoned) => WriterState


-----------------------------------------------------------------------------
(* The points of the batches of a series.                                  *)

LEMMA PointsOfTyped ==
    ASSUME NEW all \in Seq(Seq(Int)), NEW b \in 1 .. Len(all)
    PROVE  /\ PointsOf(all, b) \in Seq(PointRecord)
           /\ Len(PointsOf(all, b)) = Len(all[b])
           /\ \A i \in 1 .. Len(all[b]) : PointsOf(all, b)[i].timestamp = all[b][i]
<1>1. PICK s \in Seq(Int) : s = all[b]
  BY ElementOfSeq
<1>2. PICK l \in Nat : l = Len(s) /\ DOMAIN s = 1 .. l /\ \A i \in 1 .. l : s[i] \in Int
  BY <1>1
<1>3. PointsOf(all, b) = [i \in 1 .. l |-> [timestamp |-> s[i], batch |-> b]]
  BY <1>1, <1>2 DEF PointsOf, Point
<1>4. b \in Nat
  OBVIOUS
<1>5. \A i \in 1 .. l : [timestamp |-> s[i], batch |-> b] \in PointRecord
  BY <1>2, <1>4 DEF PointRecord
<1> QED
  BY <1>1, <1>2, <1>3, <1>5

RowLists(all, list) == [k \in DOMAIN list |-> PointsOf(all, list[k])]

LEMMA RowsAreLists ==
    ASSUME NEW all \in Seq(Seq(Int)), NEW list \in Seq(1 .. Len(all))
    PROVE  /\ AreLists(RowLists(all, list), PointRecord, Len(list))
           /\ \A k \in 1 .. Len(list) : RowLists(all, list)[k] = PointsOf(all, list[k])
           /\ ListPoints(all, list) = FlattenSeq(RowLists(all, list))
<1>1. PICK l \in Nat : l = Len(list) /\ DOMAIN list = 1 .. l
  OBVIOUS
<1>2. \A k \in 1 .. l : list[k] \in 1 .. Len(all)
  BY <1>1
<1>3. \A k \in 1 .. l : PointsOf(all, list[k]) \in Seq(PointRecord)
  BY <1>2, PointsOfTyped
<1>4. RowLists(all, list) \in [1 .. l -> Seq(PointRecord)]
      /\ \A k \in 1 .. l : RowLists(all, list)[k] = PointsOf(all, list[k])
  BY <1>1, <1>3 DEF RowLists
<1>5. Len(RowLists(all, list)) = l /\ DOMAIN RowLists(all, list) = 1 .. l
  BY <1>1, <1>4
<1>6. AreLists(RowLists(all, list), PointRecord, l)
  BY <1>4, <1>5 DEF AreLists
<1> QED
  BY <1>1, <1>4, <1>6 DEF ListPoints, RowLists

LEMMA ListPointsTyped ==
    ASSUME NEW all \in Seq(Seq(Int)), NEW list \in Seq(1 .. Len(all))
    PROVE  ListPoints(all, list) \in Seq(PointRecord)
<1>1. PICK ss : ss = RowLists(all, list)
  OBVIOUS
<1>2. AreLists(ss, PointRecord, Len(list))
  BY <1>1, RowsAreLists
<1> QED
  BY <1>1, <1>2, RowsAreLists, FlattenTyped

LEMMA ListPointsEmpty ==
    ASSUME NEW all \in Seq(Seq(Int))
    PROVE  ListPoints(all, << >>) = << >>
<1>1. << >> \in Seq(1 .. Len(all)) /\ Len(<< >>) = 0
  OBVIOUS
<1>2. PICK ss : ss = RowLists(all, << >>)
  OBVIOUS
<1>3. AreLists(ss, PointRecord, 0) /\ ListPoints(all, << >>) = FlattenSeq(ss)
  BY <1>1, <1>2, RowsAreLists
<1> QED
  BY <1>3, FlattenEmpty

(* A new batch changes nothing about the ones before it.                   *)
LEMMA OneMoreBatch ==
    ASSUME NEW all \in Seq(Seq(Int)), NEW batch \in Seq(Int), NEW more, more = Append(all, batch)
    PROVE  /\ more \in Seq(Seq(Int))
           /\ Len(more) = Len(all) + 1 /\ Len(all) \in Nat /\ Len(more) \in 1 .. Len(more)
           /\ more[Len(more)] = batch
           /\ \A b \in 1 .. Len(all) : b \in 1 .. Len(more) /\ PointsOf(more, b) = PointsOf(all, b)
           /\ \A list \in Seq(1 .. Len(all)) : list \in Seq(1 .. Len(more))
<1>1. PICK n \in Nat : n = Len(all)
  OBVIOUS
<1>2. /\ more \in Seq(Seq(Int)) /\ Len(more) = n + 1 /\ more[n + 1] = batch
      /\ \A b \in 1 .. n : more[b] = all[b]
  BY <1>1, AppendProperties
<1>3. \A b \in 1 .. n : b \in 1 .. n + 1
  OBVIOUS
<1>4. \A b \in 1 .. n : PointsOf(more, b) = PointsOf(all, b)
  BY <1>2 DEF PointsOf
<1>5. 1 .. n \subseteq 1 .. n + 1
  OBVIOUS
<1>6. ASSUME NEW list \in Seq(1 .. n) PROVE list \in Seq(1 .. n + 1)
  BY <1>5
<1> QED
  BY <1>1, <1>2, <1>3, <1>4, <1>6

LEMMA ListPointsSame ==
    ASSUME NEW all \in Seq(Seq(Int)), NEW batch \in Seq(Int), NEW list \in Seq(1 .. Len(all))
    PROVE  ListPoints(Append(all, batch), list) = ListPoints(all, list)
<1>1. PICK more : more = Append(all, batch)
  OBVIOUS
<1>2. PICK l \in Nat : l = Len(list) /\ DOMAIN list = 1 .. l
  OBVIOUS
<1>3. \A k \in DOMAIN list : list[k] \in 1 .. Len(all)
  OBVIOUS
<1>4. ASSUME NEW k \in DOMAIN list PROVE PointsOf(more, list[k]) = PointsOf(all, list[k])
  <2>1. PICK b \in 1 .. Len(all) : b = list[k]
    BY <1>3
  <2>2. PointsOf(more, b) = PointsOf(all, b)
    BY <1>1, OneMoreBatch
  <2> QED
    BY <2>1, <2>2
<1>5. [k \in DOMAIN list |-> PointsOf(more, list[k])] = [k \in DOMAIN list |-> PointsOf(all, list[k])]
  BY <1>4
<1> QED
  BY Zenon, <1>1, <1>5 DEF ListPoints

LEMMA ListPointsOneMore ==
    ASSUME NEW all \in Seq(Seq(Int)), NEW batch \in Seq(Int), NEW list \in Seq(1 .. Len(all)),
           NEW more, more = Append(all, batch)
    PROVE  /\ Append(list, Len(more)) \in Seq(1 .. Len(more))
           /\ ListPoints(more, Append(list, Len(more))) = ListPoints(all, list) \o PointsOf(more, Len(more))
<1>1. PICK n \in Nat : n = Len(more)
  BY OneMoreBatch
<1>2. more \in Seq(Seq(Int)) /\ n \in 1 .. n /\ list \in Seq(1 .. n)
  BY <1>1, OneMoreBatch
<1>3. PICK longer : longer = Append(list, n)
  OBVIOUS
<1>4. PICK l \in Nat : l = Len(list)
  OBVIOUS
<1>5. longer \in Seq(1 .. n) /\ Len(longer) = l + 1 /\ longer[l + 1] = n /\ \A k \in 1 .. l : longer[k] = list[k]
  BY <1>2, <1>3, <1>4, AppendProperties
<1>6. PICK r, t, p : r = RowLists(more, list) /\ t = RowLists(more, longer) /\ p = PointsOf(more, n)
  OBVIOUS
<1>7. p \in Seq(PointRecord)
  BY <1>1, <1>2, <1>6, PointsOfTyped
<1>8. AreLists(r, PointRecord, l) /\ FlattenSeq(r) = ListPoints(more, list)
      /\ \A k \in 1 .. l : r[k] = PointsOf(more, list[k])
  BY <1>1, <1>2, <1>4, <1>6, RowsAreLists
<1>9. AreLists(t, PointRecord, l + 1) /\ FlattenSeq(t) = ListPoints(more, longer)
      /\ \A k \in 1 .. l + 1 : t[k] = PointsOf(more, longer[k])
  BY ZenonT(60), <1>1, <1>2, <1>5, <1>6, RowsAreLists
<1>10. PICK s : s = <<p>>
  OBVIOUS
<1>11. AreLists(s, PointRecord, 1) /\ s[1] = p
  BY <1>7, <1>10 DEF AreLists
<1>12. \A k \in 1 .. l : k \in 1 .. l + 1 /\ t[k] = r[k]
  BY <1>5, <1>8, <1>9
<1>13. \A k \in 1 .. 1 : t[l + k] = s[k]
  <2>1. l + 1 \in 1 .. l + 1
    OBVIOUS
  <2>2. t[l + 1] = p
    BY <1>5, <1>6, <1>9, <2>1
  <2> QED
    BY <1>11, <2>2
<1>14. Continues(t, r, s, PointRecord, l, 1)
  BY <1>8, <1>9, <1>11, <1>12, <1>13 DEF Continues
<1>15. FlattenSeq(t) = FlattenSeq(r) \o FlattenSeq(s)
  BY <1>14, FlattenConcat
<1>16. FlattenSeq(s) = p
  <2>1. PICK f \in [0 .. 1 -> Seq(PointRecord)] : Joins(f, s, 1) /\ FlattenSeq(s) = f[1]
    BY ZenonT(60), <1>11, FlattenJoins
  <2>2. 1 \in 1 .. 1 /\ 1 - 1 = 0
    OBVIOUS
  <2>3. f[0] = << >> /\ f[1] = f[0] \o s[1]
    BY <2>1, <2>2 DEF Joins
  <2> QED
    BY <1>7, <1>11, <2>1, <2>3
<1>17. ListPoints(more, list) = ListPoints(all, list)
  BY ListPointsSame
<1> QED
  BY <1>1, <1>3, <1>5, <1>6, <1>8, <1>9, <1>15, <1>16, <1>17

(* What follows the last point goes on in order.                           *)
LEMMA IncreasingConcat ==
    ASSUME NEW p \in Seq(PointRecord), NEW q \in Seq(PointRecord), Increasing(p), Increasing(q),
           p # << >> /\ q # << >> => p[Len(p)].timestamp < q[1].timestamp
    PROVE  Increasing(p \o q)
<1>1. PICK m \in Nat, n \in Nat : m = Len(p) /\ n = Len(q)
  OBVIOUS
<1>2. PICK r : r = p \o q
  OBVIOUS
<1>3. /\ Len(r) = m + n
      /\ \A k \in 1 .. m : r[k] = p[k]
      /\ \A k \in 1 .. n : r[m + k] = q[k]
  BY <1>1, <1>2, ConcatProperties
<1>4. ASSUME NEW k \in 1 .. (m + n) - 1
      PROVE  r[k].timestamp < r[k + 1].timestamp
  <2>1. CASE k < m
    <3>1. k \in 1 .. m /\ k + 1 \in 1 .. m /\ k \in 1 .. m - 1
      BY <2>1
    <3>2. r[k] = p[k] /\ r[k + 1] = p[k + 1]
      BY <1>3, <3>1
    <3>3. p[k].timestamp < p[k + 1].timestamp
      BY <1>1, <3>1 DEF Increasing
    <3> QED
      BY <3>2, <3>3
  <2>2. CASE k = m
    <3>1. k \in 1 .. m /\ 1 \in 1 .. n
      BY <2>2
    <3>2. r[k] = p[m] /\ r[k + 1] = q[1]
      BY <1>3, <2>2, <3>1
    <3>3. p # << >> /\ q # << >>
      BY <1>1, <3>1
    <3> QED
      BY <1>1, <3>2, <3>3
  <2>3. CASE k > m
    <3>1. PICK j \in 1 .. n : k = m + j /\ j + 1 \in 1 .. n /\ j \in 1 .. n - 1 /\ k + 1 = m + (j + 1)
      <4>1. k - m \in 1 .. n /\ k = m + (k - m) /\ (k - m) + 1 \in 1 .. n /\ k - m \in 1 .. n - 1
            /\ k + 1 = m + ((k - m) + 1)
        BY <2>3
      <4> QED
        BY <4>1
    <3>2. r[k] = q[j] /\ r[k + 1] = q[j + 1]
      BY <1>3, <3>1
    <3>3. q[j].timestamp < q[j + 1].timestamp
      BY <1>1, <3>1 DEF Increasing
    <3> QED
      BY <3>2, <3>3
  <2> QED
    BY <2>1, <2>2, <2>3
<1> QED
  BY <1>2, <1>3, <1>4 DEF Increasing


-----------------------------------------------------------------------------
(* Opening: every series of the manifest, clean, with all its points in    *)
(* pages.                                                                  *)

LEMMA SeriesStarts ==
    ASSUME NEW name \in Names, NEW id \in Nat, NEW root \in Seq(PageRecord), OwnPages(root, id),
           NEW last \in Seq(Int), NEW s, s = WriterSeries(name, id, root, last)
    PROVE  /\ Sound(s) /\ Tidy(s)
           /\ s.name = name /\ s.id = id /\ s.root = root /\ s.last_timestamp = last /\ ~s.dirty
           /\ SeriesPoints(s) = PagePoints(root)
<1>1. /\ s.name = name /\ s.id = id /\ s.root = root /\ s.last_timestamp = last /\ s.dirty = FALSE
      /\ s.buffer = << >> /\ s.pending_entries = << >>
  BY DEF WriterSeries
<1>2. s \in SeriesRecord
  BY DEF WriterSeries, SeriesRecord
<1>3. Len(s.buffer) <= RecordsMax
  BY <1>1, SeriesWriterAssumption
<1>4. OwnPages(s.pending_entries, s.id)
  BY <1>1 DEF OwnPages
<1>5. PagePoints(root) \in Seq(PointRecord)
  BY PagePointsTyped
<1>6. SeriesPoints(s) = PagePoints(root) \o << >> \o << >>
  BY <1>1, PagePointsEmpty DEF SeriesPoints
<1>7. SeriesPoints(s) = PagePoints(root)
  BY <1>5, <1>6, ConcatEmptySeq
<1> QED
  BY <1>1, <1>2, <1>3, <1>4, <1>7 DEF Sound, Tidy

LEMMA TotalOnes ==
    ASSUME NEW m \in Nat, NEW v \in Seq(Nat), Len(v) = m, \A i \in 1 .. m : v[i] = 1
    PROVE  Total(v) = m
<1>1. PICK f \in [0 .. m -> Nat] : Sums(f, v, m) /\ Total(v) = f[m]
  BY TotalSums
<1> DEFINE T == {n \in 0 .. m : f[n] = n}
<1>2. 0 \in T
  BY <1>1 DEF Sums
<1>3. ASSUME NEW n \in 0 .. m, n # m, n \in T PROVE n + 1 \in T
  <2>1. n + 1 \in 1 .. m /\ n + 1 \in 0 .. m /\ (n + 1) - 1 = n
    BY <1>3
  <2>2. f[n + 1] = f[n] + v[n + 1]
    BY <1>1, <2>1 DEF Sums
  <2> QED
    BY <1>3, <2>1, <2>2
<1> HIDE DEF T
<1>4. \A n \in 0 .. m : n \in T
  BY <1>2, <1>3, Induction
<1>5. m \in T
  BY <1>4
<1> QED
  BY <1>1, <1>5 DEF T

(* If every series counts, the chosen ones are all.                        *)
LEMMA TotalOfAll ==
    ASSUME NEW m \in Nat, NEW v \in Seq(Nat), Len(v) = m, NEW D, \A i \in 1 .. m : i \in D
    PROVE  Total(Chosen(v, D)) = Total(v)
<1>1. PICK w \in Seq(Nat) : w = Chosen(v, D) /\ Len(w) = m /\ \A i \in 1 .. m : w[i] = v[i]
  BY ChosenTyped
<1> QED
  BY <1>1, TotalSame

OpenedSeries(entry) ==
    WriterSeries(entry.name, entry.id, entry.pages, LastTimestamp(entry.pages))

LEMMA OpenedSeriesFacts ==
    ASSUME NEW e \in EntryRecord, OwnPages(e.pages, e.id), e.pages # << >>, NEW s, s = OpenedSeries(e)
    PROVE  /\ Sound(s) /\ Tidy(s)
           /\ s.name = e.name /\ s.id = e.id /\ s.root = e.pages /\ ~s.dirty
           /\ SeriesPoints(s) = PagePoints(e.pages)
           /\ s.last_timestamp = Stamp(SeriesPoints(s))
<1>1. e.name \in Names /\ e.id \in Nat /\ e.pages \in Seq(PageRecord)
  BY DEF EntryRecord
<1>2. PICK p \in Seq(PageRecord) : p = e.pages
  BY <1>1
<1>3. PICK points \in Seq(PointRecord) : points = PagePoints(p)
  BY PagePointsTyped
<1>4. \A i \in 1 .. Len(p) : p[i].points # << >>
  BY <1>2 DEF OwnPages
<1>5. points # << >>
  BY <1>2, <1>3, <1>4, PagesHoldPoints
<1>6. points[Len(points)] \in PointRecord
  BY <1>5
<1>7. LastTimestamp(p) = <<points[Len(points)].timestamp>>
  BY <1>3 DEF LastTimestamp, Last
<1>8. points[Len(points)].timestamp \in Int
  BY <1>6 DEF PointRecord
<1>9. LastTimestamp(p) \in Seq(Int)
  BY <1>7, <1>8
<1>10. s = WriterSeries(e.name, e.id, p, LastTimestamp(p))
  BY <1>2 DEF OpenedSeries
<1>11. /\ Sound(s) /\ Tidy(s)
       /\ s.name = e.name /\ s.id = e.id /\ s.root = p /\ s.last_timestamp = LastTimestamp(p) /\ ~s.dirty
       /\ SeriesPoints(s) = PagePoints(p)
  BY <1>1, <1>2, <1>9, <1>10, SeriesStarts
<1> QED
  BY <1>2, <1>3, <1>5, <1>7, <1>11 DEF Stamp

LEMMA OpenedWriter ==
    ASSUME NEW entries, Entries(entries), NEW all, NEW rows, EntriesHold(entries, all, rows),
           NEW known, known = [i \in DOMAIN entries |-> OpenedSeries(entries[i])]
    PROVE  /\ Known(known) /\ SeriesHold(known, all, rows) /\ ListsDirty(<< >>, known)
           /\ Counted(known, EntriesSize(entries), Len(entries), EntriesSize(entries))
<1>1. entries \in Seq(EntryRecord)
  BY DEF Entries
<1>2. PICK N \in Nat : N = Len(entries) /\ DOMAIN entries = 1 .. N
  BY <1>1
<1>3. DOMAIN known = 1 .. N /\ \A i \in 1 .. N : known[i] = OpenedSeries(entries[i])
  BY <1>2
<1>4. ASSUME NEW i \in 1 .. N
      PROVE  /\ Sound(known[i]) /\ Tidy(known[i])
             /\ known[i].name = entries[i].name /\ known[i].id = entries[i].id
             /\ known[i].root = entries[i].pages /\ ~known[i].dirty /\ known[i].root # << >>
             /\ SeriesPoints(known[i]) = PagePoints(entries[i].pages)
             /\ known[i].last_timestamp = Stamp(SeriesPoints(known[i]))
  <2>1. PICK e \in EntryRecord : e = entries[i]
    BY <1>1, <1>2
  <2>2. OwnPages(e.pages, e.id) /\ e.pages # << >>
    BY <1>2, <2>1 DEF Entries
  <2>3. PICK s : s = known[i] /\ s = OpenedSeries(e)
    BY <1>3, <2>1
  <2>4. /\ Sound(s) /\ Tidy(s)
        /\ s.name = e.name /\ s.id = e.id /\ s.root = e.pages /\ ~s.dirty
        /\ SeriesPoints(s) = PagePoints(e.pages)
        /\ s.last_timestamp = Stamp(SeriesPoints(s))
    BY <2>2, <2>3, OpenedSeriesFacts
  <2> QED
    BY <2>1, <2>2, <2>3, <2>4
<1>5. known \in Seq(SeriesRecord) /\ Len(known) = N
  <2>1. \A i \in 1 .. N : known[i] \in SeriesRecord
    BY <1>4 DEF Sound
  <2>2. known \in [1 .. N -> SeriesRecord]
    BY <1>2, <1>3, <2>1
  <2> QED
    BY <2>2
<1>6. Known(known)
  <2>1. \A i \in DOMAIN known : Sound(known[i]) /\ Tidy(known[i])
    BY <1>3, <1>4
  <2>2. ASSUME NEW i \in DOMAIN known, NEW j \in DOMAIN known, i < j
        PROVE  known[i].id < known[j].id /\ known[i].name # known[j].name
    <3>1. i \in DOMAIN entries /\ j \in DOMAIN entries /\ i \in 1 .. N /\ j \in 1 .. N
      BY <1>2, <1>3
    <3>2. entries[i].id < entries[j].id /\ entries[i].name # entries[j].name
      BY <2>2, <3>1 DEF Entries, InOrder
    <3> QED
      BY <1>4, <3>1, <3>2
  <2> QED
    BY <1>5, <2>1, <2>2 DEF Known, Catalogue
<1>7. SeriesHold(known, all, rows)
  <2>1. ASSUME NEW i \in DOMAIN known
        PROVE  SeriesPoints(known[i]) = ListPoints(all, rows[known[i].name])
    <3>1. i \in 1 .. N /\ i \in DOMAIN entries
      BY <1>2, <1>3
    <3>2. PagePoints(entries[i].pages) = ListPoints(all, rows[entries[i].name])
      BY <3>1 DEF EntriesHold
    <3> QED
      BY <1>4, <3>1, <3>2
  <2>2. ASSUME NEW name \in Names, \A i \in DOMAIN known : known[i].name # name
        PROVE  ListPoints(all, rows[name]) = << >>
    <3>1. \A i \in DOMAIN entries : entries[i].name # name
      BY <1>2, <1>3, <1>4, <2>2
    <3> QED
      BY <3>1 DEF EntriesHold
  <2>3. \A i \in DOMAIN known : known[i].last_timestamp = Stamp(SeriesPoints(known[i]))
    BY <1>3, <1>4
  <2> QED
    BY <2>1, <2>2, <2>3 DEF SeriesHold
<1>8. ListsDirty(<< >>, known)
  BY <1>4, <1>5 DEF ListsDirty
<1>9. \A i \in 1 .. N : i \in Rooted(known)
  BY <1>3, <1>4 DEF Rooted
<1>20. PICK v, w : Weighs(v, w, known, N)
  BY <1>5, SeriesWeigh
<1>10. /\ v \in Seq(Nat) /\ w \in Seq(Nat) /\ v = Sizes(known) /\ w = Ones(known)
       /\ Len(v) = N /\ Len(w) = N
       /\ \A i \in 1 .. N : v[i] = SeriesSize(known[i].name) /\ w[i] = 1
  BY <1>20 DEF Weighs
<1>11. PICK u \in Seq(Nat) :
            /\ u = SizesOf(entries) /\ Len(u) = N
            /\ \A i \in 1 .. N : u[i] = SeriesSize(entries[i].name)
            /\ EntriesSize(entries) = HeaderSize + Total(u)
  BY <1>1, <1>2, SizesOfTyped
<1>12. \A i \in 1 .. N : v[i] = u[i]
  BY ZenonT(60), <1>4, <1>10, <1>11
<1>13. Total(v) = Total(u)
  BY ZenonT(60), <1>10, <1>11, <1>12, TotalSame
<1>14. Total(w) = N
  BY <1>10, TotalOnes
<1>15. Total(Chosen(v, Rooted(known))) = Total(v) /\ Total(Chosen(w, Rooted(known))) = Total(w)
  BY <1>9, <1>10, TotalOfAll
<1>16. EntriesSize(entries) <= ManifestSizeMax
  BY DEF Entries
<1>17. Counted(known, EntriesSize(entries), Len(entries), EntriesSize(entries))
  BY <1>2, <1>10, <1>11, <1>13, <1>14, <1>15, <1>16 DEF Counted
<1> QED
  BY <1>6, <1>7, <1>8, <1>17


-----------------------------------------------------------------------------
(* createSeries: one series more, empty and behind the others.             *)

LEMMA NextIdIsNew ==
    ASSUME Catalogue(series)
    PROVE  NextId \in Nat /\ \A i \in DOMAIN series : series[i].id < NextId
<1>1. series \in Seq(SeriesRecord)
  BY DEF Catalogue
<1>2. PICK N \in Nat : N = Len(series) /\ DOMAIN series = 1 .. N
  BY <1>1
<1>3. \A i \in 1 .. N : series[i].id \in Nat
  <2>1. \A i \in 1 .. N : series[i] \in SeriesRecord
    BY <1>1, <1>2
  <2> QED
    BY <2>1, SeriesFields
<1>4. CASE N = 0
  <2>1. series = << >>
    BY <1>1, <1>2, <1>4
  <2> QED
    BY <1>2, <1>4, <2>1 DEF NextId
<1>5. CASE N # 0
  <2>1. N \in 1 .. N /\ series # << >>
    BY <1>2, <1>5
  <2>2. NextId = series[N].id + 1
    BY <1>2, <2>1 DEF NextId, Last
  <2>3. PICK l \in Nat : l = series[N].id
    BY <1>3, <2>1
  <2>4. ASSUME NEW i \in 1 .. N PROVE series[i].id < l + 1
    <3>1. CASE i = N
      BY <2>3, <3>1
    <3>2. CASE i # N
      <4>1. i \in DOMAIN series /\ N \in DOMAIN series /\ i < N
        BY <1>2, <2>1, <3>2
      <4>2. series[i].id < series[N].id
        BY Zenon, <4>1 DEF Catalogue
      <4>3. PICK d \in Nat : d = series[i].id
        BY <1>3
      <4> QED
        BY <2>3, <4>2, <4>3
    <3> QED
      BY <3>1, <3>2
  <2> QED
    BY <1>2, <2>2, <2>3, <2>4
<1> QED
  BY <1>4, <1>5

(* A sum over one series more.                                             *)
Longer(s, r, m, x) ==
    /\ m \in Nat /\ x \in Nat /\ r \in Seq(Nat) /\ s \in Seq(Nat)
    /\ Len(r) = m /\ Len(s) = m + 1 /\ s[m + 1] = x
    /\ \A i \in 1 .. m : s[i] = r[i]

LEMMA ChosenLonger ==
    ASSUME NEW s, NEW r, NEW m, NEW x, NEW D, Longer(s, r, m, x)
    PROVE  /\ Total(s) = Total(r) + x
           /\ m + 1 \notin D => Total(Chosen(s, D)) = Total(Chosen(r, D))
<1> USE DEF Longer
<1>1. Total(s) = Total(r) + x
  BY TotalLonger
<1>2. ASSUME m + 1 \notin D PROVE Total(Chosen(s, D)) = Total(Chosen(r, D))
  <2>0. m + 1 \in Nat
    OBVIOUS
  <2>1. PICK a \in Seq(Nat) : a = Chosen(r, D) /\ Len(a) = m
                              /\ \A i \in 1 .. m : a[i] = IF i \in D THEN r[i] ELSE 0
    BY ChosenTyped
  <2>2. PICK b \in Seq(Nat) : b = Chosen(s, D) /\ Len(b) = m + 1
                              /\ \A i \in 1 .. m + 1 : b[i] = IF i \in D THEN s[i] ELSE 0
    BY <2>0, ChosenTyped
  <2>3. \A i \in 1 .. m : i \in 1 .. m + 1
    OBVIOUS
  <2>4. \A i \in 1 .. m : b[i] = a[i]
    BY <2>1, <2>2, <2>3
  <2>5. m + 1 \in 1 .. m + 1
    OBVIOUS
  <2>6. b[m + 1] = 0
    BY <1>2, <2>2, <2>5
  <2>7. Total(b) = Total(a) + b[Len(b)]
    BY ZenonT(60), <2>1, <2>2, <2>4, TotalLonger
  <2>8. Total(a) \in Nat
    BY <2>1, TotalTyped
  <2> QED
    BY <2>1, <2>2, <2>6, <2>7, <2>8
<1> QED
  BY <1>1, <1>2

LEMMA NewSeriesStarts ==
    ASSUME NEW name \in Names, NEW id \in Nat, NEW s, s = WriterSeries(name, id, << >>, NoTimestamp)
    PROVE  /\ Sound(s) /\ Tidy(s) /\ s.name = name /\ s.id = id /\ s.root = << >>
           /\ s.last_timestamp = << >> /\ ~s.dirty /\ SeriesPoints(s) = << >>
<1>1. PICK e : e = << >>
  OBVIOUS
<1>2. e \in Seq(PageRecord)
  BY <1>1
<1>3. e \in Seq(Int)
  BY <1>1
<1>4. OwnPages(e, id)
  BY <1>1 DEF OwnPages
<1>5. s = WriterSeries(name, id, e, e)
  BY <1>1 DEF NoTimestamp
<1>6. /\ Sound(s) /\ Tidy(s)
      /\ s.name = name /\ s.id = id /\ s.root = e /\ s.last_timestamp = e /\ ~s.dirty
      /\ SeriesPoints(s) = PagePoints(e)
  BY <1>2, <1>3, <1>4, <1>5, SeriesStarts
<1>7. PagePoints(e) = << >>
  BY <1>1, PagePointsEmpty
<1> QED
  BY <1>1, <1>6, <1>7

LEMMA SeriesAdded ==
    ASSUME NEW known, NEW all, NEW rows, NEW list, NEW size, NEW count, NEW all_size,
           Known(known), Rows(all, rows), SeriesHold(known, all, rows), ListsDirty(list, known),
           Counted(known, size, count, all_size),
           NEW name \in Names, \A i \in DOMAIN known : known[i].name # name,
           NEW id \in Nat, \A i \in DOMAIN known : known[i].id < id,
           all_size + SeriesSize(name) <= ManifestSizeMax,
           NEW s, s = WriterSeries(name, id, << >>, NoTimestamp), NEW more, more = Append(known, s)
    PROVE  /\ Known(more) /\ SeriesHold(more, all, rows) /\ ListsDirty(list, more)
           /\ Counted(more, size, count, all_size + SeriesSize(name))
<1>1. known \in Seq(SeriesRecord)
  BY DEF Known, Catalogue
<1>2. PICK N \in Nat : N = Len(known) /\ DOMAIN known = 1 .. N
  BY <1>1
<1>3. /\ Sound(s) /\ Tidy(s) /\ s.name = name /\ s.id = id /\ s.root = << >>
      /\ s.last_timestamp = << >> /\ ~s.dirty /\ SeriesPoints(s) = << >>
  BY NewSeriesStarts
<1>4. s \in SeriesRecord
  BY <1>3 DEF Sound
<1>5. /\ more \in Seq(SeriesRecord) /\ Len(more) = N + 1 /\ more[N + 1] = s
      /\ \A i \in 1 .. N : more[i] = known[i]
  BY <1>1, <1>2, <1>4, AppendProperties
<1>6. PICK M \in Nat : M = N + 1
  BY <1>2
<1>7. DOMAIN more = 1 .. M
  BY <1>5, <1>6
<1>8. \A i \in 1 .. M : (i \in 1 .. N /\ i \in DOMAIN known /\ i # M) \/ i = M
  BY <1>2, <1>6
<1>9. \A i \in 1 .. N : i \in 1 .. M
  BY <1>6
<1>10. Known(more)
  <2>1. \A i \in DOMAIN more : Sound(more[i]) /\ Tidy(more[i])
    BY <1>3, <1>5, <1>6, <1>7, <1>8 DEF Known, Catalogue
  <2>2. ASSUME NEW i \in DOMAIN more, NEW j \in DOMAIN more, i < j
        PROVE  more[i].id < more[j].id /\ more[i].name # more[j].name
    <3>1. i \in 1 .. N /\ i \in DOMAIN known
      BY <1>2, <1>6, <1>7, <2>2
    <3>2. CASE j \in 1 .. N
      <4>1. known[i].id < known[j].id /\ known[i].name # known[j].name
        BY <1>2, <2>2, <3>1, <3>2 DEF Known, Catalogue
      <4> QED
        BY <1>5, <3>1, <3>2, <4>1
    <3>3. CASE j = M
      <4>1. more[i] = known[i] /\ more[j] = s
        BY <1>5, <1>6, <3>1, <3>3
      <4>2. known[i].id < id /\ known[i].name # name
        BY <3>1
      <4> QED
        BY <1>3, <4>1, <4>2
    <3> QED
      BY <1>7, <1>8, <3>2, <3>3
  <2> QED
    BY <1>5, <2>1, <2>2 DEF Known, Catalogue
<1>11. SeriesHold(more, all, rows)
  <2>1. ListPoints(all, rows[name]) = << >>
    BY DEF SeriesHold
  <2>2. ASSUME NEW i \in DOMAIN more
        PROVE  /\ SeriesPoints(more[i]) = ListPoints(all, rows[more[i].name])
               /\ more[i].last_timestamp = Stamp(SeriesPoints(more[i]))
    <3>1. CASE i \in 1 .. N
      <4>1. more[i] = known[i] /\ i \in DOMAIN known
        BY <1>2, <1>5, <3>1
      <4>2. /\ SeriesPoints(known[i]) = ListPoints(all, rows[known[i].name])
            /\ known[i].last_timestamp = Stamp(SeriesPoints(known[i]))
        BY <4>1 DEF SeriesHold
      <4> QED
        BY <4>1, <4>2
    <3>2. CASE i = M
      <4>1. more[i] = s
        BY <1>5, <1>6, <3>2
      <4>2. Stamp(<< >>) = << >>
        BY DEF Stamp, NoTimestamp
      <4> QED
        BY <1>3, <2>1, <4>1, <4>2
    <3> QED
      BY <1>7, <1>8, <3>1, <3>2
  <2>3. ASSUME NEW other \in Names, \A i \in DOMAIN more : more[i].name # other
        PROVE  ListPoints(all, rows[other]) = << >>
    <3>1. \A i \in DOMAIN known : known[i].name # other
      BY <1>2, <1>5, <1>7, <1>9, <2>3
    <3> QED
      BY <3>1 DEF SeriesHold
  <2> QED
    BY <2>2, <2>3 DEF SeriesHold
<1>12. ListsDirty(list, more)
  <2>1. list \in Seq(1 .. N) /\ \A j, k \in 1 .. Len(list) : list[j] = list[k] => j = k
    BY <1>2 DEF ListsDirty
  <2>2. list \in Seq(1 .. M) /\ Len(more) = M
    BY <1>5, <1>6, <1>9, <2>1
  <2>3. \A k \in 1 .. Len(list) : list[k] \in 1 .. N
    BY <2>1
  <2>4. ASSUME NEW i \in 1 .. M
        PROVE  more[i].dirty <=> \E k \in 1 .. Len(list) : list[k] = i
    <3>1. CASE i \in 1 .. N
      <4>1. known[i].dirty <=> \E k \in 1 .. Len(list) : list[k] = i
        BY <1>2, <3>1 DEF ListsDirty
      <4>2. more[i] = known[i]
        BY <1>5, <3>1
      <4> QED
        BY <4>1, <4>2
    <3>2. CASE i = M
      <4>1. ~more[i].dirty
        BY <1>3, <1>5, <1>6, <3>2
      <4>2. M \notin 1 .. N
        BY <1>6
      <4> QED
        BY <2>3, <3>2, <4>1, <4>2
    <3> QED
      BY <1>8, <3>1, <3>2
  <2> QED
    BY <2>1, <2>2, <2>4 DEF ListsDirty
<1>13. Counted(more, size, count, all_size + SeriesSize(name))
  <2>1. SeriesSize(name) \in Nat
    BY SeriesSizeTyped
  <2>2. PICK v, w : Weighs(v, w, known, N)
    BY <1>1, <1>2, SeriesWeigh
  <2>3. /\ v \in Seq(Nat) /\ w \in Seq(Nat) /\ v = Sizes(known) /\ w = Ones(known)
        /\ Len(v) = N /\ Len(w) = N
        /\ \A i \in 1 .. N : v[i] = SeriesSize(known[i].name) /\ w[i] = 1
    BY <2>2 DEF Weighs
  <2>4. PICK x, y : Weighs(x, y, more, M)
    BY <1>5, <1>6, SeriesWeigh
  <2>5. /\ x \in Seq(Nat) /\ y \in Seq(Nat) /\ x = Sizes(more) /\ y = Ones(more)
        /\ Len(x) = M /\ Len(y) = M
        /\ \A i \in 1 .. M : x[i] = SeriesSize(more[i].name) /\ y[i] = 1
    BY <2>4 DEF Weighs
  <2>6. M \in 1 .. M /\ M \notin Rooted(known)
    BY <1>2, <1>6 DEF Rooted
  <2>7. x[M] = SeriesSize(name) /\ y[M] = 1
    BY <1>3, <1>5, <1>6, <2>5, <2>6
  <2>8. \A i \in 1 .. N : x[i] = v[i] /\ y[i] = w[i]
    BY ZenonT(60), <1>5, <1>9, <2>3, <2>5
  <2>9. Rooted(more) = Rooted(known)
    <3>1. \A i \in 1 .. M : more[i].root # << >> <=> (i \in 1 .. N /\ known[i].root # << >>)
      BY <1>3, <1>5, <1>6, <1>8
    <3> QED
      BY <1>2, <1>7, <1>9, <3>1 DEF Rooted
  <2>10. PICK D : D = Rooted(known)
    OBVIOUS
  <2>16. Longer(x, v, N, SeriesSize(name)) /\ Longer(y, w, N, 1)
    BY <1>2, <1>6, <2>1, <2>3, <2>5, <2>7, <2>8 DEF Longer
  <2>17. N + 1 \notin D
    BY <1>6, <2>6, <2>10
  <2>11. Total(x) = Total(v) + SeriesSize(name) /\ Total(Chosen(x, D)) = Total(Chosen(v, D))
    BY <2>16, <2>17, ChosenLonger
  <2>12. Total(Chosen(y, D)) = Total(Chosen(w, D))
    BY <2>16, <2>17, ChosenLonger
  <2>13. Total(v) \in Nat /\ HeaderSize \in Nat
    BY <2>3, TotalTyped, SeriesWriterAssumption
  <2>14. /\ size = HeaderSize + Total(Chosen(v, D)) /\ count = Total(Chosen(w, D))
         /\ all_size = HeaderSize + Total(v)
    BY <2>3, <2>10 DEF Counted
  <2>15. all_size + SeriesSize(name) = HeaderSize + Total(x)
    BY <2>1, <2>11, <2>13, <2>14
  <2> QED
    BY <2>5, <2>9, <2>10, <2>11, <2>12, <2>14, <2>15 DEF Counted
<1> QED
  BY <1>10, <1>11, <1>12, <1>13


-----------------------------------------------------------------------------
(* appendBatch: one batch more, at the end of one series.                  *)

LEMMA RowsKept ==
    ASSUME NEW all, NEW rows, Rows(all, rows), NEW batch \in Seq(Int), NEW more, more = Append(all, batch)
    PROVE  /\ Rows(more, rows)
           /\ \A name \in Names : ListPoints(more, rows[name]) = ListPoints(all, rows[name])
<1>1. all \in Seq(Seq(Int)) /\ rows \in [Names -> Seq(1 .. Len(all))]
  BY DEF Rows
<1>2. \A name \in Names : ListPoints(more, rows[name]) = ListPoints(all, rows[name])
  BY <1>1, ListPointsSame
<1>3. more \in Seq(Seq(Int)) /\ \A list \in Seq(1 .. Len(all)) : list \in Seq(1 .. Len(more))
  BY <1>1, OneMoreBatch
<1>4. rows \in [Names -> Seq(1 .. Len(more))]
  <2>1. \A name \in Names : rows[name] \in Seq(1 .. Len(all))
    BY <1>1
  <2>2. \A name \in Names : rows[name] \in Seq(1 .. Len(more))
    BY <1>3, <2>1
  <2> QED
    BY <1>1, <2>2
<1>5. \A name \in Names : Increasing(ListPoints(more, rows[name]))
  BY <1>2 DEF Rows
<1> QED
  BY <1>2, <1>3, <1>4, <1>5 DEF Rows

(* The batch is in order and follows the points p.                         *)
Appendable(batch, p) ==
    /\ batch \in Seq(Int) /\ batch # << >>
    /\ TimestampsStrictlyIncreasing(batch)
    /\ p # << >> => p[Len(p)].timestamp < batch[1]

RowAdded(rows, name, n) == [rows EXCEPT ![name] = Append(@, n)]

RowTaken(all, rows, more, rows2, name) ==
    /\ Rows(more, rows2)
    /\ ListPoints(more, rows2[name]) = ListPoints(all, rows[name]) \o PointsOf(more, Len(more))
    /\ \A other \in Names :
         other # name => ListPoints(more, rows2[other]) = ListPoints(all, rows[other])

LEMMA RowsAppended ==
    ASSUME NEW all, NEW rows, Rows(all, rows), NEW name \in Names,
           NEW batch, Appendable(batch, ListPoints(all, rows[name])),
           NEW more, more = Append(all, batch),
           NEW rows2, rows2 = RowAdded(rows, name, Len(more))
    PROVE  RowTaken(all, rows, more, rows2, name)
<1>1. all \in Seq(Seq(Int)) /\ rows \in [Names -> Seq(1 .. Len(all))] /\ batch \in Seq(Int)
  BY DEF Rows, Appendable
<1>2. Rows(more, rows) /\ \A other \in Names : ListPoints(more, rows[other]) = ListPoints(all, rows[other])
  BY ZenonT(60), <1>1, RowsKept
<1>3. PICK list \in Seq(1 .. Len(all)) : list = rows[name]
  BY <1>1
<1>4. PICK longer : longer = Append(list, Len(more))
  OBVIOUS
<1>5. /\ longer \in Seq(1 .. Len(more))
      /\ ListPoints(more, longer) = ListPoints(all, list) \o PointsOf(more, Len(more))
  BY <1>1, <1>4, ListPointsOneMore
<1>6. rows2[name] = longer /\ \A other \in Names : other # name => rows2[other] = rows[other]
  BY <1>1, <1>3, <1>4 DEF RowAdded
<1>7. rows2 \in [Names -> Seq(1 .. Len(more))]
  <2>1. rows \in [Names -> Seq(1 .. Len(more))]
    BY <1>2 DEF Rows
  <2> QED
    BY <1>3, <1>4, <1>5, <2>1 DEF RowAdded
<1>8. PICK p \in Seq(PointRecord) : p = ListPoints(all, list)
  BY <1>1, ListPointsTyped
<1>9. /\ more \in Seq(Seq(Int)) /\ Len(more) \in 1 .. Len(more) /\ more[Len(more)] = batch
  BY <1>1, OneMoreBatch
<1>10. PICK n \in 1 .. Len(more) : n = Len(more)
  BY <1>9
<1>11. PICK q \in Seq(PointRecord) :
            /\ q = PointsOf(more, n) /\ Len(q) = Len(batch)
            /\ \A i \in 1 .. Len(batch) : q[i].timestamp = batch[i]
  <2>1. /\ PointsOf(more, n) \in Seq(PointRecord)
        /\ Len(PointsOf(more, n)) = Len(more[n])
        /\ \A i \in 1 .. Len(more[n]) : PointsOf(more, n)[i].timestamp = more[n][i]
    BY <1>9, PointsOfTyped
  <2>2. more[n] = batch
    BY <1>9, <1>10
  <2> QED
    BY <2>1, <2>2
<1>12. PICK l \in Nat : l = Len(batch) /\ 1 \in 1 .. l
  <2>1. batch # << >> /\ Len(batch) \in Nat
    BY <1>1 DEF Appendable
  <2>2. Len(batch) # 0
    BY <1>1, <2>1
  <2>3. 1 \in 1 .. Len(batch)
    BY <2>1, <2>2
  <2> QED
    BY <2>1, <2>3
<1>13. Increasing(q)
  <2>1. ASSUME NEW k \in 1 .. l - 1 PROVE q[k].timestamp < q[k + 1].timestamp
    <3>1. k \in 1 .. l /\ k + 1 \in 1 .. l
      BY <1>12
    <3>2. batch[k] < batch[k + 1]
      BY <1>12 DEF Appendable, TimestampsStrictlyIncreasing
    <3> QED
      BY <1>11, <1>12, <3>1, <3>2
  <2> QED
    BY <1>11, <1>12, <2>1 DEF Increasing
<1>14. Increasing(p)
  BY <1>3, <1>8 DEF Rows
<1>15. p # << >> => p[Len(p)].timestamp < q[1].timestamp
  BY <1>3, <1>8, <1>11, <1>12 DEF Appendable
<1>16. Increasing(p \o q)
  BY <1>13, <1>14, <1>15, IncreasingConcat
<1>17. ListPoints(more, longer) = p \o q
  BY <1>5, <1>8, <1>10, <1>11
<1>18. ASSUME NEW other \in Names PROVE Increasing(ListPoints(more, rows2[other]))
  <2>1. CASE other = name
    BY <1>6, <1>16, <1>17, <2>1
  <2>2. CASE other # name
    BY <1>2, <1>6, <2>2 DEF Rows
  <2> QED
    BY <2>1, <2>2
<1> QED
  BY <1>2, <1>3, <1>5, <1>6, <1>7, <1>9, <1>18 DEF Rows, RowTaken

(* What the batch makes of its series.                                     *)
Marked(s, last) == [s EXCEPT !.dirty = TRUE, !.last_timestamp = last]

Took(t, s, points, last) ==
    /\ Sound(t) /\ Tidy(t)
    /\ t.name = s.name /\ t.id = s.id /\ t.root = s.root
    /\ t.dirty /\ t.last_timestamp = last
    /\ SeriesPoints(t) = SeriesPoints(s) \o points

LEMMA MarkedFields ==
    ASSUME NEW s \in SeriesRecord, NEW last \in Seq(Int), NEW t, t = Marked(s, last)
    PROVE  /\ t \in SeriesRecord /\ t.name = s.name /\ t.id = s.id /\ t.root = s.root
           /\ t.buffer = s.buffer /\ t.pending_entries = s.pending_entries
           /\ t.dirty = TRUE /\ t.last_timestamp = last
BY DEF Marked, SeriesRecord

LEMMA BatchTaken ==
    ASSUME NEW s, Sound(s), NEW points \in Seq(PointRecord), points # << >>, NEW last \in Seq(Int),
           NEW n, n = Len(points), NEW t, t = Marked(AfterRounds(n, s, points).target, last)
    PROVE  Took(t, s, points, last)
<1>1. PICK l \in Nat : l = Len(points) /\ l # 0
  OBVIOUS
<1>2. PICK r : r = AfterRounds(l, s, points)
  OBVIOUS
<1>3. Filled(s, points, l, r)
  BY <1>1, <1>2, RoundsFill
<1>4. PICK u : u = r.target
  OBVIOUS
<1>5. Sound(u) /\ SameSeries(s, u) /\ r.consumed = l
  BY <1>1, <1>3, <1>4 DEF Filled
<1>6. SubSeq(points, 1, l) = points
  BY <1>1
<1>7. SeriesPoints(u) = SeriesPoints(s) \o points
  BY <1>3, <1>4, <1>5, <1>6 DEF Filled
<1>8. u \in SeriesRecord
  BY <1>5 DEF Sound
<1>9. t = Marked(u, last)
  BY <1>1, <1>2, <1>4
<1>10. /\ t \in SeriesRecord /\ t.name = u.name /\ t.id = u.id /\ t.root = u.root
       /\ t.buffer = u.buffer /\ t.pending_entries = u.pending_entries
       /\ t.dirty = TRUE /\ t.last_timestamp = last
  BY <1>8, <1>9, MarkedFields
<1>11. SeriesPoints(t) = SeriesPoints(u)
  BY <1>10 DEF SeriesPoints
<1>12. Sound(t)
  BY <1>5, <1>10 DEF Sound
<1>13. t.name = s.name /\ t.id = s.id /\ t.root = s.root
  BY <1>5, <1>10 DEF SameSeries
<1>14. t.pending_entries # << >> \/ t.buffer # << >>
  <2> SUFFICES ASSUME t.pending_entries = << >>, t.buffer = << >> PROVE FALSE
    OBVIOUS
  <2>1. PICK a \in Seq(PointRecord) : a = PagePoints(s.root)
    BY SeriesFields DEF Sound
  <2>2. PICK b \in Seq(PointRecord), c \in Seq(PointRecord) : b = PagePoints(s.pending_entries) /\ c = s.buffer
    BY SeriesFields DEF Sound
  <2>3. SeriesPoints(s) = a \o b \o c
    BY <2>1, <2>2 DEF SeriesPoints
  <2>4. SeriesPoints(t) = a \o << >> \o << >>
    BY <1>13, <2>1, PagePointsEmpty DEF SeriesPoints
  <2>5. SeriesPoints(t) = a
    BY <2>1, <2>4, ConcatEmptySeq
  <2>6. a = a \o b \o c \o points
    BY <1>7, <1>11, <2>3, <2>5
  <2>7. Len(a \o b \o c \o points) = Len(a) + Len(b) + Len(c) + l
    BY <1>1, <2>1, <2>2
  <2>8. Len(a) \in Nat /\ Len(b) \in Nat /\ Len(c) \in Nat
    BY <2>1, <2>2
  <2>9. Len(a) = Len(a) + Len(b) + Len(c) + l
    BY <2>6, <2>7
  <2> QED
    BY <1>1, <2>8, <2>9
<1> QED
  BY <1>7, <1>10, <1>11, <1>12, <1>13, <1>14 DEF Took, Tidy

(* The sizes depend on the names and on which series have a root.          *)
LEMMA SameCounts ==
    ASSUME NEW known, NEW other, NEW size, NEW count, NEW all_size,
           Counted(known, size, count, all_size), DOMAIN other = DOMAIN known,
           \A i \in DOMAIN known : other[i].name = known[i].name /\ other[i].root = known[i].root
    PROVE  Counted(other, size, count, all_size)
<1>1. Sizes(other) = Sizes(known)
  BY DEF Sizes
<1>2. Ones(other) = Ones(known)
  BY DEF Ones
<1>3. Rooted(other) = Rooted(known)
  BY DEF Rooted
<1> QED
  BY Zenon, <1>1, <1>2, <1>3 DEF Counted


MarkedDirty(list, known, i) == IF known[i].dirty THEN list ELSE Append(list, i)

LEMMA MarkedDirtyLists ==
    ASSUME NEW known \in Seq(SeriesRecord), NEW i \in DOMAIN known, NEW list, ListsDirty(list, known),
           NEW t, t.dirty, NEW other, other = [known EXCEPT ![i] = t]
    PROVE  ListsDirty(MarkedDirty(list, known, i), other)
<1>1. PICK N \in Nat : N = Len(known) /\ DOMAIN known = 1 .. N
  OBVIOUS
<1>2. Len(other) = N /\ other[i] = t /\ \A j \in 1 .. N : j # i => other[j] = known[j]
  BY <1>1
<1>3. /\ list \in Seq(1 .. N) /\ \A j, k \in 1 .. Len(list) : list[j] = list[k] => j = k
      /\ \A j \in 1 .. N : known[j].dirty <=> \E k \in 1 .. Len(list) : list[k] = j
  BY <1>1 DEF ListsDirty
<1>4. i \in 1 .. N
  BY <1>1
<1>5. CASE known[i].dirty
  <2>1. MarkedDirty(list, known, i) = list
    BY <1>5 DEF MarkedDirty
  <2>2. \A j \in 1 .. N : other[j].dirty <=> \E k \in 1 .. Len(list) : list[k] = j
    BY <1>2, <1>3, <1>4, <1>5
  <2> QED
    BY <1>2, <1>3, <2>1, <2>2 DEF ListsDirty
<1>6. CASE ~known[i].dirty
  <2>1. PICK l \in Nat : l = Len(list)
    BY <1>3
  <2>2. PICK longer : longer = Append(list, i)
    OBVIOUS
  <2>3. /\ longer \in Seq(1 .. N) /\ Len(longer) = l + 1 /\ longer[l + 1] = i
        /\ \A k \in 1 .. l : longer[k] = list[k]
    BY <1>3, <1>4, <2>1, <2>2, AppendProperties
  <2>4. \A k \in 1 .. l : list[k] # i
    BY <1>3, <1>4, <1>6, <2>1
  <2>5. \A k \in 1 .. l + 1 : k \in 1 .. l \/ k = l + 1
    OBVIOUS
  <2>6. l + 1 \in 1 .. l + 1 /\ \A k \in 1 .. l : k \in 1 .. l + 1
    OBVIOUS
  <2>7. ASSUME NEW j \in 1 .. l + 1, NEW k \in 1 .. l + 1, longer[j] = longer[k]
        PROVE  j = k
    <3>1. CASE j \in 1 .. l /\ k \in 1 .. l
      BY <1>3, <2>1, <2>3, <2>7, <3>1
    <3>2. CASE j = l + 1 /\ k \in 1 .. l
      BY <2>3, <2>4, <2>7, <3>2
    <3>3. CASE j \in 1 .. l /\ k = l + 1
      BY <2>3, <2>4, <2>7, <3>3
    <3> QED
      BY <2>5, <3>1, <3>2, <3>3
  <2>8. ASSUME NEW j \in 1 .. N
        PROVE  other[j].dirty <=> \E k \in 1 .. l + 1 : longer[k] = j
    <3>1. CASE j = i
      BY <1>2, <2>3, <2>6, <3>1
    <3>2. CASE j # i
      <4>1. other[j].dirty <=> \E k \in 1 .. l : list[k] = j
        BY <1>2, <1>3, <2>1, <3>2
      <4>2. (\E k \in 1 .. l : list[k] = j) <=> \E k \in 1 .. l + 1 : longer[k] = j
        <5>1. ASSUME NEW k \in 1 .. l, list[k] = j PROVE \E m \in 1 .. l + 1 : longer[m] = j
          BY <2>3, <2>6, <5>1
        <5>2. ASSUME NEW k \in 1 .. l + 1, longer[k] = j PROVE \E m \in 1 .. l : list[m] = j
          <6>1. k \in 1 .. l
            BY <2>3, <2>5, <3>2, <5>2
          <6> QED
            BY <2>3, <5>2, <6>1
        <5> QED
          BY <5>1, <5>2
      <4> QED
        BY <4>1, <4>2
    <3> QED
      BY <3>1, <3>2
  <2>9. MarkedDirty(list, known, i) = longer
    BY <1>6, <2>2 DEF MarkedDirty
  <2> QED
    BY <1>2, <2>3, <2>7, <2>8, <2>9 DEF ListsDirty
<1> QED
  BY <1>5, <1>6

LEMMA BatchAppended ==
    ASSUME NEW known, NEW all, NEW rows, NEW list, NEW size, NEW count, NEW all_size,
           Writes(known, all, rows, list, size, count, all_size),
           NEW i \in DOMAIN known, NEW name, name = known[i].name,
           NEW batch, Appendable(batch, SeriesPoints(known[i])),
           NEW more, more = Append(all, batch),
           NEW t, Took(t, known[i], PointsOf(more, Len(more)), <<batch[Len(batch)]>>),
           NEW other, other = [known EXCEPT ![i] = t],
           NEW rows2, rows2 = RowAdded(rows, name, Len(more))
    PROVE  Writes(other, more, rows2, MarkedDirty(list, known, i), size, count, all_size)
<1>1. Rows(all, rows) /\ Known(known) /\ SeriesHold(known, all, rows) /\ ListsDirty(list, known)
      /\ Counted(known, size, count, all_size)
  BY DEF Writes
<1>2. known \in Seq(SeriesRecord)
  BY <1>1 DEF Known, Catalogue
<1>3. PICK N \in Nat : N = Len(known) /\ DOMAIN known = 1 .. N
  BY <1>2
<1>4. /\ Sound(t) /\ Tidy(t) /\ t.name = known[i].name /\ t.id = known[i].id /\ t.root = known[i].root
      /\ t.dirty /\ t.last_timestamp = <<batch[Len(batch)]>>
      /\ SeriesPoints(t) = SeriesPoints(known[i]) \o PointsOf(more, Len(more))
  BY DEF Took
<1>5. DOMAIN other = DOMAIN known /\ other[i] = t /\ \A j \in DOMAIN known : j # i => other[j] = known[j]
  BY <1>3
<1>6. other \in Seq(SeriesRecord)
  <2>1. t \in SeriesRecord
    BY <1>4 DEF Sound
  <2> QED
    BY <1>2, <2>1
<1>7. \A j \in DOMAIN known : other[j].name = known[j].name /\ other[j].id = known[j].id
                              /\ other[j].root = known[j].root
  BY <1>4, <1>5
<1>8. Known(other)
  <2>1. \A j \in DOMAIN other : Sound(other[j]) /\ Tidy(other[j])
    BY <1>1, <1>4, <1>5 DEF Known, Catalogue
  <2>2. ASSUME NEW j \in DOMAIN other, NEW k \in DOMAIN other, j < k
        PROVE  other[j].id < other[k].id /\ other[j].name # other[k].name
    <3>1. known[j].id < known[k].id /\ known[j].name # known[k].name
      BY <1>1, <1>5, <2>2 DEF Known, Catalogue
    <3> QED
      BY <1>5, <1>7, <3>1
  <2> QED
    BY <1>6, <2>1, <2>2 DEF Known, Catalogue
<1>9. name \in Names
  <2>1. known[i] \in SeriesRecord
    BY <1>2
  <2> QED
    BY <2>1, SeriesFields
<1>10. SeriesPoints(known[i]) = ListPoints(all, rows[name])
  BY <1>1 DEF SeriesHold
<1>18. Appendable(batch, ListPoints(all, rows[name]))
  BY Zenon, <1>10
<1>19. Rows(all, rows)
  BY <1>1
<1>11. /\ Rows(more, rows2)
       /\ ListPoints(more, rows2[name]) = ListPoints(all, rows[name]) \o PointsOf(more, Len(more))
       /\ \A o \in Names : o # name => ListPoints(more, rows2[o]) = ListPoints(all, rows[o])
  <2>1. RowTaken(all, rows, more, rows2, name)
    BY <1>9, <1>18, <1>19, RowsAppended
  <2> QED
    BY Zenon, <2>1 DEF RowTaken
<1>12. \A j \in DOMAIN known : j # i => known[j].name # name
  <2>1. ASSUME NEW j \in DOMAIN known, j # i PROVE known[j].name # name
    <3>1. j < i \/ i < j
      BY <1>3, <2>1
    <3> QED
      BY <1>1, <3>1 DEF Known, Catalogue
  <2> QED
    BY <2>1
<1>13. SeriesPoints(t) = ListPoints(more, rows2[name])
  BY <1>4, <1>10, <1>11
<1>14. t.last_timestamp = Stamp(SeriesPoints(t))
  <2>1. batch \in Seq(Int) /\ batch # << >>
    BY DEF Appendable
  <2>2. PICK l \in Nat : l = Len(batch)
    BY <2>1
  <2>3. l \in 1 .. l
    BY <2>1, <2>2
  <2>4. all \in Seq(Seq(Int))
    BY <1>1 DEF Rows
  <2>5. /\ more \in Seq(Seq(Int)) /\ Len(more) \in 1 .. Len(more) /\ more[Len(more)] = batch
    BY <2>1, <2>4, OneMoreBatch
  <2>6. PICK n \in 1 .. Len(more) : n = Len(more) /\ more[n] = batch
    BY <2>5
  <2>7. /\ PointsOf(more, n) \in Seq(PointRecord) /\ Len(PointsOf(more, n)) = Len(more[n])
        /\ \A k \in 1 .. Len(more[n]) : PointsOf(more, n)[k].timestamp = more[n][k]
    BY <2>5, PointsOfTyped
  <2>8. PICK q \in Seq(PointRecord) : q = PointsOf(more, n) /\ Len(q) = l /\ q[l].timestamp = batch[l]
    BY <2>2, <2>3, <2>6, <2>7
  <2>9. PICK p \in Seq(PointRecord) : p = SeriesPoints(known[i])
    BY <1>1, SeriesPointsTyped DEF Known, Catalogue
  <2>10. SeriesPoints(t) = p \o q
    BY <1>4, <2>6, <2>8, <2>9
  <2>11. PICK m \in Nat : m = Len(p)
    BY SMTT(40), <2>9
  <2>15. /\ Len(p \o q) = Len(p) + Len(q)
         /\ \A k \in 1 .. Len(q) : (p \o q)[Len(p) + k] = q[k]
    BY SMTT(40), <2>8, <2>9, ConcatProperties
  <2>12. Len(p \o q) = m + l /\ (p \o q)[m + l] = q[l]
    BY <2>3, <2>8, <2>11, <2>15
  <2>13. p \o q # << >>
    BY <2>3, <2>8, <2>12
  <2>14. Stamp(p \o q) = <<q[l].timestamp>>
    BY <2>12, <2>13 DEF Stamp
  <2> QED
    BY <1>4, <2>2, <2>8, <2>10, <2>14
<1>15. SeriesHold(other, more, rows2)
  <2>1. ASSUME NEW j \in DOMAIN other
        PROVE  /\ SeriesPoints(other[j]) = ListPoints(more, rows2[other[j].name])
               /\ other[j].last_timestamp = Stamp(SeriesPoints(other[j]))
    <3>1. CASE j = i
      BY <1>4, <1>5, <1>13, <1>14, <3>1
    <3>2. CASE j # i
      <4>1. other[j] = known[j] /\ j \in DOMAIN known
        BY <1>5, <3>2
      <4>2. known[j].name \in Names
        <5>1. known[j] \in SeriesRecord
          BY <1>2, <4>1
        <5> QED
          BY <5>1, SeriesFields
      <4>3. ListPoints(more, rows2[known[j].name]) = ListPoints(all, rows[known[j].name])
        BY <1>11, <1>12, <3>2, <4>1, <4>2
      <4>4. /\ SeriesPoints(known[j]) = ListPoints(all, rows[known[j].name])
            /\ known[j].last_timestamp = Stamp(SeriesPoints(known[j]))
        BY <1>1, <4>1 DEF SeriesHold
      <4> QED
        BY <4>1, <4>3, <4>4
    <3> QED
      BY <3>1, <3>2
  <2>2. ASSUME NEW o \in Names, \A j \in DOMAIN other : other[j].name # o
        PROVE  ListPoints(more, rows2[o]) = << >>
    <3>1. \A j \in DOMAIN known : known[j].name # o
      BY <1>5, <1>7, <2>2
    <3>2. ListPoints(all, rows[o]) = << >>
      BY <1>1, <3>1 DEF SeriesHold
    <3> QED
      BY <1>11, <3>1, <3>2
  <2> QED
    BY <2>1, <2>2 DEF SeriesHold
<1>16. ListsDirty(MarkedDirty(list, known, i), other)
  BY <1>1, <1>2, <1>4, MarkedDirtyLists
<1>17. Counted(other, size, count, all_size)
  BY <1>1, <1>5, <1>7, SameCounts
<1> QED
  BY <1>8, <1>11, <1>15, <1>16, <1>17 DEF Writes


-----------------------------------------------------------------------------
(* checkpoint: the sizes it announces are those of its manifest.           *)

(* The series published for the first time.                                *)
FirstTime(known) == {i \in DOMAIN known : known[i].dirty /\ known[i].root = << >>}

LEMMA FirstTimeGathered ==
    ASSUME Known(series), ListsDirty(dirty_series, series),
           NEW N \in Nat, N = Len(series), NEW v \in Seq(Nat), Len(v) = N,
           NEW s, s = [k \in DOMAIN dirty_series |->
                        IF FirstPublished(dirty_series[k]) THEN v[dirty_series[k]] ELSE 0]
    PROVE  Total(s) = Total(Chosen(v, FirstTime(series)))
<1>1. series \in Seq(SeriesRecord)
  BY DEF Known, Catalogue
<1>2. DOMAIN series = 1 .. N
  BY <1>1
<1>3. PICK e : e = dirty_series
  OBVIOUS
<1>4. e \in Seq(1 .. N) /\ \A j, k \in 1 .. Len(e) : e[j] = e[k] => j = k
  BY <1>3 DEF ListsDirty
<1>5. PICK l \in Nat : l = Len(e) /\ DOMAIN e = 1 .. l
  BY <1>4
<1>7. \A k \in 1 .. l : e[k] \in 1 .. N
  BY <1>4, <1>5
<1>8. PICK D : D = {i \in 1 .. N : series[i].root = << >>}
  OBVIOUS
<1>9. \A k \in 1 .. l : s[k] = IF e[k] \in D THEN v[e[k]] ELSE 0
  BY <1>3, <1>5, <1>7, <1>8 DEF FirstPublished
<1>10. \A k \in 1 .. l : s[k] \in Nat
  <2>1. \A i \in 1 .. N : v[i] \in Nat
    OBVIOUS
  <2>2. ASSUME NEW k \in 1 .. l PROVE s[k] \in Nat
    <3>1. PICK i \in 1 .. N : i = e[k]
      BY <1>7
    <3>2. s[k] = v[i] \/ s[k] = 0
      BY <1>9, <3>1
    <3> QED
      BY <2>1, <3>2
  <2> QED
    BY <2>2
<1>11. s \in Seq(Nat) /\ Len(s) = l
  <2>1. s \in [1 .. l -> Nat]
    BY <1>3, <1>5, <1>10
  <2> QED
    BY <1>5, <2>1
<1>12. Gathers(s, v, e, l, N, D)
  BY <1>4, <1>5, <1>9, <1>11 DEF Gathers
<1>13. FirstTime(series) = Gathered(e, l, N, D)
  <2>1. \A i \in 1 .. N : series[i].dirty <=> \E k \in 1 .. l : e[k] = i
    BY <1>3, <1>5 DEF ListsDirty
  <2> QED
    BY <1>2, <1>8, <2>1 DEF FirstTime, Gathered
<1> QED
  BY <1>12, <1>13, TotalInOrder

LEMMA CheckpointCounts ==
    ASSUME WriterState
    PROVE  /\ manifest_size + AddedSize
                = HeaderSize + Total(Chosen(Sizes(series), Rooted(series) \cup Dirty(series)))
           /\ manifest_series_count + AddedCount
                = Total(Chosen(Ones(series), Rooted(series) \cup Dirty(series)))
           /\ manifest_size + AddedSize <= ManifestSizeMax
<1>1. Known(series) /\ ListsDirty(dirty_series, series)
      /\ Counted(series, manifest_size, manifest_series_count, catalog_manifest_size)
  BY DEF WriterState, Writes
<1>2. series \in Seq(SeriesRecord)
  BY <1>1 DEF Known, Catalogue
<1>3. PICK N \in Nat : N = Len(series)
  BY <1>2
<1>4. PICK v, w : Weighs(v, w, series, N)
  BY <1>2, <1>3, SeriesWeigh
<1>5. /\ v \in Seq(Nat) /\ w \in Seq(Nat) /\ v = Sizes(series) /\ w = Ones(series)
      /\ Len(v) = N /\ Len(w) = N
      /\ \A i \in 1 .. N : v[i] = SeriesSize(series[i].name) /\ w[i] = 1
  BY <1>4 DEF Weighs
<1>6. \A k \in DOMAIN dirty_series : dirty_series[k] \in 1 .. N
  BY <1>1, <1>3 DEF ListsDirty
<1>7. PICK s : s = [k \in DOMAIN dirty_series |->
                        IF FirstPublished(dirty_series[k]) THEN v[dirty_series[k]] ELSE 0]
  OBVIOUS
<1>8. PICK t : t = [k \in DOMAIN dirty_series |->
                        IF FirstPublished(dirty_series[k]) THEN w[dirty_series[k]] ELSE 0]
  OBVIOUS
<1>9. AddedSize = Total(s)
  <2>1. s = [k \in DOMAIN dirty_series |->
                IF FirstPublished(dirty_series[k])
                THEN SeriesSize(series[dirty_series[k]].name) ELSE 0]
    BY <1>5, <1>6, <1>7
  <2> QED
    BY Zenon, <2>1 DEF AddedSize
<1>10. AddedCount = Total(t)
  <2>1. t = [k \in DOMAIN dirty_series |-> IF FirstPublished(dirty_series[k]) THEN 1 ELSE 0]
    BY <1>5, <1>6, <1>8
  <2> QED
    BY Zenon, <2>1 DEF AddedCount
<1>11. PICK D, E : D = Rooted(series) /\ E = FirstTime(series)
  OBVIOUS
<1>12. Total(s) = Total(Chosen(v, E)) /\ Total(t) = Total(Chosen(w, E))
  BY <1>1, <1>3, <1>5, <1>7, <1>8, <1>11, FirstTimeGathered
<1>13. D \cap E = {} /\ D \cup E = Rooted(series) \cup Dirty(series)
  BY <1>11 DEF Rooted, Dirty, FirstTime
<1>14. Total(Chosen(v, D \cup E)) = Total(Chosen(v, D)) + Total(Chosen(v, E))
  BY <1>5, <1>13, TotalOfUnion
<1>15. Total(Chosen(w, D \cup E)) = Total(Chosen(w, D)) + Total(Chosen(w, E))
  BY <1>5, <1>13, TotalOfUnion
<1>16. Chosen(v, D) \in Seq(Nat) /\ Chosen(v, E) \in Seq(Nat)
  BY <1>5, ChosenTyped
<1>17. Total(Chosen(v, D)) \in Nat /\ Total(Chosen(v, E)) \in Nat /\ Total(v) \in Nat
  BY <1>5, <1>16, TotalTyped
<1>18. Total(Chosen(v, D \cup E)) <= Total(v)
  BY <1>5, TotalOfPart
<1>19. /\ manifest_size = HeaderSize + Total(Chosen(v, D))
       /\ manifest_series_count = Total(Chosen(w, D))
       /\ catalog_manifest_size = HeaderSize + Total(v) /\ catalog_manifest_size <= ManifestSizeMax
  BY <1>1, <1>5, <1>11 DEF Counted
<1>20. HeaderSize \in Nat
  BY SeriesWriterAssumption
<1>21. manifest_size + AddedSize = HeaderSize + Total(Chosen(v, D \cup E))
  BY <1>9, <1>12, <1>14, <1>17, <1>19, <1>20
<1>22. manifest_series_count + AddedCount = Total(Chosen(w, D \cup E))
  BY <1>10, <1>12, <1>15, <1>19
<1>23. manifest_size + AddedSize <= ManifestSizeMax
  <2>1. PICK a \in Nat, b \in Nat, h \in Nat :
            a = Total(Chosen(v, D \cup E)) /\ b = Total(v) /\ h = HeaderSize /\ a <= b
    BY <1>14, <1>17, <1>18, <1>20
  <2>2. manifest_size + AddedSize = h + a /\ catalog_manifest_size = h + b
    BY <1>19, <1>21, <2>1
  <2>3. ManifestSizeMax \in Nat
    BY SeriesWriterAssumption
  <2>4. h + b <= ManifestSizeMax
    BY <1>19, <2>2
  <2> QED
    BY <2>1, <2>2, <2>3, <2>4
<1> QED
  BY <1>5, <1>13, <1>21, <1>22, <1>23

LEMMA CheckpointIsAccepted ==
    ASSUME WriterState
    PROVE  CheckpointAccepted
<1>1. Known(series)
  BY DEF WriterState, Writes
<1>2. Catalogue(series) /\ series \in Seq(SeriesRecord)
  BY <1>1 DEF Known, Catalogue
<1>3. PICK N \in Nat : N = Len(series) /\ DOMAIN series = 1 .. N
  BY <1>2
<1>4. \A i \in 1 .. N : Tidy(series[i])
  BY <1>1, <1>3 DEF Known
<1>5. /\ EntriesSize(NextManifest)
            = HeaderSize + Total(Chosen(Sizes(series), Rooted(series) \cup Dirty(series)))
      /\ Len(NextManifest) = Total(Chosen(Ones(series), Rooted(series) \cup Dirty(series)))
  BY <1>2, <1>3, <1>4, NextManifestSize
<1> QED
  BY <1>5, CheckpointCounts DEF CheckpointAccepted, EncodeAccepts


(* The manifest of the next generation publishes the accepted batches.     *)
LEMMA NextPublishes ==
    ASSUME WriterState
    PROVE  Publishes(NextManifest, batches, accepted)
<1>1. Known(series) /\ SeriesHold(series, batches, accepted) /\ Rows(batches, accepted)
  BY DEF WriterState, Writes
<1>2. Catalogue(series) /\ series \in Seq(SeriesRecord)
  BY <1>1 DEF Known, Catalogue
<1>3. PICK N \in Nat : N = Len(series) /\ DOMAIN series = 1 .. N
  BY <1>2
<1>4. \A i \in 1 .. N : Sound(series[i]) /\ Tidy(series[i])
  BY <1>1, <1>3 DEF Known, Catalogue
<1>5. PICK next : next = NextManifest
  OBVIOUS
<1>6. Built(next, N)
  BY <1>2, <1>3, <1>4, <1>5, NextManifestBuilt
<1>7. ASSUME NEW i \in 1 .. N
      PROVE  /\ NextEntry(i).name = series[i].name /\ NextEntry(i).id = series[i].id
             /\ OwnPages(NextEntry(i).pages, series[i].id)
             /\ PagePoints(NextEntry(i).pages) = SeriesPoints(series[i])
  BY <1>4, NextEntryFacts
<1>8. Entries(next)
  <2>1. ASSUME NEW j \in DOMAIN next
        PROVE  OwnPages(next[j].pages, next[j].id) /\ next[j].pages # << >>
    <3>1. PICK i \in 1 .. N : next[j] = NextEntry(i) /\ NextEntry(i).pages # << >>
      BY <1>6, <2>1 DEF Built
    <3> QED
      BY <1>7, <3>1
  <2>2. EntriesSize(next) <= ManifestSizeMax
    BY <1>5, CheckpointIsAccepted DEF CheckpointAccepted, EncodeAccepts
  <2> QED
    BY <1>6, <2>1, <2>2 DEF Entries, Built
<1>9. EntriesHold(next, batches, accepted)
  <2>1. ASSUME NEW j \in DOMAIN next
        PROVE  PagePoints(next[j].pages) = ListPoints(batches, accepted[next[j].name])
    <3>1. PICK i \in 1 .. N : next[j] = NextEntry(i) /\ NextEntry(i).pages # << >>
      BY <1>6, <2>1 DEF Built
    <3>2. SeriesPoints(series[i]) = ListPoints(batches, accepted[series[i].name])
      BY <1>1, <1>3 DEF SeriesHold
    <3> QED
      BY <1>7, <3>1, <3>2
  <2>2. ASSUME NEW name \in Names, \A j \in DOMAIN next : next[j].name # name
        PROVE  ListPoints(batches, accepted[name]) = << >>
    <3>1. CASE \A i \in DOMAIN series : series[i].name # name
      BY <1>1, <3>1 DEF SeriesHold
    <3>2. CASE \E i \in DOMAIN series : series[i].name = name
      <4>1. PICK i \in 1 .. N : series[i].name = name
        BY <1>3, <3>2
      <4>2. NextEntry(i).pages = << >>
        <5> SUFFICES ASSUME NextEntry(i).pages # << >> PROVE FALSE
          OBVIOUS
        <5>1. PICK j \in DOMAIN next : next[j] = NextEntry(i)
          BY <1>6, <4>1 DEF Built
        <5> QED
          BY <1>7, <2>2, <4>1, <5>1
      <4>3. SeriesPoints(series[i]) = << >>
        BY <1>7, <4>1, <4>2, PagePointsEmpty
      <4>4. SeriesPoints(series[i]) = ListPoints(batches, accepted[series[i].name])
        BY <1>1, <1>3, <4>1 DEF SeriesHold
      <4> QED
        BY <4>1, <4>3, <4>4
    <3> QED
      BY <3>1, <3>2
  <2> QED
    BY <2>1, <2>2 DEF EntriesHold
<1> QED
  BY <1>1, <1>5, <1>8, <1>9 DEF Publishes

(* A series after the checkpoint.                                          *)
Clean(s) == [s EXCEPT !.root = @ \o s.pending_entries, !.pending_entries = << >>, !.dirty = FALSE]
Checkpointed(s) == LET t == FlushSeries(s) IN IF ~t.dirty THEN t ELSE Clean(t)

Rerooted(s, r, e) == [s EXCEPT !.root = r, !.pending_entries = e, !.dirty = FALSE]

NewRoot(t, s, r, e) ==
    /\ t \in SeriesRecord /\ t.name = s.name /\ t.id = s.id /\ t.last_timestamp = s.last_timestamp
    /\ t.dirty = FALSE /\ t.pending_entries = e /\ t.buffer = s.buffer /\ t.root = r

LEMMA RerootedFields ==
    ASSUME NEW s \in SeriesRecord, NEW r \in Seq(PageRecord), NEW e \in Seq(PageRecord)
    PROVE  NewRoot(Rerooted(s, r, e), s, r, e)
BY DEF Rerooted, SeriesRecord, NewRoot

LEMMA CleanKeeps ==
    ASSUME NEW s, Sound(s), s.buffer = << >>, s.pending_entries # << >>, NEW t, t = Clean(s)
    PROVE  /\ Sound(t) /\ t.name = s.name /\ t.id = s.id /\ t.last_timestamp = s.last_timestamp
           /\ t.dirty = FALSE /\ t.pending_entries = << >> /\ t.buffer = << >> /\ t.root # << >>
           /\ SeriesPoints(t) = SeriesPoints(s)
<1>1. s \in SeriesRecord
  BY DEF Sound
<1>2. PICK p \in Seq(PageRecord), q \in Seq(PageRecord) : p = s.root /\ q = s.pending_entries
  BY <1>1, SeriesFields
<1>3. PICK r \in Seq(PageRecord) : r = p \o q
  <2>1. p \o q \in Seq(PageRecord)
    BY <1>2, ConcatProperties
  <2> QED
    BY Zenon, <2>1
<1>4. /\ t.name = s.name /\ t.id = s.id /\ t.last_timestamp = s.last_timestamp
      /\ t.dirty = FALSE /\ t.pending_entries = << >> /\ t.buffer = << >> /\ t.root = r
      /\ t \in SeriesRecord
  <2>1. PICK e : e = << >>
    OBVIOUS
  <2>2. e \in Seq(PageRecord)
    BY <2>1
  <2>3. t = Rerooted(s, r, e)
    BY <1>2, <1>3, <2>1 DEF Clean, Rerooted
  <2>4. NewRoot(Rerooted(s, r, e), s, r, e)
    BY Zenon, <1>1, <1>3, <2>2, RerootedFields
  <2>5. NewRoot(t, s, r, e)
    BY Zenon, <2>3, <2>4
  <2> QED
    BY <2>1, <2>5 DEF NewRoot
<1>5. r # << >>
  <2>1. Len(r) = Len(p) + Len(q) /\ Len(p) \in Nat /\ Len(q) \in Nat /\ Len(q) # 0
    BY <1>2, <1>3
  <2> QED
    BY <2>1
<1>6. OwnPages(r, s.id)
  BY <1>2, <1>3, OwnPagesConcat DEF Sound
<1>7. OwnPages(t.pending_entries, t.id)
  BY <1>4 DEF OwnPages
<1>8. Sound(t)
  BY <1>4, <1>6, <1>7, SeriesWriterAssumption DEF Sound
<1>9. PICK a \in Seq(PointRecord), b \in Seq(PointRecord) : a = PagePoints(p) /\ b = PagePoints(q)
  BY PagePointsTyped
<1>10. PagePoints(r) = a \o b
  BY <1>3, <1>9, PagePointsConcat
<1>11. SeriesPoints(t) = a \o b \o << >> \o << >>
  BY <1>4, <1>10, PagePointsEmpty DEF SeriesPoints
<1>12. SeriesPoints(s) = a \o b \o << >>
  BY <1>2, <1>9 DEF SeriesPoints
<1>13. a \o b \o << >> = a \o b /\ a \o b \in Seq(PointRecord)
  BY <1>9
<1> QED
  BY <1>4, <1>5, <1>8, <1>11, <1>12, <1>13

CheckpointedWell(t, s) ==
    /\ Sound(t) /\ Tidy(t) /\ ~t.dirty
    /\ t.name = s.name /\ t.id = s.id /\ t.last_timestamp = s.last_timestamp
    /\ t.root # << >> <=> (s.root # << >> \/ s.dirty)
    /\ SeriesPoints(t) = SeriesPoints(s)

LEMMA SeriesCheckpointed ==
    ASSUME NEW s, Sound(s), Tidy(s), NEW t, t = Checkpointed(s)
    PROVE  CheckpointedWell(t, s)
<1>1. PICK u : u = FlushSeries(s)
  OBVIOUS
<1>2. /\ Sound(u) /\ SameSeries(s, u) /\ SeriesPoints(u) = SeriesPoints(s)
      /\ u.buffer = << >> /\ (u.pending_entries # << >> <=> s.dirty)
  BY <1>1, FlushSeriesKeeps
<1>3. /\ u.name = s.name /\ u.id = s.id /\ u.root = s.root /\ u.last_timestamp = s.last_timestamp
      /\ u.dirty = s.dirty
  BY <1>2 DEF SameSeries
<1>4. CASE ~u.dirty
  <2>1. t = u
    BY <1>1, <1>4 DEF Checkpointed
  <2> QED
    BY <1>2, <1>3, <1>4, <2>1 DEF CheckpointedWell, Tidy
<1>5. CASE u.dirty
  <2>1. t = Clean(u)
    BY <1>1, <1>5 DEF Checkpointed
  <2>2. /\ Sound(t) /\ t.name = u.name /\ t.id = u.id /\ t.last_timestamp = u.last_timestamp
        /\ t.dirty = FALSE /\ t.pending_entries = << >> /\ t.buffer = << >> /\ t.root # << >>
        /\ SeriesPoints(t) = SeriesPoints(u)
    BY <1>2, <1>3, <1>5, <2>1, CleanKeeps
  <2> QED
    BY <1>2, <1>3, <1>5, <2>2 DEF CheckpointedWell, Tidy
<1> QED
  BY <1>4, <1>5

LEMMA CheckpointWrites ==
    ASSUME WriterState, NEW known, known = [i \in DOMAIN series |-> Checkpointed(series[i])]
    PROVE  Writes(known, batches, accepted, << >>, manifest_size + AddedSize,
                  manifest_series_count + AddedCount, catalog_manifest_size)
<1>1. /\ Known(series) /\ SeriesHold(series, batches, accepted) /\ Rows(batches, accepted)
      /\ Counted(series, manifest_size, manifest_series_count, catalog_manifest_size)
  BY DEF WriterState, Writes
<1>2. series \in Seq(SeriesRecord)
  BY <1>1 DEF Known, Catalogue
<1>3. PICK N \in Nat : N = Len(series) /\ DOMAIN series = 1 .. N
  BY <1>2
<1>4. DOMAIN known = DOMAIN series
  OBVIOUS
<1>5. ASSUME NEW i \in DOMAIN series
      PROVE  /\ Sound(known[i]) /\ Tidy(known[i]) /\ ~known[i].dirty
             /\ known[i].name = series[i].name /\ known[i].id = series[i].id
             /\ known[i].last_timestamp = series[i].last_timestamp
             /\ known[i].root # << >> <=> (series[i].root # << >> \/ series[i].dirty)
             /\ SeriesPoints(known[i]) = SeriesPoints(series[i])
  <2>1. PICK s, t : s = series[i] /\ t = known[i] /\ t = Checkpointed(s)
    OBVIOUS
  <2>2. Sound(s) /\ Tidy(s)
    BY <1>1, <2>1 DEF Known, Catalogue
  <2>3. CheckpointedWell(t, s)
    BY <2>1, <2>2, SeriesCheckpointed
  <2> QED
    BY Zenon, <2>1, <2>3 DEF CheckpointedWell
<1>6. known \in Seq(SeriesRecord) /\ Len(known) = N
  <2>1. \A i \in 1 .. N : known[i] \in SeriesRecord
    BY <1>3, <1>5 DEF Sound
  <2>2. known \in [1 .. N -> SeriesRecord]
    BY <1>3, <2>1
  <2> QED
    BY <2>2
<1>7. Known(known)
  <2>1. \A i \in DOMAIN known : Sound(known[i]) /\ Tidy(known[i])
    BY <1>4, <1>5
  <2>2. ASSUME NEW i \in DOMAIN known, NEW j \in DOMAIN known, i < j
        PROVE  known[i].id < known[j].id /\ known[i].name # known[j].name
    <3>1. series[i].id < series[j].id /\ series[i].name # series[j].name
      BY <1>1, <1>4, <2>2 DEF Known, Catalogue
    <3> QED
      BY <1>4, <1>5, <3>1
  <2> QED
    BY <1>6, <2>1, <2>2 DEF Known, Catalogue
<1>8. SeriesHold(known, batches, accepted)
  <2>1. ASSUME NEW i \in DOMAIN known
        PROVE  /\ SeriesPoints(known[i]) = ListPoints(batches, accepted[known[i].name])
               /\ known[i].last_timestamp = Stamp(SeriesPoints(known[i]))
    <3>1. /\ SeriesPoints(series[i]) = ListPoints(batches, accepted[series[i].name])
          /\ series[i].last_timestamp = Stamp(SeriesPoints(series[i]))
      BY <1>1, <1>4 DEF SeriesHold
    <3> QED
      BY <1>4, <1>5, <3>1
  <2>2. ASSUME NEW name \in Names, \A i \in DOMAIN known : known[i].name # name
        PROVE  ListPoints(batches, accepted[name]) = << >>
    <3>1. \A i \in DOMAIN series : series[i].name # name
      BY <1>4, <1>5, <2>2
    <3> QED
      BY <1>1, <3>1 DEF SeriesHold
  <2> QED
    BY <2>1, <2>2 DEF SeriesHold
<1>9. ListsDirty(<< >>, known)
  <2>1. \A i \in 1 .. N : ~known[i].dirty
    BY <1>3, <1>5
  <2> QED
    BY <1>6, <2>1 DEF ListsDirty
<1>10. Sizes(known) = Sizes(series) /\ Ones(known) = Ones(series)
  BY <1>4, <1>5 DEF Sizes, Ones
<1>11. Rooted(known) = Rooted(series) \cup Dirty(series)
  <2>1. \A i \in DOMAIN series : known[i].root # << >> <=> (series[i].root # << >> \/ series[i].dirty)
    BY <1>5
  <2> QED
    BY <1>4, <2>1 DEF Rooted, Dirty
<1>12. Counted(known, manifest_size + AddedSize, manifest_series_count + AddedCount, catalog_manifest_size)
  BY <1>1, <1>10, <1>11, CheckpointCounts DEF Counted
<1> QED
  BY <1>1, <1>7, <1>8, <1>9, <1>12 DEF Writes


-----------------------------------------------------------------------------
(* The invariant holds at the start and every step keeps it.               *)

LEMMA SeriesInitially == Init => SeriesInv
<1> SUFFICES ASSUME Init PROVE SeriesInv
  OBVIOUS
<1> USE DEF Init
<1>1. open \in BOOLEAN /\ poisoned \in BOOLEAN /\ ~open
  OBVIOUS
<1>2. batches \in Seq(Seq(Int)) /\ published \in [Names -> Seq(1 .. Len(batches))]
  OBVIOUS
<1>3. \A name \in Names : ListPoints(batches, published[name]) = << >>
  <2>1. \A name \in Names : published[name] = << >>
    OBVIOUS
  <2> QED
    BY Zenon, <1>2, <2>1, ListPointsEmpty
<1>4. Increasing(<< >>)
  BY DEF Increasing
<1>5. Rows(batches, published)
  BY <1>2, <1>3, <1>4 DEF Rows
<1>6. Entries(<< >>)
  <2>1. << >> \in Seq(EntryRecord)
    OBVIOUS
  <2>2. EntriesSize(<< >>) = HeaderSize + Total(SizesOf(<< >>)) /\ SizesOf(<< >>) = << >>
    <3>1. PICK e \in Seq(EntryRecord) : e = << >>
      BY <2>1
    <3>2. EntriesSize(e) = HeaderSize + Total(SizesOf(e))
      BY <3>1, SizesOfTyped
    <3>3. SizesOf(<< >>) = << >>
      BY DEF SizesOf
    <3> QED
      BY <3>1, <3>2, <3>3
  <2>3. EntriesSize(<< >>) <= ManifestSizeMax
    BY <2>2, TotalEmpty, SeriesWriterAssumption
  <2> QED
    BY <2>1, <2>3 DEF Entries, InOrder
<1>7. EntriesHold(<< >>, batches, published)
  BY <1>3 DEF EntriesHold
<1> QED
  BY <1>1, <1>5, <1>6, <1>7 DEF SeriesInv, PublishedState, Publishes

(* A new batch leaves the published ones as they are.                      *)
LEMMA PublishesKept ==
    ASSUME NEW entries, NEW all, NEW rows, Publishes(entries, all, rows), NEW batch \in Seq(Int)
    PROVE  Publishes(entries, Append(all, batch), rows)
<1>1. PICK more : more = Append(all, batch)
  OBVIOUS
<1>2. Rows(all, rows) /\ Entries(entries) /\ EntriesHold(entries, all, rows)
  BY DEF Publishes
<1>3. /\ Rows(more, rows)
      /\ \A name \in Names : ListPoints(more, rows[name]) = ListPoints(all, rows[name])
  BY ZenonT(60), <1>1, <1>2, RowsKept
<1>4. \A i \in DOMAIN entries : entries[i].name \in Names
  <2>1. \A i \in DOMAIN entries : entries[i] \in EntryRecord
    BY <1>2 DEF Entries
  <2> QED
    BY <2>1 DEF EntryRecord
<1>5. EntriesHold(entries, more, rows)
  BY <1>2, <1>3, <1>4 DEF EntriesHold
<1> QED
  BY <1>1, <1>2, <1>3, <1>5 DEF Publishes

(* getOrCreateSeries.                                                      *)
Gets(name, known, i, all_size) ==
    /\ Writes(known, batches, accepted, dirty_series, manifest_size, manifest_series_count, all_size)
    /\ i \in DOMAIN known
    /\ known[i].name = name

LEMMA SeriesCreated ==
    ASSUME WriterState, NEW name \in Names, Find(name) = {}, Fits(name)
    PROVE  Writes(WithSeries(name), batches, accepted, dirty_series, manifest_size,
                  manifest_series_count, CatalogSizeWith(name))
<1>1. /\ Rows(batches, accepted) /\ Known(series) /\ SeriesHold(series, batches, accepted)
      /\ ListsDirty(dirty_series, series)
      /\ Counted(series, manifest_size, manifest_series_count, catalog_manifest_size)
  BY DEF WriterState, Writes
<1>2. \A i \in DOMAIN series : series[i].name # name
  BY DEF Find
<1>3. Catalogue(series)
  BY <1>1 DEF Known
<1>4. PICK id \in Nat : id = NextId /\ \A i \in DOMAIN series : series[i].id < id
  BY <1>3, NextIdIsNew
<1>5. PICK s : s = WriterSeries(name, id, << >>, NoTimestamp)
  OBVIOUS
<1>6. WithSeries(name) = Append(series, s) /\ CatalogSizeWith(name) = catalog_manifest_size + SeriesSize(name)
  BY <1>4, <1>5 DEF WithSeries, CatalogSizeWith
<1>7. catalog_manifest_size + SeriesSize(name) <= ManifestSizeMax
  BY DEF Fits
<1>8. PICK more : more = Append(series, s)
  OBVIOUS
<1>9. /\ Known(more) /\ SeriesHold(more, batches, accepted) /\ ListsDirty(dirty_series, more)
      /\ Counted(more, manifest_size, manifest_series_count, catalog_manifest_size + SeriesSize(name))
  BY <1>1, <1>2, <1>4, <1>5, <1>7, <1>8, SeriesAdded
<1> QED
  BY <1>1, <1>6, <1>8, <1>9 DEF Writes

LEMMA SeriesGotten ==
    ASSUME WriterState, NEW name \in Names, NEW batch, Acceptable(name, batch),
           NEW known, known = WithSeries(name), NEW i, i = Target(known, name)
    PROVE  /\ Gets(name, known, i, CatalogSizeWith(name))
           /\ Follows(batch, known[i].last_timestamp)
<1>1. CASE Find(name) # {}
  <2>1. known = series /\ CatalogSizeWith(name) = catalog_manifest_size + 0
    BY <1>1 DEF WithSeries, CatalogSizeWith
  <2>2. CatalogSizeWith(name) = catalog_manifest_size
    <3>1. series \in Seq(SeriesRecord)
      BY DEF WriterState, Writes, Known, Catalogue
    <3>2. PICK N \in Nat : N = Len(series)
      BY <3>1
    <3>3. Sizes(series) \in Seq(Nat)
      BY <3>1, <3>2, SizesTyped
    <3>4. PICK t \in Nat : t = Total(Sizes(series))
      BY <3>3, TotalTyped
    <3>5. catalog_manifest_size = HeaderSize + t
      BY <3>4 DEF WriterState, Writes, Counted
    <3>6. HeaderSize \in Nat
      BY SeriesWriterAssumption
    <3> QED
      BY <2>1, <3>4, <3>5, <3>6
  <2>3. \E j \in DOMAIN known : known[j].name = name
    BY <1>1, <2>1 DEF Find
  <2>4. i \in DOMAIN known /\ known[i].name = name
    BY <2>3 DEF Target
  <2>5. i \in Find(name)
    BY <2>1, <2>4 DEF Find
  <2>6. Follows(batch, known[i].last_timestamp)
    BY <2>1, <2>5 DEF Acceptable
  <2> QED
    BY <2>1, <2>2, <2>4, <2>6 DEF Gets, WriterState
<1>2. CASE Find(name) = {}
  <2>1. Fits(name)
    BY <1>2 DEF Acceptable
  <2>2. Writes(known, batches, accepted, dirty_series, manifest_size,
               manifest_series_count, CatalogSizeWith(name))
    BY <1>2, <2>1, SeriesCreated
  <2>3. Known(series) /\ Catalogue(series) /\ series \in Seq(SeriesRecord)
    BY DEF WriterState, Writes, Known, Catalogue
  <2>4. PICK id \in Nat : id = NextId
    BY <2>3, NextIdIsNew
  <2>5. PICK s : s = WriterSeries(name, id, << >>, NoTimestamp)
    OBVIOUS
  <2>6. known = Append(series, s)
    BY <1>2, <2>4, <2>5 DEF WithSeries
  <2>7. s.name = name /\ s.last_timestamp = NoTimestamp
    BY <2>5 DEF WriterSeries
  <2>8. PICK N \in Nat : N = Len(series) /\ DOMAIN series = 1 .. N
    BY <2>3
  <2>9. s \in SeriesRecord
    BY <2>4, <2>5, NewSeriesStarts DEF Sound
  <2>10. /\ DOMAIN known = 1 .. N + 1 /\ known[N + 1] = s
         /\ \A j \in 1 .. N : known[j] = series[j]
    BY <2>3, <2>6, <2>8, <2>9, AppendProperties
  <2>11. N + 1 \in DOMAIN known
    BY <2>8, <2>10
  <2>12. i \in DOMAIN known /\ known[i].name = name
    BY <2>7, <2>10, <2>11 DEF Target
  <2>13. i = N + 1
    <3>1. i \notin 1 .. N
      BY <1>2, <2>8, <2>10, <2>12 DEF Find
    <3> QED
      BY <2>8, <2>10, <2>12, <3>1
  <2>14. Follows(batch, known[i].last_timestamp)
    BY <2>7, <2>10, <2>13 DEF Follows
  <2> QED
    BY <2>2, <2>12, <2>14 DEF Gets
<1> QED
  BY <1>1, <1>2


LEMMA OpenKeeps ==
    ASSUME SeriesInv, Open
    PROVE  SeriesInv'
<1>1. PICK known : known = [i \in DOMAIN manifest |-> OpenedSeries(manifest[i])]
  OBVIOUS
<1>2. series' = known
  BY Zenon, <1>1 DEF Open, OpenedSeries
<1>3. Rows(batches, published) /\ Entries(manifest) /\ EntriesHold(manifest, batches, published)
  BY DEF SeriesInv, PublishedState, Publishes
<1>4. /\ Known(known) /\ SeriesHold(known, batches, published) /\ ListsDirty(<< >>, known)
      /\ Counted(known, EntriesSize(manifest), Len(manifest), EntriesSize(manifest))
  BY <1>1, <1>3, OpenedWriter
<1>5. Writes(known, batches, published, << >>, EntriesSize(manifest), Len(manifest), EntriesSize(manifest))
  BY <1>3, <1>4 DEF Writes
<1>6. WriterState'
  BY <1>2, <1>5 DEF Open, WriterState, ManifestSize
<1>7. PublishedState'
  BY DEF SeriesInv, Open, PublishedState
<1> QED
  BY <1>6, <1>7 DEF SeriesInv, Open

LEMMA PrepareSeriesKeeps ==
    ASSUME SeriesInv, NEW name \in Names, PrepareSeries(name)
    PROVE  SeriesInv'
<1>1. WriterState /\ Find(name) = {} /\ Fits(name)
  BY DEF SeriesInv, PrepareSeries
<1>2. Writes(WithSeries(name), batches, accepted, dirty_series, manifest_size,
             manifest_series_count, CatalogSizeWith(name))
  BY <1>1, SeriesCreated
<1>3. WriterState'
  BY <1>2 DEF PrepareSeries, WriterState
<1>4. PublishedState'
  BY DEF SeriesInv, PrepareSeries, PublishedState
<1> QED
  BY <1>3, <1>4 DEF SeriesInv, PrepareSeries

LEMMA BatchesTyped ==
    ASSUME NEW batch \in Batches
    PROVE  batch \in Seq(Int) /\ batch # << >>
BY SeriesWriterAssumption

LEMMA BatchPublishesKept ==
    ASSUME SeriesInv, NEW batch \in Batches, batches' = Append(batches, batch),
           UNCHANGED <<manifest, published>>
    PROVE  PublishedState'
<1>1. Publishes(manifest, batches, published)
  BY DEF SeriesInv, PublishedState
<1>2. Publishes(manifest, Append(batches, batch), published)
  BY <1>1, BatchesTyped, PublishesKept
<1> QED
  BY <1>2 DEF PublishedState

LEMMA AppendBatchKeeps ==
    ASSUME SeriesInv, NEW name \in Names, NEW batch \in Batches, AppendBatch(name, batch)
    PROVE  SeriesInv'
<1>1. Acceptable(name, batch) /\ WriterState
  BY DEF SeriesInv, AppendBatch, Acceptable
<1>2. PICK known : known = WithSeries(name)
  OBVIOUS
<1>3. PICK i : i = Target(known, name)
  OBVIOUS
<1>4. /\ Gets(name, known, i, CatalogSizeWith(name))
      /\ Follows(batch, known[i].last_timestamp)
  BY <1>1, <1>2, <1>3, SeriesGotten
<1>5. /\ Writes(known, batches, accepted, dirty_series, manifest_size, manifest_series_count,
                CatalogSizeWith(name))
      /\ i \in DOMAIN known /\ known[i].name = name
  BY <1>4 DEF Gets
<1>6. batch \in Seq(Int) /\ batch # << >>
  BY BatchesTyped
<1>7. batches \in Seq(Seq(Int))
  BY <1>1 DEF WriterState, Writes, Rows
<1>8. PICK more : more = Append(batches, batch)
  OBVIOUS
<1>9. /\ more \in Seq(Seq(Int)) /\ Len(more) = Len(batches) + 1 /\ Len(more) \in 1 .. Len(more)
      /\ more[Len(more)] = batch
  BY <1>6, <1>7, <1>8, OneMoreBatch
<1>10. PICK points : points = [k \in DOMAIN batch |-> Point(batch[k], Len(batches) + 1)]
  OBVIOUS
<1>11. points = PointsOf(more, Len(more))
  BY <1>9, <1>10 DEF PointsOf
<1>12. points \in Seq(PointRecord) /\ Len(points) = Len(batch)
  BY <1>9, <1>11, PointsOfTyped
<1>13. points # << >>
  <2>1. Len(batch) # 0
    BY <1>6
  <2> QED
    BY <1>12, <2>1
<1>14. PICK last \in Seq(Int) : last = <<batch[Len(batch)]>>
  <2>1. PICK x \in Int : x = batch[Len(batch)]
    BY <1>6
  <2>2. <<x>> \in Seq(Int)
    BY <2>1
  <2> QED
    BY Zenon, <2>1, <2>2
<1>15. Known(known) /\ SeriesHold(known, batches, accepted)
  BY <1>5 DEF Writes
<1>16. Sound(known[i])
  BY <1>5, <1>15 DEF Known, Catalogue
<1>17. PICK t : t = Marked(AfterRounds(Len(batch), known[i], points).target, last)
  OBVIOUS
<1>18. Took(t, known[i], points, last)
  BY <1>12, <1>13, <1>14, <1>16, <1>17, BatchTaken
<1>19. Appendable(batch, SeriesPoints(known[i]))
  <2>1. PICK p \in Seq(PointRecord) : p = SeriesPoints(known[i])
    BY <1>16, SeriesPointsTyped
  <2>2. known[i].last_timestamp = Stamp(p)
    BY <1>5, <1>15, <2>1 DEF SeriesHold
  <2>3. ASSUME p # << >> PROVE p[Len(p)].timestamp < batch[1]
    <3>1. PICK x \in Int : x = p[Len(p)].timestamp
      <4>1. p[Len(p)] \in PointRecord
        BY <2>1, <2>3
      <4> QED
        BY <4>1 DEF PointRecord
    <3>2. known[i].last_timestamp = <<x>>
      BY <2>2, <2>3, <3>1 DEF Stamp
    <3>3. known[i].last_timestamp # NoTimestamp
      BY <3>2 DEF NoTimestamp
    <3>4. batch[1] > x
      BY <1>4, <3>2, <3>3 DEF Follows
    <3>5. batch[1] \in Int
      BY <1>6
    <3> QED
      BY <3>1, <3>4, <3>5
  <2>4. TimestampsStrictlyIncreasing(batch)
    BY <1>1 DEF Acceptable
  <2> QED
    BY <1>6, <2>1, <2>3, <2>4 DEF Appendable
<1>20. PICK other : other = [known EXCEPT ![i] = t]
  OBVIOUS
<1>21. PICK rows : rows = RowAdded(accepted, name, Len(more))
  OBVIOUS
<1>22. Took(t, known[i], PointsOf(more, Len(more)), <<batch[Len(batch)]>>)
  BY Zenon, <1>11, <1>14, <1>18
<1>23. Writes(other, more, rows, MarkedDirty(dirty_series, known, i), manifest_size,
              manifest_series_count, CatalogSizeWith(name))
  BY <1>5, <1>8, <1>19, <1>20, <1>21, <1>22, BatchAppended
<1>24. series' = other
  BY <1>2, <1>3, <1>10, <1>14, <1>17, <1>20 DEF AppendBatch, Marked, Last
<1>25. dirty_series' = MarkedDirty(dirty_series, known, i)
  BY <1>2, <1>3 DEF AppendBatch, MarkDirty, MarkedDirty
<1>26. accepted' = rows /\ batches' = more
  BY <1>8, <1>9, <1>21 DEF AppendBatch, RowAdded
<1>27. /\ catalog_manifest_size' = CatalogSizeWith(name)
       /\ UNCHANGED <<manifest, open, poisoned, manifest_size, manifest_series_count, published>>
  BY DEF AppendBatch
<1>28. WriterState'
  BY <1>23, <1>24, <1>25, <1>26, <1>27 DEF WriterState
<1>29. PublishedState'
  BY <1>8, <1>26, <1>27, BatchPublishesKept
<1> QED
  BY <1>27, <1>28, <1>29 DEF SeriesInv

LEMMA AppendBatchFailsKeeps ==
    ASSUME SeriesInv, NEW name \in Names, NEW batch \in Batches, AppendBatchFails(name, batch)
    PROVE  SeriesInv'
<1>1. /\ batches' = Append(batches, batch) /\ poisoned' = TRUE
      /\ UNCHANGED <<manifest, published, open>>
  BY DEF AppendBatchFails
<1>2. PublishedState'
  BY <1>1, BatchPublishesKept
<1> QED
  BY <1>1, <1>2 DEF SeriesInv

LEMMA PublishKeeps ==
    ASSUME SeriesInv, open, ~poisoned, Publish, UNCHANGED batches
    PROVE  PublishedState'
<1>1. Publishes(NextManifest, batches, accepted)
  BY NextPublishes DEF SeriesInv
<1> QED
  BY <1>1 DEF Publish, PublishedState

LEMMA CheckpointKeeps ==
    ASSUME SeriesInv, Checkpoint
    PROVE  SeriesInv'
<1>1. open /\ ~poisoned /\ Publish /\ UNCHANGED <<open, poisoned, catalog_manifest_size, batches, accepted>>
  BY DEF Checkpoint
<1>2. PublishedState'
  BY <1>1, PublishKeeps
<1>3. WriterState
  BY <1>1 DEF SeriesInv
<1>4. PICK known : known = [i \in DOMAIN series |-> Checkpointed(series[i])]
  OBVIOUS
<1>5. series' = known
  BY Zenon, <1>4 DEF Checkpoint, Checkpointed, Clean
<1>6. Writes(known, batches, accepted, << >>, manifest_size + AddedSize,
             manifest_series_count + AddedCount, catalog_manifest_size)
  BY <1>3, <1>4, CheckpointWrites
<1>7. WriterState'
  BY <1>1, <1>5, <1>6 DEF Checkpoint, WriterState
<1> QED
  BY <1>1, <1>2, <1>7 DEF SeriesInv

LEMMA CheckpointFailsKeeps ==
    ASSUME SeriesInv, CheckpointFails
    PROVE  SeriesInv'
<1>1. open /\ ~poisoned /\ poisoned' = TRUE /\ UNCHANGED <<open, batches>>
  BY DEF CheckpointFails
<1>2. PublishedState'
  <2>1. CASE UNCHANGED <<manifest, published>>
    BY <1>1, <2>1 DEF SeriesInv, PublishedState
  <2>2. CASE Publish
    BY <1>1, <2>2, PublishKeeps
  <2> QED
    BY <2>1, <2>2 DEF CheckpointFails
<1> QED
  BY <1>1, <1>2 DEF SeriesInv

LEMMA ClosedKeeps ==
    ASSUME SeriesInv, Closed, PublishedState'
    PROVE  SeriesInv'
BY DEF SeriesInv, Closed

LEMMA SeriesStep == SeriesInv /\ [Next]_seriesVars => SeriesInv'
<1> SUFFICES ASSUME SeriesInv, [Next]_seriesVars PROVE SeriesInv'
  OBVIOUS
<1>1. CASE Open
  BY <1>1, OpenKeeps
<1>2. ASSUME NEW name \in Names, PrepareSeries(name) PROVE SeriesInv'
  BY <1>2, PrepareSeriesKeeps
<1>3. ASSUME NEW name \in Names, NEW batch \in Batches, AppendBatch(name, batch) PROVE SeriesInv'
  BY <1>3, AppendBatchKeeps
<1>4. ASSUME NEW name \in Names, NEW batch \in Batches, AppendBatchFails(name, batch) PROVE SeriesInv'
  BY <1>4, AppendBatchFailsKeeps
<1>5. CASE Checkpoint
  BY <1>5, CheckpointKeeps
<1>6. CASE CheckpointFails
  BY <1>6, CheckpointFailsKeeps
<1>7. CASE Close
  <2>1. open /\ ~poisoned /\ Publish /\ Closed /\ UNCHANGED batches
    BY <1>7 DEF Close, Closed
  <2> QED
    BY <2>1, PublishKeeps, ClosedKeeps
<1>8. CASE Abort
  <2>1. Closed /\ UNCHANGED <<manifest, published, batches>>
    BY <1>8 DEF Abort, Closed
  <2>2. PublishedState'
    BY <2>1 DEF SeriesInv, PublishedState
  <2> QED
    BY <2>1, <2>2, ClosedKeeps
<1>9. CASE UNCHANGED seriesVars
  BY <1>9 DEF seriesVars, writerVars, SeriesInv, PublishedState, WriterState
<1> QED
  BY <1>1, <1>2, <1>3, <1>4, <1>5, <1>6, <1>7, <1>8, <1>9 DEF Next


-----------------------------------------------------------------------------
(* What the invariant says.                                                *)

LEMMA BatchPointsAre == \A list : BatchPoints(list) = ListPoints(batches, list)
BY Zenon DEF BatchPoints, ListPoints, Points, PointsOf

(* The inductive invariant, of every specification constant: the published *)
(* manifest holds whole batches in order under distinct names and ids, and *)
(* a usable writer holds the accepted ones, lists its dirty series once    *)
(* each and knows the size of its next manifest.                           *)
THEOREM SeriesInvHolds == Spec => []SeriesInv
<1>1. Init => SeriesInv
  BY SeriesInitially
<1>2. SeriesInv /\ [Next]_seriesVars => SeriesInv'
  BY SeriesStep
<1> QED
  BY <1>1, <1>2, PTL DEF Spec

(* Pages and buffer of a usable writer together hold every accepted batch  *)
(* of a series, point by point and in order, whatever the page size and    *)
(* however appendBatch splits a batch over rounds, pages and checkpoints.  *)
THEOREM AcceptedBatchesAreKeptHolds == Spec => []AcceptedBatchesAreKept
<1>1. SeriesInv => AcceptedBatchesAreKept
  <2> SUFFICES ASSUME SeriesInv, open, ~poisoned, NEW name \in Names
               PROVE  BatchPoints(accepted[name]) =
                        IF Find(name) = {} THEN << >> ELSE SeriesPoints(series[Target(series, name)])
    BY DEF AcceptedBatchesAreKept
  <2>1. SeriesHold(series, batches, accepted)
    BY DEF SeriesInv, WriterState, Writes
  <2>2. BatchPoints(accepted[name]) = ListPoints(batches, accepted[name])
    BY BatchPointsAre
  <2>3. CASE Find(name) = {}
    <3>1. \A i \in DOMAIN series : series[i].name # name
      BY <2>3 DEF Find
    <3> QED
      BY <2>1, <2>2, <2>3, <3>1 DEF SeriesHold
  <2>4. CASE Find(name) # {}
    <3>1. \E i \in DOMAIN series : series[i].name = name
      BY <2>4 DEF Find
    <3>2. PICK i : i = Target(series, name)
      OBVIOUS
    <3>3. i \in DOMAIN series /\ series[i].name = name
      BY <3>1, <3>2 DEF Target
    <3>4. SeriesPoints(series[i]) = ListPoints(batches, accepted[name])
      BY <2>1, <3>3 DEF SeriesHold
    <3> QED
      BY <2>2, <2>4, <3>2, <3>4
  <2> QED
    BY <2>3, <2>4
<1> QED
  BY <1>1, SeriesInvHolds, PTL

(* A published series is a sequence of whole batches in strictly           *)
(* increasing order of time: a failed append, an aborted writer and a      *)
(* checkpoint that fails with or without its root in the file leave no     *)
(* part of a batch behind, in any number of sessions.                      *)
THEOREM PublishedIsWholeBatchesHolds == Spec => []PublishedIsWholeBatches
<1>1. SeriesInv => PublishedIsWholeBatches
  <2> SUFFICES ASSUME SeriesInv, NEW i \in DOMAIN manifest
               PROVE  /\ PagePoints(manifest[i].pages) = BatchPoints(published[manifest[i].name])
                      /\ Increasing(PagePoints(manifest[i].pages))
    BY Zenon DEF PublishedIsWholeBatches, Increasing
  <2>1. Rows(batches, published) /\ Entries(manifest) /\ EntriesHold(manifest, batches, published)
    BY DEF SeriesInv, PublishedState, Publishes
  <2>2. manifest[i] \in EntryRecord
    BY <2>1 DEF Entries
  <2>3. manifest[i].name \in Names
    BY <2>2 DEF EntryRecord
  <2>4. PagePoints(manifest[i].pages) = ListPoints(batches, published[manifest[i].name])
    BY <2>1 DEF EntriesHold
  <2>5. Increasing(ListPoints(batches, published[manifest[i].name]))
    BY <2>1, <2>3 DEF Rows
  <2>6. BatchPoints(published[manifest[i].name]) = ListPoints(batches, published[manifest[i].name])
    BY BatchPointsAre
  <2> QED
    BY <2>4, <2>5, <2>6
<1> QED
  BY <1>1, SeriesInvHolds, PTL

(* A published series keeps one name and one id, shared with no other, and *)
(* all its pages carry that id: createSeries never gives an id twice, also *)
(* when series that were never published have come and gone.               *)
THEOREM IdsIdentifySeriesHolds == Spec => []IdsIdentifySeries
<1>1. SeriesInv => IdsIdentifySeries
  <2> SUFFICES ASSUME SeriesInv PROVE IdsIdentifySeries
    OBVIOUS
  <2>1. Entries(manifest)
    BY DEF SeriesInv, PublishedState, Publishes
  <2>2. \A i, j \in DOMAIN manifest :
            i < j => manifest[i].id < manifest[j].id /\ manifest[i].name # manifest[j].name
    BY <2>1 DEF Entries, InOrder
  <2>3. \A i \in DOMAIN manifest : \A k \in DOMAIN manifest[i].pages :
            manifest[i].pages[k].series_id = manifest[i].id
    BY <2>1 DEF Entries, OwnPages
  <2> QED
    BY <2>2, <2>3 DEF IdsIdentifySeries
<1> QED
  BY <1>1, SeriesInvHolds, PTL

(* encodeKnownIterator refuses no manifest of a checkpoint: the running    *)
(* size and count the writer keeps are those of the manifest it builds,    *)
(* and createSeries has refused whatever would have made it too large.     *)
THEOREM ManifestIsNeverRefusedHolds == Spec => []ManifestIsNeverRefused
<1>1. SeriesInv => ManifestIsNeverRefused
  BY CheckpointIsAccepted DEF SeriesInv, ManifestIsNeverRefused
<1> QED
  BY <1>1, SeriesInvHolds, PTL

=============================================================================
