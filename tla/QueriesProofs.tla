--------------------------- MODULE QueriesProofs ---------------------------
(***************************************************************************)
(* A lookup on any series answers the stored point that its mode selects,  *)
(* and a page is lent exactly for the timestamps it covers, whatever the   *)
(* reader remembers of the queries, cursors and refreshes before, for      *)
(* every node capacity, every height and every number of pages that the    *)
(* height has room for.                                                    *)
(***************************************************************************)
EXTENDS Queries, SharedLemmas, FiniteSetTheorems, TLAPS

-----------------------------------------------------------------------------
(* Ends of consecutive parts of 1 .. m.                                    *)

Cuts(P, n, m) ==
    /\ n \in Nat /\ m \in Nat /\ P \in [0 .. n -> 0 .. m] /\ P[0] = 0 /\ P[n] = m
    /\ \A x \in 1 .. n : P[x - 1] < P[x]

LEMMA CutValues ==
    ASSUME NEW P, NEW n, NEW m, Cuts(P, n, m)
    PROVE  /\ \A x \in 0 .. n : P[x] \in 0 .. m /\ P[x] \in Nat
           /\ \A x \in 1 .. n : /\ x - 1 \in 0 .. n /\ x \in 0 .. n
                                /\ P[x - 1] \in Nat /\ P[x] \in Nat /\ P[x - 1] < P[x] /\ P[x] <= m
<1>1. n \in Nat /\ m \in Nat /\ P \in [0 .. n -> 0 .. m]
  BY DEF Cuts
<1>2. ASSUME NEW x \in 0 .. n PROVE P[x] \in 0 .. m /\ P[x] \in Nat
  BY <1>1
<1>3. ASSUME NEW x \in 1 .. n PROVE x - 1 \in 0 .. n /\ x \in 0 .. n
  BY <1>1
<1>4. \A x \in 1 .. n : P[x - 1] < P[x]
  BY DEF Cuts
<1> QED
  BY <1>1, <1>2, <1>3, <1>4

LEMMA CutsGrow ==
    ASSUME NEW P, NEW n, NEW m, Cuts(P, n, m), NEW i \in 0 .. n, NEW k \in 0 .. n, i < k
    PROVE  P[i] < P[k]
<1>1. n \in Nat
  BY DEF Cuts
<1>2. PICK d \in Nat : k = i + 1 + d
  BY <1>1
<1> DEFINE T == {j \in 0 .. d : P[i] < P[i + 1 + j]}
<1>3. 0 \in T
  <2>1. i + 1 \in 1 .. n /\ (i + 1) - 1 = i
    BY <1>1, <1>2
  <2>2. P[i] < P[i + 1]
    BY <2>1, CutValues
  <2> QED
    BY <2>2
<1>4. ASSUME NEW j \in 0 .. d, j # d, j \in T PROVE j + 1 \in T
  <2>1. PICK x \in 1 .. n : x = i + 1 + (j + 1) /\ x - 1 = i + 1 + j
    BY <1>1, <1>2, <1>4
  <2>2. P[x - 1] < P[x] /\ P[x - 1] \in Nat /\ P[x] \in Nat
    BY CutValues
  <2>3. P[i] \in Nat
    BY CutValues
  <2>4. P[i] < P[x - 1]
    BY <1>4, <2>1
  <2>5. P[i] < P[x]
    BY <2>2, <2>3, <2>4
  <2> QED
    BY <1>4, <2>1, <2>5
<1> HIDE DEF T
<1>5. \A j \in 0 .. d : j \in T
  BY <1>2, <1>3, <1>4, Induction
<1>6. d \in T
  BY <1>5
<1> QED
  BY <1>2, <1>6 DEF T

LEMMA CutsOrder ==
    ASSUME NEW P, NEW n, NEW m, Cuts(P, n, m), NEW i \in 0 .. n, NEW k \in 0 .. n
    PROVE  /\ i <= k => P[i] <= P[k]
           /\ P[i] <= P[k] => i <= k
           /\ P[i] < P[k] => i < k
<1>1. P[i] \in Nat /\ P[k] \in Nat
  BY CutValues
<1>2. i < k => P[i] < P[k]
  BY CutsGrow
<1>3. k < i => P[k] < P[i]
  BY CutsGrow
<1>4. i \in Int /\ k \in Int
  BY DEF Cuts
<1> QED
  BY <1>1, <1>2, <1>3, <1>4

(* The first part that reaches y.                                          *)
LEMMA CutAround ==
    ASSUME NEW P, NEW n, NEW m, Cuts(P, n, m), NEW y \in 1 .. m
    PROVE  \E x \in 1 .. n : P[x - 1] < y /\ y <= P[x]
<1>1. n \in Nat /\ m \in Nat /\ P[0] = 0 /\ P[n] = m
  BY DEF Cuts
<1> DEFINE T == {x \in 0 .. n : y <= P[x]}
<1>2. T \subseteq Nat /\ n \in T
  BY <1>1
<1>3. PICK x \in T : \A z \in T : x <= z
  BY <1>2, LeastNumber
<1>4. x # 0 /\ x \in 0 .. n
  BY <1>1, <1>3
<1>5. PICK w \in 0 .. n : w = x - 1 /\ w < x
  BY <1>1, <1>4
<1>6. ~(y <= P[w])
  BY <1>3, <1>5
<1>7. P[w] \in Nat
  BY CutValues
<1>8. P[w] < y
  BY <1>1, <1>6, <1>7
<1> QED
  BY <1>1, <1>3, <1>4, <1>5, <1>8

(* As many cut points as numbers that are true of.                         *)
LEMMA CutBelow ==
    ASSUME NEW P, NEW n, NEW m, Cuts(P, n, m), NEW b \in Nat
    PROVE  \E k \in 0 .. n : \A x \in 0 .. n : P[x] <= b <=> x <= k
<1>1. n \in Nat /\ P[0] = 0
  BY DEF Cuts
<1>2. \A x \in 0 .. n : P[x] \in Nat
  BY CutValues
<1> DEFINE T == {x \in 0 .. n : ~(P[x] <= b)}
<1>3. CASE T = {}
  <2>1. \A x \in 0 .. n : P[x] <= b /\ x <= n
    BY <1>1, <1>3
  <2> QED
    BY <1>1, <2>1
<1>4. CASE T # {}
  <2>0. T \subseteq Nat
    BY <1>1
  <2> HIDE DEF T
  <2>1. PICK y \in T : \A z \in T : y <= z
    BY <1>4, <2>0, LeastNumber
  <2> USE DEF T
  <2>2. y # 0 /\ y \in 0 .. n
    BY <1>1, <2>1
  <2>3. PICK k \in 0 .. n : k = y - 1
    BY <1>1, <2>2
  <2>4. ASSUME NEW x \in 0 .. n PROVE P[x] <= b <=> x <= k
    <3>1. CASE x <= k
      <4>1. ~(y <= x)
        BY <1>1, <2>2, <2>3, <3>1
      <4>2. x \notin T
        BY <2>1, <4>1
      <4> QED
        BY <3>1, <4>2
    <3>2. CASE ~(x <= k)
      <4>1. y <= x
        BY <1>1, <2>2, <2>3, <3>2
      <4>2. P[y] <= P[x] /\ ~(P[y] <= b)
        BY <2>1, <2>2, <4>1, CutsOrder
      <4>3. P[y] \in Nat /\ P[x] \in Nat
        BY <1>2, <2>2
      <4> QED
        BY <3>2, <4>2, <4>3
    <3> QED
      BY <3>1, <3>2
  <2> QED
    BY <2>4
<1> QED
  BY <1>3, <1>4

(* The groups of a level.                                                  *)
LEMMA GroupCuts ==
    ASSUME NEW m \in Nat, m >= 1, NEW n, n = (m + Capacity - 1) \div Capacity
    PROVE  /\ n \in Nat /\ n >= 1
           /\ \E P : /\ Cuts(P, n, m)
                     /\ \A x \in 1 .. n : /\ P[x - 1] = (x - 1) * Capacity
                                          /\ P[x] = Min({x * Capacity, m})
                                          /\ 2 * x <= P[x] + 1
<1>1. PICK B \in Nat : B = Capacity /\ B >= 2
  BY TraversalAssumption
<1>2. Cut(B, m, n)
  BY <1>1, CutInGroups
<1>3. n \in Nat /\ n >= 1
  BY <1>2 DEF Cut
<1>4. PICK P : CutAt(B, P, m, n)
  BY <1>1, <1>2, CutPoints
<1>5. Cuts(P, n, m)
  BY <1>3, <1>4 DEF Cuts, CutAt
<1>6. ASSUME NEW x \in 1 .. n
      PROVE  /\ P[x - 1] = (x - 1) * B /\ P[x] = Min({x * B, m}) /\ 2 * x <= P[x] + 1
  <2>1. P[x - 1] = (x - 1) * B /\ P[x] = Min({x * B, m}) /\ P[x - 1] < P[x]
    BY <1>4 DEF CutAt
  <2>2. PICK y, z \in Nat : y = P[x - 1] /\ z = P[x]
    BY <1>5, CutValues
  <2>3. PICK w \in Nat : w = x - 1
    BY <1>3
  <2>4. w * B >= 2 * w
    <3>1. PICK c \in Nat : B = 2 + c
      BY <1>1
    <3>2. w * (2 + c) = w * 2 + w * c /\ w * c \in Nat
      OBVIOUS
    <3> QED
      BY <3>1, <3>2
  <2>5. y >= 2 * w /\ y < z
    BY <2>1, <2>2, <2>3, <2>4
  <2> QED
    BY <2>1, <2>2, <2>3, <2>5
<1> QED
  BY <1>1, <1>3, <1>5, <1>6

-----------------------------------------------------------------------------
(* The pages of a series, and what a summary says of pages a + 1 .. b.     *)

Points == [timestamp : TimestampDomain, value : Int]

OrderedPage(page) ==
    /\ page \in Seq(Points) /\ page # << >>
    /\ \A i, k \in 1 .. Len(page) : i < k => page[i].timestamp < page[k].timestamp

OrderedPages(ps) ==
    /\ ps \in Seq(Seq(Points))
    /\ \A p \in 1 .. Len(ps) : OrderedPage(ps[p])
    /\ \A p, r \in 1 .. Len(ps) : p < r => Last(ps[p]).timestamp < ps[r][1].timestamp

(* C counts the points of the first pages.                                 *)
Tally(ps, C) ==
    /\ C \in [0 .. Len(ps) -> Nat] /\ C[0] = 0
    /\ \A p \in 1 .. Len(ps) : C[p] = C[p - 1] + Len(ps[p])

SummaryFields ==
    {"timestamp_min", "timestamp_max", "point_count", "value_min", "value_max", "value_sum",
     "value_first", "value_last"}

Spans(ps, C, s, a, b) ==
    /\ DOMAIN s = SummaryFields
    /\ s.timestamp_min = ps[a + 1][1].timestamp
    /\ s.timestamp_max = Last(ps[b]).timestamp
    /\ s.point_count = C[b] - C[a]

LEMMA Tallied ==
    ASSUME NEW ps \in Seq(Seq(Points))
    PROVE  \E C : Tally(ps, C)
<1>1. PICK m \in Nat : m = Len(ps)
  OBVIOUS
<1> DEFINE F == [p \in (1 .. m) \X Nat |-> p[2] + Len(ps[p[1]])]
<1>2. \A n \in 1 .. m : \A v \in Nat : F[<<n, v>>] = v + Len(ps[n]) /\ F[<<n, v>>] \in Nat
  <2>1. ASSUME NEW n \in 1 .. m PROVE Len(ps[n]) \in Nat
    BY <1>1
  <2> QED
    BY SMTT(30), <2>1
<1> HIDE DEF F
<1>3. PICK C \in [0 .. m -> Nat] : Iterates(C, 0, F, m)
  BY <1>2, Recursion
<1>4. C[0] = 0 /\ \A n \in 1 .. m : C[n] = F[<<n, C[n - 1]>>]
  BY <1>3 DEF Iterates
<1>5. ASSUME NEW n \in 1 .. m PROVE C[n] = C[n - 1] + Len(ps[n])
  <2>1. C[n - 1] \in Nat
    <3>1. n - 1 \in 0 .. m
      BY <1>1
    <3> QED
      BY <1>3, <3>1
  <2> QED
    BY <1>2, <1>4, <2>1
<1> QED
  BY <1>1, <1>3, <1>4, <1>5 DEF Tally

LEMMA TallyOf ==
    ASSUME NEW ps, Len(ps) \in Nat, NEW C, Tally(ps, C)
    PROVE  \A p \in 0 .. Len(ps) : C[p] \in Nat
<1> QED
  BY DEF Tally

LEMMA SummaryOfPage ==
    ASSUME NEW ps, OrderedPages(ps), NEW C, Tally(ps, C), NEW p \in 1 .. Len(ps)
    PROVE  Spans(ps, C, FromPage(ps[p]), p - 1, p)
<1>1. p \in Nat /\ (p - 1) + 1 = p /\ p - 1 \in 0 .. Len(ps) /\ p \in 0 .. Len(ps)
  BY DEF OrderedPages
<1>2. PICK page : page = ps[p]
  OBVIOUS
<1>3. PICK s : s = FromPage(page)
  OBVIOUS
<1>4. /\ DOMAIN s = SummaryFields
      /\ s.timestamp_min = page[1].timestamp
      /\ s.timestamp_max = Last(page).timestamp
      /\ s.point_count = Len(page)
  BY <1>3 DEF FromPage, SummaryFields
<1>5. C[p] = C[p - 1] + Len(page) /\ C[p] \in Nat /\ C[p - 1] \in Nat
  BY <1>1, <1>2 DEF Tally
<1>6. Len(page) \in Nat
  BY <1>2 DEF OrderedPages, OrderedPage
<1>7. Len(page) = C[p] - C[p - 1]
  BY <1>5, <1>6
<1> QED
  BY <1>1, <1>2, <1>3, <1>4, <1>7 DEF Spans

LEMMA SummaryExtended ==
    ASSUME NEW ps, NEW C, NEW a, NEW b, NEW c, C[a] \in Nat, C[b] \in Nat, C[c] \in Nat,
           NEW s, Spans(ps, C, s, a, b), NEW t, Spans(ps, C, t, b, c)
    PROVE  Spans(ps, C, ExtendSummary(s, t), a, c)
<1>1. PICK u : u = ExtendSummary(s, t)
  OBVIOUS
<1>2. DOMAIN s = SummaryFields
  BY DEF Spans
<1>3. /\ DOMAIN u = SummaryFields
      /\ u.timestamp_min = s.timestamp_min
      /\ u.timestamp_max = t.timestamp_max
      /\ u.point_count = s.point_count + t.point_count
  BY <1>1, <1>2 DEF ExtendSummary, SummaryFields
<1>4. s.point_count = C[b] - C[a] /\ t.point_count = C[c] - C[b]
  BY DEF Spans
<1>5. u.point_count = C[c] - C[a]
  BY <1>3, <1>4
<1> QED
  BY <1>1, <1>3, <1>5 DEF Spans

(* The summary of a node is of the pages of its entries.                   *)
LEMMA SummaryOfEntries ==
    ASSUME NEW ps, NEW C, NEW k \in Nat, k >= 1, NEW q, \A i \in 0 .. k : C[q[i]] \in Nat,
           NEW es, Len(es) = k,
           \A i \in 1 .. k : Spans(ps, C, es[i].summary, q[i - 1], q[i])
    PROVE  Spans(ps, C, Summarize(es), q[0], q[k])
<1>1. PICK m \in Nat : k = m + 1
  <2>1. k - 1 \in Nat /\ k = (k - 1) + 1
    OBVIOUS
  <2> QED
    BY <2>1
<1> DEFINE Upto(f, n) ==
              f = [j \in 1 .. n |-> IF j = 1 THEN es[1].summary
                                    ELSE ExtendSummary(f[j - 1], es[j].summary)]
           T == {n \in 0 .. m : \E f : Upto(f, n + 1)}
<1>2. 0 \in T
  <2>1. PICK f : f = [j \in 1 .. 1 |-> es[1].summary]
    OBVIOUS
  <2>2. f = [j \in 1 .. 0 + 1 |-> IF j = 1 THEN es[1].summary
                                    ELSE ExtendSummary(f[j - 1], es[j].summary)]
    BY <2>1
  <2> QED
    BY <2>2
<1>3. ASSUME NEW n \in 0 .. m, n # m, n \in T PROVE n + 1 \in T
  <2>1. PICK f : Upto(f, n + 1)
    BY <1>3
  <2>2. PICK x \in Nat : x = n + 1 /\ x >= 1
    BY <1>1, <1>3
  <2>3. PICK g : g = [j \in 1 .. x + 1 |-> IF j = x + 1 THEN ExtendSummary(f[x], es[x + 1].summary)
                                           ELSE f[j]]
    OBVIOUS
  <2>4. ASSUME NEW j \in 1 .. x
        PROVE  /\ g[j] = f[j]
               /\ f[j] = IF j = 1 THEN es[1].summary ELSE ExtendSummary(f[j - 1], es[j].summary)
    BY <2>1, <2>2, <2>3
  <2>5. ASSUME NEW j \in 1 .. x + 1
        PROVE  g[j] = IF j = 1 THEN es[1].summary ELSE ExtendSummary(g[j - 1], es[j].summary)
    <3>1. CASE j = x + 1
      <4>1. j # 1 /\ j - 1 = x /\ x \in 1 .. x
        BY <2>2, <3>1
      <4>2. g[x] = f[x]
        BY <2>4, <4>1
      <4> QED
        BY <2>3, <3>1, <4>1, <4>2
    <3>2. CASE j # x + 1 /\ j = 1
      BY <2>2, <2>4, <3>2
    <3>3. CASE j # x + 1 /\ j # 1
      <4>1. j \in 1 .. x /\ j - 1 \in 1 .. x
        BY <2>2, <3>3
      <4> QED
        BY <2>4, <3>3, <4>1
    <3> QED
      BY <3>1, <3>2, <3>3
  <2>6. g = [j \in 1 .. x + 1 |-> IF j = 1 THEN es[1].summary
                                  ELSE ExtendSummary(g[j - 1], es[j].summary)]
    <3>1. DOMAIN g = 1 .. x + 1 /\ g = [j \in DOMAIN g |-> g[j]]
      BY <2>3
    <3> QED
      BY <2>5, <3>1
  <2>7. Upto(g, (n + 1) + 1)
    BY <2>2, <2>6
  <2>8. n + 1 \in 0 .. m
    BY <1>1, <1>3
  <2> HIDE DEF Upto
  <2> QED
    BY <2>7, <2>8
<1>4. \A n \in 0 .. m : n \in T
  <2> HIDE DEF T
  <2> QED
    BY <1>2, <1>3, Induction
<1>5. \E f : Upto(f, k)
  <2>1. m \in T
    BY SMTT(30), <1>4
  <2> QED
    BY <1>1, <2>1
<1>6. PICK u : Upto(u, k) /\ Summarize(es) = u[k]
  <2>1. PICK u : u = CHOOSE f : Upto(f, k)
    OBVIOUS
  <2>2. Upto(u, k)
    BY <1>5, <2>1
  <2>3. Summarize(es) = u[k]
    BY <2>1 DEF Summarize
  <2> QED
    BY <2>2, <2>3
<1>7. \A j \in 1 .. k : u[j] = IF j = 1 THEN es[1].summary ELSE ExtendSummary(u[j - 1], es[j].summary)
  BY <1>6
<1> HIDE DEF Upto
<1> DEFINE W == {n \in 0 .. m : Spans(ps, C, u[n + 1], q[0], q[n + 1])}
<1>8. 0 \in W
  <2>1. 1 \in 1 .. k /\ 1 - 1 = 0 /\ 0 + 1 = 1
    BY <1>1
  <2>2. u[1] = es[1].summary /\ Spans(ps, C, es[1].summary, q[0], q[1])
    BY <1>7, <2>1
  <2> QED
    BY <1>1, <2>1, <2>2
<1>9. ASSUME NEW n \in 0 .. m, n # m, n \in W PROVE n + 1 \in W
  <2>1. PICK j \in 1 .. k : j = n + 2 /\ j - 1 = n + 1 /\ j = (n + 1) + 1 /\ j # 1
    BY <1>1, <1>9
  <2>2. u[j] = ExtendSummary(u[j - 1], es[j].summary)
    BY <1>7, <2>1
  <2>3. Spans(ps, C, u[j - 1], q[0], q[j - 1])
    BY <1>9, <2>1
  <2>4. Spans(ps, C, es[j].summary, q[j - 1], q[j])
    OBVIOUS
  <2>5. C[q[0]] \in Nat /\ C[q[j - 1]] \in Nat /\ C[q[j]] \in Nat
    BY <2>1
  <2>6. Spans(ps, C, u[j], q[0], q[j])
    BY <2>2, <2>3, <2>4, <2>5, SummaryExtended
  <2> QED
    BY <1>9, <2>1, <2>6
<1> HIDE DEF W
<1>10. m \in W
  BY <1>1, <1>8, <1>9, Induction
<1> QED
  BY <1>1, <1>6, <1>10 DEF W

-----------------------------------------------------------------------------
(* The tree of the pages, level by level.                                  *)

PageEntries(ps) == [i \in DOMAIN ps |-> Entry(FromPage(ps[i]), ps[i])]

(* A node over entries a + 1 .. b of the level below.                      *)
NodeOver(node, level, es, a, b) ==
    /\ node.level = level /\ Len(node.entries) = b - a /\ DOMAIN node.entries = 1 .. b - a
    /\ \A i \in 1 .. b - a : node.entries[i] = es[a + i]

(* t.E[l] are the t.n[l] entries of level l; they cover the pages between  *)
(* the cut points of t.Q[l].                                               *)
Level(ps, t, l) ==
    /\ t.n[l] \in Nat /\ t.n[l] >= 1
    /\ Len(t.E[l]) = t.n[l] /\ DOMAIN t.E[l] = 1 .. t.n[l]
    /\ Cuts(t.Q[l], t.n[l], Len(ps))
    /\ \A x \in 1 .. t.n[l] : Spans(ps, t.C, t.E[l][x].summary, t.Q[l][x - 1], t.Q[l][x])

(* Those above the pages' are of nodes, over the entries of the level      *)
(* below between the cut points of t.P[l].                                 *)
Storey(t, l) ==
    /\ Cuts(t.P[l], t.n[l], t.n[l - 1])
    /\ \A x \in 0 .. t.n[l] : t.Q[l][x] = t.Q[l - 1][t.P[l][x]]
    /\ \A x \in 1 .. t.n[l] :
        /\ 2 * x <= t.P[l][x] + 1
        /\ NodeOver(t.E[l][x].child, l - 1, t.E[l - 1], t.P[l][x - 1], t.P[l][x])
        /\ t.E[l][x].child.summary = t.E[l][x].summary

Pile(ps, t) ==
    /\ Tally(ps, t.C) /\ t.h \in 0 .. HeightMax
    /\ t.E[0] = PageEntries(ps) /\ t.n[0] = Len(ps) /\ \A x \in 0 .. Len(ps) : t.Q[0][x] = x
    /\ \A l \in 0 .. t.h : Level(ps, t, l)
    /\ \A l \in 1 .. t.h : Storey(t, l)

LEMMA PileStarts ==
    ASSUME NEW ps, OrderedPages(ps), ps # << >>
    PROVE  \E t : Pile(ps, t) /\ t.h = 0
<1>1. PICK m \in Nat : m = Len(ps) /\ m >= 1
  BY DEF OrderedPages
<1>2. PICK C : Tally(ps, C)
  BY Tallied DEF OrderedPages
<1>3. PICK t : t = [h |-> 0, C |-> C, E |-> [l \in 0 .. 0 |-> PageEntries(ps)],
                    n |-> [l \in 0 .. 0 |-> m], Q |-> [l \in 0 .. 0 |-> [x \in 0 .. m |-> x]],
                    P |-> << >>]
  OBVIOUS
<1>4. /\ t.h = 0 /\ t.C = C /\ t.E[0] = PageEntries(ps) /\ t.n[0] = m
      /\ t.Q[0] = [x \in 0 .. m |-> x]
  BY <1>3
<1>5. DOMAIN PageEntries(ps) = 1 .. m /\ Len(PageEntries(ps)) = m
  <2>1. DOMAIN ps = 1 .. m
    BY <1>1 DEF OrderedPages
  <2> QED
    BY <1>1, <2>1 DEF PageEntries
<1>6. Cuts(t.Q[0], m, m)
  BY <1>1, <1>4 DEF Cuts
<1>7. ASSUME NEW x \in 1 .. m
      PROVE  Spans(ps, C, t.E[0][x].summary, t.Q[0][x - 1], t.Q[0][x])
  <2>1. t.Q[0][x - 1] = x - 1 /\ t.Q[0][x] = x
    BY <1>1, <1>4
  <2>2. DOMAIN ps = 1 .. m
    BY <1>1 DEF OrderedPages
  <2>3. t.E[0][x].summary = FromPage(ps[x])
    BY <1>4, <2>2 DEF PageEntries, Entry
  <2> QED
    BY <1>1, <1>2, <2>1, <2>3, SummaryOfPage
<1>8. Level(ps, t, 0)
  BY <1>1, <1>4, <1>5, <1>6, <1>7 DEF Level
<1>9. 0 \in 0 .. HeightMax
  BY TraversalAssumption
<1>10. \A l \in 0 .. t.h : Level(ps, t, l)
  BY <1>4, <1>8
<1>11. \A x \in 0 .. Len(ps) : t.Q[0][x] = x
  BY <1>1, <1>4
<1> QED
  BY <1>1, <1>2, <1>4, <1>9, <1>10, <1>11 DEF Pile

(* The nodes over a level of n entries es, cut at q.                       *)
Floor(ps, C, n, q, es) ==
    /\ n \in Nat /\ n >= 1 /\ Len(es) = n /\ DOMAIN es = 1 .. n
    /\ Cuts(q, n, Len(ps)) /\ \A x \in 0 .. Len(ps) : C[x] \in Nat
    /\ \A x \in 1 .. n : Spans(ps, C, es[x].summary, q[x - 1], q[x])

Roof(ps, C, q, es, level, n, P, m, nodes) ==
    /\ Cuts(P, m, n)
    /\ \A x \in 1 .. m :
        /\ 2 * x <= P[x] + 1
        /\ NodeOver(nodes[x], level, es, P[x - 1], P[x])
        /\ Spans(ps, C, nodes[x].summary, q[P[x - 1]], q[P[x]])

LEMMA NodesOverLevel ==
    ASSUME NEW ps, NEW C, NEW n, NEW q, NEW es, Floor(ps, C, n, q, es),
           NEW level, NEW nodes, nodes = NodesOf(level, es),
           NEW m, m = (n + Capacity - 1) \div Capacity
    PROVE  /\ m \in Nat /\ m >= 1 /\ Len(nodes) = m /\ DOMAIN nodes = 1 .. m
           /\ \E P : Roof(ps, C, q, es, level, n, P, m, nodes)
<1>0. /\ n \in Nat /\ n >= 1 /\ Len(es) = n /\ DOMAIN es = 1 .. n
      /\ Cuts(q, n, Len(ps)) /\ \A x \in 0 .. Len(ps) : C[x] \in Nat
      /\ \A x \in 1 .. n : Spans(ps, C, es[x].summary, q[x - 1], q[x])
  BY DEF Floor
<1>1. m \in Nat /\ m >= 1
  BY <1>0, GroupCuts
<1>2. PICK P : /\ Cuts(P, m, n)
               /\ \A x \in 1 .. m : /\ P[x - 1] = (x - 1) * Capacity
                                    /\ P[x] = Min({x * Capacity, n})
                                    /\ 2 * x <= P[x] + 1
  BY ZenonT(30), <1>0, GroupCuts
<1>3. nodes = [i \in 1 .. m |-> Node(level, SubSeq(es, (i - 1) * Capacity + 1,
                                                    Min({i * Capacity, n})))]
  BY <1>0 DEF NodesOf
<1>4. DOMAIN nodes = 1 .. m /\ Len(nodes) = m
  BY <1>1, <1>3
<1>5. ASSUME NEW x \in 1 .. m
      PROVE  /\ NodeOver(nodes[x], level, es, P[x - 1], P[x])
             /\ Spans(ps, C, nodes[x].summary, q[P[x - 1]], q[P[x]])
  <2>1. PICK a, b \in Nat : a = P[x - 1] /\ b = P[x] /\ a < b /\ b <= n
    BY <1>0, <1>2, CutValues
  <2>2. PICK part : part = SubSeq(es, a + 1, b)
    OBVIOUS
  <2>3. nodes[x] = Node(level, part)
    BY <1>2, <1>3, <2>1, <2>2
  <2>4. PICK k \in Nat : k = b - a /\ k >= 1
    BY <2>1
  <2>5. Len(part) = k /\ DOMAIN part = 1 .. k /\ \A i \in 1 .. k : part[i] = es[a + i]
    <3>1. PICK S : S = {es[i] : i \in a + 1 .. b}
      OBVIOUS
    <3>2. \A i \in a + 1 .. b : es[i] \in S
      BY <3>1
    <3>3. PICK lo \in Int : lo = a + 1
      OBVIOUS
    <3>4. /\ part \in Seq(S)
          /\ Len(part) = IF lo <= b THEN b - lo + 1 ELSE 0
          /\ \A i \in 1 .. b - lo + 1 : part[i] = es[lo + i - 1]
      <4>1. part = SubSeq(es, lo, b) /\ b \in Int /\ \A i \in lo .. b : es[i] \in S
        BY <2>2, <3>2, <3>3
      <4> QED
        BY <4>1, SubSeqProperties
    <3>5. Len(part) = k
      <4>1. lo <= b /\ b - lo + 1 = k
        BY <2>4, <3>3
      <4> QED
        BY <3>4, <4>1
    <3>6. DOMAIN part = 1 .. k
      BY <3>4, <3>5
    <3>7. ASSUME NEW i \in 1 .. k PROVE part[i] = es[a + i]
      <4>1. i \in 1 .. b - lo + 1 /\ lo + i - 1 = a + i
        BY <2>4, <3>3
      <4> QED
        BY <3>4, <4>1
    <3> QED
      BY <3>5, <3>6, <3>7
  <2>6. NodeOver(nodes[x], level, es, a, b)
    BY <2>3, <2>4, <2>5 DEF Node, NodeOver
  <2>7. nodes[x].summary = Summarize(part)
    BY <2>3 DEF Node
  <2>8. PICK r : r = [i \in 0 .. k |-> q[a + i]]
    OBVIOUS
  <2>9. ASSUME NEW i \in 0 .. k PROVE r[i] = q[a + i] /\ C[r[i]] \in Nat
    <3>0. i \in Nat /\ i <= b - a /\ b <= n
      BY <2>1, <2>4
    <3>1. a + i \in 0 .. n
      BY <1>0, <3>0
    <3>2. q[a + i] \in 0 .. Len(ps)
      BY <1>0, <3>1, CutValues
    <3> QED
      BY <1>0, <2>8, <3>2
  <2>10. ASSUME NEW i \in 1 .. k PROVE Spans(ps, C, part[i].summary, r[i - 1], r[i])
    <3>0. i \in Nat /\ 1 <= i /\ i <= b - a /\ b <= n /\ k = b - a
      BY <2>1, <2>4
    <3>1. a + i \in 1 .. n /\ i - 1 \in 0 .. k /\ i \in 0 .. k /\ a + (i - 1) = (a + i) - 1
      BY <1>0, <3>0
    <3>2. r[i - 1] = q[(a + i) - 1] /\ r[i] = q[a + i]
      BY <2>9, <3>1
    <3> QED
      BY <1>0, <2>5, <3>1, <3>2
  <2>11. Spans(ps, C, Summarize(part), r[0], r[k])
    BY <2>4, <2>5, <2>9, <2>10, SummaryOfEntries
  <2>12. r[0] = q[a] /\ r[k] = q[b]
    <3>1. 0 \in 0 .. k /\ k \in 0 .. k /\ a + 0 = a /\ a + k = b
      BY <2>4
    <3> QED
      BY <2>9, <3>1
  <2> QED
    BY <2>1, <2>6, <2>7, <2>11, <2>12
<1> QED
  BY <1>1, <1>2, <1>4, <1>5 DEF Roof

(* The room in a tree of each height.                                      *)
LEMMA RoomGrows ==
    /\ Room \in [0 .. HeightMax -> Nat \ {0}] /\ Room[0] = 1
    /\ \A l \in 1 .. HeightMax : Room[l] = Capacity * Room[l - 1]
<1>1. PICK H \in Nat : H = HeightMax
  BY TraversalAssumption
<1>2. PICK B \in Nat : B = Capacity /\ B >= 2
  BY TraversalAssumption
<1> DEFINE F == [p \in (1 .. H) \X (Nat \ {0}) |-> B * p[2]]
<1>3. ASSUME NEW n \in 1 .. H, NEW v \in Nat \ {0}
      PROVE B * v \in Nat \ {0} /\ F[<<n, v>>] = B * v
  <2>1. B * v \in Nat /\ B * v # 0
    BY <1>2
  <2> QED
    BY <2>1
<1> HIDE DEF F
<1>4. PICK f \in [0 .. H -> Nat \ {0}] : Iterates(f, 1, F, H)
  <2>1. \A n \in 1 .. H : \A v \in Nat \ {0} : F[<<n, v>>] \in Nat \ {0}
    BY <1>3
  <2>2. 1 \in Nat \ {0}
    OBVIOUS
  <2> QED
    BY <2>1, <2>2, Recursion
<1> DEFINE Is(h) == h = [height \in 0 .. HeightMax |->
                            IF height = 0 THEN 1 ELSE Capacity * h[height - 1]]
<1>5. Is(f)
  <2>1. ASSUME NEW n \in 0 .. H PROVE f[n] = IF n = 0 THEN 1 ELSE Capacity * f[n - 1]
    <3>1. CASE n = 0
      BY <1>4, <3>1 DEF Iterates
    <3>2. CASE n # 0
      <4>1. n \in 1 .. H /\ n - 1 \in 0 .. H
        BY <3>2
      <4>2. f[n] = F[<<n, f[n - 1]>>] /\ f[n - 1] \in Nat \ {0}
        BY <1>4, <4>1 DEF Iterates
      <4> QED
        BY <1>2, <1>3, <3>2, <4>1, <4>2
    <3> QED
      BY <3>1, <3>2
  <2> QED
    BY <1>1, <2>1
<1>6. PICK g : g = (CHOOSE h : Is(h)) /\ Is(g)
  BY ZenonT(60), <1>5
<1>7. Room = g
  BY <1>6 DEF Room
<1>8. /\ g = [n \in 0 .. H |-> g[n]]
      /\ \A n \in 0 .. H : g[n] = IF n = 0 THEN 1 ELSE Capacity * g[n - 1]
  BY <1>1, <1>6
<1> HIDE DEF Is
<1> DEFINE T == {n \in 0 .. H : g[n] \in Nat \ {0}}
<1>9. 0 \in T
  <2>1. 0 \in 0 .. H
    OBVIOUS
  <2>2. g[0] = 1
    BY <1>8, <2>1
  <2> QED
    BY <2>1, <2>2
<1>10. ASSUME NEW n \in 0 .. H, n # H, n \in T PROVE n + 1 \in T
  <2>1. PICK k \in 1 .. H : k = n + 1 /\ k - 1 = n
    BY <1>10
  <2>3. k \in 0 .. H /\ k # 0
    OBVIOUS
  <2>2. g[k] = B * g[n]
    BY <1>2, <1>8, <2>1, <2>3
  <2>4. PICK v \in Nat \ {0} : v = g[n]
    BY <1>10
  <2>5. g[k] \in Nat \ {0}
    BY <1>3, <2>2, <2>4
  <2> QED
    BY <2>1, <2>3, <2>5
<1> HIDE DEF T
<1>11. \A n \in 0 .. H : n \in T
  BY <1>9, <1>10, Induction
<1>12. g \in [0 .. H -> Nat \ {0}]
  BY <1>8, <1>11 DEF T
<1>13. 0 \in 0 .. H /\ \A n \in 1 .. H : n \in 0 .. H /\ n # 0
  OBVIOUS
<1> QED
  BY <1>1, <1>7, <1>8, <1>12, <1>13

LEMMA StoreyAdded ==
    ASSUME NEW ps, OrderedPages(ps), NEW t, Pile(ps, t), t.h < HeightMax,
           NEW nodes, nodes = NodesOf(t.h, t.E[t.h])
    PROVE  \E u : /\ Pile(ps, u) /\ u.h = t.h + 1 /\ u.E[u.h] = EntriesOf(nodes)
                  /\ u.n[u.h] = Len(nodes)
                  /\ Len(nodes) = (t.n[t.h] + Capacity - 1) \div Capacity
<1>1. PICK h \in Nat, k \in Nat : h = t.h /\ k = h + 1 /\ k \in 0 .. HeightMax
  BY TraversalAssumption DEF Pile
<1>2. PICK n, q, es, C : n = t.n[h] /\ q = t.Q[h] /\ es = t.E[h] /\ C = t.C
  OBVIOUS
<1>3. Level(ps, t, h) /\ Tally(ps, t.C)
  BY <1>1 DEF Pile
<1>4. /\ n \in Nat /\ n >= 1 /\ Len(es) = n /\ DOMAIN es = 1 .. n /\ Cuts(q, n, Len(ps))
      /\ \A x \in 1 .. n : Spans(ps, C, es[x].summary, q[x - 1], q[x])
  BY <1>2, <1>3 DEF Level
<1>5. \A x \in 0 .. Len(ps) : C[x] \in Nat
  BY <1>2, <1>3 DEF Tally
<1>6. PICK m : m = (n + Capacity - 1) \div Capacity
  OBVIOUS
<1>7. nodes = NodesOf(h, es)
  BY <1>1, <1>2
<1>8. Floor(ps, C, n, q, es)
  BY <1>2, <1>4, <1>5 DEF Floor
<1>22. m \in Nat /\ m >= 1 /\ Len(nodes) = m /\ DOMAIN nodes = 1 .. m
  BY <1>6, <1>7, <1>8, NodesOverLevel
<1>23. PICK P : Roof(ps, C, q, es, h, n, P, m, nodes)
  BY <1>6, <1>7, <1>8, NodesOverLevel
<1>9. /\ Cuts(P, m, n)
      /\ \A x \in 1 .. m :
             /\ 2 * x <= P[x] + 1
             /\ NodeOver(nodes[x], h, es, P[x - 1], P[x])
             /\ Spans(ps, C, nodes[x].summary, q[P[x - 1]], q[P[x]])
  BY <1>23 DEF Roof
<1>10. PICK r : r = [x \in 0 .. m |-> q[P[x]]]
  OBVIOUS
<1>11. Cuts(r, m, Len(ps))
  <2>1. P \in [0 .. m -> 0 .. n] /\ P[0] = 0 /\ P[m] = n
    BY <1>9 DEF Cuts
  <2>2. q \in [0 .. n -> 0 .. Len(ps)] /\ q[0] = 0 /\ q[n] = Len(ps) /\ Len(ps) \in Nat
    BY <1>4 DEF Cuts
  <2>3. r \in [0 .. m -> 0 .. Len(ps)] /\ r[0] = 0 /\ r[m] = Len(ps)
    BY <1>22, <1>10, <2>1, <2>2
  <2>4. ASSUME NEW x \in 1 .. m PROVE r[x - 1] < r[x]
    <3>1. PICK y \in 0 .. m : y = x - 1
      BY <1>22
    <3>2. P[y] < P[x] /\ P[y] \in 0 .. n /\ P[x] \in 0 .. n
      BY <1>9, <2>1, <3>1, CutValues
    <3>3. q[P[y]] < q[P[x]]
      BY <1>4, <3>2, CutsGrow
    <3> QED
      BY <1>10, <3>1, <3>3
  <2> QED
    BY <1>22, <2>2, <2>3, <2>4 DEF Cuts
<1>12. PICK u : u = [h |-> k, C |-> t.C,
                     E |-> [l \in 0 .. k |-> IF l = k THEN EntriesOf(nodes) ELSE t.E[l]],
                     n |-> [l \in 0 .. k |-> IF l = k THEN m ELSE t.n[l]],
                     Q |-> [l \in 0 .. k |-> IF l = k THEN r ELSE t.Q[l]],
                     P |-> [l \in 0 .. k |-> IF l = k THEN P ELSE t.P[l]]]
  OBVIOUS
<1>13. /\ u.h = k /\ u.C = t.C
       /\ u.E[k] = EntriesOf(nodes) /\ u.n[k] = m /\ u.Q[k] = r /\ u.P[k] = P
  BY <1>12
<1>14. ASSUME NEW l \in 0 .. h
       PROVE  u.E[l] = t.E[l] /\ u.n[l] = t.n[l] /\ u.Q[l] = t.Q[l] /\ u.P[l] = t.P[l]
  <2>1. l \in 0 .. k /\ l # k
    BY <1>1
  <2> QED
    BY <1>12, <2>1
<1>15. /\ Len(u.E[k]) = m /\ DOMAIN u.E[k] = 1 .. m
       /\ \A x \in 1 .. m : u.E[k][x].summary = nodes[x].summary /\ u.E[k][x].child = nodes[x]
  BY <1>22, <1>13 DEF EntriesOf, Entry
<1>16. Level(ps, u, k)
  <2>1. ASSUME NEW x \in 1 .. m PROVE Spans(ps, u.C, u.E[k][x].summary, r[x - 1], r[x])
    <3>1. x - 1 \in 0 .. m /\ x \in 0 .. m
      BY <1>22
    <3>2. r[x - 1] = q[P[x - 1]] /\ r[x] = q[P[x]]
      BY <1>10, <3>1
    <3> QED
      BY <1>2, <1>9, <1>13, <1>15, <3>2
  <2> QED
    BY <1>22, <1>11, <1>13, <1>15, <2>1 DEF Level
<1>17. ASSUME NEW l \in 0 .. k PROVE Level(ps, u, l)
  <2>1. CASE l = k
    BY <1>16, <2>1
  <2>2. CASE l # k
    <3>1. l \in 0 .. h
      BY <1>1, <2>2
    <3>2. Level(ps, t, l)
      BY <1>1, <3>1 DEF Pile
    <3> QED
      BY <1>13, <1>14, <3>1, <3>2 DEF Level
  <2> QED
    BY <2>1, <2>2
<1>18. Storey(u, k)
  <2>1. k - 1 = h /\ h \in 0 .. h
    BY <1>1
  <2>2. u.E[h] = es /\ u.n[h] = n /\ u.Q[h] = q
    BY <1>2, <1>14, <2>1
  <2>3. \A x \in 0 .. m : u.Q[k][x] = q[P[x]]
    BY <1>10, <1>13
  <2>4. ASSUME NEW x \in 1 .. m
        PROVE  /\ 2 * x <= P[x] + 1
               /\ NodeOver(u.E[k][x].child, h, es, P[x - 1], P[x])
               /\ u.E[k][x].child.summary = u.E[k][x].summary
    BY <1>9, <1>15
  <2> QED
    BY <1>9, <1>13, <2>1, <2>2, <2>3, <2>4 DEF Storey
<1>19. ASSUME NEW l \in 1 .. k PROVE Storey(u, l)
  <2>1. CASE l = k
    BY <1>18, <2>1
  <2>2. CASE l # k
    <3>1. l \in 1 .. h /\ l \in 0 .. h /\ l - 1 \in 0 .. h
      BY <1>1, <2>2
    <3>2. Storey(t, l)
      BY <1>1, <3>1 DEF Pile
    <3> QED
      BY <1>14, <3>1, <3>2 DEF Storey
  <2> QED
    BY <2>1, <2>2
<1>20. u.E[0] = PageEntries(ps) /\ u.n[0] = Len(ps) /\ \A x \in 0 .. Len(ps) : u.Q[0][x] = x
  <2>1. 0 \in 0 .. h
    BY <1>1
  <2> QED
    BY <1>14, <2>1 DEF Pile
<1>21. Pile(ps, u)
  BY <1>1, <1>3, <1>13, <1>17, <1>19, <1>20 DEF Pile
<1> QED
  BY <1>1, <1>2, <1>6, <1>22, <1>13, <1>21

(* The loop of SeriesRoot.                                                 *)
Builds(f, ps, k) ==
    f = [level \in 0 .. k |->
            IF level = 0 THEN NodesOf(0, PageEntries(ps))
            ELSE IF Len(f[level - 1]) = 1 THEN f[level - 1]
            ELSE NodesOf(level, EntriesOf(f[level - 1]))]

LEMMA Built ==
    ASSUME NEW ps, NEW m \in Nat
    PROVE  \E f : Builds(f, ps, m)
<1> DEFINE T == {k \in 0 .. m : \E f : Builds(f, ps, k)}
<1>1. 0 \in T
  <2>1. PICK f : f = [level \in 0 .. 0 |-> NodesOf(0, PageEntries(ps))]
    OBVIOUS
  <2>2. Builds(f, ps, 0)
    BY <2>1 DEF Builds
  <2> QED
    BY <2>2
<1>2. ASSUME NEW n \in 0 .. m, n # m, n \in T PROVE n + 1 \in T
  <2>1. PICK f : Builds(f, ps, n)
    BY <1>2
  <2>2. PICK k \in Nat : k = n + 1 /\ k \in 0 .. m
    BY <1>2
  <2>3. PICK v : v = IF Len(f[n]) = 1 THEN f[n] ELSE NodesOf(k, EntriesOf(f[n]))
    OBVIOUS
  <2>4. PICK g : g = [level \in 0 .. k |-> IF level = k THEN v ELSE f[level]]
    OBVIOUS
  <2>5. ASSUME NEW level \in 0 .. n
        PROVE  /\ g[level] = f[level] /\ level \in 0 .. k
               /\ f[level] = IF level = 0 THEN NodesOf(0, PageEntries(ps))
                             ELSE IF Len(f[level - 1]) = 1 THEN f[level - 1]
                             ELSE NodesOf(level, EntriesOf(f[level - 1]))
    BY <2>1, <2>2, <2>4 DEF Builds
  <2>6. ASSUME NEW level \in 0 .. k
        PROVE  g[level] = IF level = 0 THEN NodesOf(0, PageEntries(ps))
                          ELSE IF Len(g[level - 1]) = 1 THEN g[level - 1]
                          ELSE NodesOf(level, EntriesOf(g[level - 1]))
    <3>1. CASE level = k
      <4>1. level # 0 /\ level - 1 = n /\ n \in 0 .. n
        BY <2>2, <3>1
      <4>2. g[n] = f[n] /\ g[level] = v
        BY <2>4, <2>5, <3>1, <4>1
      <4> QED
        BY <2>3, <3>1, <4>1, <4>2
    <3>2. CASE level # k /\ level = 0
      <4>1. 0 \in 0 .. n
        OBVIOUS
      <4> QED
        BY <2>5, <3>2, <4>1
    <3>3. CASE level # k /\ level # 0
      <4>1. level \in 0 .. n /\ level - 1 \in 0 .. n
        BY <2>2, <3>3
      <4>2. g[level] = f[level] /\ g[level - 1] = f[level - 1]
        BY <2>5, <4>1
      <4> QED
        BY <2>5, <3>3, <4>1, <4>2
    <3> QED
      BY <3>1, <3>2, <3>3
  <2>7. g = [level \in 0 .. k |-> g[level]]
    BY <2>4
  <2>8. Builds(g, ps, k)
    BY <2>6, <2>7 DEF Builds
  <2> QED
    BY <2>2, <2>8
<1> HIDE DEF T
<1>3. \A k \in 0 .. m : k \in T
  BY <1>1, <1>2, Induction
<1> QED
  BY <1>3 DEF T

(* What the loop holds after level k: the top of a pile that still fits.   *)
Rises(ps, f, k, u) ==
    /\ Pile(ps, u) /\ u.h >= 1
    /\ u.E[u.h] = EntriesOf(f[k]) /\ u.n[u.h] = Len(f[k])
    /\ u.h = k + 1 \/ u.n[u.h] = 1
    /\ u.n[u.h] <= Room[HeightMax - u.h]

LEMMA LevelFits ==
    ASSUME NEW h \in Nat, h < HeightMax, NEW n \in Nat, n >= 1, n <= Room[HeightMax - h]
    PROVE  (n + Capacity - 1) \div Capacity <= Room[HeightMax - (h + 1)]
<1>1. PICK l \in 1 .. HeightMax : l = HeightMax - h /\ l - 1 = HeightMax - (h + 1)
  BY TraversalAssumption
<1>2. PICK B \in Nat : B = Capacity /\ B >= 1
  BY TraversalAssumption
<1>10. PICK r \in Nat : r = Room[l - 1] /\ Room[l] = B * r
  <2>1. l - 1 \in 0 .. HeightMax
    BY <1>1, TraversalAssumption
  <2>2. Room[l - 1] \in Nat
    BY <2>1, RoomGrows
  <2> QED
    BY <1>2, <2>2, RoomGrows
<1>3. PICK m : m = (n + B - 1) \div B
  OBVIOUS
<1>4. Cut(B, n, m)
  BY <1>2, <1>3, CutInGroups
<1>5. m \in Nat /\ m >= 1 /\ (m - 1) * B < n
  BY <1>4 DEF Cut
<1>6. n <= B * r
  BY <1>1, <1>10
<1>7. SUFFICES ASSUME m > r PROVE FALSE
  BY <1>1, <1>2, <1>3, <1>5, <1>10
<1>8. PICK d \in Nat : m - 1 = r + d
  BY <1>5, <1>7
<1>9. (r + d) * B = B * r + d * B /\ d * B \in Nat /\ B * r \in Nat
  BY <1>2
<1> QED
  BY <1>5, <1>6, <1>8, <1>9

LEMMA LoopRises ==
    ASSUME NEW ps, OrderedPages(ps), ps # << >>, Len(ps) <= Room[HeightMax],
           NEW m \in Nat, m + 1 = HeightMax, NEW f, Builds(f, ps, m)
    PROVE  \A k \in 0 .. m : \E u : Rises(ps, f, k, u)
<1> DEFINE T == {k \in 0 .. m : \E u : Rises(ps, f, k, u)}
<1>1. \A k \in 0 .. m : f[k] = IF k = 0 THEN NodesOf(0, PageEntries(ps))
                               ELSE IF Len(f[k - 1]) = 1 THEN f[k - 1]
                               ELSE NodesOf(k, EntriesOf(f[k - 1]))
  BY DEF Builds
<1>2. 0 \in T
  <2>1. PICK t : Pile(ps, t) /\ t.h = 0
    BY PileStarts
  <2>2. t.E[0] = PageEntries(ps) /\ t.n[0] = Len(ps)
    BY <2>1 DEF Pile
  <2>3. f[0] = NodesOf(t.h, t.E[t.h]) /\ t.h < HeightMax
    <3>1. 0 \in 0 .. m
      OBVIOUS
    <3> QED
      BY <1>1, <2>1, <2>2, <3>1, TraversalAssumption
  <2>4. PICK u : /\ Pile(ps, u) /\ u.h = t.h + 1 /\ u.E[u.h] = EntriesOf(f[0])
                 /\ u.n[u.h] = Len(f[0])
                 /\ Len(f[0]) = (t.n[t.h] + Capacity - 1) \div Capacity
    BY <2>1, <2>3, StoreyAdded
  <2>5. Len(ps) \in Nat /\ Len(ps) >= 1
    BY DEF OrderedPages
  <2>6. Len(f[0]) <= Room[HeightMax - (0 + 1)]
    <3>1. HeightMax - 0 = HeightMax /\ 0 < HeightMax
      BY TraversalAssumption
    <3>2. PICK n \in Nat : n = Len(ps) /\ n >= 1 /\ n <= Room[HeightMax - 0]
      BY <2>5, <3>1
    <3>3. (n + Capacity - 1) \div Capacity <= Room[HeightMax - (0 + 1)]
      BY <3>1, <3>2, LevelFits
    <3> QED
      BY <2>1, <2>2, <2>4, <3>2, <3>3
  <2>7. Rises(ps, f, 0, u)
    BY <2>1, <2>4, <2>6 DEF Rises
  <2> QED
    BY <2>7
<1>3. ASSUME NEW n \in 0 .. m, n # m, n \in T PROVE n + 1 \in T
  <2>1. PICK t : Rises(ps, f, n, t)
    BY <1>3
  <2>2. PICK k \in 0 .. m : k = n + 1 /\ k - 1 = n /\ k # 0
    BY <1>3
  <2>3. f[k] = IF Len(f[n]) = 1 THEN f[n] ELSE NodesOf(k, EntriesOf(f[n]))
    BY <1>1, <2>2
  <2>4. CASE Len(f[n]) = 1
    <3>1. f[k] = f[n]
      BY <2>3, <2>4
    <3>2. Rises(ps, f, k, t)
      BY <2>1, <2>4, <3>1 DEF Rises
    <3> QED
      BY <2>2, <3>2
  <2>5. CASE Len(f[n]) # 1
    <3>1. /\ Pile(ps, t) /\ t.h = k /\ t.E[k] = EntriesOf(f[n]) /\ t.n[k] = Len(f[n])
          /\ t.n[k] <= Room[HeightMax - k]
      BY <2>1, <2>2, <2>5 DEF Rises
    <3>2. f[k] = NodesOf(t.h, t.E[t.h]) /\ t.h < HeightMax
      BY <2>2, <2>3, <2>5, <3>1
    <3>3. PICK u : /\ Pile(ps, u) /\ u.h = t.h + 1 /\ u.E[u.h] = EntriesOf(f[k])
                   /\ u.n[u.h] = Len(f[k])
                   /\ Len(f[k]) = (t.n[t.h] + Capacity - 1) \div Capacity
      BY ZenonT(30), <3>1, <3>2, StoreyAdded
    <3>4. PICK c \in Nat : c = t.n[k] /\ c >= 1
      <4>1. k \in 0 .. t.h
        BY <2>2, <3>1
      <4>2. Level(ps, t, k)
        BY <3>1, <4>1 DEF Pile
      <4> QED
        BY <4>2 DEF Level
    <3>5. (c + Capacity - 1) \div Capacity <= Room[HeightMax - (k + 1)]
      <4>1. k \in Nat /\ k < HeightMax /\ c <= Room[HeightMax - k]
        BY <2>2, <3>1, <3>2, <3>4
      <4> QED
        BY <3>4, <4>1, LevelFits
    <3>6. Rises(ps, f, k, u)
      BY <2>2, <3>1, <3>3, <3>4, <3>5 DEF Rises
    <3> QED
      BY <2>2, <3>6
  <2> QED
    BY <2>4, <2>5
<1> HIDE DEF T
<1>4. \A k \in 0 .. m : k \in T
  BY <1>2, <1>3, Induction
<1> QED
  BY <1>4 DEF T

(* The tree of the pages and its levels.                                   *)
Tree(ps, t, root_node) ==
    /\ Pile(ps, t) /\ t.h >= 1 /\ t.n[t.h] = 1
    /\ root_node = t.E[t.h][1].child

LEMMA TreeStands ==
    ASSUME NEW ps, OrderedPages(ps), ps # << >>, Len(ps) <= Room[HeightMax]
    PROVE  \E t : Tree(ps, t, SeriesRoot(ps))
<1>1. PICK m \in Nat : m = HeightMax - 1 /\ m + 1 = HeightMax /\ m \in 0 .. m
  BY TraversalAssumption
<1>2. PICK f : f = CHOOSE g : Builds(g, ps, m)
  OBVIOUS
<1>3. Builds(f, ps, m)
  BY <1>2, Built
<1>4. SeriesRoot(ps) = f[m][1]
  BY <1>1, <1>2 DEF SeriesRoot, Builds, PageEntries
<1>5. PICK u : Rises(ps, f, m, u)
  BY <1>1, <1>3, LoopRises
<1>6. u.h \in 0 .. HeightMax /\ u.h \in 0 .. u.h
  BY <1>5, TraversalAssumption DEF Rises, Pile
<1>7. u.n[u.h] = 1
  <2>1. CASE u.h = m + 1
    <3>1. HeightMax - u.h = 0 /\ Room[0] = 1
      BY <1>1, <2>1, RoomGrows, TraversalAssumption
    <3>2. u.n[u.h] <= 1
      BY <1>5, <3>1 DEF Rises
    <3>3. u.n[u.h] \in Nat /\ u.n[u.h] >= 1
      BY <1>5, <1>6 DEF Rises, Pile, Level
    <3> QED
      BY <3>2, <3>3
  <2> QED
    BY <1>5, <2>1 DEF Rises
<1>8. DOMAIN EntriesOf(f[m]) = 1 .. 1
  BY <1>5, <1>6, <1>7 DEF Rises, Pile, Level
<1>9. u.E[u.h][1].child = f[m][1]
  <2>1. 1 \in DOMAIN f[m]
    BY <1>8 DEF EntriesOf
  <2>2. EntriesOf(f[m])[1].child = f[m][1]
    BY <2>1 DEF EntriesOf, Entry
  <2> QED
    BY <1>5, <2>2 DEF Rises
<1>10. Pile(ps, u) /\ u.h >= 1
  BY <1>5 DEF Rises
<1> QED
  BY <1>4, <1>7, <1>9, <1>10 DEF Tree

-----------------------------------------------------------------------------
(* The searches.                                                           *)

(* What is true of the first is counted by how many it is true of.         *)
LEMMA CountFirst ==
    ASSUME NEW m \in Nat, NEW T, T \subseteq 1 .. m,
           \A i \in T : \A k \in 1 .. m : k < i => k \in T
    PROVE  Cardinality(T) \in 0 .. m /\ \A i \in 1 .. m : i \in T <=> i <= Cardinality(T)
<1> DEFINE U == {i \in 1 .. m + 1 : i \notin T}
<1>1. U \subseteq Nat /\ m + 1 \in U
  OBVIOUS
<1> HIDE DEF U
<1>2. PICK y \in U : \A z \in U : y <= z
  BY <1>1, LeastNumber
<1>3. y \in 1 .. m + 1 /\ y \notin T
  BY <1>2 DEF U
<1>4. PICK j \in 0 .. m : j = y - 1
  BY <1>3
<1>5. ASSUME NEW i \in 1 .. m PROVE i \in T <=> i <= j
  <2>1. CASE i <= j
    <3>1. ~(y <= i)
      BY <1>3, <1>4, <2>1
    <3>2. i \notin U
      BY <1>2, <3>1
    <3> QED
      BY <2>1, <3>2 DEF U
  <2>2. CASE ~(i <= j)
    <3>1. i = y \/ y < i
      BY <1>3, <1>4, <2>2
    <3>2. y < i /\ i \in T => y \in T
      BY <1>3
    <3> QED
      BY <1>3, <2>2, <3>1, <3>2
  <2> QED
    BY <2>1, <2>2
<1>6. T = 1 .. j
  <2>1. ASSUME NEW i \in T PROVE i \in 1 .. j
    BY <1>4, <1>5
  <2>2. ASSUME NEW i \in 1 .. j PROVE i \in T
    BY <1>4, <1>5
  <2> QED
    BY <2>1, <2>2
<1>7. Cardinality(1 .. j) = IF 1 > j THEN 0 ELSE j - 1 + 1
  <2>1. 1 \in Int /\ j \in Int
    OBVIOUS
  <2> QED
    BY <2>1, FS_Interval
<1>8. Cardinality(T) = j
  BY <1>4, <1>6, <1>7
<1> QED
  BY <1>5, <1>8

(* The first b pages end before the timestamp, the first a begin at it or  *)
(* before it.                                                              *)
Reach(ps, timestamp, a, b) ==
    /\ a \in 0 .. Len(ps) /\ b \in 0 .. Len(ps) /\ b <= a /\ a <= b + 1
    /\ \A p \in 1 .. Len(ps) : /\ Last(ps[p]).timestamp < timestamp <=> p <= b
                               /\ ps[p][1].timestamp <= timestamp <=> p <= a

LEMMA PageEnds ==
    ASSUME NEW ps, OrderedPages(ps), NEW p \in 1 .. Len(ps)
    PROVE  /\ ps[p][1].timestamp \in Int /\ Last(ps[p]).timestamp \in Int
           /\ ps[p][1].timestamp <= Last(ps[p]).timestamp
           /\ Len(ps[p]) \in Nat /\ Len(ps[p]) >= 1 /\ Last(ps[p]) = ps[p][Len(ps[p])]
<1>1. PICK page : page = ps[p] /\ OrderedPage(page)
  BY DEF OrderedPages
<1>2. PICK k \in Nat : k = Len(page) /\ k >= 1
  BY <1>1 DEF OrderedPage
<1>3. Last(page) = page[k]
  BY <1>2 DEF Last
<1>4. \A i \in 1 .. k : page[i].timestamp \in Int
  <2>1. TimestampDomain \subseteq Int
    BY TraversalAssumption DEF TimestampDomain
  <2>2. \A i \in 1 .. k : page[i] \in Points
    BY <1>1, <1>2 DEF OrderedPage
  <2> QED
    BY <2>1, <2>2 DEF Points
<1>5. 1 \in 1 .. k /\ k \in 1 .. k
  BY <1>2
<1>6. 1 < k => page[1].timestamp < page[k].timestamp
  BY <1>1, <1>2, <1>5 DEF OrderedPage
<1>7. page[1].timestamp <= page[k].timestamp
  <2>1. page[1].timestamp \in Int /\ page[k].timestamp \in Int
    BY <1>4, <1>5
  <2> QED
    BY <1>2, <1>6, <2>1
<1> QED
  BY <1>1, <1>2, <1>3, <1>4, <1>5, <1>7

LEMMA Reached ==
    ASSUME NEW ps, OrderedPages(ps), NEW timestamp \in Int
    PROVE  \E a, b : Reach(ps, timestamp, a, b)
<1>1. PICK m \in Nat : m = Len(ps)
  BY DEF OrderedPages
<1>2. PICK T : T = {p \in 1 .. m : Last(ps[p]).timestamp < timestamp}
  OBVIOUS
<1>3. PICK U : U = {p \in 1 .. m : ps[p][1].timestamp <= timestamp}
  OBVIOUS
<1>4. \A p \in 1 .. m : /\ ps[p][1].timestamp \in Int /\ Last(ps[p]).timestamp \in Int
                        /\ ps[p][1].timestamp <= Last(ps[p]).timestamp
  BY <1>1, PageEnds
<1>5. \A p, r \in 1 .. m : p < r => Last(ps[p]).timestamp < ps[r][1].timestamp
  BY <1>1 DEF OrderedPages
<1>6. T \subseteq 1 .. m /\ \A i \in T : \A k \in 1 .. m : k < i => k \in T
  BY <1>2, <1>4, <1>5
<1>7. U \subseteq 1 .. m /\ \A i \in U : \A k \in 1 .. m : k < i => k \in U
  BY <1>3, <1>4, <1>5
<1>8. PICK b \in 0 .. m : \A i \in 1 .. m : i \in T <=> i <= b
  BY <1>6, CountFirst
<1>9. PICK a \in 0 .. m : \A i \in 1 .. m : i \in U <=> i <= a
  BY <1>7, CountFirst
<1>10. b <= a
  <2>1. CASE b = 0
    BY <2>1
  <2>2. CASE b # 0
    <3>1. b \in 1 .. m /\ b \in T
      BY <1>8, <2>2
    <3>2. b \in U
      BY <1>2, <1>3, <1>4, <3>1
    <3> QED
      BY <1>9, <3>1, <3>2
  <2> QED
    BY <2>1, <2>2
<1>11. a <= b + 1
  <2> SUFFICES ASSUME a > b + 1 PROVE FALSE
    BY <1>8, <1>9
  <2>1. PICK y \in 1 .. m : y = b + 1 /\ y < a /\ a \in 1 .. m
    BY <1>8, <1>9
  <2>2. a \in U /\ y \notin T
    BY <1>8, <1>9, <2>1
  <2>3. Last(ps[y]).timestamp < ps[a][1].timestamp
    BY <1>5, <2>1
  <2> QED
    BY <1>2, <1>3, <1>4, <2>1, <2>2, <2>3
<1> QED
  BY <1>1, <1>2, <1>3, <1>8, <1>9, <1>10, <1>11 DEF Reach

(* An entry, seen from the timestamp.                                      *)
LEMMA EntryFacts ==
    ASSUME NEW ps, OrderedPages(ps), NEW t, Pile(ps, t), NEW l \in 0 .. t.h,
           NEW timestamp \in Int, NEW a, NEW b, Reach(ps, timestamp, a, b),
           NEW z \in 1 .. t.n[l]
    PROVE  /\ t.E[l][z].summary.timestamp_max < timestamp <=> t.Q[l][z] <= b
           /\ ~(t.E[l][z].summary.timestamp_min > timestamp) <=> t.Q[l][z - 1] < a
           /\ t.Q[l][z] \in Nat /\ t.Q[l][z - 1] \in Nat /\ t.Q[l][z - 1] < t.Q[l][z]
           /\ t.Q[l][z] <= Len(ps)
           /\ t.E[l][z].summary.timestamp_min \in Int /\ t.E[l][z].summary.timestamp_max \in Int
<1>1. Level(ps, t, l)
  BY DEF Pile
<1>2. Cuts(t.Q[l], t.n[l], Len(ps))
  BY <1>1 DEF Level
<1>3. PICK x, y \in Nat : x = t.Q[l][z - 1] /\ y = t.Q[l][z] /\ x < y /\ y <= Len(ps)
  BY <1>2, CutValues
<1>4. PICK s : s = t.E[l][z].summary
  OBVIOUS
<1>5. s.timestamp_min = ps[x + 1][1].timestamp /\ s.timestamp_max = Last(ps[y]).timestamp
  BY <1>1, <1>3, <1>4 DEF Level, Spans
<1>6. x + 1 \in 1 .. Len(ps) /\ y \in 1 .. Len(ps)
  <2>1. PICK m \in Nat : m = Len(ps)
    BY DEF OrderedPages
  <2>2. x < y /\ y <= m
    BY <1>3, <2>1
  <2>3. x + 1 \in 1 .. m /\ y \in 1 .. m
    BY <2>2
  <2> QED
    BY <2>1, <2>3
<1>7. s.timestamp_max < timestamp <=> y <= b
  BY <1>5, <1>6 DEF Reach
<1>8. s.timestamp_min <= timestamp <=> x + 1 <= a
  BY <1>5, <1>6 DEF Reach
<1>9. s.timestamp_min \in Int /\ s.timestamp_max \in Int /\ a \in Nat
  BY <1>5, <1>6, PageEnds DEF Reach
<1>10. ~(s.timestamp_min > timestamp) <=> x < a
  BY SMTT(30), <1>3, <1>8, <1>9
<1> QED
  BY <1>3, <1>4, <1>7, <1>9, <1>10

(* The search of a node.                                                   *)
LEMMA NodeSearch ==
    ASSUME NEW ps, OrderedPages(ps), NEW t, Pile(ps, t), NEW l \in 0 .. t.h,
           NEW timestamp \in Int, NEW a, NEW b, Reach(ps, timestamp, a, b),
           NEW x \in Nat, NEW y \in Nat, x <= y, y <= t.n[l],
           NEW node, NEW level, NodeOver(node, level, t.E[l], x, y)
    PROVE  /\ NodeLowerBound(node, timestamp) \in 0 .. y - x
           /\ \A i \in 1 .. y - x : t.Q[l][x + i] <= b <=> i <= NodeLowerBound(node, timestamp)
<1>1. PICK k \in Nat : k = y - x
  OBVIOUS
<1>2. PICK T : T = {i \in DOMAIN node.entries :
                        node.entries[i].summary.timestamp_max < timestamp}
  OBVIOUS
<1>3. DOMAIN node.entries = 1 .. k /\ \A i \in 1 .. k : node.entries[i] = t.E[l][x + i]
  BY <1>1 DEF NodeOver
<1>4. t.n[l] \in Nat
  BY DEF Pile, Level
<1>5. ASSUME NEW i \in 1 .. k
      PROVE  /\ i \in T <=> t.Q[l][x + i] <= b
             /\ x + i \in 0 .. t.n[l]
  <2>1. PICK z \in 1 .. t.n[l] : z = x + i
    BY <1>1, <1>4
  <2>2. t.E[l][z].summary.timestamp_max < timestamp <=> t.Q[l][z] <= b
    BY EntryFacts
  <2>3. i \in T <=> t.E[l][z].summary.timestamp_max < timestamp
    BY <1>2, <1>3, <2>1
  <2>4. z \in 0 .. t.n[l]
    BY <1>4
  <2> QED
    BY <2>1, <2>2, <2>3, <2>4
<1>6. Cuts(t.Q[l], t.n[l], Len(ps)) /\ b \in Nat
  BY DEF Pile, Level, Reach
<1>7. T \subseteq 1 .. k
  BY <1>2, <1>3
<1>8. ASSUME NEW i \in T, NEW j \in 1 .. k, j < i PROVE j \in T
  <2>1. i \in 1 .. k
    BY <1>7
  <2>2. x + j \in 0 .. t.n[l] /\ x + i \in 0 .. t.n[l] /\ x + j <= x + i /\ t.Q[l][x + i] <= b
    BY <1>5, <1>8, <2>1
  <2>3. t.Q[l][x + j] <= t.Q[l][x + i]
    BY <1>6, <2>2, CutsOrder
  <2>4. t.Q[l][x + j] \in Nat /\ t.Q[l][x + i] \in Nat
    BY <1>6, <2>2, CutValues
  <2>5. t.Q[l][x + j] <= b
    BY SMTT(30), <1>6, <2>2, <2>3, <2>4
  <2> QED
    BY <1>5, <2>5
<1>9. /\ Cardinality(T) \in 0 .. k
      /\ \A i \in 1 .. k : i \in T <=> i <= Cardinality(T)
  BY <1>7, <1>8, CountFirst
<1>10. NodeLowerBound(node, timestamp) = Cardinality(T)
  BY <1>2 DEF NodeLowerBound
<1> QED
  BY <1>1, <1>5, <1>9, <1>10

LEMMA PageSearch ==
    ASSUME NEW page, OrderedPage(page), NEW timestamp \in Int
    PROVE  /\ Len(page) \in Nat /\ PageLowerBound(page, timestamp) \in 0 .. Len(page)
           /\ \A i \in 1 .. Len(page) :
                  /\ page[i].timestamp \in Int
                  /\ page[i].timestamp < timestamp <=> i <= PageLowerBound(page, timestamp)
<1>1. PICK m \in Nat : m = Len(page) /\ DOMAIN page = 1 .. m
  BY DEF OrderedPage
<1>2. PICK T : T = {i \in DOMAIN page : page[i].timestamp < timestamp}
  OBVIOUS
<1>3. \A i \in 1 .. m : page[i].timestamp \in Int
  <2>1. TimestampDomain \subseteq Int
    BY TraversalAssumption DEF TimestampDomain
  <2>2. \A i \in 1 .. m : page[i] \in Points
    BY <1>1 DEF OrderedPage
  <2> QED
    BY <2>1, <2>2 DEF Points
<1>4. T \subseteq 1 .. m /\ \A i \in T : \A k \in 1 .. m : k < i => k \in T
  BY <1>1, <1>2, <1>3 DEF OrderedPage
<1>5. /\ Cardinality(T) \in 0 .. m
      /\ \A i \in 1 .. m : i \in T <=> i <= Cardinality(T)
  BY <1>4, CountFirst
<1> QED
  BY <1>1, <1>2, <1>3, <1>5 DEF PageLowerBound

-----------------------------------------------------------------------------
(* The way down of a lookup.                                               *)

(* The page that holds the answer: past the last if there is none after,   *)
(* 0 if there is none before.                                              *)
Goal(direction, a, b) == IF direction = "successor" THEN b + 1 ELSE a

(* Entry z of level l is over page g.                                      *)
Holds(t, l, z, g) ==
    z \in 1 .. t.n[l] /\ t.Q[l][z - 1] < g /\ g <= t.Q[l][z]

Sought(ps, t, timestamp, a, b, direction, g) ==
    /\ OrderedPages(ps) /\ Pile(ps, t) /\ timestamp \in Int /\ Reach(ps, timestamp, a, b)
    /\ direction \in Directions /\ g = Goal(direction, a, b)

(* A node over entries x + 1 .. y of level l.                              *)
Part(t, l, x, y, node) ==
    /\ l \in 0 .. t.h /\ x \in Nat /\ y \in Nat /\ x < y /\ y <= t.n[l]
    /\ NodeOver(node, l, t.E[l], x, y)

Selected(t, l, timestamp, direction, g, node) ==
    \E i, z : /\ LookupEntryIndex(node, timestamp, direction) = <<i>>
              /\ Holds(t, l, z, g) /\ node.entries[i] = t.E[l][z]

LEMMA EntrySelected ==
    ASSUME NEW ps, NEW t, NEW timestamp, NEW a, NEW b, NEW direction, NEW g,
           Sought(ps, t, timestamp, a, b, direction, g),
           NEW l, NEW x, NEW y, NEW node, Part(t, l, x, y, node)
    PROVE  /\ t.Q[l][x] < g /\ g <= t.Q[l][y] =>
                  Selected(t, l, timestamp, direction, g, node)
           /\ direction = "successor" /\ t.Q[l][y] < g =>
                  LookupEntryIndex(node, timestamp, direction) = << >>
           /\ direction = "predecessor" /\ g <= t.Q[l][x] =>
                  LookupEntryIndex(node, timestamp, direction) = << >>
<1>13. /\ OrderedPages(ps) /\ Pile(ps, t) /\ timestamp \in Int /\ Reach(ps, timestamp, a, b)
       /\ direction \in Directions /\ g = Goal(direction, a, b)
  BY DEF Sought
<1>14. /\ l \in 0 .. t.h /\ x \in Nat /\ y \in Nat /\ x < y /\ y <= t.n[l]
       /\ NodeOver(node, l, t.E[l], x, y)
  BY DEF Part
<1>15. PICK selected : selected = LookupEntryIndex(node, timestamp, direction)
  OBVIOUS
<1> USE <1>13, <1>14
<1>12. x <= y
  OBVIOUS
<1>1. PICK k \in Nat, j \in Nat : k = y - x /\ j = NodeLowerBound(node, timestamp)
                                 /\ k >= 1 /\ j <= k
  <2>1. NodeLowerBound(node, timestamp) \in 0 .. y - x
    BY <1>12, NodeSearch
  <2> QED
    BY <2>1
<1>2. \A i \in 1 .. k : t.Q[l][x + i] <= b <=> i <= j
  BY <1>1, <1>12, NodeSearch
<1>3. /\ Len(node.entries) = k /\ \A i \in 1 .. k : node.entries[i] = t.E[l][x + i]
  BY <1>1 DEF NodeOver
<1>4. t.n[l] \in Nat /\ Cuts(t.Q[l], t.n[l], Len(ps))
  BY DEF Pile, Level
<1>5. a \in Nat /\ b \in Nat /\ b <= a /\ a <= b + 1
  BY DEF Reach
<1>6. ASSUME NEW i \in 1 .. k
      PROVE  /\ x + i \in 1 .. t.n[l] /\ (x + i) - x = i /\ (x + i) - 1 = x + (i - 1)
             /\ t.Q[l][x + i] \in Nat /\ t.Q[l][x + (i - 1)] \in Nat
             /\ t.Q[l][x + (i - 1)] < t.Q[l][x + i]
             /\ ~(node.entries[i].summary.timestamp_min > timestamp)
                    <=> t.Q[l][x + (i - 1)] < a
  <2>1. PICK z \in 1 .. t.n[l] : z = x + i /\ z - 1 = x + (i - 1) /\ z - x = i
    BY SMTT(30), <1>1, <1>4
  <2>2. /\ ~(t.E[l][z].summary.timestamp_min > timestamp) <=> t.Q[l][z - 1] < a
        /\ t.Q[l][z] \in Nat /\ t.Q[l][z - 1] \in Nat /\ t.Q[l][z - 1] < t.Q[l][z]
    BY EntryFacts
  <2> QED
    BY <1>3, <2>1, <2>2
<1>7. t.Q[l][x + 0] = t.Q[l][x] /\ t.Q[l][x + k] = t.Q[l][y]
  <2>1. x + 0 = x /\ x + k = y
    BY <1>1
  <2> QED
    BY <2>1
<1>8. t.Q[l][x] \in Nat /\ t.Q[l][y] \in Nat
  <2>1. x \in 0 .. t.n[l] /\ y \in 0 .. t.n[l]
    BY <1>4
  <2> QED
    BY <1>4, <2>1, CutValues
<1>9. ASSUME NEW i \in 1 .. k, t.Q[l][x + (i - 1)] < g, g <= t.Q[l][x + i], selected = <<i>>
      PROVE  Selected(t, l, timestamp, direction, g, node)
  <2>1. Holds(t, l, x + i, g)
    BY <1>6, <1>9 DEF Holds
  <2>2. node.entries[i] = t.E[l][x + i]
    BY <1>3
  <2> QED
    BY <1>9, <1>15, <2>1, <2>2 DEF Selected
<1>10. CASE direction = "successor"
  <2>1. g = b + 1 /\ selected = IF j + 1 > k THEN << >> ELSE <<j + 1>>
    BY <1>1, <1>3, <1>10, <1>15 DEF Goal, LookupEntryIndex
  <2>2. CASE j = k
    <3>1. t.Q[l][y] <= b
      BY <1>1, <1>2, <1>7, <2>2
    <3>2. ~(g <= t.Q[l][y])
      BY <1>5, <1>8, <2>1, <3>1
    <3>3. selected = << >>
      BY <1>1, <2>1, <2>2
    <3> QED
      BY <1>10, <1>15, <3>2, <3>3
  <2>3. CASE j # k
    <3>1. PICK i \in 1 .. k : i = j + 1 /\ i - 1 = j
      BY <1>1, <2>3
    <3>2. selected = <<i>>
      BY <2>1, <3>1
    <3>3. ~(t.Q[l][x + i] <= b)
      BY <1>1, <1>2, <3>1
    <3>4. g <= t.Q[l][x + i]
      <4>1. PICK q \in Nat : q = t.Q[l][x + i]
        BY <1>6
      <4> QED
        BY <1>5, <2>1, <3>3, <4>1
    <3>5. t.Q[l][x] < g => t.Q[l][x + (i - 1)] < g
      <4>1. CASE j = 0
        BY <1>7, <3>1, <4>1
      <4>2. CASE j # 0
        <5>1. j \in 1 .. k
          BY <1>1, <4>2
        <5>2. t.Q[l][x + j] <= b /\ t.Q[l][x + j] \in Nat
          BY <1>2, <1>6, <5>1
        <5> QED
          BY <1>5, <2>1, <3>1, <5>2
      <4> QED
        BY <4>1, <4>2
    <3>6. t.Q[l][x] < g /\ g <= t.Q[l][y] =>
            Selected(t, l, timestamp, direction, g, node)
      BY <1>9, <3>2, <3>4, <3>5
    <3>7. ~(t.Q[l][y] < g)
      <4>1. PICK d \in 0 .. t.n[l], e \in 0 .. t.n[l] : d = x + i /\ e = y /\ d <= e
        BY <1>1, <1>4, <1>6
      <4>2. t.Q[l][d] <= t.Q[l][e] /\ t.Q[l][d] \in Nat
        BY <1>4, <4>1, CutsOrder, CutValues
      <4> QED
        BY SMTT(30), <1>5, <1>8, <2>1, <3>4, <4>1, <4>2
    <3> QED
      BY <1>10, <3>6, <3>7
  <2> QED
    BY <2>2, <2>3
<1>11. CASE direction = "predecessor"
  <2>1. /\ g = a /\ direction # "successor"
        /\ selected = IF j + 1 > k THEN <<k>>
                      ELSE IF ~(node.entries[j + 1].summary.timestamp_min > timestamp)
                      THEN <<j + 1>>
                      ELSE IF j + 1 = 1 THEN << >> ELSE <<(j + 1) - 1>>
    BY <1>1, <1>3, <1>11, <1>15 DEF Goal, LookupEntryIndex
  <2>2. CASE j = k
    <3>1. PICK i \in 1 .. k : i = k
      BY <1>1
    <3>2. selected = <<i>>
      BY <1>1, <2>1, <2>2, <3>1
    <3>3. t.Q[l][x + i] <= b
      BY <1>2, <2>2, <3>1
    <3>4. t.Q[l][x + (i - 1)] < g
      <4>1. PICK p, q \in Nat : p = t.Q[l][x + (i - 1)] /\ q = t.Q[l][x + i] /\ p < q
        BY <1>6
      <4> QED
        BY SMTT(30), <1>5, <2>1, <3>3, <4>1
    <3>5. ~(g <= t.Q[l][x])
      <4>1. PICK d \in 0 .. t.n[l], e \in 0 .. t.n[l] : d = x /\ e = x + (i - 1) /\ d <= e
        BY SMTT(30), <1>1, <1>4, <3>1
      <4>2. t.Q[l][d] <= t.Q[l][e]
        BY <1>4, CutsOrder, <4>1
      <4>3. PICK p, q \in Nat : p = t.Q[l][x + (i - 1)] /\ q = t.Q[l][x] /\ q <= p
        BY <1>6, <1>8, <4>1, <4>2
      <4> QED
        BY SMTT(30), <1>5, <2>1, <3>4, <4>3
    <3> QED
      BY <1>7, <1>9, <2>1, <3>1, <3>2, <3>4, <3>5, <1>11
  <2>3. CASE j # k
    <3>1. PICK i \in 1 .. k : i = j + 1 /\ i - 1 = j
      BY <1>1, <2>3
    <3>2. ~(t.Q[l][x + i] <= b) /\ t.Q[l][x + i] \in Nat /\ t.Q[l][x + j] \in Nat
      BY <1>1, <1>2, <1>6, <3>1
    <3>3. g <= t.Q[l][x + i]
      BY SMTT(30), <1>5, <2>1, <3>2
    <3>4. CASE t.Q[l][x + j] < a
      <4>1. selected = <<i>>
        <5>1. ~(node.entries[i].summary.timestamp_min > timestamp)
          BY <1>6, <3>1, <3>4
        <5> QED
          BY <1>1, <2>1, <3>1, <5>1
      <4>2. ~(g <= t.Q[l][x])
        <5>1. PICK d \in 0 .. t.n[l], e \in 0 .. t.n[l] : d = x /\ e = x + j /\ d <= e
          BY <1>1, <1>4
        <5>2. t.Q[l][d] <= t.Q[l][e]
          BY <1>4, CutsOrder, <5>1
        <5> QED
          BY SMTT(30), <1>5, <1>8, <2>1, <3>2, <3>4, <5>1, <5>2
      <4> QED
        BY <1>9, <2>1, <3>1, <3>3, <3>4, <4>1, <4>2, <1>11
    <3>5. CASE ~(t.Q[l][x + j] < a)
      <4>1. selected = IF i = 1 THEN << >> ELSE <<j>>
        <5>1. ~~(node.entries[i].summary.timestamp_min > timestamp)
          BY <1>6, <3>1, <3>5
        <5>2. ~(j + 1 > k) /\ j + 1 = i
          BY <1>1, <3>1
        <5> QED
          BY <2>1, <3>1, <5>1, <5>2
      <4>2. CASE i = 1
        <5>1. ~(t.Q[l][x] < g)
          BY <1>7, <2>1, <3>1, <3>5, <4>2
        <5> QED
          BY <1>11, <1>15, <2>1, <4>1, <4>2, <5>1
      <4>3. CASE i # 1
        <5>1. j \in 1 .. k
          BY <1>1, <3>1, <4>3
        <5>2. t.Q[l][x + j] <= b
          BY <1>2, <5>1
        <5>3. t.Q[l][x + j] = g
          BY SMTT(30), <1>5, <2>1, <3>2, <3>5, <5>2
        <5>4. t.Q[l][x + (j - 1)] < g
          BY <1>6, <5>1, <5>3
        <5>5. ~(g <= t.Q[l][x])
          <6>1. PICK d \in 0 .. t.n[l], e \in 0 .. t.n[l] : d = x /\ e = x + (j - 1) /\ d <= e
            BY <1>1, <1>4, <5>1
          <6>2. t.Q[l][d] <= t.Q[l][e] /\ t.Q[l][e] \in Nat
            BY <1>4, CutsOrder, CutValues, <6>1
          <6> QED
            BY <1>5, <1>8, <2>1, <5>4, <6>1, <6>2
        <5>6. selected = <<j>>
          BY <4>1, <4>3
        <5>7. g <= t.Q[l][x + j]
          BY <1>5, <2>1, <5>3
        <5> QED
          BY <1>9, <2>1, <5>1, <5>4, <5>5, <5>6, <5>7, <1>11
      <4> QED
        BY <4>2, <4>3
    <3> QED
      BY <3>4, <3>5
  <2> QED
    BY <2>2, <2>3
<1> QED
  BY <1>10, <1>11 DEF Directions

(* The nodes of the tree: entry x of level l is of one.                    *)
LEMMA NodeFacts ==
    ASSUME NEW ps, NEW t, Pile(ps, t), NEW l \in 1 .. t.h, NEW x \in 1 .. t.n[l],
           NEW node, node = t.E[l][x].child
    PROVE  \E y, z : /\ Part(t, l - 1, y, z, node) /\ node.level = l - 1
                     /\ t.Q[l][x - 1] = t.Q[l - 1][y] /\ t.Q[l][x] = t.Q[l - 1][z]
                     /\ node.summary = t.E[l][x].summary
<1>1. l - 1 \in 0 .. t.h /\ l \in 0 .. t.h
  BY DEF Pile
<1>2. Storey(t, l) /\ Level(ps, t, l) /\ Level(ps, t, l - 1)
  BY <1>1 DEF Pile
<1>3. Cuts(t.P[l], t.n[l], t.n[l - 1])
  BY <1>2 DEF Storey
<1>4. PICK y, z \in Nat : y = t.P[l][x - 1] /\ z = t.P[l][x] /\ y < z /\ z <= t.n[l - 1]
  BY <1>3, CutValues
<1>5. x - 1 \in 0 .. t.n[l] /\ x \in 0 .. t.n[l]
  BY <1>3, CutValues
<1>6. /\ NodeOver(node, l - 1, t.E[l - 1], y, z) /\ node.summary = t.E[l][x].summary
      /\ t.Q[l][x - 1] = t.Q[l - 1][y] /\ t.Q[l][x] = t.Q[l - 1][z]
  BY <1>2, <1>4, <1>5 DEF Storey
<1>7. node.level = l - 1
  BY <1>6 DEF NodeOver
<1>8. Part(t, l - 1, y, z, node)
  BY <1>1, <1>4, <1>6 DEF Part
<1> QED
  BY <1>6, <1>7, <1>8

LEMMA ChildSelected ==
    ASSUME NEW ps, NEW t, NEW timestamp, NEW a, NEW b, NEW direction, NEW g,
           Sought(ps, t, timestamp, a, b, direction, g), NEW l \in 1 .. t.h,
           NEW x, Holds(t, l, x, g), NEW node, node = t.E[l][x].child
    PROVE  Selected(t, l - 1, timestamp, direction, g, node)
<1>1. x \in 1 .. t.n[l] /\ t.Q[l][x - 1] < g /\ g <= t.Q[l][x]
  BY DEF Holds
<1>2. PICK k : k = l - 1
  OBVIOUS
<1>3. PICK y, z : /\ Part(t, k, y, z, node)
                  /\ t.Q[l][x - 1] = t.Q[k][y] /\ t.Q[l][x] = t.Q[k][z]
  BY <1>1, <1>2, NodeFacts DEF Sought
<1>4. t.Q[k][y] < g /\ g <= t.Q[k][z]
  BY <1>1, <1>3
<1>5. Selected(t, k, timestamp, direction, g, node)
  BY <1>3, <1>4, EntrySelected
<1> QED
  BY <1>2, <1>5

LEMMA TopMisses ==
    ASSUME NEW ps, NEW t, NEW timestamp, NEW a, NEW b, NEW direction, NEW g,
           Sought(ps, t, timestamp, a, b, direction, g), NEW top, Tree(ps, t, top)
    PROVE  /\ g \in 1 .. Len(ps) => Holds(t, t.h, 1, g)
           /\ g \notin 1 .. Len(ps) =>
                  LookupEntryIndex(top, timestamp, direction) = << >>
<1>1. Pile(ps, t) /\ t.h \in 1 .. t.h /\ t.h \in 0 .. t.h /\ t.n[t.h] = 1 /\ 1 \in 1 .. t.n[t.h]
  BY TraversalAssumption DEF Tree, Pile
<1>2. PICK h \in 1 .. t.h : h = t.h /\ top = t.E[h][1].child
  BY <1>1 DEF Tree
<1>3. Cuts(t.Q[h], 1, Len(ps))
  BY <1>1, <1>2 DEF Pile, Level
<1>4. t.Q[h][0] = 0 /\ t.Q[h][1] = Len(ps) /\ Len(ps) \in Nat
  BY <1>3 DEF Cuts
<1>5. g \in 1 .. Len(ps) => Holds(t, h, 1, g)
  BY <1>1, <1>2, <1>4 DEF Holds
<1>6. PICK k : k = h - 1
  OBVIOUS
<1>7. PICK y, z : /\ Part(t, k, y, z, top)
                  /\ t.Q[h][1 - 1] = t.Q[k][y] /\ t.Q[h][1] = t.Q[k][z]
  BY <1>1, <1>2, <1>6, NodeFacts
<1>8. /\ direction = "successor" /\ t.Q[k][z] < g =>
             LookupEntryIndex(top, timestamp, direction) = << >>
      /\ direction = "predecessor" /\ g <= t.Q[k][y] =>
             LookupEntryIndex(top, timestamp, direction) = << >>
  BY <1>7, EntrySelected
<1>9. t.Q[k][y] = 0 /\ t.Q[k][z] = Len(ps)
  BY <1>4, <1>7
<1>10. g \notin 1 .. Len(ps) =>
           \/ direction = "successor" /\ Len(ps) < g
           \/ direction = "predecessor" /\ g <= 0
  BY <1>4 DEF Goal, Reach, Directions, Sought
<1> QED
  BY <1>2, <1>5, <1>8, <1>9, <1>10

(* The path of a lookup.                                                   *)
GoesDown(f, top, timestamp, direction, m) ==
    f = [depth \in 0 .. m |->
            IF depth = 0 THEN <<top>>
            ELSE IF f[depth - 1] = << >> THEN << >>
            ELSE LET node == f[depth - 1][1]
                     selected == LookupEntryIndex(node, timestamp, direction)
                 IN  IF selected = << >> THEN << >>
                     ELSE <<node.entries[selected[1]].child>>]

LEMMA PathExists ==
    ASSUME NEW top, NEW timestamp, NEW direction, NEW m \in Nat
    PROVE  \E f : GoesDown(f, top, timestamp, direction, m)
<1> DEFINE T == {k \in 0 .. m : \E f : GoesDown(f, top, timestamp, direction, k)}
<1>1. 0 \in T
  <2>1. PICK f : f = [depth \in 0 .. 0 |-> <<top>>]
    OBVIOUS
  <2>2. GoesDown(f, top, timestamp, direction, 0)
    BY <2>1 DEF GoesDown
  <2> QED
    BY <2>2
<1>2. ASSUME NEW n \in 0 .. m, n # m, n \in T PROVE n + 1 \in T
  <2>1. PICK f : GoesDown(f, top, timestamp, direction, n)
    BY <1>2
  <2>2. PICK k \in Nat : k = n + 1 /\ k \in 0 .. m
    BY <1>2
  <2> DEFINE Next_(p) ==
                IF p = << >> THEN << >>
                ELSE IF LookupEntryIndex(p[1], timestamp, direction) = << >> THEN << >>
                ELSE <<p[1].entries[LookupEntryIndex(p[1], timestamp, direction)[1]].child>>
  <2>3. PICK v : v = Next_(f[n])
    OBVIOUS
  <2>4. PICK g : g = [depth \in 0 .. k |-> IF depth = k THEN v ELSE f[depth]]
    OBVIOUS
  <2>9. \A depth \in 0 .. n : f[depth] = IF depth = 0 THEN <<top>> ELSE Next_(f[depth - 1])
    BY <2>1 DEF GoesDown
  <2>5. ASSUME NEW depth \in 0 .. n
        PROVE  /\ g[depth] = f[depth] /\ depth \in 0 .. k
               /\ f[depth] = IF depth = 0 THEN <<top>> ELSE Next_(f[depth - 1])
    <3> HIDE DEF Next_
    <3> QED
      BY <2>2, <2>4, <2>9
  <2> HIDE DEF Next_
  <2>6. ASSUME NEW depth \in 0 .. k
        PROVE  g[depth] = IF depth = 0 THEN <<top>> ELSE Next_(g[depth - 1])
    <3>1. CASE depth = k
      <4>1. depth # 0 /\ depth - 1 = n /\ n \in 0 .. n
        BY <2>2, <3>1
      <4>2. g[n] = f[n] /\ g[depth] = v
        BY <2>4, <2>5, <3>1, <4>1
      <4> QED
        BY <2>3, <3>1, <4>1, <4>2
    <3>2. CASE depth # k /\ depth = 0
      <4>1. 0 \in 0 .. n
        OBVIOUS
      <4> QED
        BY <2>5, <3>2, <4>1
    <3>3. CASE depth # k /\ depth # 0
      <4>1. depth \in 0 .. n /\ depth - 1 \in 0 .. n
        BY <2>2, <3>3
      <4>2. g[depth] = f[depth] /\ g[depth - 1] = f[depth - 1]
        BY SMTT(30), <2>5, <4>1
      <4> QED
        BY <2>5, <3>3, <4>1, <4>2
    <3> QED
      BY <3>1, <3>2, <3>3
  <2>7. g = [depth \in 0 .. k |-> g[depth]]
    BY <2>4
  <2>8. GoesDown(g, top, timestamp, direction, k)
    BY <2>6, <2>7 DEF GoesDown, Next_
  <2> QED
    BY <2>2, <2>8
<1> HIDE DEF T
<1>3. \A k \in 0 .. m : k \in T
  BY <1>1, <1>2, Induction
<1> QED
  BY <1>3 DEF T

(* The path from a node over the page leads to one on every level.         *)
LEMMA PathHolds ==
    ASSUME NEW ps, NEW t, NEW timestamp, NEW a, NEW b, NEW direction, NEW g,
           Sought(ps, t, timestamp, a, b, direction, g),
           NEW h \in 1 .. t.h, NEW w, Holds(t, h, w, g), NEW top, top = t.E[h][w].child,
           NEW m \in Nat, m <= h,
           NEW f, GoesDown(f, top, timestamp, direction, m)
    PROVE  \A d \in 0 .. m : \E x : Holds(t, h - d, x, g) /\ f[d] = <<t.E[h - d][x].child>>
<1> DEFINE T == {d \in 0 .. m : \E x : Holds(t, h - d, x, g) /\ f[d] = <<t.E[h - d][x].child>>}
<1>1. h \in Nat /\ h >= 1 /\ h <= t.h /\ t.h \in Nat
  BY TraversalAssumption DEF Sought, Pile
<1>2. 0 \in T
  <2>1. 0 \in 0 .. m /\ h - 0 = h
    BY <1>1
  <2>2. f[0] = <<top>>
    BY <2>1 DEF GoesDown
  <2> QED
    BY <1>1, <2>1, <2>2
<1>3. ASSUME NEW n \in 0 .. m, n # m, n \in T PROVE n + 1 \in T
  <2>1. PICK x : Holds(t, h - n, x, g) /\ f[n] = <<t.E[h - n][x].child>>
    BY <1>3
  <2>2. PICK l \in 1 .. t.h : l = h - n /\ l - 1 = h - (n + 1)
    BY <1>1, <1>3
  <2>3. PICK k \in 0 .. m : k = n + 1 /\ k # 0 /\ k - 1 = n
    BY <1>3
  <2>4. PICK node : node = t.E[l][x].child
    OBVIOUS
  <2>5. PICK i, z : /\ LookupEntryIndex(node, timestamp, direction) = <<i>>
                    /\ Holds(t, l - 1, z, g) /\ node.entries[i] = t.E[l - 1][z]
    <3>1. Holds(t, l, x, g)
      BY <2>1, <2>2
    <3>2. Selected(t, l - 1, timestamp, direction, g, node)
      BY <2>4, <3>1, ChildSelected
    <3> QED
      BY <3>2 DEF Selected
  <2>6. f[n] = <<node>> /\ f[n] # << >> /\ f[n][1] = node
    BY <2>1, <2>2, <2>4
  <2>7. f[k] = <<node.entries[i].child>>
    <3>1. f[k] = IF f[n] = << >> THEN << >>
                 ELSE IF LookupEntryIndex(f[n][1], timestamp, direction) = << >> THEN << >>
                 ELSE <<f[n][1].entries[LookupEntryIndex(f[n][1], timestamp, direction)[1]].child>>
      BY ZenonT(30), <2>3 DEF GoesDown
    <3> QED
      BY SMTT(30), <2>5, <2>6, <3>1
  <2> QED
    BY <2>2, <2>3, <2>5, <2>7
<1> HIDE DEF T
<1>4. \A d \in 0 .. m : d \in T
  BY <1>2, <1>3, Induction
<1> QED
  BY <1>4 DEF T

LEMMA PathMisses ==
    ASSUME NEW top, NEW timestamp, NEW direction, NEW m \in Nat,
           NEW f, GoesDown(f, top, timestamp, direction, m),
           LookupEntryIndex(top, timestamp, direction) = << >>
    PROVE  \A d \in 0 .. m : f[d] = IF d = 0 THEN <<top>> ELSE << >>
<1> DEFINE T == {d \in 0 .. m : f[d] = IF d = 0 THEN <<top>> ELSE << >>}
<1>1. 0 \in T
  <2>1. 0 \in 0 .. m
    OBVIOUS
  <2> QED
    BY <2>1 DEF GoesDown
<1>2. ASSUME NEW n \in 0 .. m, n # m, n \in T PROVE n + 1 \in T
  <2>1. PICK k \in 0 .. m : k = n + 1 /\ k # 0 /\ k - 1 = n
    BY <1>2
  <2>2. f[k] = IF f[n] = << >> THEN << >>
               ELSE IF LookupEntryIndex(f[n][1], timestamp, direction) = << >> THEN << >>
               ELSE <<f[n][1].entries[LookupEntryIndex(f[n][1], timestamp, direction)[1]].child>>
    BY <2>1 DEF GoesDown
  <2>3. f[n] = << >> \/ f[n] = <<top>>
    BY <1>2
  <2>4. f[n] = <<top>> => f[n][1] = top
    OBVIOUS
  <2>5. f[k] = << >>
    BY <2>2, <2>3, <2>4
  <2> QED
    BY <2>1, <2>5
<1> HIDE DEF T
<1>3. \A d \in 0 .. m : d \in T
  BY <1>1, <1>2, Induction
<1> QED
  BY <1>3 DEF T

(* A leaf of the tree, or none.                                            *)
LeafOf(t, leaf) == leaf = << >> \/ \E x \in 1 .. t.n[1] : leaf = <<t.E[1][x].child>>

DownPath(timestamp, direction) ==
    CHOOSE p : GoesDown(p, StoredRoot, timestamp, direction, StoredRoot.level)

LEMMA DirectionalUnfolds ==
    ASSUME NEW timestamp, NEW direction, NEW f, f = DownPath(timestamp, direction)
    PROVE  LookupDirectional(timestamp, direction) =
              [leaf |-> IF StoredRoot.level > 0 THEN f[StoredRoot.level] ELSE << >>,
               point |-> IF \/ f[StoredRoot.level] = << >>
                            \/ LookupEntryIndex(f[StoredRoot.level][1], timestamp, direction) = << >>
                         THEN << >>
                         ELSE LookupPagePoint(
                                  f[StoredRoot.level][1].entries[
                                      LookupEntryIndex(f[StoredRoot.level][1],
                                                       timestamp, direction)[1]].child,
                                  timestamp, direction)]
<1> QED
  BY SMT DEF LookupDirectional, DownPath, GoesDown

(* A lookup reads the page it seeks.                                       *)
LEMMA DirectionalAnswer ==
    ASSUME NEW ps, NEW t, NEW timestamp, NEW a, NEW b, NEW direction, NEW g,
           Sought(ps, t, timestamp, a, b, direction, g), Tree(ps, t, StoredRoot),
           NEW res, res = LookupDirectional(timestamp, direction)
    PROVE  /\ res.point = IF g \in 1 .. Len(ps)
                          THEN LookupPagePoint(ps[g], timestamp, direction) ELSE << >>
           /\ LeafOf(t, res.leaf)
<1>1. PICK top : top = StoredRoot
  OBVIOUS
<1>2. PICK m \in Nat : m = t.h - 1 /\ m = top.level
  <2>1. t.h \in 1 .. t.h /\ 1 \in 1 .. t.n[t.h] /\ top = t.E[t.h][1].child /\ Pile(ps, t)
    BY <1>1, TraversalAssumption DEF Tree, Pile
  <2>2. top.level = t.h - 1
    BY <2>1, NodeFacts
  <2> QED
    BY <2>1, <2>2
<1>3. PICK f : f = DownPath(timestamp, direction)
  OBVIOUS
<1>4. GoesDown(f, top, timestamp, direction, m)
  <2>1. \E p : GoesDown(p, StoredRoot, timestamp, direction, StoredRoot.level)
    BY <1>1, <1>2, PathExists
  <2>2. GoesDown(f, StoredRoot, timestamp, direction, StoredRoot.level)
    BY <1>3, <2>1 DEF DownPath
  <2> QED
    BY <1>1, <1>2, <2>2
<1>5. PICK leaf : leaf = f[m]
  OBVIOUS
<1>6. PICK selected : selected = LookupEntryIndex(leaf[1], timestamp, direction)
  OBVIOUS
<1>7. /\ res.leaf = IF m > 0 THEN leaf ELSE << >>
      /\ res.point = IF leaf = << >> \/ selected = << >> THEN << >>
                     ELSE LookupPagePoint(leaf[1].entries[selected[1]].child,
                                          timestamp, direction)
  <2>3. res = [leaf |-> IF StoredRoot.level > 0 THEN f[StoredRoot.level] ELSE << >>,
               point |-> IF \/ f[StoredRoot.level] = << >>
                            \/ LookupEntryIndex(f[StoredRoot.level][1], timestamp, direction) = << >>
                         THEN << >>
                         ELSE LookupPagePoint(
                                  f[StoredRoot.level][1].entries[
                                      LookupEntryIndex(f[StoredRoot.level][1],
                                                       timestamp, direction)[1]].child,
                                  timestamp, direction)]
    BY SMT, <1>3, DirectionalUnfolds
  <2>4. f[StoredRoot.level] = leaf /\ StoredRoot.level = m
    BY <1>1, <1>2, <1>5
  <2> QED
    BY <1>6, <2>3, <2>4
<1>8. CASE g \in 1 .. Len(ps)
  <2>1. PICK x : Holds(t, 1, x, g) /\ leaf = <<t.E[1][x].child>>
    <3>1. t.h \in 1 .. t.h /\ top = t.E[t.h][1].child /\ m <= t.h /\ m \in 0 .. m /\ t.h - m = 1
      BY <1>1, <1>2, TraversalAssumption DEF Tree, Pile
    <3>2. Holds(t, t.h, 1, g)
      BY <1>1, <1>8, TopMisses
    <3>3. \E x : Holds(t, t.h - m, x, g) /\ f[m] = <<t.E[t.h - m][x].child>>
      BY <1>4, <3>1, <3>2, PathHolds
    <3> QED
      BY <1>5, <3>1, <3>3
  <2>2. PICK node : node = t.E[1][x].child
    OBVIOUS
  <2>3. 1 \in 1 .. t.h /\ 1 - 1 = 0 /\ 0 \in 0 .. t.h
    BY TraversalAssumption DEF Tree, Pile
  <2>4. Selected(t, 0, timestamp, direction, g, node)
    BY <2>1, <2>2, <2>3, ChildSelected
  <2>5. PICK i, z : /\ LookupEntryIndex(node, timestamp, direction) = <<i>>
                    /\ Holds(t, 0, z, g) /\ node.entries[i] = t.E[0][z]
    BY <2>4 DEF Selected
  <2>6. z \in 1 .. Len(ps) /\ z = g
    <3>1. t.n[0] = Len(ps) /\ \A y \in 0 .. Len(ps) : t.Q[0][y] = y
      BY DEF Sought, Pile
    <3>2. z \in 1 .. Len(ps) /\ t.Q[0][z - 1] < g /\ g <= t.Q[0][z]
      BY <2>5, <3>1 DEF Holds
    <3>3. Len(ps) \in Nat
      BY DEF Sought, OrderedPages
    <3>4. z - 1 \in 0 .. Len(ps) /\ z \in 0 .. Len(ps)
      BY <3>2, <3>3
    <3>5. z - 1 < g /\ g <= z
      BY <3>1, <3>2, <3>4
    <3> QED
      BY <1>8, <3>2, <3>3, <3>5
  <2>7. t.E[0][z].child = ps[g]
    <3>1. t.E[0] = PageEntries(ps) /\ DOMAIN ps = 1 .. Len(ps)
      BY DEF Sought, Pile, OrderedPages
    <3> QED
      BY <2>6, <3>1 DEF PageEntries, Entry
  <2>8. leaf # << >> /\ leaf[1] = node
    BY <2>1, <2>2
  <2>9. selected # << >> /\ selected[1] = i
    BY <1>6, <2>5, <2>8
  <2>10. res.point = LookupPagePoint(ps[g], timestamp, direction)
    BY <1>7, <2>5, <2>7, <2>8, <2>9
  <2>11. LeafOf(t, leaf)
    BY <2>1 DEF LeafOf, Holds
  <2>12. LeafOf(t, << >>)
    BY DEF LeafOf
  <2> QED
    BY <1>7, <1>8, <2>10, <2>11, <2>12
<1>9. CASE g \notin 1 .. Len(ps)
  <2>1. LookupEntryIndex(top, timestamp, direction) = << >>
    BY <1>1, <1>9, TopMisses
  <2>2. leaf = IF m = 0 THEN <<top>> ELSE << >>
    <3>1. m \in 0 .. m
      OBVIOUS
    <3> QED
      BY <1>4, <1>5, <2>1, <3>1, PathMisses
  <2>3. m = 0 => leaf[1] = top
    BY <2>2
  <2>4. res.point = << >>
    BY <1>6, <1>7, <2>1, <2>2, <2>3
  <2>5. res.leaf = << >>
    BY <1>2, <1>7, <2>2
  <2> QED
    BY <1>9, <2>4, <2>5 DEF LeafOf
<1> QED
  BY <1>8, <1>9

-----------------------------------------------------------------------------
(* The stored points.                                                      *)

InPages(ps, p) == \E k \in 1 .. Len(ps) : \E i \in 1 .. Len(ps[k]) : p = ps[k][i]

LEMMA PointIn ==
    ASSUME NEW ps, OrderedPages(ps), NEW k \in 1 .. Len(ps), NEW i \in 1 .. Len(ps[k])
    PROVE  /\ ps[k][i].timestamp \in Int
           /\ ps[k][1].timestamp <= ps[k][i].timestamp
           /\ ps[k][i].timestamp <= Last(ps[k]).timestamp
<1>1. PICK page : page = ps[k] /\ OrderedPage(page)
  BY DEF OrderedPages
<1>2. PICK m \in Nat : m = Len(page) /\ m >= 1 /\ Last(page) = page[m]
  BY <1>1, PageEnds
<1>3. \A j \in 1 .. m : page[j].timestamp \in Int
  <2>1. 0 \in Int
    OBVIOUS
  <2> QED
    BY <1>1, <1>2, <2>1, PageSearch
<1>4. i \in 1 .. m /\ 1 \in 1 .. m /\ m \in 1 .. m
  BY <1>1, <1>2
<1>5. 1 < i => page[1].timestamp < page[i].timestamp
  BY <1>1, <1>2, <1>4 DEF OrderedPage
<1>6. i < m => page[i].timestamp < page[m].timestamp
  BY <1>1, <1>2, <1>4 DEF OrderedPage
<1>7. PICK x, y, z \in Int : x = page[1].timestamp /\ y = page[i].timestamp /\ z = page[m].timestamp
  BY <1>3, <1>4
<1>8. x <= y
  <2>1. i = 1 \/ 1 < i
    BY <1>4
  <2> QED
    BY <1>5, <1>7, <2>1
<1>9. y <= z
  <2>1. i = m \/ i < m
    BY <1>2, <1>4
  <2> QED
    BY <1>6, <1>7, <2>1
<1> QED
  BY <1>1, <1>2, <1>7, <1>8, <1>9

LEMMA PointsApart ==
    ASSUME NEW ps, OrderedPages(ps), NEW k \in 1 .. Len(ps), NEW i \in 1 .. Len(ps[k]),
           NEW r \in 1 .. Len(ps), NEW j \in 1 .. Len(ps[r])
    PROVE  /\ k < r => ps[k][i].timestamp < ps[r][j].timestamp
           /\ k = r /\ i < j => ps[k][i].timestamp < ps[r][j].timestamp
           /\ ps[k][i].timestamp = ps[r][j].timestamp => ps[k][i] = ps[r][j]
<1>1. /\ ps[k][i].timestamp \in Int /\ ps[r][j].timestamp \in Int
      /\ ps[k][1].timestamp <= ps[k][i].timestamp /\ ps[k][i].timestamp <= Last(ps[k]).timestamp
      /\ ps[r][1].timestamp <= ps[r][j].timestamp /\ ps[r][j].timestamp <= Last(ps[r]).timestamp
  BY PointIn
<1>2. /\ ps[k][1].timestamp \in Int /\ Last(ps[k]).timestamp \in Int
      /\ ps[r][1].timestamp \in Int /\ Last(ps[r]).timestamp \in Int
  BY PageEnds
<1>3. k < r => Last(ps[k]).timestamp < ps[r][1].timestamp
  BY DEF OrderedPages
<1>4. r < k => Last(ps[r]).timestamp < ps[k][1].timestamp
  BY DEF OrderedPages
<1>5. k = r /\ i < j => ps[k][i].timestamp < ps[r][j].timestamp
  BY DEF OrderedPages, OrderedPage
<1>6. k = r /\ j < i => ps[r][j].timestamp < ps[k][i].timestamp
  BY DEF OrderedPages, OrderedPage
<1>7. (k < r \/ r < k \/ k = r) /\ (i < j \/ j < i \/ i = j)
  <2>1. k \in Int /\ r \in Int /\ i \in Int /\ j \in Int
    BY DEF OrderedPages
  <2> QED
    BY <2>1
<1>8. k < r => ps[k][i].timestamp < ps[r][j].timestamp
  BY SMTT(30), <1>1, <1>2, <1>3
<1>9. r < k => ps[r][j].timestamp < ps[k][i].timestamp
  BY SMTT(30), <1>1, <1>2, <1>4
<1> QED
  BY <1>1, <1>5, <1>6, <1>7, <1>8, <1>9

(* The answers of the two directions.                                      *)
IsAfter(ps, timestamp, point) ==
    \/ point = << >> /\ \A q : InPages(ps, q) => q.timestamp < timestamp
    \/ \E p : /\ point = <<p>> /\ InPages(ps, p) /\ timestamp <= p.timestamp
              /\ \A q : InPages(ps, q) /\ timestamp <= q.timestamp => p.timestamp <= q.timestamp

IsBefore(ps, timestamp, point) ==
    \/ point = << >> /\ \A q : InPages(ps, q) => timestamp < q.timestamp
    \/ \E p : /\ point = <<p>> /\ InPages(ps, p) /\ p.timestamp <= timestamp
              /\ \A q : InPages(ps, q) /\ q.timestamp <= timestamp => q.timestamp <= p.timestamp

LEMMA AfterFound ==
    ASSUME NEW ps, OrderedPages(ps), NEW timestamp \in Int, NEW a, NEW b,
           Reach(ps, timestamp, a, b), NEW g, g = b + 1
    PROVE  /\ g \in 1 .. Len(ps) =>
                  IsAfter(ps, timestamp, LookupPagePoint(ps[g], timestamp, "successor"))
           /\ g \notin 1 .. Len(ps) => IsAfter(ps, timestamp, << >>)
<1>1. PICK n \in Nat : n = Len(ps) /\ b \in 0 .. n
  BY DEF Reach, OrderedPages
<1>2. ASSUME NEW k \in 1 .. n, NEW i \in 1 .. Len(ps[k]), k <= b
      PROVE  ps[k][i].timestamp < timestamp
  <2>1. Last(ps[k]).timestamp < timestamp
    BY <1>1, <1>2 DEF Reach
  <2>2. ps[k][i].timestamp \in Int /\ ps[k][i].timestamp <= Last(ps[k]).timestamp
    BY <1>1, PointIn
  <2>3. Last(ps[k]).timestamp \in Int
    BY <1>1, PageEnds
  <2> QED
    BY <2>1, <2>2, <2>3
<1>3. CASE g \notin 1 .. n
  <2>1. b = n
    BY <1>1, <1>3
  <2>2. ASSUME NEW q, InPages(ps, q) PROVE q.timestamp < timestamp
    BY <1>1, <1>2, <2>1, <2>2 DEF InPages
  <2> QED
    BY <1>1, <1>3, <2>2 DEF IsAfter
<1>4. CASE g \in 1 .. n
  <2>1. PICK page : page = ps[g] /\ OrderedPage(page)
    BY <1>1, <1>4 DEF OrderedPages
  <2>2. PICK m \in Nat, j \in Nat :
          /\ j <= m /\ m = Len(page) /\ j = PageLowerBound(page, timestamp)
          /\ \A i \in 1 .. m : page[i].timestamp \in Int /\ (page[i].timestamp < timestamp <=> i <= j)
    <3>1. Len(page) \in Nat /\ PageLowerBound(page, timestamp) \in 0 .. Len(page)
      BY <2>1, PageSearch
    <3>2. PageLowerBound(page, timestamp) \in Nat
               /\ PageLowerBound(page, timestamp) <= Len(page)
      BY <3>1
    <3> QED
      BY <2>1, <3>1, <3>2, PageSearch
  <2>3. m >= 1 /\ Last(page) = page[m] /\ ~(Last(page).timestamp < timestamp)
    <3>1. ~(g <= b)
      BY <1>1
    <3> QED
      BY <1>1, <1>4, <2>1, <2>2, <3>1, PageEnds DEF Reach
  <2>4. PICK s \in 1 .. m : s = j + 1
    <3>1. m \in 1 .. m
      BY <2>3
    <3>2. ~(m <= j)
      BY <2>2, <2>3, <3>1
    <3> QED
      BY <2>2, <3>2
  <2>5. LookupPagePoint(page, timestamp, "successor") = <<page[s]>>
    <3>1. ~(j + 1 > m)
      BY <2>4
    <3> QED
      BY <2>2, <2>4, <3>1 DEF LookupPagePoint
  <2>6. timestamp <= page[s].timestamp
    BY <2>2, <2>4
  <2>7. ASSUME NEW q, InPages(ps, q), timestamp <= q.timestamp PROVE page[s].timestamp <= q.timestamp
    <3>0. PICK k \in 1 .. n : \E i \in 1 .. Len(ps[k]) : q = ps[k][i]
      BY <1>1, <2>7 DEF InPages
    <3>1. PICK i \in 1 .. Len(ps[k]) : q = ps[k][i]
      BY <3>0
    <3>2. q.timestamp \in Int /\ page[s].timestamp \in Int
      BY <1>1, <2>2, <3>1, PointIn
    <3>3. ~(k <= b)
      BY <1>2, <2>7, <3>1, <3>2
    <3>4. CASE k = g
      <4>1. i \in 1 .. m /\ q = page[i]
        BY <2>1, <2>2, <3>1, <3>4
      <4>2. ~(i <= j)
        BY <2>2, <2>7, <3>2, <4>1
      <4>3. i = s \/ s < i
        BY <2>2, <2>4, <4>1, <4>2
      <4>4. s < i => page[s].timestamp < page[i].timestamp
        BY <2>1, <2>2, <4>1 DEF OrderedPage
      <4> QED
        BY <3>2, <4>1, <4>3, <4>4
    <3>5. CASE k # g
      <4>1. g < k
        BY <1>1, <3>3, <3>5
      <4>2. s \in 1 .. Len(ps[g])
        BY <2>1, <2>2
      <4>3. ps[g][s].timestamp < ps[k][i].timestamp
        BY <1>1, <1>4, <4>1, <4>2, PointsApart
      <4> QED
        BY <2>1, <3>1, <3>2, <4>3
    <3> QED
      BY <3>4, <3>5
  <2>8. InPages(ps, page[s])
    BY <1>1, <1>4, <2>1, <2>2 DEF InPages
  <2>9. IsAfter(ps, timestamp, <<page[s]>>)
    BY <2>6, <2>7, <2>8 DEF IsAfter
  <2> QED
    BY <1>1, <1>4, <2>1, <2>5, <2>9
<1> QED
  BY <1>1, <1>3, <1>4

LEMMA BeforeFound ==
    ASSUME NEW ps, OrderedPages(ps), NEW timestamp \in Int, NEW a, NEW b,
           Reach(ps, timestamp, a, b)
    PROVE  /\ a \in 1 .. Len(ps) =>
                  IsBefore(ps, timestamp, LookupPagePoint(ps[a], timestamp, "predecessor"))
           /\ a \notin 1 .. Len(ps) => IsBefore(ps, timestamp, << >>)
<1>1. PICK n \in Nat : n = Len(ps) /\ a \in 0 .. n
  BY DEF Reach, OrderedPages
<1>2. ASSUME NEW k \in 1 .. n, NEW i \in 1 .. Len(ps[k]), ~(k <= a)
      PROVE  timestamp < ps[k][i].timestamp
  <2>1. ~(ps[k][1].timestamp <= timestamp)
    BY <1>1, <1>2 DEF Reach
  <2>2. ps[k][i].timestamp \in Int /\ ps[k][1].timestamp <= ps[k][i].timestamp
    BY <1>1, PointIn
  <2>3. ps[k][1].timestamp \in Int
    BY <1>1, PageEnds
  <2> QED
    BY <2>1, <2>2, <2>3
<1>3. CASE a \notin 1 .. n
  <2>1. a = 0
    BY <1>1, <1>3
  <2>2. ASSUME NEW q, InPages(ps, q) PROVE timestamp < q.timestamp
    <3>0. PICK k \in 1 .. n : \E i \in 1 .. Len(ps[k]) : q = ps[k][i]
      BY <1>1, <2>2 DEF InPages
    <3>1. PICK i \in 1 .. Len(ps[k]) : q = ps[k][i]
      BY <3>0
    <3>2. ~(k <= a)
      BY <2>1
    <3> QED
      BY <1>2, <3>1, <3>2
  <2> QED
    BY <1>1, <1>3, <2>2 DEF IsBefore
<1>4. CASE a \in 1 .. n
  <2>1. PICK page : page = ps[a] /\ OrderedPage(page)
    BY <1>1, <1>4 DEF OrderedPages
  <2>2. PICK m \in Nat, j \in Nat :
          /\ j <= m /\ m = Len(page) /\ j = PageLowerBound(page, timestamp)
          /\ \A i \in 1 .. m : page[i].timestamp \in Int /\ (page[i].timestamp < timestamp <=> i <= j)
    <3>1. Len(page) \in Nat /\ PageLowerBound(page, timestamp) \in 0 .. Len(page)
      BY <2>1, PageSearch
    <3>2. PageLowerBound(page, timestamp) \in Nat
               /\ PageLowerBound(page, timestamp) <= Len(page)
      BY <3>1
    <3> QED
      BY <2>1, <3>1, <3>2, PageSearch
  <2>3. m >= 1 /\ Last(page) = page[m] /\ page[1].timestamp <= timestamp
    BY <1>1, <1>4, <2>1, <2>2, PageEnds DEF Reach
  <2>4. ASSUME NEW s \in 1 .. m, LookupPagePoint(page, timestamp, "predecessor") = <<page[s]>>,
               page[s].timestamp <= timestamp,
               \A i \in 1 .. m : s < i => timestamp < page[i].timestamp
        PROVE  IsBefore(ps, timestamp, LookupPagePoint(page, timestamp, "predecessor"))
    <3>1. ASSUME NEW q, InPages(ps, q), q.timestamp <= timestamp
          PROVE  q.timestamp <= page[s].timestamp
      <4>0. PICK k \in 1 .. n : \E i \in 1 .. Len(ps[k]) : q = ps[k][i]
        BY <1>1, <3>1 DEF InPages
      <4>1. PICK i \in 1 .. Len(ps[k]) : q = ps[k][i]
        BY <4>0
      <4>2. q.timestamp \in Int /\ page[s].timestamp \in Int
        BY <1>1, <2>2, <4>1, PointIn
      <4>3. k <= a
        BY <1>2, <3>1, <4>1, <4>2
      <4>4. CASE k = a
        <5>1. i \in 1 .. m /\ q = page[i]
          BY <2>1, <2>2, <4>1, <4>4
        <5>2. ~(s < i)
          BY <2>4, <3>1, <4>2, <5>1
        <5>3. i = s \/ i < s
          BY <5>1, <5>2
        <5>4. i < s => page[i].timestamp < page[s].timestamp
          BY <2>1, <2>2, <5>1 DEF OrderedPage
        <5> QED
          BY <4>2, <5>1, <5>3, <5>4
      <4>5. CASE k # a
        <5>1. k < a
          BY <1>1, <4>3, <4>5
        <5>2. s \in 1 .. Len(ps[a])
          BY <2>1, <2>2
        <5>3. ps[k][i].timestamp < ps[a][s].timestamp
          BY <1>1, <1>4, <5>1, <5>2, PointsApart
        <5> QED
          BY <2>1, <4>1, <4>2, <5>3
      <4> QED
        BY <4>4, <4>5
    <3>2. InPages(ps, page[s])
      BY <1>1, <1>4, <2>1, <2>2 DEF InPages
    <3> QED
      BY <2>4, <3>1, <3>2 DEF IsBefore
  <2> SUFFICES IsBefore(ps, timestamp, LookupPagePoint(page, timestamp, "predecessor"))
    BY <1>1, <1>4, <2>1
  <2>5. LookupPagePoint(page, timestamp, "predecessor") =
            IF j + 1 > m THEN <<page[m]>>
            ELSE IF page[j + 1].timestamp <= timestamp THEN <<page[j + 1]>>
            ELSE IF j + 1 = 1 THEN << >> ELSE <<page[(j + 1) - 1]>>
    BY <2>2, <2>3 DEF LookupPagePoint
  <2>6. CASE j = m
    <3>1. m \in 1 .. m /\ j + 1 > m
      BY <2>3, <2>6
    <3>2. page[m].timestamp <= timestamp
      BY <2>2, <2>6, <3>1
    <3>3. \A i \in 1 .. m : m < i => timestamp < page[i].timestamp
      OBVIOUS
    <3> QED
      BY <2>4, <2>5, <3>1, <3>2, <3>3
  <2>7. CASE j # m
    <3>1. PICK s \in 1 .. m : s = j + 1 /\ ~(j + 1 > m)
      BY <2>2, <2>7
    <3>2. ~(page[s].timestamp < timestamp) /\ page[s].timestamp \in Int
      BY <2>2, <3>1
    <3>3. ASSUME NEW i \in 1 .. m, s < i
          PROVE  page[s].timestamp < page[i].timestamp /\ page[i].timestamp \in Int
      BY <2>1, <2>2, <3>3 DEF OrderedPage
    <3>4. CASE page[s].timestamp <= timestamp
      <4>1. \A i \in 1 .. m : s < i => timestamp < page[i].timestamp
        BY <3>2, <3>3
      <4> QED
        BY <2>4, <2>5, <3>1, <3>4, <4>1
    <3>5. CASE ~(page[s].timestamp <= timestamp)
      <4>1. j # 0
        <5>1. s = 1 => FALSE
          BY <2>3, <3>5
        <5> QED
          BY <3>1, <5>1
      <4>2. j \in 1 .. m /\ (j + 1) - 1 = j /\ j + 1 # 1
        BY <2>2, <4>1
      <4>3. LookupPagePoint(page, timestamp, "predecessor") = <<page[j]>>
        BY <2>5, <3>1, <3>5, <4>2
      <4>4. page[j].timestamp <= timestamp
        BY <2>2, <4>2
      <4>5. ASSUME NEW i \in 1 .. m, j < i PROVE timestamp < page[i].timestamp
        <5>1. i = s \/ s < i
          BY <3>1, <4>5
        <5> QED
          BY <3>2, <3>3, <3>5, <5>1
      <4> QED
        BY <2>4, <4>2, <4>3, <4>4, <4>5
    <3> QED
      BY <3>4, <3>5
  <2> QED
    BY <1>1, <1>4, <2>1, <2>6, <2>7
<1> QED
  BY <1>1, <1>3, <1>4

LEMMA ConcatMembers ==
    ASSUME NEW S, NEW u \in Seq(S), NEW v \in Seq(S), NEW w, IsConcat(w, u, v), NEW p
    PROVE  p \in ToSet(w) <=> p \in ToSet(u) \/ p \in ToSet(v)
<1>1. PICK m, n \in Nat : m = Len(u) /\ n = Len(v)
  OBVIOUS
<1>2. DOMAIN u = 1 .. m /\ DOMAIN v = 1 .. n
  BY <1>1
<1>3. w \in Seq(S) /\ Len(w) = m + n
  BY <1>1, ConcatProperties DEF IsConcat
<1>4. \A i \in 1 .. m + n : w[i] = IF i <= m THEN u[i] ELSE v[i - m]
  BY <1>1, ConcatProperties DEF IsConcat
<1>5. DOMAIN w = 1 .. m + n
  BY <1>3
<1>6. ASSUME p \in ToSet(w) PROVE p \in ToSet(u) \/ p \in ToSet(v)
  <2>1. PICK i \in 1 .. m + n : p = w[i]
    BY <1>5, <1>6 DEF ToSet
  <2>2. i <= m => p = u[i] /\ i \in 1 .. m
    BY <1>4, <2>1
  <2>3. ~(i <= m) => p = v[i - m] /\ i - m \in 1 .. n
    BY <1>4, <2>1
  <2> QED
    BY <1>2, <2>2, <2>3 DEF ToSet
<1>7. ASSUME p \in ToSet(u) PROVE p \in ToSet(w)
  <2>1. PICK i \in 1 .. m : p = u[i]
    BY <1>2, <1>7 DEF ToSet
  <2>2. i \in 1 .. m + n /\ i <= m
    OBVIOUS
  <2> QED
    BY <1>4, <1>5, <2>1, <2>2 DEF ToSet
<1>8. ASSUME p \in ToSet(v) PROVE p \in ToSet(w)
  <2>1. PICK i \in 1 .. n : p = v[i]
    BY <1>2, <1>8 DEF ToSet
  <2>2. PICK k \in 1 .. m + n : k = m + i /\ ~(k <= m) /\ k - m = i
    OBVIOUS
  <2>3. w[k] = p
    BY <1>4, <2>1, <2>2
  <2> QED
    BY <1>5, <2>3 DEF ToSet
<1> QED
  BY <1>6, <1>7, <1>8

LEMMA FlattenMembers ==
    ASSUME NEW ps, OrderedPages(ps), NEW p
    PROVE  p \in ToSet(FlattenSeq(ps)) <=> InPages(ps, p)
<1>1. PICK m \in Nat : m = Len(ps)
  BY DEF OrderedPages
<1>2. AreLists(ps, Points, m)
  BY <1>1 DEF AreLists, OrderedPages
<1>3. PICK f \in [0 .. m -> Seq(Points)] : Joins(f, ps, m) /\ FlattenSeq(ps) = f[m]
  BY <1>2, FlattenJoins
<1> DEFINE T == {n \in 0 .. m : p \in ToSet(f[n])
                    <=> \E k \in 1 .. n : \E i \in 1 .. Len(ps[k]) : p = ps[k][i]}
<1>4. 0 \in T
  <2>1. f[0] = << >>
    BY <1>3 DEF Joins
  <2>2. p \notin ToSet(f[0])
    BY <2>1 DEF ToSet
  <2> QED
    BY <2>2
<1>5. ASSUME NEW n \in 0 .. m, n # m, n \in T PROVE n + 1 \in T
  <2>1. PICK x \in 1 .. m : x = n + 1 /\ x - 1 = n
    BY <1>5
  <2>2. f[x] = f[n] \o ps[x] /\ f[n] \in Seq(Points) /\ ps[x] \in Seq(Points)
    BY <1>2, <1>3, <2>1 DEF Joins, AreLists
  <2>3. p \in ToSet(f[x]) <=> p \in ToSet(f[n]) \/ p \in ToSet(ps[x])
    <3>1. IsConcat(f[x], f[n], ps[x])
      BY <2>2 DEF IsConcat
    <3> QED
      BY <2>2, <3>1, ConcatMembers
  <2>4. p \in ToSet(ps[x]) <=> \E i \in 1 .. Len(ps[x]) : p = ps[x][i]
    <3>1. DOMAIN ps[x] = 1 .. Len(ps[x])
      BY <2>2
    <3> QED
      BY <3>1 DEF ToSet
  <2>5. \A k \in 1 .. x : k \in 1 .. n \/ k = x
    BY <2>1
  <2>6. \A k \in 1 .. n : k \in 1 .. x
    BY <2>1
  <2>7. x \in 1 .. x
    BY <2>1
  <2>8. p \in ToSet(f[n]) <=> \E k \in 1 .. n : \E i \in 1 .. Len(ps[k]) : p = ps[k][i]
    BY <1>5
  <2>9. p \in ToSet(f[x]) <=> \E k \in 1 .. x : \E i \in 1 .. Len(ps[k]) : p = ps[k][i]
    BY <2>3, <2>4, <2>5, <2>6, <2>7, <2>8
  <2> QED
    BY <2>1, <2>9
<1> HIDE DEF T
<1>6. \A n \in 0 .. m : n \in T
  BY <1>4, <1>5, Induction
<1>7. m \in T
  BY <1>6
<1> QED
  BY <1>1, <1>3, <1>7 DEF T, InPages

-----------------------------------------------------------------------------
(* What a lookup selects of the two answers, and what it should.           *)

LEMMA NoneFound ==
    ASSUME NEW ps, NEW timestamp
    PROVE  /\ IsBefore(ps, timestamp, << >>) => \A q : InPages(ps, q) => timestamp < q.timestamp
           /\ IsAfter(ps, timestamp, << >>) => \A q : InPages(ps, q) => q.timestamp < timestamp
<1>1. \A p : <<p>> # << >>
  OBVIOUS
<1>2. IsBefore(ps, timestamp, << >>) => \A q : InPages(ps, q) => timestamp < q.timestamp
  BY Zenon, <1>1 DEF IsBefore
<1>3. IsAfter(ps, timestamp, << >>) => \A q : InPages(ps, q) => q.timestamp < timestamp
  BY Zenon, <1>1 DEF IsAfter
<1> QED
  BY <1>2, <1>3

Selection(timestamp, mode) ==
    LET before == LookupDirectional(timestamp, "predecessor").point
        after == LookupDirectional(timestamp, "successor").point
        Exact(point) == point # << >> /\ point[1].timestamp = timestamp
    IN  CASE mode = "exact" -> IF Exact(after) THEN after ELSE << >>
          [] mode = "predecessor" -> before
          [] mode = "successor" -> after
          [] mode = "nearest" ->
                IF Exact(before) THEN before
                ELSE Nearest(before, after, timestamp)

Modes == {"exact", "predecessor", "successor", "nearest"}

(* The point is the nearest of a set, and the earlier of two.              *)
Answers(S, timestamp, point) ==
    \/ S = {} /\ point = << >>
    \/ \E p \in S :
          /\ point = <<p>>
          /\ \A q \in S : /\ Distance(p, timestamp) <= Distance(q, timestamp)
                          /\ Distance(p, timestamp) = Distance(q, timestamp) =>
                                 p.timestamp <= q.timestamp

LEMMA AnswerChosen ==
    ASSUME NEW timestamp \in Int, NEW mode, NEW limit, NEW S, S = Eligible(timestamp, mode),
           \A p \in S : p.timestamp \in Int,
           \A p, q \in S : p.timestamp = q.timestamp => p = q,
           Answers(S, timestamp, Selection(timestamp, mode))
    PROVE  LookupPrepared(timestamp, mode, limit) = ReferenceLookup(timestamp, mode, limit)
<1>1. PICK point : point = Selection(timestamp, mode)
  OBVIOUS
<1>2. LookupPrepared(timestamp, mode, limit) =
          IF point # << >> /\ limit # << >> /\ Distance(point[1], timestamp) > limit[1]
          THEN << >> ELSE point
  BY <1>1 DEF LookupPrepared, Selection, Distance
<1>3. PICK best : best = {p \in S : \A q \in S :
                            Distance(p, timestamp) <= Distance(q, timestamp)}
  OBVIOUS
<1>4. PICK chosen : chosen = CHOOSE p \in best : \A q \in best : p.timestamp <= q.timestamp
  OBVIOUS
<1>5. ReferenceLookup(timestamp, mode, limit) =
          IF S = {} THEN << >>
          ELSE IF limit # << >> /\ Distance(chosen, timestamp) > limit[1] THEN << >>
          ELSE <<chosen>>
  BY <1>3, <1>4 DEF ReferenceLookup
<1>6. CASE S = {}
  <2>1. point = << >>
    BY <1>1, <1>6 DEF Answers
  <2> QED
    BY <1>2, <1>5, <1>6, <2>1
<1>7. CASE S # {}
  <2>1. PICK p \in S :
          /\ point = <<p>>
          /\ \A q \in S : /\ Distance(p, timestamp) <= Distance(q, timestamp)
                          /\ Distance(p, timestamp) = Distance(q, timestamp) =>
                                 p.timestamp <= q.timestamp
    BY <1>1, <1>7 DEF Answers
  <2>2. \A q \in S : Distance(q, timestamp) \in Int
    BY DEF Distance, TimestampDistance
  <2>3. p \in best
    BY <1>3, <2>1
  <2>4. ASSUME NEW q \in best PROVE p.timestamp <= q.timestamp
    <3>1. q \in S /\ Distance(q, timestamp) <= Distance(p, timestamp)
      BY <1>3
    <3>2. Distance(p, timestamp) = Distance(q, timestamp)
      BY <2>1, <2>2, <3>1
    <3> QED
      BY <2>1, <3>1, <3>2
  <2>5. chosen \in best /\ \A q \in best : chosen.timestamp <= q.timestamp
    BY <1>4, <2>3, <2>4
  <2>6. chosen = p
    <3>1. chosen \in S
      BY <1>3, <2>5
    <3>2. chosen.timestamp <= p.timestamp /\ p.timestamp <= chosen.timestamp
      BY <2>3, <2>4, <2>5
    <3>3. chosen.timestamp = p.timestamp
      BY <3>1, <3>2
    <3> QED
      BY <3>1, <3>3
  <2>7. point # << >> /\ point[1] = p
    BY <2>1
  <2> QED
    BY <1>2, <1>5, <1>7, <2>1, <2>6, <2>7
<1> QED
  BY <1>6, <1>7

LEMMA SelectionAnswers ==
    ASSUME NEW ps, OrderedPages(ps), ps # << >>, NEW timestamp \in Int, NEW mode \in Modes,
           NEW before, IsBefore(ps, timestamp, before),
           NEW after, IsAfter(ps, timestamp, after),
           before = LookupDirectional(timestamp, "predecessor").point,
           after = LookupDirectional(timestamp, "successor").point,
           NEW S, \A p : p \in S <=> /\ InPages(ps, p)
                                     /\ mode = "exact" => p.timestamp = timestamp
                                     /\ mode = "predecessor" => p.timestamp <= timestamp
                                     /\ mode = "successor" => p.timestamp >= timestamp
    PROVE  Answers(S, timestamp, Selection(timestamp, mode))
<1>1. ASSUME NEW p, InPages(ps, p) PROVE p.timestamp \in Int
  BY <1>1, PointIn DEF InPages
<1>2. \A p : InPages(ps, p) =>
          Distance(p, timestamp) = IF p.timestamp < timestamp THEN timestamp - p.timestamp
                                   ELSE p.timestamp - timestamp
  BY DEF Distance, TimestampDistance
<1>3. \E p : InPages(ps, p)
  <2>1. 1 \in 1 .. Len(ps)
    BY DEF OrderedPages
  <2>2. 1 \in 1 .. Len(ps[1])
    BY <2>1, PageEnds
  <2> QED
    BY <2>1, <2>2 DEF InPages
<1>4. CASE mode = "predecessor"
  <2>1. Selection(timestamp, mode) = before
    BY <1>4 DEF Selection
  <2>2. CASE before = << >>
    <3>1. \A q : InPages(ps, q) => timestamp < q.timestamp
      BY <2>2, NoneFound
    <3>2. S = {}
      BY <1>1, <1>4, <3>1
    <3> QED
      BY <2>1, <2>2, <3>2 DEF Answers
  <2>3. CASE before # << >>
    <3>1. PICK p : /\ before = <<p>> /\ InPages(ps, p) /\ p.timestamp <= timestamp
                   /\ \A q : InPages(ps, q) /\ q.timestamp <= timestamp =>
                                q.timestamp <= p.timestamp
      BY <2>3 DEF IsBefore
    <3>2. p \in S
      BY <1>4, <3>1
    <3>3. ASSUME NEW q \in S
          PROVE  /\ Distance(p, timestamp) <= Distance(q, timestamp)
                 /\ Distance(p, timestamp) = Distance(q, timestamp) => p.timestamp <= q.timestamp
      BY <1>1, <1>2, <1>4, <3>1
    <3> QED
      BY <2>1, <3>1, <3>2, <3>3 DEF Answers
  <2> QED
    BY <2>2, <2>3
<1>5. CASE mode = "successor"
  <2>1. Selection(timestamp, mode) = after
    BY <1>5 DEF Selection
  <2>2. CASE after = << >>
    <3>1. \A q : InPages(ps, q) => q.timestamp < timestamp
      BY <2>2, NoneFound
    <3>2. S = {}
      BY <1>1, <1>5, <3>1
    <3> QED
      BY <2>1, <2>2, <3>2 DEF Answers
  <2>3. CASE after # << >>
    <3>1. PICK p : /\ after = <<p>> /\ InPages(ps, p) /\ timestamp <= p.timestamp
                   /\ \A q : InPages(ps, q) /\ timestamp <= q.timestamp =>
                                p.timestamp <= q.timestamp
      BY <2>3 DEF IsAfter
    <3>2. p \in S
      BY <1>1, <1>5, <3>1
    <3>3. ASSUME NEW q \in S
          PROVE  /\ Distance(p, timestamp) <= Distance(q, timestamp)
                 /\ Distance(p, timestamp) = Distance(q, timestamp) => p.timestamp <= q.timestamp
      BY <1>1, <1>2, <1>5, <3>1
    <3> QED
      BY <2>1, <3>1, <3>2, <3>3 DEF Answers
  <2> QED
    BY <2>2, <2>3
<1>6. CASE mode = "exact"
  <2>1. Selection(timestamp, mode) =
            IF after # << >> /\ after[1].timestamp = timestamp THEN after ELSE << >>
    BY <1>6 DEF Selection
  <2>2. CASE after = << >>
    <3>1. \A q : InPages(ps, q) => q.timestamp < timestamp
      BY <2>2, NoneFound
    <3>2. S = {}
      BY <1>1, <1>6, <3>1
    <3> QED
      BY <2>1, <2>2, <3>2 DEF Answers
  <2>3. CASE after # << >>
    <3>1. PICK p : /\ after = <<p>> /\ InPages(ps, p) /\ timestamp <= p.timestamp
                   /\ \A q : InPages(ps, q) /\ timestamp <= q.timestamp =>
                                p.timestamp <= q.timestamp
      BY <2>3 DEF IsAfter
    <3>2. after[1] = p
      BY <3>1
    <3>3. CASE p.timestamp = timestamp
      <4>1. p \in S /\ Selection(timestamp, mode) = <<p>>
        BY <1>6, <2>1, <3>1, <3>2, <3>3
      <4>2. ASSUME NEW q \in S
            PROVE  Distance(p, timestamp) = Distance(q, timestamp) /\ p.timestamp = q.timestamp
                   /\ Distance(p, timestamp) = 0
        BY <1>1, <1>2, <1>6, <3>1, <3>3
      <4>3. ASSUME NEW q \in S
            PROVE  /\ Distance(p, timestamp) <= Distance(q, timestamp)
                   /\ Distance(p, timestamp) = Distance(q, timestamp) =>
                          p.timestamp <= q.timestamp
        BY <3>3, <4>2
      <4> QED
        BY <4>1, <4>3 DEF Answers
    <3>4. CASE p.timestamp # timestamp
      <4>1. ASSUME NEW q \in S PROVE FALSE
        <5>1. InPages(ps, q) /\ q.timestamp = timestamp
          BY <1>6
        <5>2. p.timestamp <= timestamp
          BY <3>1, <5>1
        <5> QED
          BY <1>1, <3>1, <3>4, <5>2
      <4>2. Selection(timestamp, mode) = << >>
        BY <2>1, <3>2, <3>4
      <4> QED
        BY <4>1, <4>2 DEF Answers
    <3> QED
      BY <3>3, <3>4
  <2> QED
    BY <2>2, <2>3
<1>7. CASE mode = "nearest"
  <2>0. \A p : p \in S <=> InPages(ps, p)
    BY <1>7
  <2>1. Selection(timestamp, mode) =
            IF before # << >> /\ before[1].timestamp = timestamp THEN before
            ELSE Nearest(before, after, timestamp)
    BY <1>7 DEF Selection
  <2>2. CASE before = << >>
    <3>1. \A q : InPages(ps, q) => timestamp < q.timestamp
      BY <2>2, NoneFound
    <3>2. after # << >>
      <4>1. after = << >> => \A q : InPages(ps, q) => q.timestamp < timestamp
        BY DEF IsAfter
      <4> QED
        BY <1>1, <1>3, <3>1, <4>1
    <3>3. PICK p : /\ after = <<p>> /\ InPages(ps, p) /\ timestamp <= p.timestamp
                   /\ \A q : InPages(ps, q) /\ timestamp <= q.timestamp =>
                                p.timestamp <= q.timestamp
      BY <3>2 DEF IsAfter
    <3>4. Selection(timestamp, mode) = <<p>>
      BY <2>1, <2>2, <3>3 DEF Nearest
    <3>5. ASSUME NEW q \in S
          PROVE  /\ Distance(p, timestamp) <= Distance(q, timestamp)
                 /\ Distance(p, timestamp) = Distance(q, timestamp) => p.timestamp <= q.timestamp
      BY <1>1, <1>2, <2>0, <3>1, <3>3
    <3> QED
      BY <2>0, <3>3, <3>4, <3>5 DEF Answers
  <2>3. CASE before # << >>
    <3>1. PICK p : /\ before = <<p>> /\ InPages(ps, p) /\ p.timestamp <= timestamp
                   /\ \A q : InPages(ps, q) /\ q.timestamp <= timestamp =>
                                q.timestamp <= p.timestamp
      BY <2>3 DEF IsBefore
    <3>2. before[1] = p
      BY <3>1
    <3>3. CASE after = << >>
      <4>1. \A q : InPages(ps, q) => q.timestamp < timestamp
        BY <3>3, NoneFound
      <4>2. Selection(timestamp, mode) = <<p>>
        BY <2>1, <2>3, <3>1, <3>3 DEF Nearest
      <4>3. ASSUME NEW q \in S
            PROVE  /\ Distance(p, timestamp) <= Distance(q, timestamp)
                   /\ Distance(p, timestamp) = Distance(q, timestamp) =>
                          p.timestamp <= q.timestamp
        BY <1>1, <1>2, <2>0, <3>1, <4>1
      <4> QED
        BY <2>0, <3>1, <4>2, <4>3 DEF Answers
    <3>4. CASE after # << >>
      <4>1. PICK r : /\ after = <<r>> /\ InPages(ps, r) /\ timestamp <= r.timestamp
                     /\ \A q : InPages(ps, q) /\ timestamp <= q.timestamp =>
                                  r.timestamp <= q.timestamp
        BY <3>4 DEF IsAfter
      <4>2. /\ Selection(timestamp, mode) =
                  IF p.timestamp = timestamp THEN <<p>>
                  ELSE IF Distance(p, timestamp) <= Distance(r, timestamp)
                  THEN <<p>> ELSE <<r>>
        <5>1. Nearest(before, after, timestamp) =
                  IF Distance(p, timestamp) <= Distance(r, timestamp) THEN <<p>> ELSE <<r>>
          BY <2>3, <3>1, <3>4, <4>1 DEF Nearest, Distance
        <5> QED
          BY <2>1, <2>3, <3>1, <3>2, <5>1
      <4>3. ASSUME NEW q \in S
            PROVE  \/ /\ q.timestamp \in Int /\ q.timestamp <= p.timestamp
                      /\ Distance(q, timestamp) = timestamp - q.timestamp
                   \/ /\ q.timestamp \in Int /\ r.timestamp <= q.timestamp
                      /\ Distance(q, timestamp) = q.timestamp - timestamp
        BY <1>1, <1>2, <2>0, <3>1, <4>1
      <4>4. /\ Distance(p, timestamp) = timestamp - p.timestamp
            /\ Distance(r, timestamp) = r.timestamp - timestamp
            /\ p.timestamp \in Int /\ r.timestamp \in Int
        BY <1>1, <1>2, <3>1, <4>1
      <4>5. CASE p.timestamp = timestamp \/ Distance(p, timestamp) <= Distance(r, timestamp)
        <5>1. ASSUME NEW q \in S
              PROVE  /\ Distance(p, timestamp) <= Distance(q, timestamp)
                     /\ Distance(p, timestamp) = Distance(q, timestamp) =>
                            p.timestamp <= q.timestamp
          BY <3>1, <4>1, <4>3, <4>4, <4>5
        <5> QED
          BY <2>0, <3>1, <4>2, <4>5, <5>1 DEF Answers
      <4>6. CASE ~(p.timestamp = timestamp \/ Distance(p, timestamp) <= Distance(r, timestamp))
        <5>1. ASSUME NEW q \in S
              PROVE  /\ Distance(r, timestamp) <= Distance(q, timestamp)
                     /\ Distance(r, timestamp) = Distance(q, timestamp) =>
                            r.timestamp <= q.timestamp
          BY <3>1, <4>1, <4>3, <4>4, <4>6
        <5> QED
          BY <2>0, <4>1, <4>2, <4>6, <5>1 DEF Answers
      <4> QED
        BY <4>5, <4>6
    <3> QED
      BY <3>3, <3>4
  <2> QED
    BY <2>2, <2>3
<1> QED
  BY <1>4, <1>5, <1>6, <1>7 DEF Modes

(* Every lookup on the tree of the pages.                                  *)
LEMMA LookupOnTree ==
    ASSUME pages # << >>, OrderedPages(pages), NEW t, Tree(pages, t, StoredRoot),
           NEW timestamp \in Int, NEW mode \in Modes, NEW limit
    PROVE  LookupPrepared(timestamp, mode, limit) = ReferenceLookup(timestamp, mode, limit)
<1>1. PICK a, b : Reach(pages, timestamp, a, b)
  BY Reached
<1>2. Pile(pages, t)
  BY DEF Tree
<1>3. Sought(pages, t, timestamp, a, b, "predecessor", a)
  BY <1>1, <1>2 DEF Sought, Goal, Directions
<1>4. Sought(pages, t, timestamp, a, b, "successor", b + 1)
  BY <1>1, <1>2 DEF Sought, Goal, Directions
<1>5. PICK before : before = LookupDirectional(timestamp, "predecessor").point
  OBVIOUS
<1>6. PICK after : after = LookupDirectional(timestamp, "successor").point
  OBVIOUS
<1>7. before = IF a \in 1 .. Len(pages)
               THEN LookupPagePoint(pages[a], timestamp, "predecessor") ELSE << >>
  BY <1>3, <1>5, DirectionalAnswer
<1>8. after = IF b + 1 \in 1 .. Len(pages)
              THEN LookupPagePoint(pages[b + 1], timestamp, "successor") ELSE << >>
  BY <1>4, <1>6, DirectionalAnswer
<1>9. IsBefore(pages, timestamp, before)
  BY <1>1, <1>7, BeforeFound
<1>10. IsAfter(pages, timestamp, after)
  BY <1>1, <1>8, AfterFound
<1>11. PICK S : S = Eligible(timestamp, mode)
  OBVIOUS
<1>12. \A p : p \in S <=> /\ InPages(pages, p)
                          /\ mode = "exact" => p.timestamp = timestamp
                          /\ mode = "predecessor" => p.timestamp <= timestamp
                          /\ mode = "successor" => p.timestamp >= timestamp
  BY <1>11, FlattenMembers DEF Eligible, AllPoints, Modes
<1>13. Answers(S, timestamp, Selection(timestamp, mode))
  BY <1>5, <1>6, <1>9, <1>10, <1>12, SelectionAnswers
<1>14. \A p \in S : p.timestamp \in Int
  BY <1>12, PointIn DEF InPages
<1>15. \A p, q \in S : p.timestamp = q.timestamp => p = q
  BY SMTT(30), <1>12, PointsApart DEF InPages
<1> QED
  BY <1>11, <1>13, <1>14, <1>15, AnswerChosen

-----------------------------------------------------------------------------
(* Borrowed pages.                                                         *)

(* The path to a page is that of a lookup at or after the timestamp.       *)
Reaches(f, top, timestamp, m) ==
    f = [depth \in 0 .. m |->
            IF depth = 0 THEN <<top>>
            ELSE LET node == f[depth - 1][1]
                     selected == NodeLowerBound(node, timestamp) + 1
                 IN  IF f[depth - 1] = << >> \/ selected > Len(node.entries)
                     THEN << >> ELSE <<node.entries[selected].child>>]

LEMMA ReachesDown ==
    ASSUME NEW f, NEW top, NEW timestamp, NEW m \in Nat
    PROVE  Reaches(f, top, timestamp, m) <=> GoesDown(f, top, timestamp, "successor", m)
<1> DEFINE Next1(p) == IF p = << >> \/ NodeLowerBound(p[1], timestamp) + 1 > Len(p[1].entries)
                       THEN << >>
                       ELSE <<p[1].entries[NodeLowerBound(p[1], timestamp) + 1].child>>
           Next2(p) == IF p = << >> THEN << >>
                       ELSE IF LookupEntryIndex(p[1], timestamp, "successor") = << >> THEN << >>
                       ELSE <<p[1].entries[LookupEntryIndex(p[1], timestamp, "successor")[1]].child>>
           B1 == [depth \in 0 .. m |-> IF depth = 0 THEN <<top>> ELSE Next1(f[depth - 1])]
           B2 == [depth \in 0 .. m |-> IF depth = 0 THEN <<top>> ELSE Next2(f[depth - 1])]
<1>1. ASSUME NEW p PROVE Next1(p) = Next2(p)
  <2>1. PICK i : i = NodeLowerBound(p[1], timestamp) + 1
    OBVIOUS
  <2>2. PICK c : c = Len(p[1].entries)
    OBVIOUS
  <2>3. LookupEntryIndex(p[1], timestamp, "successor") = IF i > c THEN << >> ELSE <<i>>
    BY <2>1, <2>2 DEF LookupEntryIndex
  <2>4. <<i>> # << >> /\ <<i>>[1] = i
    OBVIOUS
  <2> QED
    BY <2>1, <2>2, <2>3, <2>4
<1>2. Reaches(f, top, timestamp, m) <=> f = B1
  BY DEF Reaches
<1>3. GoesDown(f, top, timestamp, "successor", m) <=> f = B2
  BY DEF GoesDown
<1>4. B1 = B2
  <2> HIDE DEF Next1, Next2
  <2> QED
    BY <1>1
<1> QED
  BY <1>2, <1>3, <1>4

BorrowPath(timestamp) ==
    CHOOSE f : Reaches(f, FirstNode(timestamp, timestamp), timestamp,
                       FirstNode(timestamp, timestamp).level + 1)

LEMMA BorrowUnfolds ==
    ASSUME NEW timestamp, NEW f, f = BorrowPath(timestamp)
    PROVE  FindMappedPage(timestamp) =
              [leaf |-> IF FirstNode(timestamp, timestamp).level > 0
                        THEN f[FirstNode(timestamp, timestamp).level] ELSE << >>,
               page |-> f[FirstNode(timestamp, timestamp).level + 1]]
<1> QED
  BY SMT DEF FindMappedPage, BorrowPath, Reaches

(* What a reader remembers of the tree: its root and one of its leaves.    *)
Remembers(t) ==
    /\ stored # << >> /\ stored[1] = t.E[t.h][1].child
    /\ root = << >> \/ root[1] = stored[1]
    /\ LeafOf(t, active_leaf)

(* The node a borrowing begins in is over the page or its root misses it.  *)
LEMMA FirstNodeHolds ==
    ASSUME NEW ps, NEW t, NEW timestamp, NEW a, NEW b, NEW g,
           Sought(ps, t, timestamp, a, b, "successor", g), Tree(ps, t, stored[1]),
           Remembers(t), NEW top, top = FirstNode(timestamp, timestamp)
    PROVE  \E h \in 1 .. t.h :
              /\ top.level \in Nat /\ top.level + 1 = h
              /\ \/ \E w : Holds(t, h, w, g) /\ top = t.E[h][w].child
                 \/ /\ g \notin 1 .. Len(ps)
                    /\ LookupEntryIndex(top, timestamp, "successor") = << >>
<1>1. /\ Pile(ps, t) /\ OrderedPages(ps) /\ timestamp \in Int /\ Reach(ps, timestamp, a, b)
      /\ g = b + 1 /\ a \in Nat /\ b \in Nat /\ a <= b + 1
  BY DEF Sought, Goal, Reach, OrderedPages
<1>2. t.h \in 1 .. t.h /\ 1 \in 1 .. t.h /\ t.h \in Nat
  BY TraversalAssumption DEF Tree, Pile
<1>3. CASE top = stored[1]
  <2>1. top = t.E[t.h][1].child /\ 1 \in 1 .. t.n[t.h]
    BY <1>3 DEF Remembers, Tree
  <2>2. top.level = t.h - 1
    BY <1>1, <1>2, <2>1, NodeFacts
  <2>3. /\ g \in 1 .. Len(ps) => Holds(t, t.h, 1, g)
        /\ g \notin 1 .. Len(ps) => LookupEntryIndex(top, timestamp, "successor") = << >>
    BY <1>3, TopMisses
  <2>4. top.level \in Nat /\ top.level + 1 = t.h
    BY <1>2, <2>2
  <2> QED
    BY <1>2, <2>1, <2>3, <2>4
<1>4. CASE top # stored[1]
  <2>1. LoadSeriesRoot = stored[1]
    BY DEF LoadSeriesRoot, Remembers
  <2>2. /\ active_leaf # << >> /\ top = active_leaf[1]
        /\ timestamp >= top.summary.timestamp_min /\ timestamp <= top.summary.timestamp_max
    BY <1>4, <2>1 DEF FirstNode
  <2>3. PICK x \in 1 .. t.n[1] : active_leaf = <<t.E[1][x].child>>
    BY <2>2 DEF Remembers, LeafOf
  <2>4. top = t.E[1][x].child
    BY <2>2, <2>3
  <2>5. top.level = 1 - 1 /\ top.summary = t.E[1][x].summary
    BY <1>1, <1>2, <2>4, NodeFacts
  <2>6. /\ top.summary.timestamp_max < timestamp <=> t.Q[1][x] <= b
        /\ ~(top.summary.timestamp_min > timestamp) <=> t.Q[1][x - 1] < a
        /\ t.Q[1][x] \in Nat /\ t.Q[1][x - 1] \in Nat
        /\ top.summary.timestamp_min \in Int /\ top.summary.timestamp_max \in Int
    <3>1. 1 \in 0 .. t.h
      BY <1>2
    <3> QED
      BY <1>1, <2>5, <3>1, EntryFacts
  <2>7. t.Q[1][x - 1] < a /\ ~(t.Q[1][x] <= b)
    BY <1>1, <2>2, <2>6
  <2>8. Holds(t, 1, x, g)
    BY <1>1, <2>6, <2>7 DEF Holds
  <2>9. top.level \in Nat /\ top.level + 1 = 1
    BY <2>5
  <2> QED
    BY <1>2, <2>4, <2>8, <2>9
<1> QED
  BY <1>3, <1>4

LEMMA BorrowOnTree ==
    ASSUME NEW ps, OrderedPages(ps), NEW t, Tree(ps, t, stored[1]), Remembers(t),
           NEW timestamp \in Int, NEW a, NEW b, Reach(ps, timestamp, a, b),
           NEW res, res = FindMappedPage(timestamp)
    PROVE  /\ res.page = IF b + 1 \in 1 .. Len(ps) THEN <<ps[b + 1]>> ELSE << >>
           /\ LeafOf(t, res.leaf)
<1>1. PICK g : g = b + 1
  OBVIOUS
<1>2. Sought(ps, t, timestamp, a, b, "successor", g)
  BY <1>1 DEF Sought, Goal, Directions, Tree
<1>3. PICK top : top = FirstNode(timestamp, timestamp)
  OBVIOUS
<1>4. PICK h \in 1 .. t.h :
         /\ top.level \in Nat /\ top.level + 1 = h
         /\ \/ \E w : Holds(t, h, w, g) /\ top = t.E[h][w].child
            \/ /\ g \notin 1 .. Len(ps)
               /\ LookupEntryIndex(top, timestamp, "successor") = << >>
  BY <1>2, <1>3, FirstNodeHolds
<1>5. h \in Nat /\ h >= 1 /\ 0 \in 0 .. t.h /\ h - h = 0
  BY TraversalAssumption DEF Tree, Pile
<1>6. PICK f : f = BorrowPath(timestamp)
  OBVIOUS
<1>7. GoesDown(f, top, timestamp, "successor", h)
  <2>1. \E p : GoesDown(p, top, timestamp, "successor", h)
    BY <1>5, PathExists
  <2>2. \E p : Reaches(p, FirstNode(timestamp, timestamp), timestamp,
                       FirstNode(timestamp, timestamp).level + 1)
    BY <1>3, <1>4, <1>5, <2>1, ReachesDown
  <2>3. Reaches(f, FirstNode(timestamp, timestamp), timestamp,
                FirstNode(timestamp, timestamp).level + 1)
    BY <1>6, <2>2 DEF BorrowPath
  <2> QED
    BY <1>3, <1>4, <1>5, <2>3, ReachesDown
<1>8. /\ res.page = f[h]
      /\ res.leaf = IF top.level > 0 THEN f[top.level] ELSE << >>
  BY <1>3, <1>4, <1>6, BorrowUnfolds
<1>9. CASE \E w : Holds(t, h, w, g) /\ top = t.E[h][w].child
  <2>1. \A d \in 0 .. h : \E x : Holds(t, h - d, x, g) /\ f[d] = <<t.E[h - d][x].child>>
    <3>1. PICK m \in Nat : m = h /\ m <= h
      BY <1>5
    <3>2. PICK w : Holds(t, h, w, g) /\ top = t.E[h][w].child
      BY <1>9
    <3>3. GoesDown(f, top, timestamp, "successor", m)
      BY <1>7, <3>1
    <3>4. \A d \in 0 .. m : \E x : Holds(t, h - d, x, g) /\ f[d] = <<t.E[h - d][x].child>>
      BY <1>2, <3>1, <3>2, <3>3, PathHolds
    <3> QED
      BY <3>1, <3>4
  <2>2. PICK z : Holds(t, 0, z, g) /\ f[h] = <<t.E[0][z].child>>
    <3>1. h \in 0 .. h
      BY <1>5
    <3> QED
      BY <1>5, <2>1, <3>1
  <2>3. z \in 1 .. Len(ps) /\ z = g
    <3>1. t.n[0] = Len(ps) /\ \A y \in 0 .. Len(ps) : t.Q[0][y] = y
      BY DEF Tree, Pile
    <3>2. z \in 1 .. Len(ps) /\ t.Q[0][z - 1] < g /\ g <= t.Q[0][z]
      BY <2>2, <3>1 DEF Holds
    <3>3. Len(ps) \in Nat /\ g \in Nat
      BY <1>1 DEF OrderedPages, Reach
    <3>4. z - 1 \in 0 .. Len(ps) /\ z \in 0 .. Len(ps)
      BY <3>2, <3>3
    <3>5. z - 1 < g /\ g <= z
      BY <3>1, <3>2, <3>4
    <3> QED
      BY <3>2, <3>3, <3>5
  <2>4. t.E[0][z].child = ps[g]
    <3>1. t.E[0] = PageEntries(ps) /\ DOMAIN ps = 1 .. Len(ps)
      BY DEF Tree, Pile, OrderedPages
    <3> QED
      BY <2>3, <3>1 DEF PageEntries, Entry
  <2>5. res.page = <<ps[g]>>
    BY <1>8, <2>2, <2>4
  <2>6. LeafOf(t, res.leaf)
    <3>1. CASE top.level > 0
      <4>1. PICK d \in 0 .. h : d = top.level /\ h - d = 1
        BY <1>4, <1>5, <3>1
      <4>2. PICK x : Holds(t, h - d, x, g) /\ f[d] = <<t.E[h - d][x].child>>
        BY <2>1
      <4> QED
        BY <1>8, <3>1, <4>1, <4>2 DEF LeafOf, Holds
    <3>2. CASE ~(top.level > 0)
      BY <1>8, <3>2 DEF LeafOf
    <3> QED
      BY <3>1, <3>2
  <2> QED
    BY <1>1, <2>3, <2>5, <2>6
<1>10. CASE /\ g \notin 1 .. Len(ps)
            /\ LookupEntryIndex(top, timestamp, "successor") = << >>
  <2>1. \A d \in 0 .. h : f[d] = IF d = 0 THEN <<top>> ELSE << >>
    BY <1>5, <1>7, <1>10, PathMisses
  <2>2. res.page = << >>
    <3>1. h \in 0 .. h /\ h # 0
      BY <1>5
    <3> QED
      BY <1>8, <2>1, <3>1
  <2>3. res.leaf = << >>
    <3>1. CASE top.level > 0
      <4>1. PICK d \in 0 .. h : d = top.level /\ d # 0
        BY <1>4, <1>5, <3>1
      <4> QED
        BY <1>8, <2>1, <3>1, <4>1
    <3> QED
      BY <1>8, <3>1
  <2> QED
    BY <1>1, <1>10, <2>2, <2>3 DEF LeafOf
<1> QED
  BY <1>4, <1>9, <1>10

(* A page is lent exactly when it covers the timestamp.                    *)
LEMMA BorrowedCovers ==
    ASSUME OrderedPages(pages), NEW t, Tree(pages, t, stored[1]), Remembers(t),
           NEW timestamp \in Int
    PROVE  ToSet(BorrowRawPage(timestamp)) =
               {p \in ToSet(pages) : /\ p[1].timestamp <= timestamp
                                     /\ timestamp <= Last(p).timestamp}
<1>1. PICK n \in Nat : n = Len(pages) /\ DOMAIN pages = 1 .. n
  BY DEF OrderedPages
<1>2. PICK a, b : Reach(pages, timestamp, a, b)
  BY Reached
<1>3. PICK g : g = b + 1
  OBVIOUS
<1>4. a \in 0 .. n /\ b \in 0 .. n /\ g \in Nat /\ b <= a /\ a <= g
  BY <1>1, <1>2, <1>3 DEF Reach
<1>5. PICK found : found = FindMappedPage(timestamp).page
  OBVIOUS
<1>6. found = IF g \in 1 .. n THEN <<pages[g]>> ELSE << >>
  BY <1>1, <1>2, <1>3, <1>5, BorrowOnTree
<1>7. ASSUME NEW k \in 1 .. n
      PROVE  /\ pages[k][1].timestamp \in Int /\ Last(pages[k]).timestamp \in Int
             /\ Last(pages[k]).timestamp < timestamp <=> k <= b
             /\ pages[k][1].timestamp <= timestamp <=> k <= a
  BY <1>1, <1>2, PageEnds DEF Reach
<1>8. ASSUME NEW k \in 1 .. n
      PROVE  pages[k][1].timestamp <= timestamp /\ timestamp <= Last(pages[k]).timestamp
                <=> k = g /\ g <= a
  <2>1. timestamp <= Last(pages[k]).timestamp <=> ~(k <= b)
    BY <1>7
  <2> QED
    BY <1>3, <1>4, <1>7, <2>1
<1>9. PICK S : S = {p \in ToSet(pages) : /\ p[1].timestamp <= timestamp
                                         /\ timestamp <= Last(p).timestamp}
  OBVIOUS
<1>10. \A p : p \in S <=> g \in 1 .. n /\ g <= a /\ p = pages[g]
  <2>1. \A p : p \in ToSet(pages) <=> \E k \in 1 .. n : p = pages[k]
    BY <1>1 DEF ToSet
  <2> QED
    BY <1>8, <1>9, <2>1
<1>11. CASE g \in 1 .. n
  <2>1. found # << >> /\ found[1] = pages[g] /\ found = <<pages[g]>>
    BY <1>6, <1>11
  <2>2. BorrowRawPage(timestamp) = IF g <= a THEN <<pages[g]>> ELSE << >>
    <3>1. /\ timestamp < pages[g][1].timestamp <=> ~(g <= a)
          /\ ~(timestamp > Last(pages[g]).timestamp)
      <4>1. ~(g <= b)
        BY <1>3, <1>4
      <4> QED
        BY <1>7, <1>11, <4>1
    <3> QED
      BY <1>5, <2>1, <3>1 DEF BorrowRawPage
  <2>3. ToSet(<<pages[g]>>) = {pages[g]} /\ ToSet(<< >>) = {}
    BY DEF ToSet
  <2>4. \A p : p \in ToSet(BorrowRawPage(timestamp)) <=> p \in S
    BY <1>10, <1>11, <2>2, <2>3
  <2> QED
    BY <1>9, <2>4
<1>12. CASE g \notin 1 .. n
  <2>1. BorrowRawPage(timestamp) = << >>
    BY <1>5, <1>6, <1>12 DEF BorrowRawPage
  <2>2. ToSet(<< >>) = {} /\ S = {}
    BY <1>10, <1>12 DEF ToSet
  <2> QED
    BY <1>9, <2>1, <2>2
<1> QED
  BY <1>11, <1>12

-----------------------------------------------------------------------------
(* What the walks remember: frames of nodes of the tree, and a leaf of it. *)

TreeNodes(t) == UNION {{t.E[l][x].child : x \in 1 .. t.n[l]} : l \in 1 .. t.h}
FrameSet(t) == [node : TreeNodes(t), next : Nat \ {0}]

LEMMA TreeNode ==
    ASSUME NEW ps, NEW t, Pile(ps, t), NEW node
    PROVE  node \in TreeNodes(t) <=>
               \E l \in 1 .. t.h : \E x \in 1 .. t.n[l] : node = t.E[l][x].child
<1> QED
  BY DEF TreeNodes

(* A node has nodes below it, unless it is a leaf.                         *)
LEMMA NodeStands ==
    ASSUME NEW ps, NEW t, Pile(ps, t), NEW node \in TreeNodes(t)
    PROVE  /\ Len(node.entries) \in Nat /\ DOMAIN node.entries = 1 .. Len(node.entries)
           /\ node.level = 0 => LeafOf(t, <<node>>)
           /\ \A k \in 1 .. Len(node.entries) :
                  node.level # 0 => node.entries[k].child \in TreeNodes(t)
<1>0. PICK l \in 1 .. t.h : \E x \in 1 .. t.n[l] : node = t.E[l][x].child
  BY TreeNode
<1>1. PICK x \in 1 .. t.n[l] : node = t.E[l][x].child
  BY <1>0
<1>2. t.h \in Nat /\ l \in Nat /\ l >= 1 /\ l <= t.h
  BY TraversalAssumption DEF Pile
<1>3. PICK y, z : Part(t, l - 1, y, z, node) /\ node.level = l - 1
  BY <1>1, NodeFacts
<1>4. PICK k \in Nat : k = l - 1
  BY <1>2
<1>5. y \in Nat /\ z \in Nat /\ y < z /\ z <= t.n[k] /\ NodeOver(node, k, t.E[k], y, z)
  BY <1>3, <1>4 DEF Part
<1>6. PICK m \in Nat : m = z - y
  BY <1>5
<1>7. /\ Len(node.entries) = m /\ DOMAIN node.entries = 1 .. m
      /\ \A i \in 1 .. m : node.entries[i] = t.E[k][y + i]
  BY <1>5, <1>6 DEF NodeOver
<1>8. node.level = 0 => LeafOf(t, <<node>>)
  <2>1. node.level = 0 => l = 1
    BY <1>2, <1>3
  <2> QED
    BY <1>1, <2>1 DEF LeafOf
<1>9. ASSUME NEW i \in 1 .. m, node.level # 0 PROVE node.entries[i].child \in TreeNodes(t)
  <2>1. k \in 1 .. t.h
    BY <1>2, <1>3, <1>4, <1>9
  <2>2. t.n[k] \in Nat
    <3>1. k \in 0 .. t.h
      BY <2>1
    <3> QED
      BY <3>1 DEF Pile, Level
  <2>3. y + i \in 1 .. t.n[k]
    BY <1>5, <1>6, <2>2
  <2>4. node.entries[i].child = t.E[k][y + i].child
    BY <1>7
  <2> QED
    BY <2>1, <2>3, <2>4, TreeNode
<1> QED
  BY <1>7, <1>8, <1>9

LEMMA FrameStands ==
    ASSUME NEW ps, NEW t, Pile(ps, t), NEW node \in TreeNodes(t), NEW timestamp
    PROVE  Frame(node, timestamp) \in FrameSet(t)
<1>1. PICK m \in Nat : DOMAIN node.entries = 1 .. m
  BY NodeStands
<1>2. PICK T : T = {i \in DOMAIN node.entries :
                       node.entries[i].summary.timestamp_max < timestamp}
  OBVIOUS
<1>3. IsFiniteSet(1 .. m) /\ T \subseteq 1 .. m
  BY <1>1, <1>2, FS_Interval
<1>4. Cardinality(T) \in Nat
  BY <1>3, FS_Subset, FS_CardinalityType
<1>5. NodeLowerBound(node, timestamp) = Cardinality(T)
  BY <1>2 DEF NodeLowerBound
<1> QED
  BY <1>4, <1>5 DEF Frame, FrameSet

(* The tree's root and its leaves are nodes of it.                         *)
LEMMA RootAndLeaves ==
    ASSUME NEW ps, NEW t, NEW top, Tree(ps, t, top), NEW leaf, LeafOf(t, leaf)
    PROVE  top \in TreeNodes(t) /\ (leaf # << >> => leaf[1] \in TreeNodes(t))
<1>1. Pile(ps, t) /\ t.h \in 1 .. t.h /\ 1 \in 1 .. t.h /\ 1 \in 1 .. t.n[t.h]
  BY TraversalAssumption DEF Tree, Pile
<1>2. top \in TreeNodes(t)
  BY <1>1, TreeNode DEF Tree
<1>3. leaf # << >> => leaf[1] \in TreeNodes(t)
  BY <1>1, TreeNode DEF LeafOf
<1> QED
  BY <1>2, <1>3

(* The frame at the end of a stack moves on, and nothing else.             *)
LEMMA FrameMoved ==
    ASSUME NEW t, NEW s \in Seq(FrameSet(t)), s # << >>, NEW k \in Nat \ {0},
           NEW r, r = [s EXCEPT ![Len(s)].next = k]
    PROVE  /\ r \in Seq(FrameSet(t)) /\ r # << >> /\ Last(r).node = Last(s).node
           /\ Last(r).next = k
<1>1. PICK F : F = FrameSet(t)
  OBVIOUS
<1>2. PICK m \in Nat : m = Len(s) /\ m >= 1
  BY <1>1
<1>3. s[m] \in F
  BY <1>1, <1>2
<1>4. PICK v : v = [s[m] EXCEPT !.next = k]
  OBVIOUS
<1>5. v \in F /\ v.node = s[m].node /\ v.next = k
  BY <1>1, <1>3, <1>4 DEF FrameSet
<1>6. r = [s EXCEPT ![m] = v]
  BY <1>2, <1>4
<1>7. r \in Seq(F) /\ Len(r) = m /\ r[m] = v
  BY <1>1, <1>2, <1>5, <1>6
<1>8. Last(r) = v /\ Last(s) = s[m] /\ r # << >>
  BY <1>2, <1>7 DEF Last
<1> QED
  BY <1>1, <1>5, <1>7, <1>8

-----------------------------------------------------------------------------
(* The walk of a range and of an aggregate.                                *)

WalkOk(t, w) ==
    /\ DOMAIN w = {"frames", "gathered", "over", "leaf"}
    /\ w.frames \in Seq(FrameSet(t)) /\ LeafOf(t, w.leaf)

LEMMA Gathers ==
    ASSUME NEW t, NEW w, WalkOk(t, w), NEW g, NEW v, v = [w EXCEPT !.gathered = g]
    PROVE  WalkOk(t, v) /\ v.frames = w.frames
<1> QED
  BY DEF WalkOk

LEMMA FirstWalk ==
    ASSUME NEW ps, NEW t, Pile(ps, t), NEW node \in TreeNodes(t), NEW timestamp, NEW g
    PROVE  WalkOk(t, Walk(node, timestamp, g))
<1>1. Frame(node, timestamp) \in FrameSet(t)
  BY FrameStands
<1>2. <<Frame(node, timestamp)>> \in Seq(FrameSet(t))
  BY <1>1
<1> QED
  BY <1>2 DEF Walk, WalkOk, LeafOf

LEMMA GoesUp ==
    ASSUME NEW t, NEW w, WalkOk(t, w), w.frames # << >>
    PROVE  WalkOk(t, Up(w))
<1>1. Front(w.frames) \in Seq(FrameSet(t))
  BY FrontLast DEF WalkOk
<1> QED
  BY <1>1 DEF WalkOk, Up

LEMMA GoesPast ==
    ASSUME NEW t, NEW w, WalkOk(t, w), w.frames # << >>
    PROVE  /\ WalkOk(t, Past(w)) /\ Past(w).frames # << >>
           /\ Last(Past(w).frames).node = Last(w.frames).node
<1>1. PICK s \in Seq(FrameSet(t)) : s = w.frames /\ s # << >>
  BY DEF WalkOk
<1>2. Last(s) \in FrameSet(t) /\ Last(s) = s[Len(s)]
  BY <1>1, FrontLast
<1>3. PICK k \in Nat \ {0} : k = s[Len(s)].next + 1
  BY <1>2 DEF FrameSet
<1>4. PICK r : r = [s EXCEPT ![Len(s)].next = k]
  OBVIOUS
<1>5. r \in Seq(FrameSet(t)) /\ r # << >> /\ Last(r).node = Last(s).node
  BY <1>1, <1>4, FrameMoved
<1>6. Past(w) = [w EXCEPT !.frames = r]
  BY <1>1, <1>3, <1>4 DEF Past, WalkOk
<1> QED
  BY <1>1, <1>5, <1>6 DEF WalkOk

LEMMA Leaves ==
    ASSUME NEW ps, NEW t, Pile(ps, t), NEW w, WalkOk(t, w), w.frames # << >>
    PROVE  WalkOk(t, Leave(w))
<1>1. PICK s \in Seq(FrameSet(t)) : s = w.frames /\ s # << >>
  BY DEF WalkOk
<1>2. Last(s).node \in TreeNodes(t)
  <2>1. PICK F : F = FrameSet(t)
    OBVIOUS
  <2>2. Last(s) \in F
    BY <1>1, <2>1, FrontLast
  <2> QED
    BY <2>1, <2>2 DEF FrameSet
<1>3. PICK k \in Nat \ {0} : k = Len(Last(s).node.entries) + 1
  BY <1>2, NodeStands
<1>4. PICK r : r = [s EXCEPT ![Len(s)].next = k]
  OBVIOUS
<1>5. r \in Seq(FrameSet(t))
  BY <1>1, <1>4, FrameMoved
<1>6. Leave(w) = [w EXCEPT !.frames = r]
  BY <1>1, <1>3, <1>4 DEF Leave, WalkOk
<1> QED
  BY <1>1, <1>5, <1>6 DEF WalkOk

LEMMA GoesInto ==
    ASSUME NEW ps, NEW t, Pile(ps, t), NEW w, WalkOk(t, w), NEW node \in TreeNodes(t),
           NEW timestamp
    PROVE  WalkOk(t, Down(w, node, timestamp))
<1>1. Frame(node, timestamp) \in FrameSet(t)
  BY FrameStands
<1>2. Append(w.frames, Frame(node, timestamp)) \in Seq(FrameSet(t))
  BY <1>1 DEF WalkOk
<1>3. LeafOf(t, IF node.level = 0 THEN <<node>> ELSE w.leaf)
  BY NodeStands DEF WalkOk
<1> QED
  BY <1>2, <1>3 DEF WalkOk, Down

(* The steps a walk may take, whatever it gathers.                         *)
Steps(w, v) ==
    \/ v = w
    \/ /\ w.frames # << >>
       /\ \/ v = Up(w)
          \/ \E p, g :
                /\ p = [Past(w) EXCEPT !.gathered = g]
                /\ \/ v = p
                   \/ v = Leave(p)
                   \/ \E h : v = [p EXCEPT !.gathered = h]
                   \/ LET frame == Last(w.frames) IN
                      /\ ~(frame.next > Len(frame.node.entries)) /\ frame.node.level # 0
                      /\ \E s : v = Down(p, frame.node.entries[frame.next].child, s)

LEMMA StepsKeep ==
    ASSUME NEW ps, NEW t, Pile(ps, t), NEW w, WalkOk(t, w), NEW v, Steps(w, v)
    PROVE  WalkOk(t, v)
<1>1. CASE v = w
  BY <1>1
<1>2. CASE w.frames # << >> /\ v = Up(w)
  BY <1>2, GoesUp
<1>3. ASSUME w.frames # << >>, NEW p, NEW g, p = [Past(w) EXCEPT !.gathered = g]
      PROVE  /\ WalkOk(t, p) /\ p.frames # << >> /\ Last(p.frames).node = Last(w.frames).node
             /\ WalkOk(t, Leave(p)) /\ \A h : WalkOk(t, [p EXCEPT !.gathered = h])
  <2>1. /\ WalkOk(t, Past(w)) /\ Past(w).frames # << >>
        /\ Last(Past(w).frames).node = Last(w.frames).node
    BY <1>3, GoesPast
  <2>2. WalkOk(t, p) /\ p.frames = Past(w).frames
    BY <1>3, <2>1, Gathers
  <2>3. WalkOk(t, Leave(p))
    BY <2>1, <2>2, Leaves
  <2>4. \A h : WalkOk(t, [p EXCEPT !.gathered = h])
    BY <2>2, Gathers
  <2> QED
    BY <2>1, <2>2, <2>3, <2>4
<1>4. ASSUME w.frames # << >>, NEW p, NEW g, p = [Past(w) EXCEPT !.gathered = g],
             NEW frame, frame = Last(w.frames), NEW s,
             ~(frame.next > Len(frame.node.entries)), frame.node.level # 0,
             v = Down(p, frame.node.entries[frame.next].child, s)
      PROVE  WalkOk(t, v)
  <2>1. frame \in FrameSet(t)
    BY <1>4, FrontLast DEF WalkOk
  <2>2. frame.node \in TreeNodes(t) /\ frame.next \in Nat \ {0}
    BY <2>1 DEF FrameSet
  <2>3. PICK m \in Nat : m = Len(frame.node.entries)
    BY <2>2, NodeStands
  <2>4. frame.next \in 1 .. m
    BY <1>4, <2>2, <2>3
  <2>5. frame.node.entries[frame.next].child \in TreeNodes(t)
    BY <1>4, <2>2, <2>3, <2>4, NodeStands
  <2> QED
    BY <1>3, <1>4, <2>5, GoesInto
<1>5. CASE w.frames # << >> /\ v # Up(w) /\ v # w
  <2>1. PICK p, g :
            /\ p = [Past(w) EXCEPT !.gathered = g]
            /\ \/ v = p
               \/ v = Leave(p)
               \/ \E h : v = [p EXCEPT !.gathered = h]
               \/ LET frame == Last(w.frames) IN
                  /\ ~(frame.next > Len(frame.node.entries)) /\ frame.node.level # 0
                  /\ \E s : v = Down(p, frame.node.entries[frame.next].child, s)
    BY <1>5 DEF Steps
  <2>2. CASE v = p \/ v = Leave(p) \/ \E h : v = [p EXCEPT !.gathered = h]
    BY ZenonT(30), <1>3, <1>5, <2>1, <2>2
  <2>3. CASE LET frame == Last(w.frames) IN
             /\ ~(frame.next > Len(frame.node.entries)) /\ frame.node.level # 0
             /\ \E s : v = Down(p, frame.node.entries[frame.next].child, s)
    BY <1>4, <1>5, <2>1, <2>3
  <2> QED
    BY <2>1, <2>2, <2>3
<1> QED
  BY <1>1, <1>2, <1>5 DEF Steps

(* One step of the walk of a range, of an aggregate.                       *)
RangeStep(start, end, mode, capacity, w) ==
    LET Start(g) == start
        Classify(g, s) ==
            IF ~mapped /\ s.timestamp_max < start THEN "skip"
            ELSE IF s.timestamp_min > end THEN "leave"
            ELSE IF /\ SummarizesCovered(mode, g.matches, capacity)
                    /\ s.timestamp_min >= start
                    /\ s.timestamp_max <= end
            THEN "merge" ELSE "enter"
        Merge(g, s) == [g EXCEPT !.matches = @ + s.point_count]
        Read(g, page) ==
            LET found == PointsBetween(page, start, end)
                room == capacity - Min({g.matches, capacity})
                wanted == CASE mode = "count" -> 0
                            [] mode = "copy" -> Min({room, Len(found)})
                            [] mode = "file" -> Len(found)
            IN  [matches |-> g.matches + Len(found),
                 output |-> g.output \o SubSeq(found, 1, wanted)]
    IN  WalkStep(w, Start, Unmoved, Classify, Merge, Read)

AggregateStep(start, end, w) ==
    LET Start(g) == start
        Classify(g, s) ==
            IF ~mapped /\ s.timestamp_max < start THEN "skip"
            ELSE IF s.timestamp_min > end THEN "leave"
            ELSE IF s.timestamp_min >= start /\ s.timestamp_max <= end
            THEN "merge" ELSE "enter"
        Read(g, page) ==
            FoldLeft(LAMBDA a, p : MergeAggregateValue(a, p.value), g,
                     PointsBetween(page, start, end))
    IN  WalkStep(w, Start, Unmoved, Classify, MergeAggregateSummary, Read)

RangeStepped(f, start, end, mode, capacity, node) ==
    f = [n \in 0 .. StepsMax(node) |->
            IF n = 0 THEN Walk(node, start, [matches |-> 0, output |-> << >>])
            ELSE RangeStep(start, end, mode, capacity, f[n - 1])]

RangeWalk(start, end, mode, capacity) ==
    CHOOSE f : RangeStepped(f, start, end, mode, capacity, QueryNode(start, end))

AggregateStepped(f, start, end, node) ==
    f = [n \in 0 .. StepsMax(node) |->
            IF n = 0 THEN Walk(node, start, NoAggregate)
            ELSE AggregateStep(start, end, f[n - 1])]

AggregateWalk(start, end) ==
    CHOOSE f : AggregateStepped(f, start, end, QueryNode(start, end))

LEMMA RangeUnfolds ==
    ASSUME NEW start, NEW end, NEW mode, NEW capacity,
           NEW f, f = RangeWalk(start, end, mode, capacity)
    PROVE  RangePrepared(start, end, mode, capacity).leaf
               \in {<< >>, f[StepsMax(QueryNode(start, end))].leaf}
<1> QED
  BY ZenonT(60) DEF RangePrepared, WalkAll, WalkStep, RangeWalk, RangeStepped, RangeStep

LEMMA AggregateUnfolds ==
    ASSUME NEW start, NEW end, NEW f, f = AggregateWalk(start, end)
    PROVE  AggregatePrepared(start, end).leaf
               \in {<< >>, f[StepsMax(QueryNode(start, end))].leaf}
<1> QED
  BY ZenonT(60) DEF AggregatePrepared, WalkAll, WalkStep, AggregateWalk, AggregateStepped, AggregateStep

LEMMA RangeSteps ==
    ASSUME NEW start, NEW end, NEW mode, NEW capacity, NEW w
    PROVE  Steps(w, RangeStep(start, end, mode, capacity, w))
<1> QED
  BY ZenonT(60) DEF RangeStep, WalkStep, Steps

LEMMA AggregateSteps ==
    ASSUME NEW start, NEW end, NEW w
    PROVE  Steps(w, AggregateStep(start, end, w))
<1> QED
  BY ZenonT(60) DEF AggregateStep, WalkStep, Steps

CursorCall(f, c, capacity) ==
    f = [n \in 0 .. 2 * StepsMax(LoadSeriesRoot) |->
            IF n = 0
            THEN [copied |-> << >>, leaf |-> << >>,
                  cursor |-> IF c.initialized THEN c
                             ELSE [c EXCEPT !.initialized = TRUE,
                                            !.frames = <<Frame(LoadSeriesRoot, c.next_timestamp)>>]]
            ELSE CursorRound(f[n - 1], capacity)]

CursorRounds(c, capacity) == CHOOSE f : CursorCall(f, c, capacity)

LEMMA CursorUnfolds ==
    ASSUME NEW c, NEW capacity, NEW f, f = CursorRounds(c, capacity)
    PROVE  CursorNextMapped(c, capacity) = f[2 * StepsMax(LoadSeriesRoot)]
<1> QED
  BY ZenonT(60) DEF CursorNextMapped, CursorRounds, CursorCall

LEMMA TallyGrows ==
    ASSUME NEW ps, Len(ps) \in Nat, \A p \in 1 .. Len(ps) : Len(ps[p]) \in Nat,
           NEW C, Tally(ps, C), NEW a \in 0 .. Len(ps), NEW b \in 0 .. Len(ps), a <= b
    PROVE  C[b] - C[a] \in Nat
<1>1. PICK m \in Nat : m = Len(ps)
  OBVIOUS
<1> DEFINE T == {j \in 0 .. m : \A i \in 0 .. j : C[i] <= C[j]}
<1>2. \A j \in 0 .. m : C[j] \in Nat
  BY <1>1 DEF Tally
<1>3. 0 \in T
  BY <1>2
<1>4. ASSUME NEW n \in 0 .. m, n # m, n \in T PROVE n + 1 \in T
  <2>1. PICK k \in 1 .. m : k = n + 1 /\ k - 1 = n /\ k \in 0 .. m
    BY <1>1, <1>4
  <2>2. C[k] = C[n] + Len(ps[k]) /\ Len(ps[k]) \in Nat
    BY <1>1, <2>1 DEF Tally
  <2>3. C[n] \in Nat /\ C[k] \in Nat /\ C[n] <= C[k]
    BY <1>2, <2>1, <2>2
  <2>4. ASSUME NEW i \in 0 .. k PROVE C[i] <= C[k]
    <3>1. CASE i = k
      BY <2>3, <3>1
    <3>2. CASE i # k
      <4>1. i \in 0 .. n /\ i \in 0 .. m
        BY <2>1, <3>2
      <4>2. C[i] <= C[n] /\ C[i] \in Nat
        BY <1>2, <1>4, <4>1
      <4> QED
        BY <2>3, <4>2
    <3> QED
      BY <3>1, <3>2
  <2> QED
    BY <2>1, <2>4
<1> HIDE DEF T
<1>5. b \in T
  BY <1>1, <1>3, <1>4, Induction
<1>6. C[a] <= C[b]
  <2>1. a \in 0 .. b
    OBVIOUS
  <2> QED
    BY <1>5, <2>1 DEF T
<1> QED
  BY <1>1, <1>2, <1>6

(* A walk has a number of steps.                                           *)
LEMMA StepsCounted ==
    ASSUME NEW ps, OrderedPages(ps), NEW t, Pile(ps, t), NEW node \in TreeNodes(t)
    PROVE  StepsMax(node) \in Nat
<1>0. PICK l \in 1 .. t.h : \E x \in 1 .. t.n[l] : node = t.E[l][x].child
  BY TreeNode
<1>1. PICK x \in 1 .. t.n[l] : node = t.E[l][x].child
  BY <1>0
<1>2. node.summary = t.E[l][x].summary
  BY <1>1, NodeFacts
<1>3. Level(ps, t, l) /\ Tally(ps, t.C)
  <2>1. l \in 0 .. t.h
    OBVIOUS
  <2> QED
    BY <2>1 DEF Pile
<1>4. PICK C, a, b : C = t.C /\ a = t.Q[l][x - 1] /\ b = t.Q[l][x]
  OBVIOUS
<1>5. node.summary.point_count = C[b] - C[a]
  BY <1>2, <1>3, <1>4 DEF Level, Spans
<1>6. a \in 0 .. Len(ps) /\ b \in 0 .. Len(ps) /\ a <= b
  <2>1. Cuts(t.Q[l], t.n[l], Len(ps))
    BY <1>3 DEF Level
  <2>2. x - 1 \in 0 .. t.n[l] /\ x \in 0 .. t.n[l]
    BY <2>1, CutValues
  <2>3. t.Q[l][x - 1] \in 0 .. Len(ps) /\ t.Q[l][x] \in 0 .. Len(ps) /\ t.Q[l][x - 1] < t.Q[l][x]
    BY <2>1, <2>2, CutValues
  <2>4. Len(ps) \in Nat
    BY DEF OrderedPages
  <2> QED
    BY <1>4, <2>3, <2>4
<1>7. Len(ps) \in Nat /\ \A p \in 1 .. Len(ps) : Len(ps[p]) \in Nat
  BY DEF OrderedPages
<1>8. C[b] - C[a] \in Nat
  BY <1>3, <1>4, <1>6, <1>7, TallyGrows
<1> QED
  BY <1>5, <1>8, TraversalAssumption DEF StepsMax

-----------------------------------------------------------------------------
(* The steps of a query one after the other.                               *)

Stepped(q, w) ==
    CASE q.kind = "range" -> RangeStep(q.start, q.end, q.mode, q.capacity, w)
      [] q.kind = "aggregate" -> AggregateStep(q.start, q.end, w)
      [] q.kind = "cursor" -> CursorRound(w, q.capacity)

Repeats(f, first, q, m) ==
    f = [n \in 0 .. m |-> IF n = 0 THEN first ELSE Stepped(q, f[n - 1])]

LEMMA RepeatsExists ==
    ASSUME NEW first, NEW q, NEW m \in Nat
    PROVE  \E f : Repeats(f, first, q, m)
<1> DEFINE T == {k \in 0 .. m : \E f : Repeats(f, first, q, k)}
<1>1. 0 \in T
  <2>1. PICK f : f = [n \in 0 .. 0 |-> first]
    OBVIOUS
  <2>2. Repeats(f, first, q, 0)
    BY <2>1 DEF Repeats
  <2> QED
    BY <2>2
<1>2. ASSUME NEW n \in 0 .. m, n # m, n \in T PROVE n + 1 \in T
  <2>1. PICK f : Repeats(f, first, q, n)
    BY <1>2
  <2>2. PICK k \in Nat : k = n + 1 /\ k \in 0 .. m
    BY <1>2
  <2>3. PICK v : v = Stepped(q, f[n])
    OBVIOUS
  <2>4. PICK g : g = [i \in 0 .. k |-> IF i = k THEN v ELSE f[i]]
    OBVIOUS
  <2>5. ASSUME NEW i \in 0 .. n
        PROVE  /\ g[i] = f[i] /\ i \in 0 .. k
               /\ f[i] = IF i = 0 THEN first ELSE Stepped(q, f[i - 1])
    BY <2>1, <2>2, <2>4 DEF Repeats
  <2>6. ASSUME NEW i \in 0 .. k
        PROVE  g[i] = IF i = 0 THEN first ELSE Stepped(q, g[i - 1])
    <3>1. CASE i = k
      <4>1. i # 0 /\ i - 1 = n /\ n \in 0 .. n
        BY <2>2, <3>1
      <4>2. g[n] = f[n] /\ g[i] = v
        BY <2>4, <2>5, <3>1, <4>1
      <4> QED
        BY <2>3, <3>1, <4>1, <4>2
    <3>2. CASE i # k /\ i = 0
      <4>1. 0 \in 0 .. n
        OBVIOUS
      <4> QED
        BY <2>5, <3>2, <4>1
    <3>3. CASE i # k /\ i # 0
      <4>1. i \in 0 .. n /\ i - 1 \in 0 .. n
        BY <2>2, <3>3
      <4>2. g[i] = f[i] /\ g[i - 1] = f[i - 1]
        BY <2>5, <4>1
      <4> QED
        BY <2>5, <3>3, <4>1, <4>2
    <3> QED
      BY <3>1, <3>2, <3>3
  <2>7. g = [i \in 0 .. k |-> g[i]]
    BY <2>4
  <2>8. Repeats(g, first, q, k)
    BY <2>6, <2>7 DEF Repeats
  <2> QED
    BY <2>2, <2>8
<1> HIDE DEF T
<1>3. m \in T
  BY <1>1, <1>2, Induction
<1> QED
  BY <1>3 DEF T

LEMMA RepeatsUnfold ==
    ASSUME NEW f, NEW first, NEW q, NEW m \in Nat, Repeats(f, first, q, m)
    PROVE  /\ 0 \in 0 .. m /\ m \in 0 .. m /\ f[0] = first
           /\ \A n \in 0 .. m : n # m =>
                  n + 1 \in 0 .. m /\ f[n + 1] = Stepped(q, f[n])
<1>1. 0 \in 0 .. m /\ m \in 0 .. m
  OBVIOUS
<1>2. f[0] = first
  BY <1>1 DEF Repeats
<1>3. ASSUME NEW n \in 0 .. m, n # m
      PROVE  n + 1 \in 0 .. m /\ f[n + 1] = Stepped(q, f[n])
  <2>1. PICK k \in 0 .. m : k = n + 1 /\ k # 0 /\ k - 1 = n
    BY <1>3
  <2>2. f[k] = Stepped(q, f[n])
    BY <2>1 DEF Repeats
  <2> QED
    BY <2>1, <2>2
<1> QED
  BY <1>1, <1>2, <1>3

-----------------------------------------------------------------------------
(* A walk ends in a leaf that it entered, or in none.                      *)

LEMMA WalkEnds ==
    ASSUME NEW ps, NEW t, Pile(ps, t), NEW first, WalkOk(t, first),
           NEW q, q.kind \in {"range", "aggregate"}, NEW m \in Nat,
           NEW f, Repeats(f, first, q, m)
    PROVE  LeafOf(t, f[m].leaf)
<1> DEFINE T == {n \in 0 .. m : WalkOk(t, f[n])}
<1>1. 0 \in T
  BY RepeatsUnfold
<1>2. ASSUME NEW n \in 0 .. m, n # m, n \in T PROVE n + 1 \in T
  <2>1. PICK w : w = f[n] /\ WalkOk(t, w)
    BY <1>2
  <2>2. PICK v : v = Stepped(q, w) /\ v = f[n + 1] /\ n + 1 \in 0 .. m
    BY <1>2, <2>1, RepeatsUnfold
  <2>3. Steps(w, v)
    BY <2>2, RangeSteps, AggregateSteps DEF Stepped
  <2>4. WalkOk(t, v)
    BY <2>1, <2>3, StepsKeep
  <2> QED
    BY <2>2, <2>4
<1> HIDE DEF T
<1>3. m \in T
  BY <1>1, <1>2, Induction
<1> QED
  BY <1>3 DEF T, WalkOk

LEMMA QueryNodeStands ==
    ASSUME NEW t, Tree(pages, t, stored[1]), Remembers(t), NEW start, NEW end
    PROVE  /\ Pile(pages, t) /\ QueryNode(start, end) \in TreeNodes(t)
           /\ LoadSeriesRoot = stored[1] /\ LoadSeriesRoot \in TreeNodes(t)
<1>1. LoadSeriesRoot = stored[1]
  BY DEF LoadSeriesRoot, Remembers
<1>2. stored[1] \in TreeNodes(t) /\ (active_leaf # << >> => active_leaf[1] \in TreeNodes(t))
  BY RootAndLeaves DEF Remembers
<1> QED
  BY <1>1, <1>2 DEF Tree, QueryNode, FirstNode

LEMMA RangeLeaf ==
    ASSUME OrderedPages(pages), NEW t, Tree(pages, t, stored[1]), Remembers(t),
           NEW start, NEW end, NEW mode, NEW capacity
    PROVE  LeafOf(t, RangePrepared(start, end, mode, capacity).leaf)
<1>1. PICK node : node = QueryNode(start, end)
  OBVIOUS
<1>2. Pile(pages, t) /\ node \in TreeNodes(t)
  BY <1>1, QueryNodeStands
<1>3. PICK m \in Nat : m = StepsMax(node)
  BY <1>2, StepsCounted
<1>4. PICK first : first = Walk(node, start, [matches |-> 0, output |-> << >>])
  OBVIOUS
<1>5. WalkOk(t, first)
  BY <1>2, <1>4, FirstWalk
<1>6. PICK q : q = [kind |-> "range", start |-> start, end |-> end, mode |-> mode,
                    capacity |-> capacity]
  OBVIOUS
<1>7. /\ q.kind = "range" /\ q.start = start /\ q.end = end /\ q.mode = mode
      /\ q.capacity = capacity
  BY <1>6
<1>8. \A w : Stepped(q, w) = RangeStep(start, end, mode, capacity, w)
  BY <1>7 DEF Stepped
<1>9. \A f : RangeStepped(f, start, end, mode, capacity, node) <=> Repeats(f, first, q, m)
  BY <1>3, <1>4, <1>8 DEF RangeStepped, Repeats
<1>10. PICK f : f = RangeWalk(start, end, mode, capacity)
  OBVIOUS
<1>11. Repeats(f, first, q, m)
  <2>1. \E g : RangeStepped(g, start, end, mode, capacity, node)
    BY <1>9, RepeatsExists
  <2>2. RangeStepped(f, start, end, mode, capacity, node)
    BY <1>1, <1>10, <2>1 DEF RangeWalk
  <2> QED
    BY <1>9, <2>2
<1>12. LeafOf(t, f[m].leaf)
  BY <1>2, <1>5, <1>7, <1>11, WalkEnds
<1>13. RangePrepared(start, end, mode, capacity).leaf \in {<< >>, f[m].leaf}
  BY <1>1, <1>3, <1>10, RangeUnfolds
<1> QED
  BY <1>12, <1>13 DEF LeafOf

LEMMA AggregateLeaf ==
    ASSUME OrderedPages(pages), NEW t, Tree(pages, t, stored[1]), Remembers(t),
           NEW start, NEW end
    PROVE  LeafOf(t, AggregatePrepared(start, end).leaf)
<1>1. PICK node : node = QueryNode(start, end)
  OBVIOUS
<1>2. Pile(pages, t) /\ node \in TreeNodes(t)
  BY <1>1, QueryNodeStands
<1>3. PICK m \in Nat : m = StepsMax(node)
  BY <1>2, StepsCounted
<1>4. PICK first : first = Walk(node, start, NoAggregate)
  OBVIOUS
<1>5. WalkOk(t, first)
  BY <1>2, <1>4, FirstWalk
<1>6. PICK q : q = [kind |-> "aggregate", start |-> start, end |-> end]
  OBVIOUS
<1>7. q.kind = "aggregate" /\ q.start = start /\ q.end = end
  BY <1>6
<1>8. \A w : Stepped(q, w) = AggregateStep(start, end, w)
  BY <1>7 DEF Stepped
<1>9. \A f : AggregateStepped(f, start, end, node) <=> Repeats(f, first, q, m)
  BY <1>3, <1>4, <1>8 DEF AggregateStepped, Repeats
<1>10. PICK f : f = AggregateWalk(start, end)
  OBVIOUS
<1>11. Repeats(f, first, q, m)
  <2>1. \E g : AggregateStepped(g, start, end, node)
    BY <1>9, RepeatsExists
  <2>2. AggregateStepped(f, start, end, node)
    BY <1>1, <1>10, <2>1 DEF AggregateWalk
  <2> QED
    BY <1>9, <2>2
<1>12. LeafOf(t, f[m].leaf)
  BY <1>2, <1>5, <1>7, <1>11, WalkEnds
<1>13. AggregatePrepared(start, end).leaf \in {<< >>, f[m].leaf}
  BY <1>1, <1>3, <1>10, AggregateUnfolds
<1> QED
  BY <1>12, <1>13 DEF LeafOf

-----------------------------------------------------------------------------
(* A cursor of this generation keeps its place in the tree.                *)

CursorFields ==
    {"generation", "next_timestamp", "end", "complete", "initialized", "frames",
     "current_page", "point_index"}

CursorOk(t, c, g) ==
    /\ DOMAIN c = CursorFields /\ c.generation = g
    /\ c.frames \in Seq(FrameSet(t))

CallOk(t, st, g) ==
    /\ DOMAIN st = {"copied", "leaf", "cursor"}
    /\ LeafOf(t, st.leaf) /\ CursorOk(t, st.cursor, g)

(* Reading a page moves no frame.                                          *)
LEMMA CopyKeeps ==
    ASSUME NEW t, NEW c, NEW g, CursorOk(t, c, g), NEW copied, NEW capacity
    PROVE  CursorOk(t, CopyFromPage(c, copied, capacity).cursor, g)
<1> DEFINE page == c.current_page[1]
           stop == Min({capacity - Len(copied), Len(page) - c.point_index})
           taken == SelectSeq(SubSeq(page, c.point_index + 1, c.point_index + stop),
                              LAMBDA p : p.timestamp <= c.end)
           reached == c.point_index + Len(taken)
           at_end == \/ Len(taken) < stop
                     \/ taken # << >> /\ Last(taken).timestamp = TimestampMax
           rest == IF at_end \/ reached = Len(page) THEN << >> ELSE c.current_page
           d == [c EXCEPT !.point_index = reached, !.complete = at_end, !.current_page = rest]
           e == [d EXCEPT !.next_timestamp = Last(taken).timestamp + 1]
<1>1. CopyFromPage(c, copied, capacity).cursor \in {d, e}
  BY ZenonT(60) DEF CopyFromPage
<1>2. CursorOk(t, d, g)
  <2> HIDE DEF reached, at_end, rest
  <2> QED
    BY DEF CursorOk, CursorFields
<1>3. CursorOk(t, e, g)
  <2> HIDE DEF d, taken
  <2> QED
    BY <1>2 DEF CursorOk, CursorFields
<1> QED
  BY <1>1, <1>2, <1>3

LEMMA RoundKeeps ==
    ASSUME NEW ps, NEW t, Pile(ps, t), NEW st, NEW g, CallOk(t, st, g), NEW capacity
    PROVE  CallOk(t, CursorRound(st, capacity), g)
<1>1. PICK c : c = st.cursor /\ CursorOk(t, c, g)
  BY DEF CallOk
<1>2. PICK v : v = CursorRound(st, capacity)
  OBVIOUS
<1>3. PICK F : F = FrameSet(t)
  OBVIOUS
<1>4. PICK s \in Seq(F) : s = c.frames
  BY <1>1, <1>3 DEF CursorOk
<1>5. CASE CallEnds(st, capacity)
  <2>1. v = st
    BY <1>2, <1>5 DEF CursorRound
  <2> QED
    BY <1>2, <2>1
<1>6. CASE ~CallEnds(st, capacity) /\ c.current_page # << >>
  <2>1. PICK copy : copy = CopyFromPage(c, st.copied, capacity)
    OBVIOUS
  <2>2. CursorOk(t, copy.cursor, g)
    BY <1>1, <2>1, CopyKeeps
  <2>3. v = [st EXCEPT !.copied = copy.copied, !.cursor = copy.cursor]
    BY <1>1, <1>2, <1>6, <2>1 DEF CursorRound
  <2> QED
    BY <1>2, <2>2, <2>3 DEF CallOk
<1>7. CASE ~CallEnds(st, capacity) /\ c.current_page = << >> /\ s = << >>
  <2>1. v = [st EXCEPT !.cursor.complete = TRUE]
    BY <1>1, <1>2, <1>4, <1>7 DEF CursorRound
  <2> QED
    BY <1>1, <1>2, <2>1 DEF CallOk, CursorOk, CursorFields
<1>8. CASE ~CallEnds(st, capacity) /\ c.current_page = << >> /\ s # << >>
  <2>1. PICK frame : frame = Last(s)
    OBVIOUS
  <2>2. frame \in F /\ frame = s[Len(s)]
    BY <1>4, <1>8, <2>1, FrontLast
  <2>3. frame.node \in TreeNodes(t) /\ frame.next \in Nat \ {0}
    BY <1>3, <2>2 DEF FrameSet
  <2>4. PICK entry : entry = frame.node.entries[frame.next]
    OBVIOUS
  <2>5. PICK past : past = [c EXCEPT !.frames[Len(s)].next = frame.next + 1]
    OBVIOUS
  <2>6. PICK r : r = [s EXCEPT ![Len(s)].next = frame.next + 1]
    OBVIOUS
  <2>7. r \in Seq(F)
    <3>1. PICK k \in Nat \ {0} : k = frame.next + 1
      BY <2>3
    <3> QED
      BY <1>3, <1>4, <1>8, <2>6, <3>1, FrameMoved
  <2>8. CursorOk(t, past, g) /\ past.frames = r
    <3>1. past = [c EXCEPT !.frames = r]
      BY <1>1, <1>4, <2>5, <2>6 DEF CursorOk, CursorFields
    <3> QED
      BY <1>1, <1>3, <2>7, <3>1 DEF CursorOk, CursorFields
  <2>9. past = [c EXCEPT !.frames[Len(c.frames)].next = @ + 1]
    BY <1>4, <2>2, <2>5
  <2>10. CASE frame.next > Len(frame.node.entries)
    <3>1. v = [st EXCEPT !.cursor.frames = Front(@)]
      BY <1>1, <1>2, <1>4, <1>8, <2>1, <2>10 DEF CursorRound
    <3>2. Front(s) \in Seq(F)
      BY <1>4, <1>8, FrontLast
    <3> QED
      BY SMTT(30), <1>1, <1>2, <1>3, <1>4, <3>1, <3>2 DEF CallOk, CursorOk, CursorFields
  <2>11. CASE ~(frame.next > Len(frame.node.entries)) /\ entry.summary.timestamp_min > c.end
    <3>1. v = [st EXCEPT !.cursor = [past EXCEPT !.complete = TRUE]]
      BY <1>1, <1>2, <1>4, <1>8, <2>1, <2>4, <2>9, <2>11 DEF CursorRound
    <3> QED
      BY SMTT(30), <1>2, <2>8, <3>1 DEF CallOk, CursorOk, CursorFields
  <2>12. CASE /\ ~(frame.next > Len(frame.node.entries))
              /\ ~(entry.summary.timestamp_min > c.end) /\ frame.node.level > 0
    <3>1. PICK child : child = entry.child
      BY SMTT(30)
    <3>2. v = [st EXCEPT !.cursor = [past EXCEPT !.frames =
                                        Append(@, Frame(child, c.next_timestamp))],
                         !.leaf = IF child.level = 0 THEN <<child>> ELSE @]
      BY <1>1, <1>2, <1>4, <1>8, <2>1, <2>4, <2>9, <2>12, <3>1 DEF CursorRound
    <3>3. child \in TreeNodes(t)
      <4>1. PICK m \in Nat : m = Len(frame.node.entries)
        BY <2>3, NodeStands
      <4>2. frame.next \in 1 .. m
        BY <2>3, <2>12, <4>1
      <4>3. frame.node.level # 0
        BY <2>12
      <4> QED
        BY <2>3, <2>4, <3>1, <4>1, <4>2, <4>3, NodeStands
    <3>4. Append(r, Frame(child, c.next_timestamp)) \in Seq(F)
      <4>1. Frame(child, c.next_timestamp) \in F
        BY <1>3, <3>3, FrameStands
      <4> QED
        BY <2>7, <4>1
    <3>5. child.level = 0 => LeafOf(t, <<child>>)
      BY <3>3, NodeStands
    <3>6. PICK n : n = Append(r, Frame(child, c.next_timestamp)) /\ n \in Seq(F)
      BY <3>4
    <3>7. PICK lower : lower = [past EXCEPT !.frames = n]
      OBVIOUS
    <3>8. CursorOk(t, lower, g)
      BY <1>3, <2>8, <3>6, <3>7 DEF CursorOk, CursorFields
    <3>9. PICK leaf : leaf = IF child.level = 0 THEN <<child>> ELSE st.leaf
      OBVIOUS
    <3>10. LeafOf(t, leaf)
      BY <3>5, <3>9 DEF CallOk
    <3>11. v = [st EXCEPT !.cursor = lower, !.leaf = leaf]
      <4>1. lower = [past EXCEPT !.frames = Append(@, Frame(child, c.next_timestamp))]
        BY <2>8, <3>6, <3>7 DEF CursorOk, CursorFields
      <4> QED
        BY <3>2, <3>9, <4>1 DEF CallOk
    <3> QED
      BY <1>2, <3>8, <3>10, <3>11 DEF CallOk
  <2>13. CASE /\ ~(frame.next > Len(frame.node.entries))
              /\ ~(entry.summary.timestamp_min > c.end) /\ ~(frame.node.level > 0)
    <3>1. PICK index : index = PageLowerBound(entry.child, c.next_timestamp)
      OBVIOUS
    <3>2. \/ v = [st EXCEPT !.cursor = past]
          \/ v = [st EXCEPT !.cursor = [past EXCEPT !.current_page = <<entry.child>>,
                                                    !.point_index = index]]
      BY <1>1, <1>2, <1>4, <1>8, <2>1, <2>4, <2>9, <2>13, <3>1 DEF CursorRound
    <3> QED
      BY <1>2, <2>8, <3>2 DEF CallOk, CursorOk, CursorFields
  <2> QED
    BY <2>10, <2>11, <2>12, <2>13
<1> QED
  BY <1>4, <1>5, <1>6, <1>7, <1>8

LEMMA MappedCall ==
    ASSUME OrderedPages(pages), NEW t, Tree(pages, t, stored[1]), Remembers(t),
           NEW c, NEW g, CursorOk(t, c, g), NEW capacity
    PROVE  /\ CursorOk(t, CursorNextMapped(c, capacity).cursor, g)
           /\ LeafOf(t, CursorNextMapped(c, capacity).leaf)
<1>1. PICK top : top = LoadSeriesRoot /\ top \in TreeNodes(t) /\ Pile(pages, t)
  BY QueryNodeStands
<1>2. PICK m \in Nat : m = 2 * StepsMax(top)
  <2>1. StepsMax(top) \in Nat
    BY <1>1, StepsCounted
  <2> QED
    BY <2>1
<1>3. PICK begun : begun = IF c.initialized THEN c
                           ELSE [c EXCEPT !.initialized = TRUE,
                                          !.frames = <<Frame(top, c.next_timestamp)>>]
  OBVIOUS
<1>4. CursorOk(t, begun, g)
  <2>1. Frame(top, c.next_timestamp) \in FrameSet(t)
    BY <1>1, FrameStands
  <2>2. <<Frame(top, c.next_timestamp)>> \in Seq(FrameSet(t))
    BY <2>1
  <2> QED
    BY <1>3, <2>2 DEF CursorOk, CursorFields
<1>5. PICK first : first = [copied |-> << >>, leaf |-> << >>, cursor |-> begun]
  OBVIOUS
<1>6. CallOk(t, first, g)
  BY <1>4, <1>5 DEF CallOk, LeafOf
<1>7. PICK q : q = [kind |-> "cursor", capacity |-> capacity]
  OBVIOUS
<1>8. \A w : Stepped(q, w) = CursorRound(w, capacity)
  BY <1>7 DEF Stepped
<1>9. \A f : CursorCall(f, c, capacity) <=> Repeats(f, first, q, m)
  BY <1>1, <1>2, <1>3, <1>5, <1>8 DEF CursorCall, Repeats
<1>10. PICK f : f = CursorRounds(c, capacity)
  OBVIOUS
<1>11. Repeats(f, first, q, m)
  <2>1. \E h : CursorCall(h, c, capacity)
    BY <1>9, RepeatsExists
  <2>2. CursorCall(f, c, capacity)
    BY <1>10, <2>1 DEF CursorRounds
  <2> QED
    BY <1>9, <2>2
<1> DEFINE T == {n \in 0 .. m : CallOk(t, f[n], g)}
<1>12. 0 \in T
  BY <1>6, <1>11, RepeatsUnfold
<1>13. ASSUME NEW n \in 0 .. m, n # m, n \in T PROVE n + 1 \in T
  <2>1. f[n + 1] = CursorRound(f[n], capacity) /\ n + 1 \in 0 .. m
    BY <1>8, <1>11, <1>13, RepeatsUnfold
  <2>2. CallOk(t, CursorRound(f[n], capacity), g)
    BY <1>1, <1>13, RoundKeeps
  <2> QED
    BY <2>1, <2>2
<1> HIDE DEF T
<1>14. m \in T
  BY <1>12, <1>13, Induction
<1>15. CursorNextMapped(c, capacity) = f[m]
  BY <1>1, <1>2, <1>10, CursorUnfolds
<1> QED
  BY <1>14, <1>15 DEF T, CallOk

LEMMA GenericCall ==
    ASSUME NEW t, NEW c, NEW g, CursorOk(t, c, g), NEW capacity
    PROVE  CursorOk(t, CursorNextGeneric(c, capacity).cursor, g)
<1> DEFINE found == RangePrepared(c.next_timestamp, c.end, "copy", capacity)
           last == Last(found.output).timestamp
           d == [c EXCEPT !.complete = TRUE]
           e == [c EXCEPT !.next_timestamp = last + 1]
<1>1. CursorNextGeneric(c, capacity).cursor \in {d, e}
  BY ZenonT(60) DEF CursorNextGeneric, ResumeAfter
<1>2. CursorOk(t, d, g)
  BY DEF CursorOk, CursorFields
<1>3. CursorOk(t, e, g)
  <2> HIDE DEF last
  <2> QED
    BY DEF CursorOk, CursorFields
<1> QED
  BY <1>1, <1>2, <1>3

-----------------------------------------------------------------------------
(* The invariant.                                                          *)

Placed(t) ==
    \/ cursor = NoCursor
    \/ cursor.generation \in Nat /\ cursor.generation < generation
    \/ CursorOk(t, cursor, generation)

Stands(t) == Tree(pages, t, stored[1]) /\ Remembers(t) /\ Placed(t)

QueryInv ==
    /\ OrderedPages(pages) /\ Len(pages) <= MaxPages /\ generation \in Nat
    /\ pages = << >> => root = << >> /\ active_leaf = << >> /\ cursor = NoCursor
    /\ pages # << >> => \E t : Stands(t)

LEMMA TouchKeeps ==
    ASSUME NEW t, Remembers(t), NEW leaf, LeafOf(t, leaf), Touch(leaf), stored' = stored
    PROVE  Remembers(t)'
<1>1. LoadSeriesRoot = stored[1]
  BY DEF LoadSeriesRoot, Remembers
<1>2. root' = << >> \/ root'[1] = stored[1]
  BY <1>1 DEF Touch, Remembers, runtimeVars
<1>3. LeafOf(t, active_leaf')
  BY DEF Touch, Remembers, runtimeVars
<1> QED
  BY <1>2, <1>3 DEF Remembers

LEMMA RuntimeKeeps ==
    ASSUME QueryInv, Series, NEW leaf, Touch(leaf), OnlyRuntime,
           \A t : Stands(t) => LeafOf(t, leaf)
    PROVE  QueryInv'
<1>1. PICK t : Stands(t)
  BY DEF QueryInv, Series
<1>2. /\ pages' = pages /\ stored' = stored /\ generation' = generation
      /\ cursor' = cursor
  BY DEF OnlyRuntime, cursorVars
<1>3. Remembers(t)'
  BY <1>1, <1>2, TouchKeeps DEF Stands
<1>4. Tree(pages', t, stored'[1]) /\ Placed(t)'
  BY <1>1, <1>2 DEF Stands, Placed
<1>5. Stands(t)'
  BY <1>3, <1>4 DEF Stands
<1> QED
  BY <1>2, <1>5 DEF QueryInv, Series

LEMMA LookupLeaf ==
    ASSUME QueryInv, NEW t, Stands(t), NEW timestamp \in Int, NEW direction \in Directions
    PROVE  LeafOf(t, LookupDirectional(timestamp, direction).leaf)
<1>1. StoredRoot = stored[1] /\ Tree(pages, t, StoredRoot) /\ Pile(pages, t)
  BY DEF StoredRoot, LoadSeriesRoot, Stands, Remembers, Tree
<1>2. OrderedPages(pages)
  BY DEF QueryInv
<1>3. PICK a, b : Reach(pages, timestamp, a, b)
  BY <1>2, Reached
<1>4. \E g : Sought(pages, t, timestamp, a, b, direction, g)
  BY <1>1, <1>2, <1>3 DEF Sought, Goal, Directions
<1> QED
  BY <1>1, <1>4, DirectionalAnswer

LEMMA NewPageOrdered ==
    ASSUME NEW page \in NewPages
    PROVE  /\ OrderedPage(page) /\ Len(page) \in Nat /\ Len(page) >= 1
           /\ pages = << >> \/ Last(Last(pages)).timestamp < page[1].timestamp
<1>1. PICK n \in 1 .. RecordsMax : \E ts \in [1 .. n -> TimestampDomain] :
         /\ page = [i \in 1 .. Len(ts) |-> Point(ts[i], Values[ts[i]])]
         /\ \A i, k \in DOMAIN ts : i < k => ts[i] < ts[k]
         /\ pages = << >> \/ Last(Last(pages)).timestamp < ts[1]
  <2>1. PICK ts \in UNION {[1 .. n -> TimestampDomain] : n \in 1 .. RecordsMax} :
           /\ page = [i \in 1 .. Len(ts) |-> Point(ts[i], Values[ts[i]])]
           /\ \A i, k \in DOMAIN ts : i < k => ts[i] < ts[k]
           /\ pages = << >> \/ Last(Last(pages)).timestamp < ts[1]
    BY DEF NewPages
  <2> QED
    BY <2>1
<1>2. PICK ts \in [1 .. n -> TimestampDomain] :
         /\ page = [i \in 1 .. Len(ts) |-> Point(ts[i], Values[ts[i]])]
         /\ \A i, k \in DOMAIN ts : i < k => ts[i] < ts[k]
         /\ pages = << >> \/ Last(Last(pages)).timestamp < ts[1]
  BY <1>1
<1>3. n \in Nat /\ n >= 1 /\ DOMAIN ts = 1 .. n /\ Len(ts) = n
  BY <1>2, QueriesAssumption
<1>4. ASSUME NEW i \in 1 .. n
      PROVE  /\ page[i] = [timestamp |-> ts[i], value |-> Values[ts[i]]]
             /\ page[i] \in Points /\ page[i].timestamp = ts[i]
  <2>1. ts[i] \in TimestampDomain /\ Values[ts[i]] \in Int
    BY <1>2, QueriesAssumption
  <2>2. page[i] = [timestamp |-> ts[i], value |-> Values[ts[i]]]
    BY <1>2, <1>3 DEF Point
  <2> QED
    BY <2>1, <2>2 DEF Points
<1>5. page = [i \in 1 .. n |-> page[i]]
  BY <1>2, <1>3
<1>6. page \in Seq(Points) /\ Len(page) = n /\ page # << >>
  <2>1. \A i \in 1 .. n : page[i] \in Points
    BY <1>4
  <2> QED
    BY <1>3, <1>5, <2>1
<1>7. OrderedPage(page)
  <2>1. ASSUME NEW i \in 1 .. n, NEW k \in 1 .. n, i < k
        PROVE  page[i].timestamp < page[k].timestamp
    <3>1. ts[i] < ts[k]
      BY <1>2, <1>3, <2>1
    <3>2. page[i].timestamp = ts[i] /\ page[k].timestamp = ts[k]
      BY <1>4
    <3> QED
      BY <3>1, <3>2
  <2> QED
    BY <1>6, <2>1 DEF OrderedPage
<1>8. page[1].timestamp = ts[1]
  <2>1. 1 \in 1 .. n
    BY <1>3
  <2> QED
    BY <1>4, <2>1
<1> QED
  BY <1>2, <1>3, <1>6, <1>7, <1>8

LEMMA OneMorePage ==
    ASSUME OrderedPages(pages), NEW page \in NewPages, NEW ps, ps = Append(pages, page)
    PROVE  OrderedPages(ps) /\ ps # << >> /\ Len(ps) = Len(pages) + 1
<1>1. PICK S : S = Seq(Points)
  OBVIOUS
<1>2. pages \in Seq(S) /\ page \in S /\ OrderedPage(page)
  BY <1>1, NewPageOrdered DEF OrderedPages, OrderedPage
<1>3. PICK m \in Nat : m = Len(pages)
  BY <1>2
<1>4. /\ ps \in Seq(S) /\ Len(ps) = m + 1 /\ ps # << >> /\ ps[m + 1] = page
      /\ \A k \in 1 .. m : ps[k] = pages[k]
  BY <1>2, <1>3
<1>5. \A k \in 1 .. m + 1 : OrderedPage(ps[k])
  <2>1. \A k \in 1 .. m : OrderedPage(pages[k])
    BY <1>3 DEF OrderedPages
  <2>2. ASSUME NEW k \in 1 .. m + 1 PROVE OrderedPage(ps[k])
    <3>1. k = m + 1 \/ k \in 1 .. m
      BY <1>3
    <3> QED
      BY <1>2, <1>4, <2>1, <3>1
  <2> QED
    BY <2>2
<1>6. ASSUME NEW k \in 1 .. m PROVE Last(pages[k]).timestamp < page[1].timestamp
  <2>1. m >= 1 /\ m \in 1 .. m /\ pages # << >> /\ Last(pages) = pages[m]
    BY <1>3 DEF Last
  <2>2. Last(pages[m]).timestamp < page[1].timestamp
    BY <2>1, NewPageOrdered
  <2>3. CASE k = m
    BY <2>2, <2>3
  <2>4. CASE k # m
    <3>1. k < m
      BY <2>4
    <3>2. Last(pages[k]).timestamp < pages[m][1].timestamp
      BY <1>3, <2>1, <3>1 DEF OrderedPages
    <3>3. /\ pages[m][1].timestamp \in Int /\ Last(pages[m]).timestamp \in Int
          /\ pages[m][1].timestamp <= Last(pages[m]).timestamp
      BY <1>3, <2>1, PageEnds
    <3>4. Last(pages[k]).timestamp \in Int
      BY <1>3, PageEnds
    <3>5. page[1].timestamp \in Int
      <4>1. page[1] \in Points
        BY <1>2 DEF OrderedPage
      <4> QED
        BY <4>1, TraversalAssumption DEF Points, TimestampDomain
    <3> QED
      BY <2>2, <3>2, <3>3, <3>4, <3>5
  <2> QED
    BY <2>3, <2>4
<1>7. ASSUME NEW k \in 1 .. m + 1, NEW r \in 1 .. m + 1, k < r
      PROVE  Last(ps[k]).timestamp < ps[r][1].timestamp
  <2>1. CASE r = m + 1
    <3>1. k \in 1 .. m
      BY <1>7, <2>1
    <3> QED
      BY <1>4, <1>6, <2>1, <3>1
  <2>2. CASE r # m + 1
    <3>1. k \in 1 .. m /\ r \in 1 .. m
      BY <1>7, <2>2
    <3>2. Last(pages[k]).timestamp < pages[r][1].timestamp
      BY <1>3, <1>7, <3>1 DEF OrderedPages
    <3> QED
      BY <1>4, <3>1, <3>2
  <2> QED
    BY <2>1, <2>2
<1> QED
  BY <1>1, <1>3, <1>4, <1>5, <1>7 DEF OrderedPages

-----------------------------------------------------------------------------
(* Every state has it.                                                     *)

LEMMA QueryInvBegins ==
    ASSUME Init
    PROVE  QueryInv
<1>1. pages = << >> /\ Len(pages) = 0 /\ pages \in Seq(Seq(Points))
  BY DEF Init
<1>2. OrderedPages(pages)
  BY <1>1 DEF OrderedPages
<1>3. 0 <= MaxPages
  BY QueriesAssumption
<1> QED
  BY <1>1, <1>2, <1>3 DEF Init, QueryInv

LEMMA RefreshKeeps ==
    ASSUME QueryInv, Refresh
    PROVE  QueryInv'
<1>1. PICK page \in NewPages : pages' = Append(pages, page)
  BY DEF Refresh
<1>2. OrderedPages(pages') /\ pages' # << >> /\ Len(pages') = Len(pages) + 1
  BY <1>1, OneMorePage DEF QueryInv
<1>3. Len(pages) \in Nat /\ MaxPages \in Nat /\ MaxPages <= Room[HeightMax]
      /\ Room[HeightMax] \in Nat
  <2>1. Room[HeightMax] \in Nat
    BY RoomGrows, TraversalAssumption
  <2> QED
    BY <2>1, QueriesAssumption DEF QueryInv, OrderedPages
<1>4. Len(pages') <= MaxPages /\ Len(pages') <= Room[HeightMax]
  BY <1>2, <1>3 DEF Refresh
<1>5. PICK t : Tree(pages', t, SeriesRoot(pages'))
  BY <1>2, <1>4, TreeStands
<1>6. stored' # << >> /\ stored'[1] = SeriesRoot(pages')
  BY DEF Refresh
<1>7. Remembers(t)'
  BY <1>5, <1>6 DEF Refresh, FreshRuntime, Remembers, LeafOf, Tree
<1>8. generation' \in Nat /\ Placed(t)'
  BY DEF QueryInv, Stands, Placed, Refresh, cursorVars, CursorOk
<1>9. Stands(t)'
  BY <1>5, <1>6, <1>7, <1>8 DEF Stands
<1> QED
  BY <1>2, <1>4, <1>8, <1>9 DEF QueryInv

LEMMA CursorNextKeeps ==
    ASSUME QueryInv, NEW capacity, CursorNext(capacity)
    PROVE  QueryInv'
<1>1. PICK t : Stands(t)
  BY DEF QueryInv, CursorNext
<1>2. pages # << >> /\ generation \in Nat /\ OrderedPages(pages)
  BY DEF QueryInv, CursorNext
<1>3. CursorOk(t, cursor, generation)
  BY <1>1, <1>2 DEF Stands, Placed, CursorNext
<1>4. PICK res : res = CursorStep(cursor, capacity)
  OBVIOUS
<1>5. CursorOk(t, res.cursor, generation) /\ (mapped => LeafOf(t, res.leaf))
  <2>1. mapped => /\ CursorOk(t, CursorNextMapped(cursor, capacity).cursor, generation)
                  /\ LeafOf(t, CursorNextMapped(cursor, capacity).leaf)
    BY <1>1, <1>2, <1>3, MappedCall DEF Stands
  <2>2. CursorOk(t, CursorNextGeneric(cursor, capacity).cursor, generation)
    BY <1>3, GenericCall
  <2> QED
    BY <1>4, <2>1, <2>2 DEF CursorStep
<1>6. /\ pages' = pages /\ stored' = stored /\ generation' = generation
      /\ cursor' = res.cursor /\ Touch(res.leaf)
  BY <1>4 DEF CursorNext
<1>7. Remembers(t)'
  <2>1. CASE mapped
    BY <1>1, <1>5, <1>6, <2>1, TouchKeeps DEF Stands
  <2>2. CASE ~mapped
    BY <1>1, <1>6, <2>2 DEF Stands, Remembers, Touch, runtimeVars
  <2> QED
    BY <2>1, <2>2
<1>8. Stands(t)'
  BY <1>1, <1>5, <1>6, <1>7 DEF Stands, Placed
<1> QED
  BY <1>2, <1>6, <1>8 DEF QueryInv

LEMMA QueryInvKept ==
    ASSUME QueryInv, [Next]_queryVars
    PROVE  QueryInv'
<1>1. ASSUME NEW timestamp \in TimestampDomain, NEW direction \in Directions,
             Lookup(timestamp, direction)
      PROVE  QueryInv'
  <2>1. \A t : Stands(t) => LeafOf(t, LookupDirectional(timestamp, direction).leaf)
    BY LookupLeaf DEF TimestampDomain
  <2> QED
    BY <1>1, <2>1, RuntimeKeeps DEF Lookup
<1>2. ASSUME NEW start, NEW end, NEW mode, NEW capacity,
             RangeQuery(start, end, mode, capacity)
      PROVE  QueryInv'
  <2>1. \A t : Stands(t) => LeafOf(t, RangePrepared(start, end, mode, capacity).leaf)
    BY RangeLeaf DEF QueryInv, Stands
  <2> QED
    BY <1>2, <2>1, RuntimeKeeps DEF RangeQuery
<1>3. ASSUME NEW start, NEW end, Aggregate(start, end)
      PROVE  QueryInv'
  <2>1. \A t : Stands(t) => LeafOf(t, AggregatePrepared(start, end).leaf)
    BY AggregateLeaf DEF QueryInv, Stands
  <2> QED
    BY <1>3, <2>1, RuntimeKeeps DEF Aggregate
<1>4. ASSUME NEW timestamp \in TimestampDomain, Borrow(timestamp)
      PROVE  QueryInv'
  <2>1. timestamp \in Int /\ OrderedPages(pages)
    BY DEF TimestampDomain, QueryInv
  <2>2. \A t : Stands(t) => LeafOf(t, FindMappedPage(timestamp).leaf)
    BY <2>1, Reached, BorrowOnTree DEF Stands
  <2> QED
    BY <1>4, <2>2, RuntimeKeeps DEF Borrow
<1>5. ASSUME NEW start, NEW end, MakeCursor(start, end)
      PROVE  QueryInv'
  <2>1. PICK t : Stands(t)
    BY <1>5 DEF QueryInv, MakeCursor, Series
  <2>2. /\ pages' = pages /\ stored' = stored /\ generation' = generation
        /\ root' = root /\ active_leaf' = active_leaf
        /\ cursor' = CursorPrepared(start, end)
    BY <1>5 DEF MakeCursor, runtimeVars
  <2>3. CursorOk(t, CursorPrepared(start, end), generation)
    BY DEF CursorOk, CursorPrepared, CursorFields
  <2>4. Stands(t)'
    BY <2>1, <2>2, <2>3 DEF Stands, Placed, Remembers
  <2> QED
    BY <1>5, <2>2, <2>4 DEF QueryInv, MakeCursor, Series
<1>6. ASSUME NEW capacity, CursorNext(capacity)
      PROVE  QueryInv'
  BY <1>6, CursorNextKeeps
<1>7. CASE Refresh
  BY <1>7, RefreshKeeps
<1>8. CASE Reopen
  <2>1. PICK t : Stands(t)
    BY <1>8 DEF QueryInv, Reopen, Series
  <2>2. /\ pages' = pages /\ stored' = stored /\ generation' = generation
        /\ root' = << >> /\ active_leaf' = << >> /\ cursor' = NoCursor
    BY <1>8 DEF Reopen, FreshRuntime
  <2>3. Stands(t)'
    BY <2>1, <2>2 DEF Stands, Placed, Remembers, LeafOf
  <2> QED
    BY <1>8, <2>2, <2>3 DEF QueryInv, Reopen, Series
<1>9. CASE UNCHANGED queryVars
  BY <1>9 DEF queryVars, runtimeVars, cursorVars, QueryInv, Stands, Placed, Remembers
<1> QED
  BY <1>1, <1>2, <1>3, <1>4, <1>5, <1>6, <1>7, <1>8, <1>9 DEF Next

(* What the reader remembers is of the tree of the stored pages.           *)
THEOREM QueryInvHolds == Spec => []QueryInv
<1>1. Init => QueryInv
  BY QueryInvBegins
<1>2. QueryInv /\ [Next]_queryVars => QueryInv'
  BY QueryInvKept
<1> QED
  BY <1>1, <1>2, PTL DEF Spec

LEMMA AnswersExact ==
    ASSUME QueryInv
    PROVE  LookupsAreExact
<1>1. ASSUME Series PROVE \E t : Stands(t) /\ StoredRoot = stored[1]
  BY <1>1 DEF QueryInv, Series, Stands, Remembers, StoredRoot, LoadSeriesRoot
<1>2. OrderedPages(pages) /\ TimestampDomain \subseteq Int
  BY TraversalAssumption DEF QueryInv, TimestampDomain
<1>3. ASSUME Series, NEW timestamp \in TimestampDomain, NEW mode \in Modes,
             NEW limit \in {<< >>, << 0 >>, << 1 >>}
      PROVE  LookupPrepared(timestamp, mode, limit) = ReferenceLookup(timestamp, mode, limit)
  <2>1. PICK t : Stands(t) /\ StoredRoot = stored[1]
    BY <1>1, <1>3
  <2>2. Tree(pages, t, StoredRoot)
    BY <2>1 DEF Stands
  <2> QED
    BY <1>2, <1>3, <2>2, LookupOnTree DEF Series
<1>4. ASSUME Series, mapped, NEW timestamp \in TimestampDomain
      PROVE  ToSet(BorrowRawPage(timestamp)) =
                 {p \in ToSet(pages) : /\ p[1].timestamp <= timestamp
                                       /\ timestamp <= Last(p).timestamp}
  <2>1. PICK t : Stands(t)
    BY <1>1, <1>4
  <2> QED
    BY <1>2, <2>1, BorrowedCovers DEF Stands
<1> QED
  BY <1>3, <1>4 DEF LookupsAreExact, Modes

(* A lookup of any mode answers the stored point that the mode selects,    *)
(* and none beyond the distance that was asked for, and borrowing a page   *)
(* lends the one that covers the timestamp, after any queries, cursors and *)
(* refreshes (lookupPrepared and borrowRawPage in engine.zig).             *)
THEOREM LookupsAreExactHolds == Spec => []LookupsAreExact
<1>1. QueryInv => LookupsAreExact
  BY AnswersExact
<1> QED
  BY <1>1, QueryInvHolds, PTL

=============================================================================
