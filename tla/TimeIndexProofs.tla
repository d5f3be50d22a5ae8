--------------------------- MODULE TimeIndexProofs ---------------------------
(***************************************************************************)
(* The time index for any capacity of a node, any height limit and any     *)
(* number of checkpoints, failed checkpoints and writers: every generation *)
(* is a tree that lists its pages in order, and pages are refused exactly  *)
(* when a full tree could not hold them.                                   *)
(***************************************************************************)
EXTENDS TimeIndex, SharedLemmas

-----------------------------------------------------------------------------
(* A division that is rounded up.                                          *)

LEMMA CutByCapacity ==
    ASSUME NEW a \in Nat, a >= 1
    PROVE  Cut(Capacity, a, DivCeil(a, Capacity))
<1>1. Capacity \in Nat /\ Capacity >= 1
  BY TimeIndexAssumption
<1> QED
  BY <1>1, CutInGroups DEF DivCeil

-----------------------------------------------------------------------------
(* Files, and the entries below entries.                                   *)

Entries == [pointer : Nat, first : Nat, last : Nat]
Nodes == [level : Nat, entries : Seq(Entries), first : Nat, last : Nat]

(* An entry that points to a node of a level, and says what it covers.     *)
Leads(file, entry, level) ==
    /\ entry.pointer \in 1 .. Len(file)
    /\ file[entry.pointer].level = level
    /\ Len(file[entry.pointer].entries) \in 1 .. Capacity
    /\ file[entry.pointer].first = entry.first
    /\ file[entry.pointer].last = entry.last

AllLead(file, entries, level) ==
    \A i \in 1 .. Len(entries) : Leads(file, entries[i], level)

Extends(file, more) ==
    /\ file \in Seq(Nodes) /\ more \in Seq(Nodes) /\ Len(file) <= Len(more)
    /\ \A i \in 1 .. Len(file) : more[i] = file[i]

Tiers(file, entries) == [i \in DOMAIN entries |-> file[entries[i].pointer].entries]

LEMMA TiersAreLists ==
    ASSUME NEW file \in Seq(Nodes), NEW es \in Seq(Entries), NEW level,
           AllLead(file, es, level), NEW m, m = Len(es), NEW ss, ss = Tiers(file, es)
    PROVE  /\ AreLists(ss, Entries, m) /\ Below(file, es) = FlattenSeq(ss)
           /\ m \in Nat /\ \A i \in 1 .. m : ss[i] = file[es[i].pointer].entries
<1>1. m \in Nat /\ DOMAIN es = 1 .. m
  OBVIOUS
<1>2. ss = [i \in 1 .. m |-> file[es[i].pointer].entries]
  BY <1>1 DEF Tiers
<1>3. ASSUME NEW i \in 1 .. m PROVE file[es[i].pointer].entries \in Seq(Entries)
  <2>1. es[i].pointer \in 1 .. Len(file)
    BY DEF AllLead, Leads
  <2>2. file[es[i].pointer] \in Nodes
    BY <2>1
  <2> QED
    BY <2>2 DEF Nodes
<1>4. ss \in Seq(Seq(Entries)) /\ Len(ss) = m /\ DOMAIN ss = 1 .. m
  BY <1>1, <1>2, <1>3
<1>5. Below(file, es) = FlattenSeq(ss)
  BY DEF Below, Tiers
<1> QED
  BY <1>1, <1>2, <1>3, <1>4, <1>5 DEF AreLists

LEMMA BelowTyped ==
    ASSUME NEW file \in Seq(Nodes), NEW es \in Seq(Entries), NEW level,
           AllLead(file, es, level)
    PROVE  Below(file, es) \in Seq(Entries)
<1>1. PICK ss, m : ss = Tiers(file, es) /\ m = Len(es)
  OBVIOUS
<1>2. AreLists(ss, Entries, m) /\ Below(file, es) = FlattenSeq(ss)
  BY <1>1, TiersAreLists
<1> QED
  BY <1>2, FlattenTyped

LEMMA BelowEmpty ==
    ASSUME NEW file \in Seq(Nodes)
    PROVE  Below(file, << >>) = << >>
<1>1. PICK es \in Seq(Entries) : es = << >>
  BY EmptySeq
<1>2. PICK ss, m : ss = Tiers(file, es) /\ m = Len(es)
  OBVIOUS
<1>3. m = 0 /\ AllLead(file, es, 0)
  BY <1>1, <1>2 DEF AllLead
<1>4. AreLists(ss, Entries, m) /\ Below(file, es) = FlattenSeq(ss)
  BY <1>2, <1>3, TiersAreLists
<1>5. AreLists(ss, Entries, 0)
  BY <1>3, <1>4
<1> QED
  BY <1>1, <1>4, <1>5, FlattenEmpty

LEMMA AllLeadConcat ==
    ASSUME NEW file, NEW a \in Seq(Entries), NEW b \in Seq(Entries), NEW level,
           NEW c, IsConcat(c, a, b)
    PROVE  /\ c \in Seq(Entries)
           /\ AllLead(file, a, level) /\ AllLead(file, b, level) => AllLead(file, c, level)
<1> USE DEF IsConcat
<1>1. c \in Seq(Entries) /\ Len(c) = Len(a) + Len(b)
  BY ConcatProperties
<1>2. \A i \in 1 .. Len(c) : c[i] = IF i <= Len(a) THEN a[i] ELSE b[i - Len(a)]
  BY <1>1, ConcatProperties
<1>3. ASSUME AllLead(file, a, level), AllLead(file, b, level), NEW i \in 1 .. Len(c)
      PROVE Leads(file, c[i], level)
  <2>1. CASE i <= Len(a)
    BY <1>1, <1>2, <1>3, <2>1 DEF AllLead
  <2>2. CASE i > Len(a)
    <3>1. PICK j \in 1 .. Len(b) : j = i - Len(a)
      BY <1>1, <2>2
    <3>2. c[i] = b[j]
      BY <1>1, <1>2, <2>2, <3>1
    <3> QED
      BY <1>3, <3>2 DEF AllLead
  <2> QED
    BY <1>1, <2>1, <2>2
<1> QED
  BY <1>1, <1>3 DEF AllLead

EndToEnd(c, a, b) ==
    /\ Len(c) = Len(a) + Len(b)
    /\ \A i \in 1 .. Len(c) : c[i] = IF i <= Len(a) THEN a[i] ELSE b[i - Len(a)]

LEMMA BelowEndToEnd ==
    ASSUME NEW file \in Seq(Nodes), NEW a \in Seq(Entries), NEW b \in Seq(Entries),
           NEW level, AllLead(file, a, level), AllLead(file, b, level),
           NEW c \in Seq(Entries), AllLead(file, c, level), EndToEnd(c, a, b)
    PROVE  Below(file, c) = Below(file, a) \o Below(file, b)
<1>2. PICK r, s, t : r = Tiers(file, a) /\ s = Tiers(file, b) /\ t = Tiers(file, c)
  OBVIOUS
<1>3. PICK m, k, l : m = Len(a) /\ k = Len(b) /\ l = Len(c)
  OBVIOUS
<1>4. /\ AreLists(r, Entries, m) /\ Below(file, a) = FlattenSeq(r)
      /\ m \in Nat /\ \A i \in 1 .. m : r[i] = file[a[i].pointer].entries
  BY <1>2, <1>3, TiersAreLists
<1>5. /\ AreLists(s, Entries, k) /\ Below(file, b) = FlattenSeq(s)
      /\ k \in Nat /\ \A i \in 1 .. k : s[i] = file[b[i].pointer].entries
  BY <1>2, <1>3, TiersAreLists
<1>6. /\ AreLists(t, Entries, l) /\ Below(file, c) = FlattenSeq(t)
      /\ l \in Nat /\ \A i \in 1 .. l : t[i] = file[c[i].pointer].entries
  BY <1>2, <1>3, TiersAreLists
<1>7. l = m + k /\ \A i \in 1 .. l : c[i] = IF i <= m THEN a[i] ELSE b[i - m]
  BY <1>3 DEF EndToEnd
<1>8. ASSUME NEW i \in 1 .. m PROVE t[i] = r[i]
  <2>1. i \in 1 .. l /\ c[i] = a[i]
    BY <1>4, <1>5, <1>7
  <2> QED
    BY <1>4, <1>6, <2>1
<1>9. ASSUME NEW i \in 1 .. k PROVE t[m + i] = s[i]
  <2>1. PICK j \in 1 .. l : j = m + i
    BY <1>4, <1>5, <1>7
  <2>2. c[j] = b[i]
    BY <1>4, <1>5, <1>7, <2>1
  <2> QED
    BY <1>5, <1>6, <2>1, <2>2
<1>10. Continues(t, r, s, Entries, m, k)
  BY <1>4, <1>5, <1>6, <1>7, <1>8, <1>9 DEF Continues
<1>11. FlattenSeq(t) = FlattenSeq(r) \o FlattenSeq(s)
  BY <1>10, FlattenConcat
<1> QED
  BY Zenon, <1>4, <1>5, <1>6, <1>11

LEMMA BelowConcat ==
    ASSUME NEW file \in Seq(Nodes), NEW a \in Seq(Entries), NEW b \in Seq(Entries),
           NEW level, AllLead(file, a, level), AllLead(file, b, level), NEW c, IsConcat(c, a, b)
    PROVE  IsConcat(Below(file, c), Below(file, a), Below(file, b))
<1>1. c \in Seq(Entries) /\ AllLead(file, c, level)
  BY AllLeadConcat
<1>2. Len(c) = Len(a) + Len(b)
  BY ConcatProperties DEF IsConcat
<1>3. EndToEnd(c, a, b)
  BY <1>2, ConcatProperties DEF EndToEnd, IsConcat
<1>4. /\ file \in Seq(Nodes) /\ a \in Seq(Entries) /\ b \in Seq(Entries)
      /\ AllLead(file, a, level) /\ AllLead(file, b, level)
  OBVIOUS
<1> QED
  BY ONLY <1>1, <1>3, <1>4, BelowEndToEnd DEF IsConcat

LEMMA BelowSingle ==
    ASSUME NEW file \in Seq(Nodes), NEW e \in Entries, NEW level, Leads(file, e, level)
    PROVE  /\ AllLead(file, <<e>>, level)
           /\ Below(file, <<e>>) = file[e.pointer].entries
<1>0. <<e>> \in Seq(Entries)
  OBVIOUS
<1>1. PICK es \in Seq(Entries) : es = <<e>>
  BY Zenon, <1>0
<1>2. Len(es) = 1 /\ es[1] = e
  BY <1>1
<1>3. AllLead(file, es, level)
  BY <1>2 DEF AllLead
<1>4. PICK ss, m : ss = Tiers(file, es) /\ m = Len(es)
  OBVIOUS
<1>5. /\ AreLists(ss, Entries, m) /\ Below(file, es) = FlattenSeq(ss)
      /\ \A i \in 1 .. m : ss[i] = file[es[i].pointer].entries
  BY <1>3, <1>4, TiersAreLists
<1>6. AreLists(ss, Entries, 1) /\ ss[1] = file[e.pointer].entries
  BY <1>2, <1>4, <1>5
<1>7. PICK f \in [0 .. 1 -> Seq(Entries)] : Joins(f, ss, 1) /\ FlattenSeq(ss) = f[1]
  <2>1. \E f \in [0 .. 1 -> Seq(Entries)] : Joins(f, ss, 1) /\ FlattenSeq(ss) = f[1]
    BY SMTT(40), <1>6, FlattenJoins
  <2> QED
    BY <2>1
<1>8. f[1] = f[0] \o ss[1] /\ f[0] = << >>
  <2>1. f[0] = << >> /\ \A n \in 1 .. 1 : f[n] = f[n - 1] \o ss[n]
    BY Zenon, <1>7 DEF Joins
  <2>2. 1 \in 1 .. 1 /\ 1 - 1 = 0
    OBVIOUS
  <2>3. f[1] = f[1 - 1] \o ss[1]
    BY Zenon, <2>1, <2>2
  <2> QED
    BY <2>1, <2>2, <2>3
<1>9. file[e.pointer].entries \in Seq(Entries)
  <2>1. file[e.pointer] \in Nodes
    BY DEF Leads
  <2> QED
    BY <2>1 DEF Nodes
<1>10. f[1] = file[e.pointer].entries
  BY <1>6, <1>8, <1>9, ConcatEmptySeq
<1> QED
  BY <1>1, <1>3, <1>5, <1>7, <1>10

(* A file that grows keeps what is below an entry.                         *)
LEMMA BelowSame ==
    ASSUME NEW file, NEW more, Extends(file, more), NEW es \in Seq(Entries), NEW level,
           AllLead(file, es, level)
    PROVE  AllLead(more, es, level) /\ Below(more, es) = Below(file, es)
<1>1. ASSUME NEW i \in 1 .. Len(es)
      PROVE /\ more[es[i].pointer] = file[es[i].pointer]
            /\ Leads(more, es[i], level)
  <2>1. Leads(file, es[i], level)
    BY DEF AllLead
  <2>2. es[i].pointer \in 1 .. Len(file) /\ es[i].pointer \in 1 .. Len(more)
    BY <2>1 DEF Leads, Extends
  <2>3. more[es[i].pointer] = file[es[i].pointer]
    BY <2>2 DEF Extends
  <2> QED
    BY <2>1, <2>2, <2>3 DEF Leads
<1>2. DOMAIN es = 1 .. Len(es)
  OBVIOUS
<1>3. Tiers(more, es) = Tiers(file, es)
  BY <1>1, <1>2 DEF Tiers
<1> QED
  BY <1>1, <1>3 DEF AllLead, Below, Tiers

LEMMA ExtendsFurther ==
    ASSUME NEW file, NEW more, NEW most, Extends(file, more), Extends(more, most)
    PROVE  Extends(file, most)
BY SMTT(40) DEF Extends

(* What is below the last of some entries ends what is below them.         *)
LEMMA BelowLast ==
    ASSUME NEW file \in Seq(Nodes), NEW es \in Seq(Entries), NEW level,
           AllLead(file, es, level), es # << >>, NEW x, x = file[Last(es).pointer].entries
    PROVE  /\ x \in Seq(Entries) /\ Len(x) \in 1 .. Capacity
           /\ AllLead(file, Front(es), level)
           /\ IsConcat(Below(file, es), Below(file, Front(es)), x)
           /\ Below(file, es) # << >>
           /\ Last(Below(file, es)) = Last(x)
           /\ IsConcat(Front(Below(file, es)), Below(file, Front(es)), Front(x))
<1>1. PICK p \in Seq(Entries), e \in Entries : p = Front(es) /\ e = Last(es)
  BY FrontLast
<1>2. Len(p) = Len(es) - 1 /\ (\A i \in 1 .. Len(es) - 1 : p[i] = es[i]) /\ e = es[Len(es)]
  BY <1>1, FrontLast
<1>3. Len(es) \in Nat /\ Len(es) >= 1
  OBVIOUS
<1>4. AllLead(file, p, level) /\ Leads(file, e, level)
  BY <1>2, <1>3 DEF AllLead
<1>15. <<e>> \in Seq(Entries)
  OBVIOUS
<1>5. PICK q \in Seq(Entries) : q = <<e>>
  BY Zenon, <1>15
<1>6. AllLead(file, q, level) /\ Below(file, q) = x
  BY <1>1, <1>4, <1>5, BelowSingle
<1>7. IsConcat(es, p, q)
  BY <1>1, <1>5, FrontAndLast DEF IsConcat
<1>8. PICK b : b = Below(file, es)
  OBVIOUS
<1>9. PICK c \in Seq(Entries) : c = Below(file, p)
  BY <1>4, BelowTyped
<1>10. IsConcat(b, c, x)
  BY <1>4, <1>6, <1>7, <1>8, <1>9, BelowConcat
<1>11. x \in Seq(Entries)
  BY <1>5, <1>6, BelowTyped
<1>12. Len(x) \in 1 .. Capacity
  BY <1>1, <1>4 DEF Leads
<1>13. x # << >>
  BY <1>11, <1>12
<1>14. /\ b \in Seq(Entries) /\ b # << >> /\ Last(b) = Last(x)
       /\ IsConcat(Front(b), c, Front(x))
  BY <1>9, <1>10, <1>11, <1>13, EndOfConcat
<1> QED
  BY <1>1, <1>4, <1>8, <1>9, <1>10, <1>11, <1>12, <1>14

-----------------------------------------------------------------------------
(* What writeLevel writes.                                                 *)

Groups(entries) == [i \in 1 .. DivCeil(Len(entries), Capacity) |-> Group(entries, i)]

LEMMA Grouping ==
    ASSUME NEW es \in Seq(Entries), es # << >>, NEW n, n = DivCeil(Len(es), Capacity),
           NEW ss, ss = Groups(es)
    PROVE  /\ n \in Nat /\ n >= 1
           /\ AreLists(ss, Entries, n)
           /\ \A i \in 1 .. n : ss[i] = Group(es, i) /\ Len(ss[i]) \in 1 .. Capacity
           /\ Len(es) = Capacity * (n - 1) + Len(ss[n])
           /\ FlattenSeq(ss) = es
<1>1. PICK m \in Nat : m = Len(es) /\ m >= 1
  OBVIOUS
<1>2. Cut(Capacity, m, n) /\ n \in Nat /\ n >= 1
  <2>1. Cut(Capacity, m, n)
    BY <1>1, CutByCapacity
  <2> QED
    BY <2>1 DEF Cut
<1>3. PICK P : CutAt(Capacity, P, m, n)
  BY <1>1, <1>2, CutPoints, TimeIndexAssumption
<1>4. PICK B \in Nat : B = Capacity /\ B >= 2
  BY TimeIndexAssumption
<1>5. ASSUME NEW i \in 1 .. n
      PROVE /\ i - 1 \in 0 .. n /\ i \in 0 .. n
            /\ P[i - 1] \in Nat /\ P[i] \in Nat /\ P[i - 1] < P[i] /\ P[i] <= P[i - 1] + B
            /\ P[i] <= m
            /\ Group(es, i) = SubSeq(es, P[i - 1] + 1, P[i])
  <2>1. i - 1 \in 0 .. n /\ i \in 0 .. n
    BY <1>2
  <2>2. P[i - 1] \in 0 .. m /\ P[i] \in 0 .. m
    BY <1>3, <2>1 DEF CutAt
  <2>3. /\ P[i - 1] = (i - 1) * B /\ P[i] = Min({i * B, m})
        /\ P[i - 1] < P[i] /\ P[i] <= P[i - 1] + B
    BY <1>3, <1>4 DEF CutAt
  <2>4. Group(es, i) = SubSeq(es, (i - 1) * B + 1, Min({i * B, m}))
    BY <1>1, <1>4 DEF Group
  <2> QED
    BY <2>1, <2>2, <2>3, <2>4
<1>6. ASSUME NEW i \in 1 .. n
      PROVE /\ Group(es, i) \in Seq(Entries)
            /\ Len(Group(es, i)) = P[i] - P[i - 1]
            /\ Len(Group(es, i)) \in 1 .. B
  <2>1. PICK x, y \in Nat : x = P[i - 1] /\ y = P[i] /\ x < y /\ y <= x + B /\ y <= m
    BY <1>5
  <2>2. \A j \in x + 1 .. y : es[j] \in Entries
    BY SMTT(40), <1>1, <2>1
  <2>3. /\ SubSeq(es, x + 1, y) \in Seq(Entries)
        /\ Len(SubSeq(es, x + 1, y)) = IF x + 1 <= y THEN y - (x + 1) + 1 ELSE 0
    BY <2>1, <2>2, SubSeqProperties
  <2>4. Group(es, i) = SubSeq(es, x + 1, y)
    BY <1>5, <2>1
  <2>6. (IF x + 1 <= y THEN y - (x + 1) + 1 ELSE 0) = y - x /\ y - x \in 1 .. B
    BY SMTT(40), <1>4, <2>1
  <2>5. Len(Group(es, i)) = y - x /\ y - x \in 1 .. B
    BY Zenon, <2>3, <2>4, <2>6
  <2> QED
    BY <2>1, <2>3, <2>4, <2>5
<1>7. ss = [i \in 1 .. n |-> Group(es, i)]
  BY DEF Groups
<1>8. AreLists(ss, Entries, n)
  <2>1. ss \in [1 .. n -> Seq(Entries)] /\ \A i \in 1 .. n : ss[i] = Group(es, i)
    BY <1>6, <1>7
  <2>2. Len(ss) = n /\ DOMAIN ss = 1 .. n
    BY <1>2, <2>1
  <2> QED
    BY <1>2, <2>1, <2>2 DEF AreLists
<1>9. PICK f \in [0 .. n -> Seq(Entries)] : Joins(f, ss, n) /\ FlattenSeq(ss) = f[n]
  <2>1. \E f \in [0 .. n -> Seq(Entries)] : Joins(f, ss, n) /\ FlattenSeq(ss) = f[n]
    BY <1>8, FlattenJoins
  <2> QED
    BY <2>1
<1> DEFINE T == {i \in 0 .. n : f[i] = SubSeq(es, 1, P[i])}
<1>10. 0 \in T
  <2>1. f[0] = << >> /\ P[0] = 0 /\ 0 \in 0 .. n
    BY <1>2, <1>3, <1>9 DEF Joins, CutAt
  <2>2. SubSeq(es, 1, 0) = << >>
    BY SubSeqEmpty
  <2> QED
    BY <2>1, <2>2
<1>11. ASSUME NEW i \in 0 .. n, i # n, i \in T PROVE i + 1 \in T
  <2>1. PICK k \in 1 .. n : k = i + 1 /\ k - 1 = i
    BY <1>2, <1>11
  <2>2. f[k] = f[i] \o ss[k]
    <3>1. \A l \in 1 .. n : f[l] = f[l - 1] \o ss[l]
      BY Zenon, <1>9 DEF Joins
    <3> QED
      BY <2>1, <3>1
  <2>3. PICK x, y \in Nat : x = P[i] /\ y = P[k] /\ x < y /\ y <= m
    BY <1>5, <2>1
  <2>4. SubSeq(es, 1, x) \o SubSeq(es, x + 1, y) = SubSeq(es, 1, y)
    <3>1. 1 \in 1 .. Len(es) + 1 /\ x \in 1 - 1 .. Len(es) /\ y \in x .. Len(es)
      BY <1>1, <2>3
    <3> QED
      BY <3>1, ConcatAdjacentSubSeq
  <2>5. ss[k] = SubSeq(es, x + 1, y)
    BY <1>5, <1>7, <2>1, <2>3
  <2>6. f[k] = SubSeq(es, 1, y)
    BY <1>11, <2>2, <2>3, <2>4, <2>5
  <2> QED
    BY <2>1, <2>3, <2>6
<1> HIDE DEF T
<1>12. \A i \in 0 .. n : i \in T
  BY <1>2, <1>10, <1>11, Induction
<1>13. n \in T
  BY <1>2, <1>12
<1>14. f[n] = es
  <2>1. P[n] = m
    BY <1>3 DEF CutAt
  <2> QED
    BY <1>1, <1>13, <2>1, SubSeqFull DEF T
<1>15. Len(es) = Capacity * (n - 1) + Len(ss[n])
  <2>1. PICK k \in 1 .. n : k = n
    BY <1>2
  <2>2. P[k - 1] = (k - 1) * B /\ P[k] = m
    BY <1>3, <1>4, <2>1 DEF CutAt
  <2>3. Len(ss[k]) = m - P[k - 1] /\ P[k - 1] \in Nat
    BY <1>5, <1>6, <1>7, <2>2
  <2>4. (k - 1) * B = B * (k - 1)
    BY <1>4
  <2>5. PICK x \in Nat : x = P[k - 1]
    BY <2>3
  <2>6. B * (k - 1) = x
    BY <2>2, <2>4, <2>5
  <2>7. m = B * (k - 1) + Len(ss[k])
    BY <2>3, <2>5, <2>6
  <2> QED
    BY <1>1, <1>4, <2>1, <2>7
<1> QED
  BY <1>2, <1>4, <1>6, <1>7, <1>8, <1>9, <1>14, <1>15

(* w is what writing the entries as a level of a file makes of it.         *)
Written(file, level, entries, w) ==
    /\ Extends(file, w.file)
    /\ w.next \in Seq(Entries) /\ w.next # << >>
    /\ Len(w.next) = DivCeil(Len(entries), Capacity)
    /\ AllLead(w.file, w.next, level)
    /\ Below(w.file, w.next) = entries
    /\ w.rightmost = w.file[Last(w.next).pointer]
    /\ w.rightmost \in Nodes /\ w.rightmost.level = level
    /\ Len(entries) = Capacity * (Len(w.next) - 1) + Len(w.rightmost.entries)

LEMMA NodeTyped ==
    ASSUME NEW level \in Nat, NEW es \in Seq(Entries), es # << >>
    PROVE  /\ Node(level, es) \in Nodes
           /\ Node(level, es).level = level /\ Node(level, es).entries = es
<1>1. es[1] \in Entries /\ Last(es) \in Entries
  BY FrontLast
<1>2. es[1].first \in Nat /\ Last(es).last \in Nat
  BY <1>1 DEF Entries
<1> QED
  BY <1>2 DEF Node, Nodes

LEMMA LevelIsWritten ==
    ASSUME NEW file \in Seq(Nodes), NEW level \in Nat, NEW es \in Seq(Entries), es # << >>
    PROVE  Written(file, level, es, WriteLevel(file, level, es))
<1>1. PICK n, ss : n = DivCeil(Len(es), Capacity) /\ ss = Groups(es)
  OBVIOUS
<1>2. /\ n \in Nat /\ n >= 1
      /\ AreLists(ss, Entries, n)
      /\ \A i \in 1 .. n : ss[i] = Group(es, i) /\ Len(ss[i]) \in 1 .. Capacity
      /\ Len(es) = Capacity * (n - 1) + Len(ss[n])
      /\ FlattenSeq(ss) = es
  BY ZenonT(60), <1>1, Grouping
<1>3. \A i \in 1 .. n : ss[i] \in Seq(Entries) /\ ss[i] # << >>
  BY <1>2 DEF AreLists
<1>4. PICK written : written = [i \in 1 .. n |-> Node(level, ss[i])]
  OBVIOUS
<1>5. ASSUME NEW i \in 1 .. n
      PROVE /\ written[i] \in Nodes /\ written[i].level = level
            /\ written[i].entries = ss[i]
  BY <1>3, <1>4, NodeTyped
<1>6. written \in Seq(Nodes) /\ Len(written) = n /\ DOMAIN written = 1 .. n
  <2>1. DOMAIN written = 1 .. n
    BY <1>4
  <2>2. written \in [1 .. n -> Nodes]
    BY <1>4, <1>5
  <2> HIDE <1>4, <1>5
  <2>3. written \in Seq(Nodes)
    BY <1>2, <2>2, SeqDef
  <2> QED
    BY <1>2, <2>1, <2>3, LenProperties
<1>7. written = [i \in 1 .. DivCeil(Len(es), Capacity) |-> Node(level, Group(es, i))]
  BY <1>1, <1>2, <1>4
<1>8. PICK more : more = file \o written
  OBVIOUS
<1>9. PICK b \in Nat : b = Len(file)
  OBVIOUS
<1>10. /\ more \in Seq(Nodes) /\ Len(more) = b + n
       /\ \A i \in 1 .. b : more[i] = file[i]
       /\ \A i \in 1 .. n : more[b + i] = written[i]
  <2>1. more \in Seq(Nodes) /\ Len(more) = b + n
    BY <1>6, <1>8, <1>9, ConcatProperties
  <2>2. \A i \in 1 .. b + n : more[i] = IF i <= b THEN file[i] ELSE written[i - b]
    BY <1>6, <1>8, <1>9, ConcatProperties
  <2>3. \A i \in 1 .. b : more[i] = file[i]
    BY <1>2, <2>2
  <2>4. ASSUME NEW i \in 1 .. n PROVE more[b + i] = written[i]
    <3>1. PICK j \in 1 .. b + n : j = b + i /\ ~(j <= b) /\ j - b = i
      BY <1>2
    <3> QED
      BY <2>2, <3>1
  <2> QED
    BY <2>1, <2>3, <2>4
<1>11. PICK next : next = [i \in 1 .. n |-> Entry(b + i, written[i].first, written[i].last)]
  OBVIOUS
<1>12. ASSUME NEW i \in 1 .. n
       PROVE /\ next[i] \in Entries /\ next[i].pointer = b + i
             /\ next[i].first = written[i].first /\ next[i].last = written[i].last
  <2>1. written[i].first \in Nat /\ written[i].last \in Nat
    BY <1>5 DEF Nodes
  <2>2. b + i \in Nat
    BY <1>2
  <2> QED
    BY <1>11, <2>1, <2>2 DEF Entry, Entries
<1>13. next \in Seq(Entries) /\ Len(next) = n /\ DOMAIN next = 1 .. n /\ next # << >>
  <2>1. next \in [1 .. n -> Entries]
    BY <1>11, <1>12
  <2> QED
    BY <1>2, <2>1
<1>14. ASSUME NEW i \in 1 .. n PROVE Leads(more, next[i], level)
  <2>1. b + i \in 1 .. Len(more) /\ more[b + i] = written[i]
    BY <1>2, <1>10
  <2>2. Len(written[i].entries) \in 1 .. Capacity
    BY <1>2, <1>5
  <2> QED
    BY SMTT(40), <1>5, <1>12, <2>1, <2>2 DEF Leads
<1>15. Tiers(more, next) = ss
  <2>1. \A i \in 1 .. n : more[next[i].pointer].entries = ss[i]
    BY <1>5, <1>10, <1>12
  <2>2. ss = [i \in 1 .. n |-> ss[i]]
    BY <1>1, <1>2 DEF Groups
  <2> QED
    BY <1>13, <2>1, <2>2 DEF Tiers
<1>16. Below(more, next) = es
  BY <1>2, <1>15 DEF Below, Tiers
<1>17. PICK last \in Nodes : last = written[n]
  BY <1>2, <1>5
<1>18. Last(written) = last /\ Last(next).pointer = b + n /\ more[b + n] = last
  BY <1>2, <1>6, <1>10, <1>12, <1>13, <1>17 DEF Last
<1>19. last.level = level /\ last.entries = ss[n]
  BY <1>2, <1>5, <1>17
<1>20. PICK w : w = [file |-> more, next |-> next, rightmost |-> last]
  OBVIOUS
<1>21. WriteLevel(file, level, es) = w
  <2>1. next = [i \in DOMAIN written |-> Entry(Len(file) + i, written[i].first, written[i].last)]
    BY <1>6, <1>9, <1>11
  <2> QED
    BY <1>7, <1>8, <1>18, <1>20, <2>1 DEF WriteLevel
<1>22. Extends(file, more)
  BY <1>2, <1>9, <1>10 DEF Extends
<1>23. Written(file, level, es, w)
  <2>1. w.file = more /\ w.next = next /\ w.rightmost = last
    BY <1>20
  <2>2. Len(next) = DivCeil(Len(es), Capacity)
    BY <1>1, <1>13
  <2>3. AllLead(more, next, level)
    BY <1>13, <1>14 DEF AllLead
  <2>4. last = more[Last(next).pointer]
    BY <1>18
  <2>5. Len(es) = Capacity * (Len(next) - 1) + Len(last.entries)
    BY <1>2, <1>13, <1>19
  <2> QED
    BY <1>13, <1>16, <1>19, <1>22, <2>1, <2>2, <2>3, <2>4, <2>5 DEF Written
<1> QED
  BY <1>21, <1>23

-----------------------------------------------------------------------------
(* Trees, level by level from the pages, and what an append keeps of them. *)

Pages(n) == [i \in 1 .. n |-> PageEntry(i)]

(* es are the entries of the nodes of a level, below those of the level    *)
(* below; all but the last of the nodes are full, as far as numbers go.    *)
Rung(file, below, es, level) ==
    /\ es # << >> /\ AllLead(file, es, level) /\ Below(file, es) = below
    /\ Len(below) = Capacity * (Len(es) - 1) + Len(file[Last(es).pointer].entries)

(* E holds the entries of a tree by level: E[0] its pages, E[l] what       *)
(* points to the nodes of level l - 1, and E[h] the root's entry.          *)
Ladder(file, entry, pages, h, E) ==
    /\ h \in 1 .. HeightMax /\ E \in [0 .. h -> Seq(Entries)]
    /\ E[0] = Pages(pages) /\ E[h] = <<entry>>
    /\ \A l \in 1 .. h : Rung(file, E[l - 1], E[l], l - 1)

(* A spine, root first, of the rightmost nodes of that tree.               *)
Chain(file, spine, h, E) ==
    /\ spine \in Seq(Nodes) /\ Len(spine) = h
    /\ \A l \in 1 .. h : spine[h - l + 1] = file[Last(E[l]).pointer]

(* es are the entries outside of the spine of the nodes of a level, below  *)
(* those of the level below; kept is what the node in the spine keeps.     *)
Stem(file, below, es, kept, level) ==
    /\ AllLead(file, es, level)
    /\ IsConcat(below, Below(file, es), kept)
    /\ Len(below) = Capacity * Len(es) + Len(kept)

(* A number of pages is appended to a file: its spine, what it keeps and   *)
(* what stays outside of it, by level, the counts of new nodes, and the    *)
(* depth that was predicted for the new spine, 0 if none was.              *)
Trunk(t) ==
    /\ t.file \in Seq(Nodes) /\ t.spine \in Seq(Nodes)
    /\ t.depth = Len(t.spine) /\ t.depth \in 1 .. HeightMax
    /\ \A l \in 0 .. t.depth - 1 : t.spine[t.depth - l].level = l
    /\ t.kept \in [0 .. HeightMax - 1 -> Seq(Entries)]
    /\ \A l \in 0 .. HeightMax - 1 :
        t.kept[l] = IF l < t.depth THEN Kept(t.spine[t.depth - l]) ELSE << >>
    /\ t.stays \in [0 .. HeightMax -> Seq(Entries)]
    /\ t.stays[0] = Pages(t.pages) /\ \A l \in t.depth .. HeightMax : t.stays[l] = << >>
    /\ \A l \in 1 .. HeightMax : Stem(t.file, t.stays[l - 1], t.stays[l], t.kept[l - 1], l - 1)

LEMMA RungSame ==
    ASSUME NEW file, NEW more, Extends(file, more), NEW es \in Seq(Entries), NEW level,
           NEW below, Rung(file, below, es, level)
    PROVE  /\ Rung(more, below, es, level)
           /\ more[Last(es).pointer] = file[Last(es).pointer]
<1>1. AllLead(file, es, level) /\ es # << >> /\ Below(file, es) = below
  BY DEF Rung
<1>2. AllLead(more, es, level) /\ Below(more, es) = below
  BY <1>1, BelowSame
<1>3. Last(es) = es[Len(es)] /\ Len(es) \in 1 .. Len(es)
  <2>1. Last(es) = es[Len(es)] /\ Len(es) \in Nat /\ Len(es) >= 1
    BY <1>1, FrontLast
  <2>2. PICK m \in Nat : m = Len(es)
    BY <2>1
  <2>3. m \in 1 .. m
    BY <2>1, <2>2
  <2> QED
    BY <2>1, <2>2, <2>3
<1>4. Last(es).pointer \in 1 .. Len(file)
  BY <1>1, <1>3 DEF AllLead, Leads
<1>5. more[Last(es).pointer] = file[Last(es).pointer]
  BY <1>4 DEF Extends
<1> QED
  BY <1>1, <1>2, <1>5 DEF Rung

LEMMA LadderSame ==
    ASSUME NEW file, NEW more, Extends(file, more), NEW entry, NEW pages, NEW h, NEW E,
           Ladder(file, entry, pages, h, E)
    PROVE  Ladder(more, entry, pages, h, E)
<1>1. ASSUME NEW l \in 1 .. h PROVE Rung(more, E[l - 1], E[l], l - 1)
  <2>1. h \in Nat /\ l \in 0 .. h
    BY DEF Ladder
  <2>2. E[l] \in Seq(Entries) /\ Rung(file, E[l - 1], E[l], l - 1)
    BY <2>1 DEF Ladder
  <2> QED
    BY <2>2, RungSame
<1> QED
  BY <1>1 DEF Ladder

(* The node that a rung ends with.                                         *)
LEMMA RungLast ==
    ASSUME NEW file \in Seq(Nodes), NEW es \in Seq(Entries), NEW level, NEW below,
           Rung(file, below, es, level), NEW node, node = file[Last(es).pointer]
    PROVE  /\ node \in Nodes /\ node.level = level
           /\ Last(es) \in Entries /\ Leads(file, Last(es), level)
           /\ node.entries \in Seq(Entries) /\ Len(node.entries) \in 1 .. Capacity
           /\ AllLead(file, Front(es), level)
           /\ IsConcat(below, Below(file, Front(es)), node.entries)
           /\ below # << >> /\ Last(below) = Last(node.entries)
           /\ IsConcat(Front(below), Below(file, Front(es)), Front(node.entries))
           /\ Len(below) = Capacity * (Len(es) - 1) + Len(node.entries)
<1>1. AllLead(file, es, level) /\ es # << >> /\ Below(file, es) = below
  BY DEF Rung
<1>2. Last(es) = es[Len(es)] /\ Len(es) \in 1 .. Len(es) /\ Last(es) \in Entries
  <2>1. Last(es) = es[Len(es)] /\ Last(es) \in Entries /\ Len(es) \in Nat /\ Len(es) >= 1
    BY <1>1, FrontLast
  <2>2. PICK m \in Nat : m = Len(es)
    BY <2>1
  <2>3. m \in 1 .. m
    BY <2>1, <2>2
  <2> QED
    BY <2>1, <2>2, <2>3
<1>3. Leads(file, Last(es), level)
  BY <1>1, <1>2 DEF AllLead
<1>4. node \in Nodes /\ node.level = level
  BY <1>3 DEF Leads
<1>5. PICK x : x = node.entries
  OBVIOUS
<1>6. /\ x \in Seq(Entries) /\ Len(x) \in 1 .. Capacity
      /\ AllLead(file, Front(es), level)
      /\ IsConcat(below, Below(file, Front(es)), x)
      /\ below # << >> /\ Last(below) = Last(x)
      /\ IsConcat(Front(below), Below(file, Front(es)), Front(x))
  BY <1>1, <1>5, BelowLast
<1>7. Len(below) = Capacity * (Len(es) - 1) + Len(x)
  BY <1>5 DEF Rung
<1> QED
  BY <1>2, <1>3, <1>4, <1>5, <1>6, <1>7

LEMMA PagesTyped == ASSUME NEW n \in Nat PROVE Pages(n) \in Seq(Entries) /\ Len(Pages(n)) = n
<1>1. \A i \in 1 .. n : PageEntry(i) \in Entries
  BY DEF PageEntry, Entry, Entries
<1> QED
  BY <1>1 DEF Pages

LEMMA PagesAppended ==
    ASSUME NEW m \in Nat, NEW k \in Nat, NEW added, added = [i \in 1 .. k |-> PageEntry(m + i)]
    PROVE  /\ added \in Seq(Entries) /\ Len(added) = k
           /\ IsConcat(Pages(m + k), Pages(m), added)
<1>1. \A i \in 1 .. k : PageEntry(m + i) \in Entries
  BY DEF PageEntry, Entry, Entries
<1>2. added \in Seq(Entries) /\ Len(added) = k /\ \A i \in 1 .. k : added[i] = PageEntry(m + i)
  BY <1>1
<1>3. PICK p \in Seq(Entries) : p = Pages(m) /\ Len(p) = m
  BY PagesTyped
<1>4. PICK l \in Nat : l = m + k
  OBVIOUS
<1>5. PICK q \in Seq(Entries) : q = Pages(l) /\ Len(q) = l
  BY PagesTyped
<1>6. PICK r \in Seq(Entries) : r = p \o added
  BY <1>2, <1>3, ConcatProperties
<1>7. Len(r) = l /\ \A i \in 1 .. l : r[i] = IF i <= m THEN p[i] ELSE added[i - m]
  <2>1. Len(r) = Len(p) + Len(added)
    BY <1>2, <1>6, ConcatProperties
  <2>2. \A i \in 1 .. Len(p) + Len(added) : r[i] = IF i <= Len(p) THEN p[i] ELSE added[i - Len(p)]
    BY <1>2, <1>6, ConcatProperties
  <2> QED
    BY <1>2, <1>3, <1>4, <2>1, <2>2
<1>8. ASSUME NEW i \in 1 .. l PROVE r[i] = q[i]
  <2>1. q[i] = PageEntry(i)
    BY <1>5 DEF Pages
  <2>2. CASE i <= m
    <3>1. i \in 1 .. m
      BY <2>2
    <3>2. p[i] = PageEntry(i)
      BY <1>3, <3>1 DEF Pages
    <3> QED
      BY <1>7, <2>1, <2>2, <3>2
  <2>3. CASE i > m
    <3>1. PICK j \in 1 .. k : j = i - m
      BY <1>4, <2>3
    <3>2. m + j = i
      BY <3>1
    <3> QED
      BY <1>2, <1>7, <2>1, <2>3, <3>1, <3>2
  <2> QED
    BY <2>2, <2>3
<1>9. r = q
  BY <1>5, <1>7, <1>8, SeqEqual
<1> QED
  BY <1>2, <1>3, <1>4, <1>5, <1>6, <1>9 DEF IsConcat

(* The trunk of a tree.                                                    *)
LEMMA TrunkOfChain ==
    ASSUME NEW file \in Seq(Nodes), NEW entry, NEW pages \in Nat, NEW h, NEW E,
           Ladder(file, entry, pages, h, E), NEW spine, Chain(file, spine, h, E)
    PROVE  \E t : /\ Trunk(t) /\ t.file = file /\ t.spine = spine /\ t.pages = pages
                  /\ t.depth = h
<1>1. h \in 1 .. HeightMax /\ HeightMax \in Nat /\ h \in Nat
  BY TimeIndexAssumption DEF Ladder
<1>2. spine \in Seq(Nodes) /\ Len(spine) = h
  BY DEF Chain
<1>3. ASSUME NEW l \in 1 .. h
      PROVE /\ l \in 0 .. h /\ l - 1 \in 0 .. h /\ E[l] \in Seq(Entries) /\ E[l - 1] \in Seq(Entries)
            /\ E[l] # << >>
            /\ Rung(file, E[l - 1], E[l], l - 1) /\ spine[h - l + 1] = file[Last(E[l]).pointer]
  <2>1. l \in 0 .. h /\ l - 1 \in 0 .. h
    BY <1>1
  <2>2. Rung(file, E[l - 1], E[l], l - 1)
    BY DEF Ladder
  <2> QED
    BY <2>1, <2>2 DEF Ladder, Chain, Rung
<1>4. ASSUME NEW l \in 1 .. h
      PROVE /\ spine[h - l + 1].level = l - 1
            /\ spine[h - l + 1].entries \in Seq(Entries)
            /\ Len(spine[h - l + 1].entries) \in 1 .. Capacity
            /\ spine[h - l + 1].entries # << >>
            /\ AllLead(file, Front(E[l]), l - 1)
            /\ IsConcat(E[l - 1], Below(file, Front(E[l])), spine[h - l + 1].entries)
            /\ IsConcat(Front(E[l - 1]), Below(file, Front(E[l])),
                        Front(spine[h - l + 1].entries))
            /\ Len(E[l - 1]) = Capacity * (Len(E[l]) - 1) + Len(spine[h - l + 1].entries)
  <2>0. PICK es \in Seq(Entries) : es = E[l]
    BY <1>3
  <2>1. PICK below, node : below = E[l - 1] /\ node = spine[h - l + 1]
    OBVIOUS
  <2>2. Rung(file, below, es, l - 1) /\ node = file[Last(es).pointer]
    BY <1>3, <2>0, <2>1
  <2>3. /\ node.level = l - 1
        /\ node.entries \in Seq(Entries) /\ Len(node.entries) \in 1 .. Capacity
        /\ AllLead(file, Front(es), l - 1)
        /\ IsConcat(below, Below(file, Front(es)), node.entries)
        /\ IsConcat(Front(below), Below(file, Front(es)), Front(node.entries))
        /\ Len(below) = Capacity * (Len(es) - 1) + Len(node.entries)
    BY <2>2, RungLast
  <2>4. node.entries # << >>
    BY <2>3
  <2> QED
    BY <2>0, <2>1, <2>3, <2>4
<1>5. ASSUME NEW l \in 0 .. h - 1
      PROVE /\ spine[h - l].level = l
            /\ spine[h - l].entries \in Seq(Entries) /\ spine[h - l].entries # << >>
            /\ Kept(spine[h - l]) = IF l = 0 THEN spine[h - l].entries
                                    ELSE Front(spine[h - l].entries)
            /\ Kept(spine[h - l]) \in Seq(Entries)
  <2>1. PICK k \in 1 .. h : k = l + 1
    BY <1>1
  <2>2. h - k + 1 = h - l /\ k - 1 = l
    BY <1>1, <2>1
  <2>3. /\ spine[h - l].level = l
        /\ spine[h - l].entries \in Seq(Entries) /\ spine[h - l].entries # << >>
    BY <1>4, <2>2
  <2>4. Front(spine[h - l].entries) \in Seq(Entries)
    BY <2>3, FrontLast
  <2> QED
    BY <2>3, <2>4 DEF Kept
<1>6. PICK kept : kept = [l \in 0 .. HeightMax - 1 |->
                            IF l < h THEN Kept(spine[h - l]) ELSE << >>]
  OBVIOUS
<1>7. /\ kept \in [0 .. HeightMax - 1 -> Seq(Entries)]
      /\ \A l \in 0 .. HeightMax - 1 : kept[l] = IF l < h THEN Kept(spine[h - l]) ELSE << >>
  <2>1. ASSUME NEW l \in 0 .. HeightMax - 1
        PROVE (IF l < h THEN Kept(spine[h - l]) ELSE << >>) \in Seq(Entries)
    <3>1. CASE l < h
      <4>1. l \in 0 .. h - 1
        BY <1>1, <3>1
      <4> QED
        BY <1>5, <3>1, <4>1
    <3>2. CASE ~(l < h)
      BY <3>2
    <3> QED
      BY <3>1, <3>2
  <2> QED
    BY <1>6, <2>1
<1>8. PICK stays : stays = [l \in 0 .. HeightMax |->
                              IF l = 0 THEN E[0] ELSE IF l < h THEN Front(E[l]) ELSE << >>]
  OBVIOUS
<1>9. /\ stays \in [0 .. HeightMax -> Seq(Entries)]
      /\ stays[0] = Pages(pages)
      /\ \A l \in 1 .. HeightMax : stays[l] = IF l < h THEN Front(E[l]) ELSE << >>
  <2>1. ASSUME NEW l \in 1 .. h PROVE Front(E[l]) \in Seq(Entries)
    BY <1>3, FrontLast
  <2>2. E[0] \in Seq(Entries) /\ E[0] = Pages(pages)
    BY <1>1 DEF Ladder
  <2>3. ASSUME NEW l \in 0 .. HeightMax
        PROVE (IF l = 0 THEN E[0] ELSE IF l < h THEN Front(E[l]) ELSE << >>) \in Seq(Entries)
    <3>1. CASE l = 0
      BY <2>2, <3>1
    <3>2. CASE l # 0 /\ l < h
      <4>1. l \in 1 .. h
        BY <1>1, <3>2
      <4> QED
        BY <2>1, <3>2, <4>1
    <3>3. CASE l # 0 /\ ~(l < h)
      BY <3>3
    <3> QED
      BY <3>1, <3>2, <3>3
  <2>4. stays \in [0 .. HeightMax -> Seq(Entries)]
    BY <1>8, <2>3
  <2>5. stays[0] = Pages(pages)
    BY <1>1, <1>8, <2>2
  <2>6. \A l \in 1 .. HeightMax : stays[l] = IF l < h THEN Front(E[l]) ELSE << >>
    BY <1>1, <1>8
  <2> QED
    BY <2>4, <2>5, <2>6
<1>10. \A l \in h .. HeightMax : stays[l] = << >>
  BY <1>1, <1>9
<1>11. Front(E[h]) = << >>
  <2>1. E[h] = <<entry>>
    BY DEF Ladder
  <2>2. E[h] \in Seq(Entries) /\ Len(E[h]) = 1 /\ E[h] # << >>
    BY <1>1, <1>3, <2>1
  <2>3. Front(E[h]) \in Seq(Entries) /\ Len(Front(E[h])) = 0
    BY <2>2, FrontLast
  <2> QED
    BY <2>3
<1>12. ASSUME NEW l \in 1 .. h PROVE stays[l] = Front(E[l])
  BY <1>1, <1>9, <1>10, <1>11
<1>13. ASSUME NEW l \in 1 .. HeightMax
       PROVE Stem(file, stays[l - 1], stays[l], kept[l - 1], l - 1)
  <2>1. CASE l \in 1 .. h
    <3>1. PICK x : x = spine[h - l + 1].entries
      OBVIOUS
    <3>2. /\ x \in Seq(Entries) /\ x # << >> /\ Len(x) \in Nat
          /\ AllLead(file, Front(E[l]), l - 1)
          /\ IsConcat(E[l - 1], Below(file, Front(E[l])), x)
          /\ IsConcat(Front(E[l - 1]), Below(file, Front(E[l])), Front(x))
          /\ Len(E[l - 1]) = Capacity * (Len(E[l]) - 1) + Len(x)
      BY <1>4, <2>1, <3>1
    <3>3. Len(Front(E[l])) = Len(E[l]) - 1
      BY <1>3, <2>1, FrontLast
    <3>4. l - 1 \in 0 .. h - 1 /\ h - (l - 1) = h - l + 1 /\ l - 1 \in 0 .. HeightMax - 1
      BY <1>1, <2>1
    <3>5. kept[l - 1] = IF l - 1 = 0 THEN x ELSE Front(x)
      <4>1. PICK k \in 0 .. h - 1 : k = l - 1
        BY <3>4
      <4>2. k \in 0 .. HeightMax - 1 /\ k < h /\ h - k = h - l + 1
        BY <1>1, <3>4, <4>1
      <4>3. kept[k] = Kept(spine[h - k])
        BY <1>7, <4>2
      <4>4. Kept(spine[h - k]) = IF k = 0 THEN spine[h - k].entries
                                 ELSE Front(spine[h - k].entries)
        BY <1>5
      <4> QED
        BY <3>1, <4>1, <4>2, <4>3, <4>4
    <3>6. CASE l = 1
      <4>1. stays[l - 1] = E[l - 1] /\ kept[l - 1] = x
        BY <1>9, <3>5, <3>6 DEF Ladder
      <4> QED
        BY <1>12, <2>1, <3>2, <3>3, <4>1 DEF Stem
    <3>7. CASE l # 1
      <4>1. l - 1 \in 1 .. h
        BY <1>1, <2>1, <3>7
      <4>2. stays[l - 1] = Front(E[l - 1]) /\ kept[l - 1] = Front(x)
        BY <1>12, <3>5, <3>7, <4>1
      <4>3. Len(Front(E[l - 1])) = Len(E[l - 1]) - 1 /\ Len(Front(x)) = Len(x) - 1
        BY <1>3, <3>2, <4>1, FrontLast
      <4>4. Len(Front(E[l - 1])) = Capacity * (Len(E[l]) - 1) + Len(Front(x))
        <5>1. PICK c : c = Capacity * (Len(E[l]) - 1)
          OBVIOUS
        <5>2. c \in Int
          <6>1. Len(E[l]) \in Nat
            BY <1>3, <2>1
          <6> QED
            BY <5>1, <6>1, TimeIndexAssumption
        <5>3. Len(E[l - 1]) = c + Len(x)
          BY <3>2, <5>1
        <5> QED
          BY <3>2, <4>3, <5>1, <5>2, <5>3
      <4> QED
        BY <1>12, <2>1, <3>2, <3>3, <4>2, <4>4 DEF Stem
    <3> QED
      BY <3>6, <3>7
  <2>2. CASE l > h
    <3>1. stays[l] = << >> /\ stays[l - 1] = << >> /\ kept[l - 1] = << >>
      BY <1>1, <1>7, <1>10, <2>2
    <3>2. Below(file, << >>) = << >>
      BY BelowEmpty
    <3>3. AllLead(file, << >>, l - 1) /\ Len(<< >>) = 0
      BY DEF AllLead
    <3>4. Capacity * 0 + 0 = 0
      BY TimeIndexAssumption
    <3>5. << >> = << >> \o << >>
      BY EmptySeq, ConcatEmptySeq
    <3> QED
      BY <3>1, <3>2, <3>3, <3>4, <3>5 DEF Stem, IsConcat
  <2> QED
    BY <1>1, <2>1, <2>2
<1>14. PICK t : t = [file |-> file, spine |-> spine, depth |-> h, kept |-> kept,
                     stays |-> stays, pages |-> pages]
  OBVIOUS
<1>15. /\ t.file = file /\ t.spine = spine /\ t.depth = h /\ t.kept = kept
       /\ t.stays = stays /\ t.pages = pages
  BY <1>14
<1>16. Trunk(t)
  BY ZenonT(60), <1>1, <1>2, <1>5, <1>7, <1>9, <1>10, <1>13, <1>15 DEF Trunk
<1> QED
  BY <1>15, <1>16

(* A new series has none.                                                  *)
LEMMA TrunkOfNone ==
    ASSUME NEW file \in Seq(Nodes)
    PROVE  \E t : /\ Trunk(t) /\ t.file = file /\ t.spine = <<BlankNode>> /\ t.pages = 0
                  /\ t.depth = 1
<1>1. HeightMax \in Nat /\ HeightMax >= 1
  BY TimeIndexAssumption
<1>2. << >> \in Seq(Entries)
  BY EmptySeq
<1>3. BlankNode \in Nodes /\ BlankNode.level = 0 /\ Kept(BlankNode) = << >>
  BY <1>2 DEF BlankNode, Nodes, Kept
<1>4. PICK spine \in Seq(Nodes) : spine = <<BlankNode>>
  <2>1. <<BlankNode>> \in Seq(Nodes)
    BY <1>3
  <2> QED
    BY <2>1
<1>5. Len(spine) = 1 /\ spine[1] = BlankNode
  BY <1>4
<1>6. PICK kept, stays : /\ kept = [l \in 0 .. HeightMax - 1 |-> << >>]
                         /\ stays = [l \in 0 .. HeightMax |-> << >>]
  OBVIOUS
<1>7. kept \in [0 .. HeightMax - 1 -> Seq(Entries)] /\ stays \in [0 .. HeightMax -> Seq(Entries)]
  BY <1>2, <1>6
<1>8. \A l \in 0 .. HeightMax - 1 : kept[l] = IF l < 1 THEN Kept(spine[1 - l]) ELSE << >>
  BY <1>3, <1>5, <1>6
<1>9. Pages(0) = << >>
  <2>1. Pages(0) \in Seq(Entries) /\ Len(Pages(0)) = 0
    BY PagesTyped
  <2> QED
    BY <2>1
<1>10. stays[0] = Pages(0) /\ \A l \in 1 .. HeightMax : stays[l] = << >>
  BY <1>1, <1>6, <1>9
<1>11. ASSUME NEW l \in 1 .. HeightMax
       PROVE Stem(file, stays[l - 1], stays[l], kept[l - 1], l - 1)
  <2>1. stays[l] = << >> /\ stays[l - 1] = << >> /\ kept[l - 1] = << >>
    BY <1>1, <1>6
  <2>2. Below(file, << >>) = << >>
    BY BelowEmpty
  <2>3. AllLead(file, << >>, l - 1) /\ Len(<< >>) = 0
    BY DEF AllLead
  <2>4. Capacity * 0 + 0 = 0
    BY TimeIndexAssumption
  <2>5. << >> = << >> \o << >>
    BY <1>2, ConcatEmptySeq
  <2> QED
    BY <2>1, <2>2, <2>3, <2>4, <2>5 DEF Stem, IsConcat
<1>12. PICK t : t = [file |-> file, spine |-> spine, depth |-> 1, kept |-> kept,
                     stays |-> stays, pages |-> 0]
  OBVIOUS
<1>13. /\ t.file = file /\ t.spine = spine /\ t.depth = 1 /\ t.kept = kept
       /\ t.stays = stays /\ t.pages = 0
  BY <1>12
<1>14. \A l \in 0 .. 1 - 1 : spine[1 - l].level = l
  BY <1>3, <1>5
<1>15. Trunk(t)
  BY SMTT(40), <1>1, <1>5, <1>7, <1>8, <1>10, <1>11, <1>13, <1>14 DEF Trunk
<1> QED
  BY <1>4, <1>13, <1>15


-----------------------------------------------------------------------------
(* The recursive functions of the append have values.                      *)

LEMMA DivCeilTyped ==
    ASSUME NEW a \in Nat
    PROVE  DivCeil(a, Capacity) \in Nat /\ (a >= 1 => DivCeil(a, Capacity) >= 1)
<1>1. CASE a = 0
  <2>1. PICK B \in Nat : B = Capacity /\ B >= 2
    BY TimeIndexAssumption
  <2>2. PICK x \in Nat : x = a + B - 1
    BY <1>1, <2>1
  <2>3. x \div B \in Nat
    BY <2>1
  <2> QED
    BY <1>1, <2>1, <2>2, <2>3 DEF DivCeil
<1>2. CASE a # 0
  <2>1. a >= 1
    BY <1>2
  <2> QED
    BY <2>1, CutByCapacity DEF Cut
<1> QED
  BY <1>1, <1>2

Counts(spine, added, count) ==
    /\ count \in [0 .. HeightMax -> Nat] /\ count[0] = added
    /\ \A l \in 1 .. HeightMax :
        count[l] = DivCeil(KeptCount(spine, l - 1) + count[l - 1], Capacity)

LEMMA NodesAreCounted ==
    ASSUME NEW spine, NEW added \in Nat,
           \A l \in 0 .. HeightMax - 1 : KeptCount(spine, l) \in Nat
    PROVE  Counts(spine, added, NodeCounts(spine, added))
<1>1. PICK H \in Nat : H = HeightMax
  BY TimeIndexAssumption
<1> DEFINE F == [p \in (1 .. H) \X Nat |->
                    DivCeil(KeptCount(spine, p[1] - 1) + p[2], Capacity)]
<1>2. ASSUME NEW n \in 1 .. H, NEW v \in Nat
      PROVE /\ DivCeil(KeptCount(spine, n - 1) + v, Capacity) \in Nat
            /\ F[<<n, v>>] = DivCeil(KeptCount(spine, n - 1) + v, Capacity)
  <2>1. n - 1 \in 0 .. HeightMax - 1
    BY <1>1
  <2>2. PICK a \in Nat : a = KeptCount(spine, n - 1) + v
    BY <2>1
  <2> QED
    BY <2>2, DivCeilTyped
<1> HIDE DEF F
<1>3. \A n \in 1 .. H : \A v \in Nat : F[<<n, v>>] \in Nat
  BY <1>2
<1>4. PICK f \in [0 .. H -> Nat] : Iterates(f, added, F, H)
  BY <1>3, Recursion
<1> DEFINE Is(h) == h = [level \in 0 .. HeightMax |->
                            IF level = 0 THEN added
                            ELSE DivCeil(KeptCount(spine, level - 1) + h[level - 1], Capacity)]
<1>5. Is(f)
  <2>1. ASSUME NEW n \in 0 .. H
        PROVE f[n] = IF n = 0 THEN added
                     ELSE DivCeil(KeptCount(spine, n - 1) + f[n - 1], Capacity)
    <3>1. CASE n = 0
      BY <1>4, <3>1 DEF Iterates
    <3>2. CASE n # 0
      <4>1. n \in 1 .. H /\ n - 1 \in 0 .. H
        BY <3>2
      <4>2. f[n] = F[<<n, f[n - 1]>>] /\ f[n - 1] \in Nat
        BY <1>4, <4>1 DEF Iterates
      <4> QED
        BY <1>2, <3>2, <4>1, <4>2
    <3> QED
      BY <3>1, <3>2
  <2> QED
    BY <1>1, <2>1
<1>6. PICK g : g = (CHOOSE h : Is(h)) /\ Is(g)
  BY ZenonT(60), <1>5
<1>7. NodeCounts(spine, added) = g
  BY <1>6 DEF NodeCounts
<1>8. /\ DOMAIN g = 0 .. H
      /\ g = [n \in 0 .. H |-> g[n]]
      /\ \A n \in 0 .. H : g[n] = IF n = 0 THEN added
                                  ELSE DivCeil(KeptCount(spine, n - 1) + g[n - 1], Capacity)
  BY <1>1, <1>6
<1> HIDE DEF Is
<1> DEFINE T == {n \in 0 .. H : g[n] \in Nat}
<1>9. 0 \in T
  BY SMTT(40), <1>8
<1>10. ASSUME NEW n \in 0 .. H, n # H, n \in T PROVE n + 1 \in T
  <2>1. PICK k \in 1 .. H : k = n + 1 /\ k - 1 = n
    BY <1>10
  <2>3. k \in 0 .. H /\ k # 0
    OBVIOUS
  <2>2. g[k] = DivCeil(KeptCount(spine, k - 1) + g[k - 1], Capacity)
    BY <1>8, <2>3
  <2>4. PICK v \in Nat : v = g[n]
    BY <1>10
  <2>5. g[k] \in Nat
    BY <1>2, <2>1, <2>2, <2>4
  <2> QED
    BY <2>1, <2>3, <2>5
<1> HIDE DEF T
<1>11. \A n \in 0 .. H : n \in T
  BY <1>9, <1>10, Induction
<1>12. g \in [0 .. H -> Nat]
  BY <1>8, <1>11 DEF T
<1>13. 0 \in 0 .. H /\ \A n \in 1 .. H : n \in 0 .. H /\ n # 0
  OBVIOUS
<1> QED
  BY <1>1, <1>7, <1>8, <1>12, <1>13 DEF Counts

Start(file, spine, predicted, added) ==
    [file |-> file, next |-> added, fresh |-> << >>,
     buffer |-> [d \in 1 .. Max({Len(spine), predicted}) |->
                    IF d <= Len(spine) THEN spine[d] ELSE BlankNode]]

LEMMA RoundsFollow ==
    ASSUME NEW file, NEW spine, NEW predicted, NEW added,
           NEW R, R = Rounds(file, spine, predicted, added)
    PROVE  /\ R[0] = Start(file, spine, predicted, added)
           /\ \A n \in 1 .. HeightMax :
                R[n] = WriteRound(R[n - 1], Len(spine), predicted, n - 1)
<1>1. PICK H \in Nat : H = HeightMax
  BY TimeIndexAssumption
<1>2. PICK depth, x : depth = Len(spine) /\ x = Start(file, spine, predicted, added)
  OBVIOUS
<1> DEFINE Follows(f, n) ==
        f[0] = x /\ \A k \in 1 .. n : f[k] = WriteRound(f[k - 1], depth, predicted, k - 1)
<1> DEFINE T == {n \in 0 .. H : \E f : Follows(f, n)}
<1>3. 0 \in T
  <2>1. PICK f : f = [i \in {0} |-> x]
    OBVIOUS
  <2>2. f[0] = x /\ 1 .. 0 = {}
    BY <2>1
  <2>3. Follows(f, 0)
    BY <2>2
  <2> HIDE DEF Follows
  <2> QED
    BY <2>3
<1>4. ASSUME NEW n \in 0 .. H, n # H, n \in T PROVE n + 1 \in T
  <2>1. PICK f : Follows(f, n)
    BY <1>4
  <2>2. PICK k \in 1 .. H : k = n + 1 /\ k - 1 = n
    BY <1>4
  <2>3. PICK g : g = [i \in 0 .. k |->
                        IF i = k THEN WriteRound(f[n], depth, predicted, n) ELSE f[i]]
    OBVIOUS
  <2>4. g[k] = WriteRound(f[n], depth, predicted, n) /\ \A i \in 0 .. n : g[i] = f[i]
    BY <2>2, <2>3
  <2>5. ASSUME NEW i \in 1 .. k PROVE g[i] = WriteRound(g[i - 1], depth, predicted, i - 1)
    <3>1. CASE i = k
      <4>1. i - 1 = n /\ n \in 0 .. n
        BY <2>2, <3>1
      <4> QED
        BY <2>4, <3>1, <4>1
    <3>2. CASE i # k
      <4>1. i \in 1 .. n /\ i \in 0 .. n /\ i - 1 \in 0 .. n
        BY <2>2, <3>2
      <4> QED
        BY <2>1, <2>4, <4>1
    <3> QED
      BY <3>1, <3>2
  <2>6. g[0] = x
    BY <2>1, <2>4
  <2>7. Follows(g, k)
    BY <2>5, <2>6
  <2> QED
    BY <2>2, <2>7
<1> HIDE DEF T
<1>5. H \in T
  BY <1>3, <1>4, Induction
<1>6. PICK f : Follows(f, H)
  BY <1>5 DEF T
<1> DEFINE Is(h) == h = [level \in 0 .. HeightMax |->
                            IF level = 0 THEN Start(file, spine, predicted, added)
                            ELSE WriteRound(h[level - 1], Len(spine), predicted, level - 1)]
<1>7. PICK c : c = [n \in 0 .. H |-> f[n]]
  OBVIOUS
<1>8. Is(c)
  <2>1. ASSUME NEW n \in 0 .. H
        PROVE c[n] = IF n = 0 THEN x ELSE WriteRound(c[n - 1], depth, predicted, n - 1)
    <3>1. CASE n = 0
      BY <1>6, <1>7, <3>1
    <3>2. CASE n # 0
      <4>1. n \in 1 .. H /\ n - 1 \in 0 .. H
        BY <3>2
      <4> QED
        BY <1>6, <1>7, <3>2, <4>1
    <3> QED
      BY <3>1, <3>2
  <2>2. c = [n \in 0 .. H |-> IF n = 0 THEN x ELSE WriteRound(c[n - 1], depth, predicted, n - 1)]
    BY <1>7, <2>1
  <2> QED
    BY <1>1, <1>2, <2>2
<1>9. PICK g : g = (CHOOSE h : Is(h)) /\ Is(g)
  BY ZenonT(60), <1>8
<1>10. R = g
  BY <1>9 DEF Rounds, Start
<1>11. \A n \in 0 .. HeightMax :
        g[n] = IF n = 0 THEN Start(file, spine, predicted, added)
               ELSE WriteRound(g[n - 1], Len(spine), predicted, n - 1)
  BY Zenon, <1>9
<1> HIDE DEF Is
<1>12. 0 \in 0 .. HeightMax /\ \A n \in 1 .. HeightMax : n \in 0 .. HeightMax /\ n # 0
  BY <1>1
<1> QED
  BY <1>10, <1>11, <1>12

(* The room in a tree of each height.                                      *)
LEMMA RoomGrows ==
    /\ Room \in [0 .. HeightMax -> Nat \ {0}] /\ Room[0] = 1
    /\ \A l \in 1 .. HeightMax : Room[l] = Capacity * Room[l - 1]
<1>1. PICK H \in Nat : H = HeightMax
  BY TimeIndexAssumption
<1>2. PICK B \in Nat : B = Capacity /\ B >= 2
  BY TimeIndexAssumption
<1> DEFINE F == [p \in (1 .. H) \X (Nat \ {0}) |-> B * p[2]]
<1>3. ASSUME NEW n \in 1 .. H, NEW v \in Nat \ {0}
      PROVE B * v \in Nat \ {0} /\ F[<<n, v>>] = B * v
  <2>1. B * v \in Nat /\ B * v # 0
    BY <1>2
  <2> QED
    BY <2>1
<1> HIDE DEF F
<1>4. PICK f \in [0 .. H -> Nat \ {0}] : Iterates(f, 1, F, H)
  <2>1. \A n \in 1 .. H : \A v \in Nat \ {0} : F[<<n, v>>] \in Nat \ {0}
    BY <1>3
  <2>2. 1 \in Nat \ {0}
    OBVIOUS
  <2> QED
    BY <2>1, <2>2, Recursion
<1> DEFINE Is(h) == h = [height \in 0 .. HeightMax |->
                            IF height = 0 THEN 1 ELSE Capacity * h[height - 1]]
<1>5. Is(f)
  <2>1. ASSUME NEW n \in 0 .. H PROVE f[n] = IF n = 0 THEN 1 ELSE Capacity * f[n - 1]
    <3>1. CASE n = 0
      BY <1>4, <3>1 DEF Iterates
    <3>2. CASE n # 0
      <4>1. n \in 1 .. H /\ n - 1 \in 0 .. H
        BY <3>2
      <4>2. f[n] = F[<<n, f[n - 1]>>] /\ f[n - 1] \in Nat \ {0}
        BY <1>4, <4>1 DEF Iterates
      <4> QED
        BY <1>2, <1>3, <3>2, <4>1, <4>2
    <3> QED
      BY <3>1, <3>2
  <2> QED
    BY <1>1, <2>1
<1>6. PICK g : g = (CHOOSE h : Is(h)) /\ Is(g)
  BY ZenonT(60), <1>5
<1>7. Room = g
  BY <1>6 DEF Room
<1>8. /\ g = [n \in 0 .. H |-> g[n]]
      /\ \A n \in 0 .. H : g[n] = IF n = 0 THEN 1 ELSE Capacity * g[n - 1]
  BY <1>1, <1>6
<1> HIDE DEF Is
<1> DEFINE T == {n \in 0 .. H : g[n] \in Nat \ {0}}
<1>9. 0 \in T
  <2>1. 0 \in 0 .. H
    OBVIOUS
  <2>2. g[0] = 1
    BY <1>8, <2>1
  <2> QED
    BY <2>1, <2>2
<1>10. ASSUME NEW n \in 0 .. H, n # H, n \in T PROVE n + 1 \in T
  <2>1. PICK k \in 1 .. H : k = n + 1 /\ k - 1 = n
    BY <1>10
  <2>3. k \in 0 .. H /\ k # 0
    OBVIOUS
  <2>2. g[k] = B * g[n]
    BY <1>2, <1>8, <2>1, <2>3
  <2>4. PICK v \in Nat \ {0} : v = g[n]
    BY <1>10
  <2>5. g[k] \in Nat \ {0}
    BY <1>3, <2>2, <2>4
  <2> QED
    BY <2>1, <2>3, <2>5
<1> HIDE DEF T
<1>11. \A n \in 0 .. H : n \in T
  BY <1>9, <1>10, Induction
<1>12. g \in [0 .. H -> Nat \ {0}]
  BY <1>8, <1>11 DEF T
<1>13. 0 \in 0 .. H /\ \A n \in 1 .. H : n \in 0 .. H /\ n # 0
  OBVIOUS
<1> QED
  BY <1>1, <1>7, <1>8, <1>12, <1>13

-----------------------------------------------------------------------------
(* A round of the append.                                                  *)

(* What the round writes tops what an earlier file holds of a level.       *)
LEMMA NewRung ==
    ASSUME NEW file \in Seq(Nodes), NEW level, NEW x0 \in Seq(Entries),
           NEW x1 \in Seq(Entries), NEW kept \in Seq(Entries), Stem(file, x0, x1, kept, level),
           NEW now, Extends(file, now), NEW next \in Seq(Entries),
           NEW es, IsConcat(es, kept, next), NEW w, Written(now, level, es, w),
           NEW e0, IsConcat(e0, x0, next), NEW e1, IsConcat(e1, x1, w.next)
    PROVE  /\ e1 \in Seq(Entries) /\ Rung(w.file, e0, e1, level)
           /\ w.file[Last(e1).pointer] = w.rightmost /\ Extends(file, w.file)
<1>1. PICK f, m, r : f = w.file /\ m = w.next /\ r = w.rightmost
  OBVIOUS
<1>2. /\ Extends(now, f) /\ m \in Seq(Entries) /\ m # << >> /\ AllLead(f, m, level)
      /\ Below(f, m) = es /\ r = f[Last(m).pointer] /\ r \in Nodes
      /\ Len(es) = Capacity * (Len(m) - 1) + Len(r.entries)
  BY <1>1 DEF Written
<1>3. Extends(file, f) /\ f \in Seq(Nodes)
  <2>1. Extends(file, f)
    BY <1>2, ExtendsFurther
  <2> QED
    BY <2>1 DEF Extends
<1>4. /\ AllLead(file, x1, level) /\ IsConcat(x0, Below(file, x1), kept)
      /\ Len(x0) = Capacity * Len(x1) + Len(kept)
  BY DEF Stem
<1>5. PICK b \in Seq(Entries) : b = Below(file, x1)
  BY <1>4, BelowTyped
<1>6. AllLead(f, x1, level) /\ Below(f, x1) = b
  BY <1>3, <1>4, <1>5, BelowSame
<1>7. IsConcat(e1, x1, m)
  BY <1>1
<1>8. e1 \in Seq(Entries) /\ AllLead(f, e1, level)
  BY <1>2, <1>6, <1>7, AllLeadConcat
<1>9. PICK d : d = Below(f, e1)
  OBVIOUS
<1>10. IsConcat(d, b, es)
  BY <1>2, <1>3, <1>6, <1>7, <1>9, BelowConcat
<1>11. d = e0
  <2>1. Associates(b, kept, next)
    BY Regrouping
  <2> QED
    BY <1>4, <1>5, <1>10, <2>1 DEF Associates, IsConcat
<1>12. e1 # << >> /\ Last(e1) = Last(m)
  BY <1>2, <1>7, EndOfConcat
<1>13. Len(e0) = Capacity * (Len(e1) - 1) + Len(r.entries)
  <2>1. PICK B \in Nat : B = Capacity
    BY TimeIndexAssumption
  <2>2. PICK a, c \in Nat : a = Len(x1) /\ c = Len(m)
    BY <1>2
  <2>3. PICK i, j, k \in Nat : i = Len(kept) /\ j = Len(next) /\ k = Len(r.entries)
    BY <1>2 DEF Nodes
  <2>4. Len(e0) = Len(x0) + j
    BY <2>3, ConcatProperties DEF IsConcat
  <2>5. Len(es) = i + j
    BY <2>3, ConcatProperties DEF IsConcat
  <2>6. Len(e1) = a + c
    BY <1>2, <1>7, <2>2, ConcatProperties DEF IsConcat
  <2>7. Len(x0) = B * a + i /\ i + j = B * (c - 1) + k
    BY <1>2, <1>4, <2>1, <2>2, <2>3, <2>5
  <2>8. B * (a + c - 1) = B * a + B * (c - 1) /\ B * a \in Int /\ B * (c - 1) \in Int
    BY <2>1, <2>2
  <2>9. PICK u, v \in Int : u = B * a /\ v = B * (c - 1)
    BY <2>8
  <2>10. B * (a + c - 1) = u + v
    BY <2>8, <2>9
  <2>11. Len(x0) = u + i /\ i + j = v + k
    BY <2>7, <2>9
  <2>12. PICK x, y : x = Len(x0) /\ y = Len(e0)
    OBVIOUS
  <2>13. x = u + i /\ y = x + j
    BY <2>4, <2>11, <2>12
  <2>16. i + j = v + k
    BY <2>11
  <2>14. y = (u + v) + k
    BY <2>13, <2>16
  <2>17. Capacity * (Len(e1) - 1) = u + v
    BY <2>1, <2>6, <2>10
  <2>15. y = Capacity * (Len(e1) - 1) + k
    BY <2>14, <2>17
  <2> QED
    BY <2>3, <2>12, <2>15
<1>14. Rung(f, e0, e1, level)
  BY <1>2, <1>8, <1>9, <1>11, <1>12, <1>13 DEF Rung
<1> QED
  BY <1>1, <1>2, <1>3, <1>8, <1>12, <1>14

(* A round that is not above the new root writes its level.                *)
Works(t, n, r) == ~(n >= t.depth /\ Len(r.next) = 1)

OldNodeIsThere(t, n, r) == n < t.depth => r.buffer[t.depth - n] = t.spine[t.depth - n]

Writes(t, n, predicted, r, q, es, w) ==
    /\ IsConcat(es, t.kept[n], r.next) /\ Written(r.file, n, es, w)
    /\ q.file = w.file /\ q.next = w.next /\ q.fresh = <<w.rightmost>> \o r.fresh
    /\ q.buffer = IF predicted = 0 THEN r.buffer
                  ELSE [r.buffer EXCEPT ![predicted - n] = w.rightmost]

LEMMA RoundWrites ==
    ASSUME NEW t, Trunk(t), NEW n \in 0 .. HeightMax - 1, NEW r,
           r.file \in Seq(Nodes), r.next \in Seq(Entries), r.next # << >>,
           OldNodeIsThere(t, n, r), Works(t, n, r), NEW predicted,
           NEW q, q = WriteRound(r, t.depth, predicted, n)
    PROVE  \E es, w : Writes(t, n, predicted, r, q, es, w)
<1>1. HeightMax \in Nat /\ n \in Nat
  BY TimeIndexAssumption
<1>2. /\ t.kept[n] \in Seq(Entries) /\ t.depth \in Nat
      /\ t.kept[n] = IF n < t.depth THEN Kept(t.spine[t.depth - n]) ELSE << >>
  <2>1. t.depth \in 1 .. HeightMax
    BY DEF Trunk
  <2>2. t.kept \in [0 .. HeightMax - 1 -> Seq(Entries)]
    BY DEF Trunk
  <2>3. t.kept[n] = IF n < t.depth THEN Kept(t.spine[t.depth - n]) ELSE << >>
    BY DEF Trunk
  <2> QED
    BY <1>1, <2>1, <2>2, <2>3
<1>3. PICK k, s \in Seq(Entries) : k = t.kept[n] /\ s = r.next
  BY <1>2
<1>4. PICK es \in Seq(Entries) : es = k \o s
  BY ConcatProperties
<1>5. es # << >>
  <2>1. Len(es) = Len(k) + Len(s) /\ Len(s) >= 1 /\ Len(k) >= 0
    BY <1>3, <1>4, ConcatProperties
  <2>2. Len(es) # 0
    BY <2>1
  <2> QED
    BY <2>2
<1>6. PICK w : w = WriteLevel(r.file, n, es)
  OBVIOUS
<1>7. Written(r.file, n, es, w)
  BY <1>1, <1>5, <1>6, LevelIsWritten
<1>8. w.rightmost.level = n
  BY <1>7 DEF Written
<1>9. (IF n < t.depth
       THEN WriteLevel(r.file, r.buffer[t.depth - n].level, Kept(r.buffer[t.depth - n]) \o r.next)
       ELSE WriteLevel(r.file, n, r.next)) = w
  <2>1. CASE n < t.depth
    <3>1. t.spine[t.depth - n].level = n
      <4>1. n \in 0 .. t.depth - 1
        BY <1>1, <1>2, <2>1
      <4> QED
        BY <4>1 DEF Trunk
    <3> QED
      BY <1>2, <1>3, <1>4, <1>6, <2>1, <3>1 DEF OldNodeIsThere
  <2>2. CASE ~(n < t.depth)
    <3>1. es = s
      BY SMTT(40), <1>2, <1>3, <1>4, <2>2, ConcatEmptySeq
    <3> QED
      BY <1>3, <1>6, <2>2, <3>1
  <2> QED
    BY <2>1, <2>2
<1>10. q = [file |-> w.file, next |-> w.next, fresh |-> <<w.rightmost>> \o r.fresh,
            buffer |-> IF predicted = 0 THEN r.buffer
                       ELSE StoreInPlace(r.buffer, t.depth, predicted, w.rightmost)]
  BY <1>9 DEF WriteRound, Works
<1>11. StoreInPlace(r.buffer, t.depth, predicted, w.rightmost)
        = [r.buffer EXCEPT ![predicted - n] = w.rightmost]
  BY <1>8 DEF StoreInPlace
<1>12. /\ q.file = w.file /\ q.next = w.next /\ q.fresh = <<w.rightmost>> \o r.fresh
       /\ q.buffer = IF predicted = 0 THEN r.buffer
                     ELSE [r.buffer EXCEPT ![predicted - n] = w.rightmost]
  BY SMTT(40), <1>10, <1>11
<1>13. IsConcat(es, t.kept[n], r.next)
  BY <1>3, <1>4 DEF IsConcat
<1> QED
  BY <1>7, <1>12, <1>13 DEF Writes

(* Pages are appended along a trunk: how many nodes each level receives,   *)
(* and the depth that was predicted for the new spine, 0 if none was.      *)
Tasked(t, added, total, predicted, count) ==
    /\ Trunk(t)
    /\ added \in Seq(Entries) /\ added # << >> /\ total \in Nat
    /\ IsConcat(Pages(total), t.stays[0], added)
    /\ count \in [0 .. HeightMax -> Nat] /\ count[0] = Len(added)
    /\ \A l \in 1 .. HeightMax :
        count[l] = DivCeil(Len(t.kept[l - 1]) + count[l - 1], Capacity)
    /\ \/ predicted = 0
       \/ /\ predicted \in t.depth .. HeightMax /\ count[predicted] = 1
          /\ \A d \in t.depth .. predicted - 1 : count[d] # 1

(* Where the rounds are: m of the first n have written their level, and    *)
(* the rest were above the new root.                                       *)
Reached(t, n, r, m) == m \in 0 .. n /\ (m = n \/ (m >= t.depth /\ Len(r.next) = 1))

(* r has rewritten m levels; E holds the new tree up to the entries that   *)
(* it still has to hang up.                                                *)
Rungs(t, total, r, m, E) ==
    /\ Extends(t.file, r.file)
    /\ r.next \in Seq(Entries) /\ r.next # << >>
    /\ E \in [0 .. m -> Seq(Entries)] /\ E[0] = Pages(total)
    /\ IsConcat(E[m], t.stays[m], r.next)
    /\ \A l \in 1 .. m : Rung(r.file, E[l - 1], E[l], l - 1)

CountedOff(t, count, r, m) ==
    Len(r.next) = count[m] /\ \A d \in t.depth .. m - 1 : count[d] # 1

NewSpine(r, m, E) ==
    /\ r.fresh \in Seq(Nodes) /\ Len(r.fresh) = m
    /\ \A l \in 1 .. m : r.fresh[m - l + 1] = r.file[Last(E[l]).pointer]

(* The old spine is still there where it is read, the new one where it was *)
(* written.                                                                *)
Buffered(t, predicted, r, m) ==
    /\ \A d \in 1 .. t.depth - m : r.buffer[d] = t.spine[d]
    /\ predicted # 0 =>
        /\ r.buffer \in [1 .. predicted -> Nodes]
        /\ \A l \in 1 .. m : r.buffer[predicted - l + 1] = r.fresh[m - l + 1]

Climb(t, total, predicted, count, n, r, m, E) ==
    /\ Reached(t, n, r, m) /\ Rungs(t, total, r, m, E) /\ CountedOff(t, count, r, m)
    /\ NewSpine(r, m, E) /\ Buffered(t, predicted, r, m)

LEMMA ClimbStarts ==
    ASSUME NEW t, NEW added, NEW total, NEW predicted, NEW count,
           Tasked(t, added, total, predicted, count),
           NEW r, r = Start(t.file, t.spine, predicted, added)
    PROVE  \E m, E : Climb(t, total, predicted, count, 0, r, m, E)
<1>1. /\ Trunk(t) /\ added \in Seq(Entries) /\ added # << >> /\ total \in Nat
      /\ IsConcat(Pages(total), t.stays[0], added)
      /\ count[0] = Len(added)
  BY DEF Tasked
<1>2. /\ t.file \in Seq(Nodes) /\ t.spine \in Seq(Nodes) /\ t.depth = Len(t.spine)
      /\ t.depth \in Nat /\ t.depth >= 1
  <2>1. t.depth \in 1 .. HeightMax /\ HeightMax \in Nat
    BY <1>1, TimeIndexAssumption DEF Trunk
  <2> QED
    BY <1>1, <2>1 DEF Trunk
<1>3. /\ r.file = t.file /\ r.next = added /\ r.fresh = << >>
      /\ r.buffer = [d \in 1 .. Max({Len(t.spine), predicted}) |->
                        IF d <= Len(t.spine) THEN t.spine[d] ELSE BlankNode]
  BY DEF Start
<1>4. PICK E : E = [l \in 0 .. 0 |-> Pages(total)]
  OBVIOUS
<1>5. Pages(total) \in Seq(Entries)
  BY <1>1, PagesTyped
<1>6. E \in [0 .. 0 -> Seq(Entries)] /\ E[0] = Pages(total)
  BY <1>4, <1>5
<1>7. Rungs(t, total, r, 0, E)
  <2>1. Extends(t.file, r.file)
    BY <1>2, <1>3 DEF Extends
  <2> QED
    BY <1>1, <1>3, <1>6, <2>1 DEF Rungs
<1>8. predicted = 0 \/ (predicted \in Nat /\ predicted >= t.depth)
  <2>1. predicted = 0 \/ predicted \in t.depth .. HeightMax
    BY DEF Tasked
  <2> QED
    BY <1>2, <2>1, TimeIndexAssumption
<1>9. PICK c \in Nat : c = Max({Len(t.spine), predicted}) /\ c = IF predicted = 0 THEN t.depth ELSE predicted
  <2>2. PICK a, b \in Int : a = t.depth /\ b = predicted
    BY <1>2, <1>8
  <2>3. Max({a, b}) = IF a <= b THEN b ELSE a
    BY OfTwo
  <2>1. Max({t.depth, predicted}) = IF t.depth <= predicted THEN predicted ELSE t.depth
    BY <2>2, <2>3
  <2> QED
    BY <1>2, <1>8, <2>1
<1>10. r.buffer = [d \in 1 .. c |-> IF d <= t.depth THEN t.spine[d] ELSE BlankNode]
  BY <1>2, <1>3, <1>9
<1>11. \A d \in 1 .. t.depth - 0 : r.buffer[d] = t.spine[d]
  BY <1>2, <1>8, <1>9, <1>10
<1>12. predicted # 0 => r.buffer \in [1 .. predicted -> Nodes]
  <2>1. BlankNode \in Nodes
    <3>1. << >> \in Seq(Entries)
      BY EmptySeq
    <3> QED
      BY <3>1 DEF BlankNode, Nodes
  <2>2. \A d \in 1 .. c : (IF d <= t.depth THEN t.spine[d] ELSE BlankNode) \in Nodes
    BY <1>2, <2>1
  <2> QED
    BY <1>9, <1>10, <2>2
<1>13. Buffered(t, predicted, r, 0)
  BY <1>11, <1>12 DEF Buffered
<1>14. NewSpine(r, 0, E)
  BY <1>3, EmptySeq DEF NewSpine
<1>15. CountedOff(t, count, r, 0)
  BY <1>1, <1>2, <1>3 DEF CountedOff
<1>16. Reached(t, 0, r, 0)
  BY DEF Reached
<1> QED
  BY <1>7, <1>13, <1>14, <1>15, <1>16 DEF Climb

(* The nodes that the entries of one more level end with.                  *)
TopNodes(r, E, q, G, n, node) ==
    /\ \A l \in 1 .. n : q.file[Last(G[l]).pointer] = r.file[Last(E[l]).pointer]
    /\ q.file[Last(G[n + 1]).pointer] = node

LEMMA RungsGrow ==
    ASSUME NEW t, Trunk(t), NEW total, NEW n \in 0 .. HeightMax - 1, NEW r, NEW E,
           Rungs(t, total, r, n, E), NEW predicted, NEW q, NEW es, NEW w,
           Writes(t, n, predicted, r, q, es, w)
    PROVE  \E G : Rungs(t, total, q, n + 1, G) /\ TopNodes(r, E, q, G, n, w.rightmost)
<1>0. /\ IsConcat(es, t.kept[n], r.next) /\ Written(r.file, n, es, w)
      /\ q.file = w.file /\ q.next = w.next
  BY DEF Writes
<1>1. PICK k \in Nat : k = n + 1 /\ k \in 1 .. HeightMax /\ k - 1 = n /\ n \in Nat
  BY TimeIndexAssumption
<1>2. /\ Extends(t.file, r.file) /\ r.next \in Seq(Entries)
      /\ E \in [0 .. n -> Seq(Entries)] /\ E[0] = Pages(total)
      /\ IsConcat(E[n], t.stays[n], r.next)
      /\ \A l \in 1 .. n : Rung(r.file, E[l - 1], E[l], l - 1)
  BY DEF Rungs
<1>3. t.file \in Seq(Nodes) /\ t.kept[n] \in Seq(Entries)
  <2>1. t.kept \in [0 .. HeightMax - 1 -> Seq(Entries)] /\ t.file \in Seq(Nodes)
    BY DEF Trunk
  <2> QED
    BY <2>1
<1>4. t.stays[n] \in Seq(Entries) /\ t.stays[k] \in Seq(Entries)
  <2>1. t.stays \in [0 .. HeightMax -> Seq(Entries)]
    BY DEF Trunk
  <2>2. n \in 0 .. HeightMax /\ k \in 0 .. HeightMax
    BY <1>1, TimeIndexAssumption
  <2> QED
    BY <2>1, <2>2
<1>5. Stem(t.file, t.stays[n], t.stays[k], t.kept[n], n)
  BY <1>1 DEF Trunk
<1>6. PICK x0, x1, kept, next \in Seq(Entries) :
          x0 = t.stays[n] /\ x1 = t.stays[k] /\ kept = t.kept[n] /\ next = r.next
  BY <1>2, <1>3, <1>4
<1>7. Stem(t.file, x0, x1, kept, n) /\ IsConcat(es, kept, next) /\ IsConcat(E[n], x0, next)
  BY <1>0, <1>2, <1>5, <1>6
<1>8. PICK e1 : IsConcat(e1, x1, w.next)
  BY DEF IsConcat
<1>9. /\ e1 \in Seq(Entries) /\ Rung(w.file, E[n], e1, n)
      /\ w.file[Last(e1).pointer] = w.rightmost /\ Extends(t.file, w.file)
  BY <1>0, <1>2, <1>3, <1>7, <1>8, NewRung
<1>10. PICK G : G = [l \in 0 .. k |-> IF l = k THEN e1 ELSE E[l]]
  OBVIOUS
<1>11. /\ G \in [0 .. k -> Seq(Entries)] /\ G[k] = e1 /\ \A l \in 0 .. n : G[l] = E[l]
  <2>1. ASSUME NEW l \in 0 .. k, l # k PROVE E[l] \in Seq(Entries)
    BY <1>1, <1>2, <2>1
  <2> QED
    BY <1>1, <1>9, <1>10, <2>1
<1>12. Extends(r.file, w.file) /\ w.next \in Seq(Entries) /\ w.next # << >>
  BY <1>0 DEF Written
<1>13. ASSUME NEW l \in 1 .. n
       PROVE /\ Rung(w.file, G[l - 1], G[l], l - 1)
             /\ w.file[Last(G[l]).pointer] = r.file[Last(E[l]).pointer]
  <2>1. l \in 0 .. n /\ l - 1 \in 0 .. n
    BY <1>1
  <2>0. PICK x \in Seq(Entries) : x = E[l]
    BY <1>2, <2>1
  <2>2. PICK y : y = E[l - 1]
    OBVIOUS
  <2>3. G[l] = x /\ G[l - 1] = y
    BY <1>11, <2>0, <2>1, <2>2
  <2>4. Rung(r.file, y, x, l - 1)
    BY <1>2, <2>0, <2>2
  <2>5. Rung(w.file, y, x, l - 1) /\ w.file[Last(x).pointer] = r.file[Last(x).pointer]
    BY <1>12, <2>4, RungSame
  <2> QED
    BY <2>0, <2>2, <2>3, <2>5
<1>14. G[n] = E[n] /\ G[0] = E[0]
  BY <1>1, <1>11
<1>15. Rung(w.file, G[k - 1], G[k], k - 1)
  BY <1>1, <1>9, <1>11, <1>14
<1>16. ASSUME NEW l \in 1 .. k PROVE Rung(w.file, G[l - 1], G[l], l - 1)
  <2>1. CASE l = k
    BY <1>15, <2>1
  <2>2. CASE l # k
    <3>1. l \in 1 .. n
      BY <1>1, <2>2
    <3> QED
      BY <1>13, <3>1
  <2> QED
    BY <2>1, <2>2
<1>17. IsConcat(G[k], t.stays[k], w.next)
  BY <1>6, <1>8, <1>11
<1>18. Rungs(t, total, q, k, G)
  BY <1>0, <1>2, <1>9, <1>11, <1>12, <1>14, <1>16, <1>17 DEF Rungs
<1>19. TopNodes(r, E, q, G, n, w.rightmost)
  BY <1>0, <1>1, <1>9, <1>11, <1>13 DEF TopNodes
<1> QED
  BY <1>1, <1>18, <1>19

(* The new spine has a node more at its front.                             *)
OneMore(r, q, n, node) ==
    q.fresh[1] = node /\ \A l \in 1 .. n : q.fresh[n + 1 - l + 1] = r.fresh[n - l + 1]

LEMMA SpineGrows ==
    ASSUME NEW n \in Nat, NEW r, NEW E, NewSpine(r, n, E), NEW node \in Nodes,
           NEW q, q.fresh = <<node>> \o r.fresh, NEW G, TopNodes(r, E, q, G, n, node)
    PROVE  NewSpine(q, n + 1, G) /\ OneMore(r, q, n, node)
<1>0. /\ \A l \in 1 .. n : q.file[Last(G[l]).pointer] = r.file[Last(E[l]).pointer]
      /\ q.file[Last(G[n + 1]).pointer] = node
  BY DEF TopNodes
<1>1. PICK s \in Seq(Nodes) : s = r.fresh /\ Len(s) = n
  BY DEF NewSpine
<1>2. PICK p \in Seq(Nodes) : p = <<node>>
  <2>1. <<node>> \in Seq(Nodes)
    OBVIOUS
  <2> QED
    BY <2>1
<1>3. Len(p) = 1 /\ p[1] = node
  BY <1>2
<1>4. PICK f : f = q.fresh
  OBVIOUS
<1>5. f \in Seq(Nodes) /\ Len(f) = n + 1
  BY <1>1, <1>2, <1>3, <1>4, ConcatProperties
<1>6. \A i \in 1 .. n + 1 : f[i] = IF i <= 1 THEN p[i] ELSE s[i - 1]
  <2>1. f = p \o s
    BY <1>1, <1>2, <1>4
  <2>2. \A i \in 1 .. Len(p) + Len(s) : f[i] = IF i <= Len(p) THEN p[i] ELSE s[i - Len(p)]
    BY <2>1, ConcatProperties
  <2>3. Len(p) + Len(s) = n + 1
    BY <1>1, <1>3
  <2> QED
    BY <1>3, <2>2, <2>3
<1>7. f[1] = node
  BY <1>3, <1>6
<1>8. ASSUME NEW l \in 1 .. n PROVE f[n + 1 - l + 1] = s[n - l + 1]
  <2>1. PICK i \in 1 .. n + 1 : i = n + 1 - l + 1 /\ i > 1 /\ i - 1 = n - l + 1
    OBVIOUS
  <2> QED
    BY <1>6, <2>1
<1>9. ASSUME NEW l \in 1 .. n + 1
      PROVE f[n + 1 - l + 1] = q.file[Last(G[l]).pointer]
  <2>1. CASE l = n + 1
    <3>1. n + 1 - l + 1 = 1
      BY <2>1
    <3> QED
      BY <1>0, <1>7, <2>1, <3>1
  <2>2. CASE l # n + 1
    <3>1. l \in 1 .. n
      BY <2>2
    <3>2. s[n - l + 1] = r.file[Last(E[l]).pointer]
      BY <1>1, <3>1 DEF NewSpine
    <3> QED
      BY <1>0, <1>8, <3>1, <3>2
  <2> QED
    BY <2>1, <2>2
<1>10. PICK k : k = n + 1
  OBVIOUS
<1>11. f \in Seq(Nodes) /\ Len(f) = k /\ \A l \in 1 .. k : f[k - l + 1] = q.file[Last(G[l]).pointer]
  BY <1>5, <1>9, <1>10
<1>12. NewSpine(q, k, G)
  BY <1>4, <1>11 DEF NewSpine
<1>13. OneMore(r, q, n, node)
  BY <1>1, <1>4, <1>7, <1>8 DEF OneMore
<1> QED
  BY <1>10, <1>12, <1>13

LEMMA BufferGrows ==
    ASSUME NEW t, t.depth \in Nat, NEW n \in Nat, NEW predicted, NEW r, Buffered(t, predicted, r, n),
           predicted # 0 => predicted \in Nat /\ predicted >= t.depth /\ n < predicted,
           NEW node \in Nodes, NEW q,
           q.buffer = IF predicted = 0 THEN r.buffer
                      ELSE [r.buffer EXCEPT ![predicted - n] = node],
           OneMore(r, q, n, node)
    PROVE  Buffered(t, predicted, q, n + 1)
<1>0. q.fresh[1] = node /\ \A l \in 1 .. n : q.fresh[n + 1 - l + 1] = r.fresh[n - l + 1]
  BY DEF OneMore
<1>1. \A d \in 1 .. t.depth - n : r.buffer[d] = t.spine[d]
  BY DEF Buffered
<1>2. \A d \in 1 .. t.depth - (n + 1) : d \in 1 .. t.depth - n
  OBVIOUS
<1>3. CASE predicted = 0
  <2>1. q.buffer = r.buffer
    BY <1>3
  <2> QED
    BY <1>1, <1>2, <1>3, <2>1 DEF Buffered
<1>4. CASE predicted # 0
  <2>1. PICK b \in [1 .. predicted -> Nodes] : b = r.buffer
    BY <1>4 DEF Buffered
  <2>2. \A l \in 1 .. n : b[predicted - l + 1] = r.fresh[n - l + 1]
    BY <1>4, <2>1 DEF Buffered
  <2>3. PICK i \in 1 .. predicted : i = predicted - n
    BY <1>4
  <2>4. PICK c : c = [b EXCEPT ![i] = node]
    OBVIOUS
  <2>5. q.buffer = c
    BY <1>4, <2>1, <2>3, <2>4
  <2>6. c \in [1 .. predicted -> Nodes] /\ c[i] = node
        /\ \A d \in 1 .. predicted : d # i => c[d] = b[d]
    BY <2>4
  <2>7. ASSUME NEW d \in 1 .. t.depth - (n + 1) PROVE c[d] = t.spine[d]
    <3>1. d \in 1 .. predicted /\ d # i
      BY <1>4, <2>3
    <3> QED
      BY <1>1, <1>2, <2>1, <2>6, <3>1
  <2>8. ASSUME NEW l \in 1 .. n + 1
        PROVE c[predicted - l + 1] = q.fresh[n + 1 - l + 1]
    <3>1. CASE l = n + 1
      <4>1. predicted - l + 1 = i /\ n + 1 - l + 1 = 1
        BY <1>4, <2>3, <3>1
      <4> QED
        BY <1>0, <2>6, <4>1
    <3>2. CASE l # n + 1
      <4>1. l \in 1 .. n
        BY <3>2
      <4>2. PICK d \in 1 .. predicted : d = predicted - l + 1 /\ d # i
        BY <1>4, <2>3, <4>1
      <4>3. c[d] = r.fresh[n - l + 1]
        BY <2>2, <2>6, <4>1, <4>2
      <4> QED
        BY <1>0, <4>1, <4>2, <4>3
    <3> QED
      BY <3>1, <3>2
  <2>9. PICK k : k = n + 1
    OBVIOUS
  <2>10. /\ \A d \in 1 .. t.depth - k : c[d] = t.spine[d]
         /\ \A l \in 1 .. k : c[predicted - l + 1] = q.fresh[k - l + 1]
    BY <2>7, <2>8, <2>9
  <2>11. Buffered(t, predicted, q, k)
    BY <2>5, <2>6, <2>10 DEF Buffered
  <2> QED
    BY <2>9, <2>11
<1> QED
  BY <1>3, <1>4

LEMMA ClimbGoesOn ==
    ASSUME NEW t, NEW added, NEW total, NEW predicted, NEW count,
           Tasked(t, added, total, predicted, count),
           NEW n \in 0 .. HeightMax - 1, NEW r, NEW m, NEW E,
           Climb(t, total, predicted, count, n, r, m, E),
           NEW q, q = WriteRound(r, t.depth, predicted, n)
    PROVE  \E k, G : Climb(t, total, predicted, count, n + 1, q, k, G)
<1>1. /\ Reached(t, n, r, m) /\ Rungs(t, total, r, m, E) /\ CountedOff(t, count, r, m)
      /\ NewSpine(r, m, E) /\ Buffered(t, predicted, r, m)
  BY DEF Climb
<1>2. Trunk(t) /\ HeightMax \in Nat /\ n \in Nat /\ t.depth \in 1 .. HeightMax /\ t.depth \in Nat
  <2>1. Trunk(t) /\ HeightMax \in Nat
    BY TimeIndexAssumption DEF Tasked
  <2>2. t.depth \in 1 .. HeightMax
    BY <2>1 DEF Trunk
  <2> QED
    BY <2>1, <2>2
<1>3. m \in 0 .. n /\ (m = n \/ (m >= t.depth /\ Len(r.next) = 1))
  BY <1>1 DEF Reached
<1>4. CASE n >= t.depth /\ Len(r.next) = 1
  <2>1. q = r
    BY <1>4 DEF WriteRound
  <2>2. Reached(t, n + 1, r, m)
    BY <1>2, <1>3, <1>4 DEF Reached
  <2>3. Climb(t, total, predicted, count, n + 1, q, m, E)
    BY <1>1, <2>1, <2>2 DEF Climb
  <2> QED
    BY <2>3
<1>5. CASE ~(n >= t.depth /\ Len(r.next) = 1)
  <2>1. m = n
    BY <1>2, <1>3, <1>5
  <2>2. /\ Rungs(t, total, r, n, E) /\ CountedOff(t, count, r, n)
        /\ NewSpine(r, n, E) /\ Buffered(t, predicted, r, n)
    BY <1>1, <2>1
  <2>3. r.file \in Seq(Nodes) /\ r.next \in Seq(Entries) /\ r.next # << >>
    BY <2>2 DEF Rungs, Extends
  <2>4. OldNodeIsThere(t, n, r)
    <3>1. ASSUME n < t.depth PROVE t.depth - n \in 1 .. t.depth - n
      BY <1>2, <3>1
    <3> QED
      BY <2>2, <3>1 DEF Buffered, OldNodeIsThere
  <2>16. PICK es, w : Writes(t, n, predicted, r, q, es, w)
    <3>1. Works(t, n, r)
      BY <1>5 DEF Works
    <3> QED
      BY <1>2, <2>3, <2>4, <3>1, RoundWrites
  <2>5. /\ IsConcat(es, t.kept[n], r.next) /\ Written(r.file, n, es, w)
        /\ q.file = w.file /\ q.next = w.next
        /\ q.fresh = <<w.rightmost>> \o r.fresh
        /\ q.buffer = IF predicted = 0 THEN r.buffer
                      ELSE [r.buffer EXCEPT ![predicted - n] = w.rightmost]
    BY <2>16 DEF Writes
  <2>6. PICK G : Rungs(t, total, q, n + 1, G) /\ TopNodes(r, E, q, G, n, w.rightmost)
    BY <1>2, <2>2, <2>16, RungsGrow
  <2>7. PICK node \in Nodes : node = w.rightmost
    BY <2>5 DEF Written
  <2>8. NewSpine(q, n + 1, G) /\ OneMore(r, q, n, node)
    <3>1. q.fresh = <<node>> \o r.fresh /\ TopNodes(r, E, q, G, n, node)
      BY <2>5, <2>6, <2>7
    <3> QED
      BY <1>2, <2>2, <3>1, SpineGrows
  <2>9. Len(r.next) = count[n] /\ \A d \in t.depth .. n - 1 : count[d] # 1
    BY <2>2 DEF CountedOff
  <2>10. \A d \in t.depth .. n : count[d] # 1
    <3>1. n >= t.depth => count[n] # 1
      BY <1>5, <2>9
    <3> QED
      BY <1>2, <2>9, <3>1
  <2>11. predicted # 0 => predicted \in Nat /\ predicted >= t.depth /\ n < predicted
    <3>1. predicted = 0 \/ (predicted \in t.depth .. HeightMax /\ count[predicted] = 1)
      BY DEF Tasked
    <3>2. ASSUME predicted \in t.depth .. HeightMax, count[predicted] = 1
          PROVE predicted \in Nat /\ predicted >= t.depth /\ n < predicted
      <4>1. predicted \in Nat /\ predicted >= t.depth
        BY <1>2, <3>2
      <4>2. ASSUME predicted <= n PROVE FALSE
        <5>1. predicted \in t.depth .. n
          BY <1>2, <4>1, <4>2
        <5> QED
          BY <2>10, <3>2, <5>1
      <4> QED
        BY <1>2, <4>1, <4>2
    <3> QED
      BY <3>1, <3>2
  <2>12. Buffered(t, predicted, q, n + 1)
    <3>1. q.buffer = IF predicted = 0 THEN r.buffer
                     ELSE [r.buffer EXCEPT ![predicted - n] = node]
      BY <2>5, <2>7
    <3> QED
      BY <1>2, <2>2, <2>8, <2>11, <3>1, BufferGrows
  <2>13. CountedOff(t, count, q, n + 1)
    <3>1. PICK k \in 1 .. HeightMax : k = n + 1 /\ k - 1 = n
      BY <1>2
    <3>2. count[k] = DivCeil(Len(t.kept[n]) + count[n], Capacity)
      BY <3>1 DEF Tasked
    <3>3. Len(es) = Len(t.kept[n]) + Len(r.next)
      <4>1. t.kept[n] \in Seq(Entries)
        <5>1. t.kept \in [0 .. HeightMax - 1 -> Seq(Entries)]
          BY <1>2 DEF Trunk
        <5> QED
          BY <5>1
      <4> QED
        BY <2>3, <2>5, <4>1, ConcatProperties DEF IsConcat
    <3>4. Len(q.next) = DivCeil(Len(es), Capacity)
      BY <2>5 DEF Written
    <3>5. Len(q.next) = count[n + 1]
      BY <2>9, <3>1, <3>2, <3>3, <3>4
    <3>6. n + 1 - 1 = n
      BY <1>2
    <3> QED
      BY <2>10, <3>5, <3>6 DEF CountedOff
  <2>14. Reached(t, n + 1, q, n + 1)
    BY <1>2 DEF Reached
  <2>15. Climb(t, total, predicted, count, n + 1, q, n + 1, G)
    BY <2>6, <2>8, <2>12, <2>13, <2>14 DEF Climb
  <2> QED
    BY <2>15
<1> QED
  BY <1>4, <1>5

LEMMA ClimbEnds ==
    ASSUME NEW t, NEW added, NEW total, NEW predicted, NEW count,
           Tasked(t, added, total, predicted, count),
           NEW R, R = Rounds(t.file, t.spine, predicted, added)
    PROVE  \E m, E : Climb(t, total, predicted, count, HeightMax, R[HeightMax], m, E)
<1>1. PICK H \in Nat : H = HeightMax
  BY TimeIndexAssumption
<1>2. t.depth = Len(t.spine)
  BY DEF Tasked, Trunk
<1>3. /\ R[0] = Start(t.file, t.spine, predicted, added)
      /\ \A n \in 1 .. HeightMax : R[n] = WriteRound(R[n - 1], Len(t.spine), predicted, n - 1)
  BY RoundsFollow
<1> DEFINE Climbs(n) == \E m, E : Climb(t, total, predicted, count, n, R[n], m, E)
<1> DEFINE T == {n \in 0 .. H : Climbs(n)}
<1>4. Climbs(0)
  <2>1. PICK r : r = R[0]
    OBVIOUS
  <2>2. r = Start(t.file, t.spine, predicted, added)
    BY <1>3, <2>1
  <2>3. \E m, E : Climb(t, total, predicted, count, 0, r, m, E)
    BY <2>2, ClimbStarts
  <2> QED
    BY <2>1, <2>3
<1>5. ASSUME NEW n \in 0 .. H, n # H, Climbs(n) PROVE Climbs(n + 1)
  <2>1. n \in 0 .. HeightMax - 1 /\ n + 1 \in 1 .. HeightMax /\ n + 1 - 1 = n
    BY <1>1, <1>5
  <2>2. PICK r, q, k : r = R[n] /\ k = n + 1 /\ q = R[k]
    OBVIOUS
  <2>3. PICK m, E : Climb(t, total, predicted, count, n, r, m, E)
    BY <1>5, <2>2
  <2>4. q = WriteRound(r, t.depth, predicted, n)
    <3>1. k \in 1 .. HeightMax /\ k - 1 = n
      BY <2>1, <2>2
    <3>2. R[k] = WriteRound(R[k - 1], Len(t.spine), predicted, k - 1)
      BY <1>3, <3>1
    <3> QED
      BY <1>2, <2>2, <3>1, <3>2
  <2>5. \E l, G : Climb(t, total, predicted, count, n + 1, q, l, G)
    BY <2>1, <2>3, <2>4, ClimbGoesOn
  <2> QED
    BY <2>2, <2>5
<1> HIDE DEF Climbs
<1>6. 0 \in T
  BY <1>4
<1>7. \A n \in 0 .. H : n # H /\ n \in T => n + 1 \in T
  <2> SUFFICES ASSUME NEW n \in 0 .. H, n # H, n \in T PROVE n + 1 \in T
    OBVIOUS
  <2>1. n + 1 \in 0 .. H
    OBVIOUS
  <2> QED
    BY <1>5, <2>1
<1> HIDE DEF T
<1>8. H \in T
  BY <1>6, <1>7, Induction
<1>9. Climbs(H)
  BY <1>8 DEF T
<1> QED
  BY <1>1, <1>9 DEF Climbs

-----------------------------------------------------------------------------
(* The room in a tree.                                                     *)

LEMMA Scaled ==
    ASSUME NEW a \in Nat, NEW p \in Nat, NEW q \in Nat, p <= q
    PROVE  a * p \in Nat /\ a * q \in Nat /\ a * p <= a * q
<1>1. PICK d \in Nat : q = p + d
  <2>1. q - p \in Nat /\ q = p + (q - p)
    OBVIOUS
  <2> QED
    BY <2>1
<1>2. a * (p + d) = a * p + a * d
  OBVIOUS
<1>3. a * p \in Nat /\ a * d \in Nat
  OBVIOUS
<1> QED
  BY <1>1, <1>2, <1>3

(* s pages fill all but the last of the nodes of a level.                  *)
Fills(s, a, u) == s <= a * u /\ a * (u - 1) < s

LEMMA FillsAbove ==
    ASSUME NEW s \in Nat, NEW a \in Nat, NEW u \in Nat, NEW v \in Nat, v >= 1,
           NEW B \in Nat, NEW x \in 1 .. B, u = B * (v - 1) + x, Fills(s, a, u)
    PROVE  Fills(s, B * a, v)
<1>1. PICK w \in Nat : w = v - 1
  OBVIOUS
<1>2. PICK y \in Nat : y = B * w
  OBVIOUS
<1>3. u = y + x
  BY <1>1, <1>2
<1>4. PICK c \in Nat : c = u - 1 /\ y <= c
  <2>1. u - 1 \in Nat /\ y <= u - 1
    BY <1>3
  <2> QED
    BY <2>1
<1>5. PICK z \in Nat : z = B * v /\ u <= z
  <2>1. B * v = y + B
    BY <1>1, <1>2
  <2> QED
    BY <1>3, <2>1
<1>6. a * u <= a * z
  BY <1>5, Scaled
<1>7. a * y <= a * c
  BY <1>4, Scaled
<1>8. a * z = (B * a) * v
  BY <1>5
<1>9. a * y = (B * a) * w
  BY <1>2
<1>10. s <= a * u /\ a * c < s
  BY <1>4 DEF Fills
<1>11. a * u \in Int /\ a * z \in Int /\ a * y \in Int /\ a * c \in Int
  OBVIOUS
<1>12. s <= a * z /\ a * y < s
  BY <1>6, <1>7, <1>10, <1>11
<1> QED
  BY <1>1, <1>8, <1>9, <1>12 DEF Fills

LEMMA RungsFill ==
    ASSUME NEW file, NEW m \in 0 .. HeightMax, NEW E \in [0 .. m -> Seq(Entries)],
           \A l \in 1 .. m : Rung(file, E[l - 1], E[l], l - 1), E[0] # << >>
    PROVE  Fills(Len(E[0]), Room[m], Len(E[m]))
<1>1. m \in Nat /\ HeightMax \in Nat
  BY TimeIndexAssumption
<1>2. /\ Room \in [0 .. HeightMax -> Nat \ {0}] /\ Room[0] = 1
      /\ \A l \in 1 .. HeightMax : Room[l] = Capacity * Room[l - 1]
  BY RoomGrows
<1>3. PICK s \in Nat : s = Len(E[0]) /\ s >= 1
  <2>1. E[0] \in Seq(Entries)
    BY <1>1
  <2> QED
    BY <2>1
<1> DEFINE T == {l \in 0 .. m : Fills(s, Room[l], Len(E[l]))}
<1>4. 0 \in T
  <2>1. 0 \in 0 .. m
    BY <1>1
  <2>2. s <= 1 * s /\ 1 * (s - 1) < s
    OBVIOUS
  <2> QED
    BY <1>2, <1>3, <2>1, <2>2 DEF Fills
<1>5. ASSUME NEW l \in 0 .. m, l # m, l \in T PROVE l + 1 \in T
  <2>1. PICK k \in 1 .. m : k = l + 1 /\ k - 1 = l
    BY <1>1, <1>5
  <2>2. k \in 1 .. HeightMax /\ l \in 0 .. HeightMax /\ k \in 0 .. m
    BY <1>1, <2>1
  <2>3. PICK x, y \in Seq(Entries) : x = E[l] /\ y = E[k]
    BY <2>2
  <2>4. Rung(file, x, y, l)
    BY <2>1, <2>3
  <2>5. PICK e : e = Len(file[Last(y).pointer].entries)
    OBVIOUS
  <2>6. /\ y # << >> /\ AllLead(file, y, l)
        /\ Len(x) = Capacity * (Len(y) - 1) + e
    BY <2>4, <2>5 DEF Rung
  <2>7. PICK u, v \in Nat : u = Len(x) /\ v = Len(y) /\ v >= 1
    BY <2>6
  <2>8. e \in 1 .. Capacity
    <3>1. Last(y) = y[v]
      BY <2>7 DEF Last
    <3>2. v \in 1 .. Len(y)
      BY <2>7
    <3>3. Leads(file, y[v], l)
      BY <2>6, <3>2 DEF AllLead
    <3> QED
      BY <2>5, <3>1, <3>3 DEF Leads
  <2>9. PICK a, B \in Nat : a = Room[l] /\ B = Capacity
    BY <1>2, <2>2, TimeIndexAssumption
  <2>10. Fills(s, a, u)
    BY <1>5, <2>3, <2>7, <2>9
  <2>11. u = B * (v - 1) + e
    BY <2>6, <2>7, <2>9
  <2>12. Fills(s, B * a, v)
    BY <2>7, <2>8, <2>9, <2>10, <2>11, FillsAbove
  <2>13. Room[k] = B * a
    BY <1>2, <2>1, <2>2, <2>9
  <2>14. Fills(s, Room[k], Len(E[k]))
    BY <2>3, <2>7, <2>12, <2>13
  <2> QED
    BY <2>1, <2>2, <2>14
<1> HIDE DEF T
<1>6. \A l \in 0 .. m : l \in T
  BY <1>1, <1>4, <1>5, Induction
<1>7. m \in T
  BY <1>1, <1>6
<1> QED
  BY <1>3, <1>7 DEF T

LEMMA RoomMonotone ==
    ASSUME NEW m \in 0 .. HeightMax
    PROVE  Room[m] <= Room[HeightMax] /\ Room[m] \in Nat /\ Room[HeightMax] \in Nat
<1>1. PICK H \in Nat : H = HeightMax
  BY TimeIndexAssumption
<1>2. /\ Room \in [0 .. H -> Nat \ {0}]
      /\ \A l \in 1 .. H : Room[l] = Capacity * Room[l - 1]
  BY <1>1, RoomGrows
<1>3. PICK d \in Nat : m + d = H
  <2>1. H - m \in Nat /\ m + (H - m) = H
    BY <1>1
  <2> QED
    BY <2>1
<1> DEFINE T == {i \in 0 .. d : Room[m] <= Room[m + i]}
<1>4. m \in Nat /\ Room[m] \in Nat
  BY <1>1, <1>2
<1>5. 0 \in T
  <2>1. m + 0 = m /\ 0 \in 0 .. d
    BY <1>4
  <2> QED
    BY <1>4, <2>1
<1>6. ASSUME NEW i \in 0 .. d, i # d, i \in T PROVE i + 1 \in T
  <2>1. PICK k \in 1 .. H : k = m + (i + 1) /\ k - 1 = m + i
    BY <1>3, <1>4, <1>6
  <2>2. k - 1 \in 0 .. H /\ k \in 0 .. H
    BY <1>1
  <2>3. PICK x, y \in Nat : x = Room[k - 1] /\ y = Room[k]
    BY <1>2, <2>2
  <2>4. PICK B \in Nat : B = Capacity /\ B >= 1
    BY TimeIndexAssumption
  <2>5. y = B * x
    BY <1>2, <2>3, <2>4
  <2>6. x * 1 <= x * B
    BY <2>4, Scaled
  <2>7. x <= y
    BY <2>5, <2>6
  <2>8. Room[m] <= x
    BY <1>6, <2>1, <2>3
  <2>9. i + 1 \in 0 .. d
    BY <1>6
  <2> QED
    BY <1>4, <2>1, <2>3, <2>7, <2>8, <2>9
<1> HIDE DEF T
<1>7. d \in T
  BY <1>5, <1>6, Induction
<1>8. H \in 0 .. H
  OBVIOUS
<1> QED
  BY <1>1, <1>2, <1>3, <1>4, <1>7, <1>8 DEF T

-----------------------------------------------------------------------------
(* What the append makes of it.                                            *)

Refuses(t, total, predicted, result) ==
    /\ result.error = "IndexTooDeep" /\ Extends(t.file, result.file)
    /\ total > Room[HeightMax] /\ predicted = 0

Accepts(t, total, count, result, h, E) ==
    /\ result.error = "none" /\ Extends(t.file, result.file) /\ total <= Room[HeightMax]
    /\ Ladder(result.file, result.root, total, h, E)
    /\ Chain(result.file, result.spine, h, E)
    /\ h \in t.depth .. HeightMax /\ count[h] = 1

LEMMA OnlyOne ==
    ASSUME NEW s \in Seq(Entries), Len(s) = 1
    PROVE  s = <<s[1]>>
<1>1. PICK e \in Entries : e = s[1]
  OBVIOUS
<1>2. <<e>> \in Seq(Entries)
  OBVIOUS
<1>3. PICK q \in Seq(Entries) : q = <<e>>
  BY <1>2
<1>4. Len(q) = 1 /\ q[1] = e
  BY <1>3
<1>5. \A i \in 1 .. Len(s) : s[i] = q[i]
  BY <1>1, <1>4
<1>6. s = q
  BY <1>4, <1>5, SeqEqual
<1> QED
  BY <1>1, <1>3, <1>6

LEMMA AppendEnds ==
    ASSUME NEW t, NEW added, NEW total, NEW predicted, NEW count,
           Tasked(t, added, total, predicted, count),
           NEW result, result = AppendWithSpine(t.file, t.spine, predicted, added)
    PROVE  \/ Refuses(t, total, predicted, result)
           \/ \E h, E : Accepts(t, total, count, result, h, E)
<1>1. PICK R : R = Rounds(t.file, t.spine, predicted, added)
  OBVIOUS
<1>2. PICK top : top = R[HeightMax]
  OBVIOUS
<1>3. PICK m, E : Climb(t, total, predicted, count, HeightMax, top, m, E)
  <2>1. \E m, E : Climb(t, total, predicted, count, HeightMax, R[HeightMax], m, E)
    BY <1>1, ClimbEnds
  <2> QED
    BY <1>2, <2>1
<1>4. /\ Reached(t, HeightMax, top, m) /\ Rungs(t, total, top, m, E)
      /\ CountedOff(t, count, top, m) /\ NewSpine(top, m, E)
      /\ Buffered(t, predicted, top, m)
  BY <1>3 DEF Climb
<1>5. /\ HeightMax \in Nat /\ Trunk(t) /\ total \in Nat
      /\ t.depth \in 1 .. HeightMax /\ t.depth \in Nat
      /\ added \in Seq(Entries) /\ added # << >>
  <2>1. HeightMax \in Nat /\ Trunk(t) /\ total \in Nat /\ added \in Seq(Entries) /\ added # << >>
    BY TimeIndexAssumption DEF Tasked
  <2>2. t.depth \in 1 .. HeightMax
    BY <2>1 DEF Trunk
  <2> QED
    BY <2>1, <2>2
<1>6. m \in 0 .. HeightMax /\ (m = HeightMax \/ (m >= t.depth /\ Len(top.next) = 1))
  BY <1>4 DEF Reached
<1>7. /\ Extends(t.file, top.file) /\ top.next \in Seq(Entries) /\ top.next # << >>
      /\ E \in [0 .. m -> Seq(Entries)] /\ E[0] = Pages(total)
      /\ IsConcat(E[m], t.stays[m], top.next)
      /\ \A l \in 1 .. m : Rung(top.file, E[l - 1], E[l], l - 1)
  BY <1>4 DEF Rungs
<1>8. PICK next \in Seq(Entries), len \in Nat : next = top.next /\ len = Len(next) /\ len >= 1
  BY <1>7
<1>9. m >= t.depth
  BY <1>5, <1>6
<1>10. E[m] = next
  <2>1. t.stays[m] = << >>
    <3>1. m \in t.depth .. HeightMax
      BY <1>5, <1>6, <1>9
    <3> QED
      BY <1>5, <3>1 DEF Trunk
  <2> QED
    BY <1>7, <1>8, <2>1, ConcatEmptySeq DEF IsConcat
<1>11. PICK s \in Nat, a \in Nat : s = total /\ a = Room[m] /\ Fills(s, a, len)
  <2>1. Pages(total) \in Seq(Entries) /\ Len(Pages(total)) = total
    BY <1>5, PagesTyped
  <2>2. Pages(total) # << >>
    <3>1. PICK x, y \in Seq(Entries) : x = Pages(total) /\ y = t.stays[0]
      <4>1. t.stays \in [0 .. HeightMax -> Seq(Entries)] /\ 0 \in 0 .. HeightMax
        BY <1>5 DEF Trunk
      <4> QED
        BY <2>1, <4>1
    <3>2. IsConcat(x, y, added)
      BY <3>1 DEF Tasked
    <3>3. x # << >>
      BY <1>5, <3>2, EndOfConcat
    <3> QED
      BY <3>1, <3>3
  <2>3. E[0] # << >> /\ Len(E[0]) = total
    BY <1>7, <2>1, <2>2
  <2>4. Fills(Len(E[0]), Room[m], Len(E[m]))
    BY <1>6, <1>7, <2>3, RungsFill
  <2>5. Room[m] \in Nat
    BY <1>6, RoomMonotone
  <2> QED
    BY <1>5, <1>8, <1>10, <2>3, <2>4, <2>5
<1>12. Len(top.next) = count[m] /\ \A d \in t.depth .. m - 1 : count[d] # 1
  BY <1>4 DEF CountedOff
<1>13. \/ predicted = 0
       \/ /\ predicted \in t.depth .. HeightMax /\ count[predicted] = 1
          /\ \A d \in t.depth .. predicted - 1 : count[d] # 1
  BY DEF Tasked
<1>14. CASE len > 1
  <2>1. result = [error |-> "IndexTooDeep", file |-> top.file]
    BY <1>1, <1>2, <1>8, <1>14 DEF AppendWithSpine
  <2>2. m = HeightMax
    <3>2. len # 1
      BY <1>14
    <3>1. Len(top.next) # 1
      BY Zenon, <1>8, <3>2
    <3> QED
      BY <1>6, <3>1
  <2>3. predicted = 0
    <3>1. ASSUME predicted \in t.depth .. HeightMax, count[predicted] = 1 PROVE FALSE
      <4>1. predicted # HeightMax
        BY <1>8, <1>12, <1>14, <2>2, <3>1
      <4>2. predicted \in t.depth .. m - 1
        BY <1>5, <2>2, <3>1, <4>1
      <4> QED
        BY <1>12, <3>1, <4>2
    <3> QED
      BY <1>13, <3>1
  <2>4. s > a
    <3>1. PICK c \in Nat : c = len - 1 /\ c >= 1
      BY <1>14
    <3>2. a * 1 <= a * c /\ a * c \in Nat
      BY <3>1, Scaled
    <3>3. a * c < s
      BY <1>11, <3>1 DEF Fills
    <3> QED
      BY <3>2, <3>3
  <2>5. result.error = "IndexTooDeep" /\ result.file = top.file
    BY <2>1
  <2>6. total > Room[HeightMax]
    BY <1>11, <2>2, <2>4
  <2> QED
    BY <1>7, <2>3, <2>5, <2>6 DEF Refuses
<1>15. CASE len = 1
  <2>1. PICK spine : spine = IF predicted = 0 THEN top.fresh
                             ELSE [d \in 1 .. Len(top.fresh) |-> top.buffer[d]]
    OBVIOUS
  <2>2. result = [error |-> "none", file |-> top.file, root |-> top.next[1], spine |-> spine]
    BY <1>1, <1>2, <1>8, <1>15, <2>1 DEF AppendWithSpine
  <2>3. /\ result.error = "none" /\ result.file = top.file /\ result.root = next[1]
        /\ result.spine = spine
    BY <1>8, <2>2
  <2>4. E[m] = <<next[1]>>
    BY <1>8, <1>10, <1>15, OnlyOne
  <2>5. m \in t.depth .. HeightMax /\ m \in 1 .. HeightMax /\ m \in Nat
    BY <1>5, <1>6, <1>9
  <2>6. Ladder(top.file, next[1], total, m, E)
    BY <1>7, <2>4, <2>5 DEF Ladder
  <2>7. count[m] = 1
    BY <1>8, <1>12, <1>15
  <2>8. /\ top.fresh \in Seq(Nodes) /\ Len(top.fresh) = m
        /\ \A l \in 1 .. m : top.fresh[m - l + 1] = top.file[Last(E[l]).pointer]
    BY <1>4 DEF NewSpine
  <2>9. spine = top.fresh
    <3>1. CASE predicted = 0
      BY <2>1, <3>1
    <3>2. CASE predicted # 0
      <4>1. /\ predicted \in t.depth .. HeightMax /\ count[predicted] = 1
            /\ \A d \in t.depth .. predicted - 1 : count[d] # 1
        BY <1>13, <3>2
      <4>2. predicted = m
        <5>1. ASSUME predicted < m PROVE FALSE
          <6>1. predicted \in t.depth .. m - 1
            BY <1>5, <2>5, <4>1, <5>1
          <6> QED
            BY <1>12, <4>1, <6>1
        <5>2. ASSUME m < predicted PROVE FALSE
          <6>1. m \in t.depth .. predicted - 1
            BY <1>5, <2>5, <4>1, <5>2
          <6> QED
            BY <2>7, <4>1, <6>1
        <5>3. predicted \in Int /\ m \in Int
          BY <1>5, <2>5, <4>1
        <5> QED
          BY <5>1, <5>2, <5>3
      <4>3. PICK f \in Seq(Nodes) : f = top.fresh /\ Len(f) = m
        BY <2>8
      <4>4. \A l \in 1 .. m : top.buffer[m - l + 1] = f[m - l + 1]
        BY <1>4, <3>2, <4>2, <4>3 DEF Buffered
      <4>5. ASSUME NEW d \in 1 .. m PROVE top.buffer[d] = f[d]
        <5>1. PICK l \in 1 .. m : l = m - d + 1 /\ m - l + 1 = d
          BY <2>5
        <5> QED
          BY <4>4, <5>1
      <4>6. spine = [d \in 1 .. m |-> f[d]]
        BY <2>1, <3>2, <4>3, <4>5
      <4>7. f = [d \in 1 .. m |-> f[d]]
        BY <4>3
      <4> QED
        BY <4>3, <4>6, <4>7
    <3> QED
      BY <3>1, <3>2
  <2>10. Chain(top.file, spine, m, E)
    BY <2>8, <2>9 DEF Chain
  <2>11. total <= Room[HeightMax]
    <3>1. a * 1 = a
      OBVIOUS
    <3>2. s <= a
      BY <1>11, <1>15, <3>1 DEF Fills
    <3> QED
      BY <1>6, <1>11, <3>2, RoomMonotone
  <2>12. Accepts(t, total, count, result, m, E)
    BY <1>7, <2>3, <2>5, <2>6, <2>7, <2>10, <2>11 DEF Accepts
  <2> QED
    BY <2>12
<1>17. len >= 1
  BY <1>8
<1>16. len = 1 \/ len > 1
  BY <1>17
<1> QED
  BY Zenon, <1>14, <1>15, <1>16

-----------------------------------------------------------------------------
(* Reading a tree.                                                         *)

LEMMA LadderRung ==
    ASSUME NEW file \in Seq(Nodes), NEW entry, NEW pages, NEW h, NEW E,
           Ladder(file, entry, pages, h, E), NEW l \in 1 .. h,
           NEW node, node = file[Last(E[l]).pointer]
    PROVE  /\ E[l] \in Seq(Entries) /\ E[l - 1] \in Seq(Entries) /\ E[l] # << >>
           /\ AllLead(file, E[l], l - 1) /\ Below(file, E[l]) = E[l - 1]
           /\ Leads(file, Last(E[l]), l - 1)
           /\ node \in Nodes /\ node.level = l - 1
           /\ node.entries \in Seq(Entries) /\ Len(node.entries) \in 1 .. Capacity
           /\ Last(E[l - 1]) = Last(node.entries)
<1>1. h \in 1 .. HeightMax /\ HeightMax \in Nat /\ E \in [0 .. h -> Seq(Entries)]
  BY TimeIndexAssumption DEF Ladder
<1>2. l \in 0 .. h /\ l - 1 \in 0 .. h
  BY <1>1
<1>3. PICK es \in Seq(Entries), below \in Seq(Entries) : es = E[l] /\ below = E[l - 1]
  BY <1>1, <1>2
<1>4. Rung(file, below, es, l - 1)
  BY <1>3 DEF Ladder
<1>5. node = file[Last(es).pointer]
  BY <1>3
<1>6. /\ node \in Nodes /\ node.level = l - 1 /\ Leads(file, Last(es), l - 1)
      /\ node.entries \in Seq(Entries) /\ Len(node.entries) \in 1 .. Capacity
      /\ Last(below) = Last(node.entries)
  BY <1>4, <1>5, RungLast
<1>7. es # << >> /\ AllLead(file, es, l - 1) /\ Below(file, es) = below
  BY <1>4 DEF Rung
<1> QED
  BY <1>3, <1>6, <1>7

LEMMA LadderTop ==
    ASSUME NEW file \in Seq(Nodes), NEW entry, NEW pages, NEW h, NEW E,
           Ladder(file, entry, pages, h, E)
    PROVE  /\ h \in Nat /\ h >= 1 /\ h <= HeightMax /\ HeightMax \in Nat
           /\ E[h] = <<entry>> /\ Last(E[h]) = entry
           /\ Leads(file, entry, h - 1) /\ file[entry.pointer].level = h - 1
<1>1. /\ h \in 1 .. HeightMax /\ HeightMax \in Nat /\ E[h] = <<entry>>
  BY TimeIndexAssumption DEF Ladder
<1>2. h \in 1 .. h
  BY <1>1
<1>3. PICK node : node = file[Last(E[h]).pointer]
  OBVIOUS
<1>4. Leads(file, Last(E[h]), h - 1)
  BY <1>2, <1>3, LadderRung
<1>5. Last(E[h]) = entry
  BY <1>1 DEF Last
<1>6. file[entry.pointer].level = h - 1
  BY <1>4, <1>5 DEF Leads
<1> QED
  BY <1>1, <1>4, <1>5, <1>6

LEMMA SpineIsRead ==
    ASSUME NEW file \in Seq(Nodes), NEW entry, NEW pages, NEW h, NEW E,
           Ladder(file, entry, pages, h, E), NEW spine, spine = LoadRightSpine(file, entry)
    PROVE  Chain(file, spine, h, E)
<1>1. /\ h \in Nat /\ h >= 1 /\ Last(E[h]) = entry
      /\ file[entry.pointer].level = h - 1
  BY LadderTop
<1>2. PICK k \in Nat : k = h - 1
  BY <1>1
<1>3. PICK top : top = file[entry.pointer]
  OBVIOUS
<1>4. PICK f : f = [d \in 0 .. k |-> file[Last(E[h - d]).pointer]]
  OBVIOUS
<1>5. ASSUME NEW d \in 0 .. k, d # 0
      PROVE /\ d - 1 \in 0 .. k
            /\ f[d] = file[Last(f[d - 1].entries).pointer]
  <2>1. PICK l \in 1 .. h : l = h - (d - 1) /\ l - 1 = h - d
    BY <1>1, <1>2, <1>5
  <2>2. d - 1 \in 0 .. k
    BY <1>5
  <2>3. PICK node : node = file[Last(E[l]).pointer]
    OBVIOUS
  <2>4. f[d - 1] = node /\ f[d] = file[Last(E[l - 1]).pointer]
    BY <1>4, <2>1, <2>2, <2>3
  <2>5. Last(E[l - 1]) = Last(node.entries)
    BY <2>3, LadderRung
  <2> QED
    BY <2>2, <2>4, <2>5
<1>6. f[0] = top
  <2>1. 0 \in 0 .. k /\ h - 0 = h
    BY <1>1
  <2>2. f[0] = file[Last(E[h]).pointer]
    BY <1>4, <2>1
  <2> QED
    BY <1>1, <1>3, <2>2
<1> DEFINE Is(g) == g = [d \in 0 .. top.level |->
                            IF d = 0 THEN top ELSE file[Last(g[d - 1].entries).pointer]]
<1>7. top.level = k
  BY SMTT(40), <1>1, <1>2, <1>3
<1>8. Is(f)
  <2>1. ASSUME NEW d \in 0 .. k
        PROVE f[d] = IF d = 0 THEN top ELSE file[Last(f[d - 1].entries).pointer]
    BY <1>5, <1>6
  <2> QED
    BY <1>4, <1>7, <2>1
<1>9. PICK g : g = (CHOOSE x : Is(x)) /\ Is(g)
  BY ZenonT(60), <1>8
<1>10. spine = [d \in 1 .. top.level + 1 |-> g[d - 1]]
  BY <1>3, <1>9 DEF LoadRightSpine
<1>11. \A d \in 0 .. k : g[d] = IF d = 0 THEN top ELSE file[Last(g[d - 1].entries).pointer]
  <2>1. \A d \in 0 .. top.level :
            g[d] = IF d = 0 THEN top ELSE file[Last(g[d - 1].entries).pointer]
    BY Zenon, <1>9
  <2> QED
    BY <1>7, <2>1
<1> HIDE DEF Is
<1> DEFINE T == {d \in 0 .. k : g[d] = f[d]}
<1>12. 0 \in T
  BY <1>6, <1>11
<1>13. ASSUME NEW d \in 0 .. k, d # k, d \in T PROVE d + 1 \in T
  <2>1. PICK j \in 0 .. k : j = d + 1 /\ j # 0 /\ j - 1 = d
    BY <1>13
  <2>2. g[j] = file[Last(g[d].entries).pointer]
    BY <1>11, <2>1
  <2>3. f[j] = file[Last(f[d].entries).pointer]
    BY <1>5, <2>1
  <2> QED
    BY <1>13, <2>1, <2>2, <2>3
<1> HIDE DEF T
<1>14. \A d \in 0 .. k : d \in T
  BY <1>12, <1>13, Induction
<1>15. ASSUME NEW d \in 1 .. h PROVE spine[d] = file[Last(E[h - d + 1]).pointer]
  <2>1. PICK j \in 0 .. k : j = d - 1 /\ h - j = h - d + 1
    BY SMTT(40), <1>1, <1>2
  <2>2. spine[d] = g[j]
    BY <1>2, <1>7, <1>10, <2>1
  <2>3. g[j] = f[j]
    BY <1>14 DEF T
  <2> QED
    BY <1>4, <2>1, <2>2, <2>3
<1>16. ASSUME NEW d \in 1 .. h PROVE spine[d] \in Nodes
  <2>1. PICK l \in 1 .. h : l = h - d + 1
    BY <1>1
  <2>2. PICK node : node = file[Last(E[l]).pointer]
    OBVIOUS
  <2>3. node \in Nodes
    BY <2>2, LadderRung
  <2> QED
    BY <1>15, <2>1, <2>2, <2>3
<1>17. spine = [d \in 1 .. h |-> spine[d]]
  BY <1>1, <1>2, <1>7, <1>10
<1>18. spine \in Seq(Nodes) /\ Len(spine) = h
  BY <1>1, <1>16, <1>17
<1>19. ASSUME NEW l \in 1 .. h PROVE spine[h - l + 1] = file[Last(E[l]).pointer]
  <2>1. PICK d \in 1 .. h : d = h - l + 1 /\ h - d + 1 = l
    BY <1>1
  <2> QED
    BY <1>15, <2>1
<1> QED
  BY <1>18, <1>19 DEF Chain

LEMMA LevelsAreRungs ==
    ASSUME nodes \in Seq(Nodes), NEW entry, NEW pages, NEW h, NEW E,
           Ladder(nodes, entry, pages, h, E), NEW below, below = Levels(entry)
    PROVE  /\ nodes[entry.pointer].level + 1 = h
           /\ \A d \in 0 .. h : below[d] = E[h - d]
<1>1. /\ h \in Nat /\ h >= 1 /\ E[h] = <<entry>>
      /\ nodes[entry.pointer].level = h - 1
  BY LadderTop
<1>2. nodes[entry.pointer].level + 1 = h
  BY <1>1
<1>3. PICK f : f = [d \in 0 .. h |-> E[h - d]]
  OBVIOUS
<1>4. ASSUME NEW d \in 0 .. h, d # 0 PROVE d - 1 \in 0 .. h /\ f[d] = Below(nodes, f[d - 1])
  <2>1. PICK l \in 1 .. h : l = h - (d - 1) /\ l - 1 = h - d
    BY <1>1, <1>4
  <2>2. d - 1 \in 0 .. h
    BY <1>1, <1>4
  <2>3. f[d - 1] = E[l] /\ f[d] = E[l - 1]
    BY <1>3, <2>1, <2>2
  <2>4. PICK node : node = nodes[Last(E[l]).pointer]
    OBVIOUS
  <2>5. Below(nodes, E[l]) = E[l - 1]
    BY <2>4, LadderRung
  <2> QED
    BY <2>2, <2>3, <2>5
<1>5. f[0] = <<entry>>
  <2>1. 0 \in 0 .. h /\ h - 0 = h
    BY <1>1
  <2> QED
    BY <1>1, <1>3, <2>1
<1> DEFINE Is(g) == g = [d \in 0 .. nodes[entry.pointer].level + 1 |->
                            IF d = 0 THEN <<entry>> ELSE Below(nodes, g[d - 1])]
<1>6. Is(f)
  <2>1. ASSUME NEW d \in 0 .. h
        PROVE f[d] = IF d = 0 THEN <<entry>> ELSE Below(nodes, f[d - 1])
    BY <1>4, <1>5
  <2> QED
    BY <1>2, <1>3, <2>1
<1>7. PICK g : g = (CHOOSE x : Is(x)) /\ Is(g)
  BY ZenonT(60), <1>6
<1>8. below = g
  BY <1>7 DEF Levels
<1>9. \A d \in 0 .. h : g[d] = IF d = 0 THEN <<entry>> ELSE Below(nodes, g[d - 1])
  <2>1. \A d \in 0 .. nodes[entry.pointer].level + 1 :
            g[d] = IF d = 0 THEN <<entry>> ELSE Below(nodes, g[d - 1])
    BY Zenon, <1>7
  <2> QED
    BY <1>2, <2>1
<1> HIDE DEF Is
<1> DEFINE T == {d \in 0 .. h : g[d] = f[d]}
<1>10. 0 \in T
  <2>1. 0 \in 0 .. h
    BY <1>1
  <2> QED
    BY <1>5, <1>9, <2>1
<1>11. ASSUME NEW d \in 0 .. h, d # h, d \in T PROVE d + 1 \in T
  <2>1. PICK j \in 0 .. h : j = d + 1 /\ j # 0 /\ j - 1 = d
    BY <1>1, <1>11
  <2>2. g[j] = Below(nodes, g[d])
    BY <1>9, <2>1
  <2>3. f[j] = Below(nodes, f[d])
    BY <1>4, <2>1
  <2> QED
    BY <1>11, <2>1, <2>2, <2>3
<1> HIDE DEF T
<1>12. \A d \in 0 .. h : d \in T
  BY <1>1, <1>10, <1>11, Induction
<1> QED
  BY <1>2, <1>3, <1>8, <1>12 DEF T

LEMMA ChainIsValid ==
    ASSUME NEW file \in Seq(Nodes), NEW entry, NEW pages, NEW h, NEW E,
           Ladder(file, entry, pages, h, E), NEW spine, Chain(file, spine, h, E)
    PROVE  ValidateRightSpine(spine, entry)
<1>1. /\ h \in Nat /\ h >= 1 /\ h <= HeightMax /\ HeightMax \in Nat
      /\ Last(E[h]) = entry /\ Leads(file, entry, h - 1)
  BY LadderTop
<1>2. /\ spine \in Seq(Nodes) /\ Len(spine) = h
      /\ \A l \in 1 .. h : spine[h - l + 1] = file[Last(E[l]).pointer]
  BY DEF Chain
<1>3. ASSUME NEW l \in 1 .. h
      PROVE /\ spine[h - l + 1].level = l - 1
            /\ Len(spine[h - l + 1].entries) \in 1 .. Capacity
            /\ Last(E[l - 1]) = Last(spine[h - l + 1].entries)
            /\ Leads(file, Last(E[l]), l - 1)
            /\ spine[h - l + 1].first = Last(E[l]).first
            /\ spine[h - l + 1].last = Last(E[l]).last
  <2>1. PICK node : node = file[Last(E[l]).pointer]
    OBVIOUS
  <2>2. /\ node.level = l - 1 /\ Len(node.entries) \in 1 .. Capacity
        /\ Last(E[l - 1]) = Last(node.entries) /\ Leads(file, Last(E[l]), l - 1)
    BY <2>1, LadderRung
  <2>3. spine[h - l + 1] = node
    BY <1>2, <2>1
  <2>4. node.first = Last(E[l]).first /\ node.last = Last(E[l]).last
    BY <2>1, <2>2 DEF Leads
  <2> QED
    BY <2>2, <2>3, <2>4
<1>4. spine[1].first = entry.first /\ spine[1].last = entry.last
  <2>1. h \in 1 .. h /\ h - h + 1 = 1
    BY <1>1
  <2> QED
    BY <1>1, <1>3, <2>1
<1>5. Last(spine).level = 0
  <2>1. 1 \in 1 .. h /\ h - 1 + 1 = h /\ 1 - 1 = 0
    BY <1>1
  <2>2. Last(spine) = spine[h]
    BY <1>2 DEF Last
  <2> QED
    BY <1>3, <2>1, <2>2
<1>6. ASSUME NEW d \in 1 .. h PROVE Len(spine[d].entries) \in 1 .. Capacity
  <2>1. PICK l \in 1 .. h : l = h - d + 1 /\ h - l + 1 = d
    BY <1>1
  <2> QED
    BY <1>3, <2>1
<1>7. ASSUME NEW d \in 1 .. h - 1
      PROVE /\ spine[d].level = spine[d + 1].level + 1
            /\ Last(spine[d].entries).first = spine[d + 1].first
            /\ Last(spine[d].entries).last = spine[d + 1].last
  <2>1. PICK l \in 1 .. h : l = h - d + 1 /\ h - l + 1 = d
    BY <1>1
  <2>2. PICK k \in 1 .. h : k = l - 1 /\ h - k + 1 = d + 1
    BY <1>1, <2>1
  <2>3. spine[d].level = l - 1 /\ Last(E[k]) = Last(spine[d].entries)
    BY <1>3, <2>1, <2>2
  <2>4. /\ spine[d + 1].level = k - 1
        /\ spine[d + 1].first = Last(E[k]).first /\ spine[d + 1].last = Last(E[k]).last
    BY <1>3, <2>2
  <2>5. l - 1 = (k - 1) + 1
    BY <2>2
  <2> QED
    BY <2>3, <2>4, <2>5
<1>8. Len(spine) \in 1 .. HeightMax
  BY <1>1, <1>2
<1> QED
  BY <1>2, <1>4, <1>5, <1>6, <1>7, <1>8 DEF ValidateRightSpine

(* The depth that is predicted is the first that a single node tops.       *)
LEMMA DepthIsPredicted ==
    ASSUME NEW spine, NEW added, NEW count, count = NodeCounts(spine, added),
           NEW depth \in Nat, depth = Len(spine), depth >= 1,
           NEW p, p = AppendedSpineDepth(spine, added)
    PROVE  \/ p = 0 /\ \A d \in depth .. HeightMax : count[d] # 1
           \/ /\ p \in depth .. HeightMax /\ count[p] = 1
              /\ \A d \in depth .. p - 1 : count[d] # 1
<1>1. HeightMax \in Nat
  BY TimeIndexAssumption
<1>2. PICK depths : depths = {d \in depth .. HeightMax : count[d] = 1}
  OBVIOUS
<1>3. p = IF depths = {} THEN 0 ELSE Min(depths)
  BY <1>2 DEF AppendedSpineDepth
<1>4. CASE depths = {}
  BY <1>2, <1>3, <1>4
<1>5. CASE depths # {}
  <2>1. depths \subseteq Nat
    BY <1>1, <1>2
  <2>2. p \in depths /\ \A y \in depths : p <= y
    BY <1>3, <1>5, <2>1, Least
  <2>3. p \in depth .. HeightMax /\ count[p] = 1
    BY <1>2, <2>2
  <2>4. ASSUME NEW d \in depth .. p - 1, count[d] = 1 PROVE FALSE
    <3>1. d \in depths /\ ~(p <= d)
      BY <1>1, <1>2, <2>3, <2>4
    <3> QED
      BY <2>2, <3>1
  <2> QED
    BY <2>3, <2>4
<1> QED
  BY <1>4, <1>5

-----------------------------------------------------------------------------
(* The index.                                                              *)

LEMMA TrunkIsTasked ==
    ASSUME NEW t, Trunk(t), NEW n \in Nat, t.pages = n, NEW k \in Nat, k >= 1,
           NEW added, added = [i \in 1 .. k |-> PageEntry(n + i)],
           NEW count, count = NodeCounts(t.spine, k), NEW predicted,
           \/ predicted = 0
           \/ /\ predicted \in t.depth .. HeightMax /\ count[predicted] = 1
              /\ \A d \in t.depth .. predicted - 1 : count[d] # 1
    PROVE  Tasked(t, added, n + k, predicted, count)
<1>1. /\ HeightMax \in Nat /\ t.spine \in Seq(Nodes)
      /\ t.depth = Len(t.spine) /\ t.depth \in 1 .. HeightMax
      /\ t.kept \in [0 .. HeightMax - 1 -> Seq(Entries)] /\ t.stays[0] = Pages(n)
  BY TimeIndexAssumption DEF Trunk
<1>2. ASSUME NEW l \in 0 .. HeightMax - 1
      PROVE KeptCount(t.spine, l) = Len(t.kept[l]) /\ Len(t.kept[l]) \in Nat
  <2>1. t.kept[l] = IF l < t.depth THEN Kept(t.spine[t.depth - l]) ELSE << >>
    BY DEF Trunk
  <2>2. PICK s \in Seq(Entries) : s = t.kept[l]
    BY <1>1
  <2>3. Len(s) \in Nat
    OBVIOUS
  <2>4. KeptCount(t.spine, l) = Len(s)
    <3>1. CASE l < t.depth
      BY <1>1, <2>1, <2>2, <3>1 DEF KeptCount
    <3>2. CASE ~(l < t.depth)
      <4>1. s = << >> /\ Len(s) = 0
        BY <2>1, <2>2, <3>2
      <4> QED
        BY <1>1, <3>2, <4>1 DEF KeptCount
    <3> QED
      BY <3>1, <3>2
  <2> QED
    BY <2>2, <2>3, <2>4
<1>3. Counts(t.spine, k, count)
  <2>1. PICK spine : spine = t.spine
    OBVIOUS
  <2>2. \A l \in 0 .. HeightMax - 1 : KeptCount(spine, l) \in Nat
    BY <1>2, <2>1
  <2>3. Counts(spine, k, NodeCounts(spine, k))
    BY <2>2, NodesAreCounted
  <2> QED
    BY <2>1, <2>3
<1>4. ASSUME NEW l \in 1 .. HeightMax
      PROVE count[l] = DivCeil(Len(t.kept[l - 1]) + count[l - 1], Capacity)
  <2>1. l - 1 \in 0 .. HeightMax - 1
    BY <1>1
  <2>2. count[l] = DivCeil(KeptCount(t.spine, l - 1) + count[l - 1], Capacity)
    BY <1>3 DEF Counts
  <2> QED
    BY <1>2, <2>1, <2>2
<1>5. count \in [0 .. HeightMax -> Nat] /\ count[0] = k
  BY <1>3 DEF Counts
<1>6. added \in Seq(Entries) /\ Len(added) = k /\ IsConcat(Pages(n + k), Pages(n), added)
  BY PagesAppended
<1>7. added # << >>
  BY <1>6
<1>8. n + k \in Nat
  OBVIOUS
<1> QED
  BY <1>1, <1>4, <1>5, <1>6, <1>7, <1>8 DEF Tasked

(* What an append to the index comes to.                                   *)
Grown(result, total) ==
    \E h, E : /\ Ladder(result.file, result.root, total, h, E)
              /\ Chain(result.file, result.spine, h, E)

Verdict(result, total) ==
    /\ Extends(nodes, result.file)
    /\ (result.error # "none") <=> (total > Room[HeightMax])
    /\ result.error = "none" => Grown(result, total)

LEMMA VerdictOfAppend ==
    ASSUME NEW t, NEW added, NEW total \in Nat, NEW predicted, NEW count,
           Tasked(t, added, total, predicted, count), t.file = nodes,
           NEW result, result = AppendWithSpine(t.file, t.spine, predicted, added)
    PROVE  Verdict(result, total)
<1>1. Room[HeightMax] \in Nat
  BY TimeIndexAssumption, RoomMonotone
<1>2. CASE Refuses(t, total, predicted, result)
  BY <1>2 DEF Refuses, Verdict
<1>3. ASSUME NEW h, NEW E, Accepts(t, total, count, result, h, E) PROVE Verdict(result, total)
  <2>1. /\ result.error = "none" /\ Extends(nodes, result.file) /\ total <= Room[HeightMax]
        /\ Ladder(result.file, result.root, total, h, E)
        /\ Chain(result.file, result.spine, h, E)
    BY <1>3 DEF Accepts
  <2>2. ~(total > Room[HeightMax])
    BY <1>1, <2>1
  <2>3. Grown(result, total)
    BY <2>1 DEF Grown
  <2> QED
    BY <2>1, <2>2, <2>3 DEF Verdict
<1> QED
  BY <1>2, <1>3, AppendEnds

IndexInv ==
    /\ nodes \in Seq(Nodes) /\ page_count \in Nat
    /\ \A g \in trees : \E h, E : Ladder(nodes, g.root, g.pages, h, E)
    /\ \/ /\ root = NoRoot /\ page_count = 0
          /\ ~index_poisoned => right_spine = << >>
       \/ /\ root # NoRoot
          /\ \E h, E : /\ Ladder(nodes, root, page_count, h, E)
                       /\ \/ index_poisoned
                          \/ right_spine = << >>
                          \/ Chain(nodes, right_spine, h, E)

LEMMA UncachedIsRight ==
    ASSUME IndexInv, ~index_poisoned, right_spine = << >>, NEW k \in Nat, k >= 1,
           NEW result, result = Appended(k)
    PROVE  Verdict(result, page_count + k)
<1>1. PICK added : added = [i \in 1 .. k |-> PageEntry(page_count + i)]
  OBVIOUS
<1>2. PICK spine : spine = IF root = NoRoot THEN <<BlankNode>> ELSE LoadRightSpine(nodes, root)
  OBVIOUS
<1>3. result = AppendWithSpine(nodes, spine, 0, added)
  BY <1>1, <1>2 DEF Appended, AppendUncached, NewPages
<1>4. nodes \in Seq(Nodes) /\ page_count \in Nat
  BY DEF IndexInv
<1>5. PICK t : Trunk(t) /\ t.file = nodes /\ t.spine = spine /\ t.pages = page_count
  <2>1. CASE root = NoRoot
    <3>1. page_count = 0
      BY <2>1 DEF IndexInv
    <3>2. \E t : Trunk(t) /\ t.file = nodes /\ t.spine = <<BlankNode>> /\ t.pages = 0
      BY <1>4, TrunkOfNone
    <3> QED
      BY <1>2, <2>1, <3>1, <3>2
  <2>2. CASE root # NoRoot
    <3>1. PICK h, E : Ladder(nodes, root, page_count, h, E)
      BY <2>2 DEF IndexInv
    <3>2. spine = LoadRightSpine(nodes, root)
      BY <1>2, <2>2
    <3>3. Chain(nodes, spine, h, E)
      BY <1>4, <3>1, <3>2, SpineIsRead
    <3>4. \E t : Trunk(t) /\ t.file = nodes /\ t.spine = spine /\ t.pages = page_count
      BY <1>4, <3>1, <3>3, TrunkOfChain
    <3> QED
      BY <3>4
  <2> QED
    BY <2>1, <2>2
<1>6. PICK count : count = NodeCounts(t.spine, k)
  OBVIOUS
<1>7. PICK n, total \in Nat : n = page_count /\ total = n + k
  <2>1. page_count + k \in Nat
    BY <1>4
  <2> QED
    BY <1>4, <2>1
<1>8. Tasked(t, added, n + k, 0, count)
  <2>1. t.pages = n /\ added = [i \in 1 .. k |-> PageEntry(n + i)]
    BY <1>1, <1>5, <1>7
  <2> QED
    BY <1>5, <1>6, <2>1, TrunkIsTasked
<1>9. Tasked(t, added, total, 0, count)
  BY <1>7, <1>8
<1>10. result = AppendWithSpine(t.file, t.spine, 0, added)
  BY <1>3, <1>5
<1>11. Verdict(result, total)
  BY <1>5, <1>9, <1>10, VerdictOfAppend
<1> QED
  BY <1>7, <1>11

LEMMA CachedIsRight ==
    ASSUME IndexInv, ~index_poisoned, right_spine # << >>, NEW k \in Nat, k >= 1,
           NEW result, result = Appended(k)
    PROVE  Verdict(result, page_count + k)
<1>1. nodes \in Seq(Nodes) /\ page_count \in Nat
  BY DEF IndexInv
<1>2. PICK n, total \in Nat : n = page_count /\ total = n + k
  <2>1. page_count + k \in Nat
    BY <1>1
  <2> QED
    BY <1>1, <2>1
<1>3. PICK added : added = [i \in 1 .. k |-> PageEntry(n + i)]
  OBVIOUS
<1>4. Len(added) = k /\ NewPages(k) = added
  <2>1. Len(added) = k
    BY <1>3, PagesAppended
  <2> QED
    BY <1>2, <1>3, <2>1 DEF NewPages
<1>5. PICK h, E : Ladder(nodes, root, page_count, h, E) /\ Chain(nodes, right_spine, h, E)
  BY DEF IndexInv
<1>6. PICK t : /\ Trunk(t) /\ t.file = nodes /\ t.spine = right_spine /\ t.pages = page_count
               /\ t.depth = h
  BY <1>1, <1>5, TrunkOfChain
<1>7. PICK count : count = NodeCounts(right_spine, k)
  OBVIOUS
<1>8. PICK p : p = AppendedSpineDepth(right_spine, k)
  OBVIOUS
<1>9. h \in Nat /\ h >= 1 /\ Len(right_spine) = h /\ t.depth = h /\ HeightMax \in Nat
  <2>1. h \in Nat /\ h >= 1 /\ HeightMax \in Nat
    BY <1>1, <1>5, LadderTop
  <2> QED
    BY <1>5, <1>6, <2>1 DEF Chain
<1>10. \/ p = 0 /\ \A d \in h .. HeightMax : count[d] # 1
       \/ /\ p \in h .. HeightMax /\ count[p] = 1
          /\ \A d \in h .. p - 1 : count[d] # 1
  BY <1>7, <1>8, <1>9, DepthIsPredicted
<1>11. ASSUME NEW q, \/ q = 0
                     \/ /\ q \in h .. HeightMax /\ count[q] = 1
                        /\ \A d \in h .. q - 1 : count[d] # 1
       PROVE Tasked(t, added, total, q, count)
  <2>1. t.pages = n /\ count = NodeCounts(t.spine, k)
    BY <1>2, <1>6, <1>7
  <2>2. Tasked(t, added, n + k, q, count)
    BY <1>3, <1>6, <1>9, <1>11, <2>1, TrunkIsTasked
  <2> QED
    BY <1>2, <2>2
<1>12. result = IF p = 0 THEN [error |-> "IndexTooDeep", file |-> nodes]
                ELSE AppendWithSpine(nodes, right_spine, p, added)
  <2>1. ValidateRightSpine(right_spine, root)
    BY <1>1, <1>5, ChainIsValid
  <2>2. Appended(k) = AppendCached(added)
    BY <1>4 DEF Appended
  <2>3. AppendCached(added) = IF p = 0 THEN [error |-> "IndexTooDeep", file |-> nodes]
                              ELSE AppendWithSpine(nodes, right_spine, p, added)
    BY <1>4, <1>8, <2>1 DEF AppendCached
  <2> QED
    BY <2>2, <2>3
<1>13. CASE p = 0
  <2>1. Tasked(t, added, total, 0, count)
    BY <1>11
  <2>2. PICK r : r = AppendWithSpine(t.file, t.spine, 0, added)
    OBVIOUS
  <2>3. \A d \in h .. HeightMax : count[d] # 1
    BY <1>9, <1>10, <1>13
  <2>4. ASSUME NEW j, NEW G, Accepts(t, total, count, r, j, G) PROVE FALSE
    BY <1>9, <2>3, <2>4 DEF Accepts
  <2>5. Refuses(t, total, 0, r)
    BY <2>1, <2>2, <2>4, AppendEnds
  <2>6. total > Room[HeightMax]
    BY <2>5 DEF Refuses
  <2>7. result.error = "IndexTooDeep" /\ result.file = nodes
    BY <1>12, <1>13
  <2>8. Extends(nodes, nodes)
    BY <1>1 DEF Extends
  <2>9. Verdict(result, total)
    BY <2>6, <2>7, <2>8 DEF Verdict
  <2> QED
    BY <1>2, <2>9
<1>14. CASE p # 0
  <2>1. Tasked(t, added, total, p, count)
    BY <1>10, <1>11, <1>14
  <2>2. result = AppendWithSpine(t.file, t.spine, p, added)
    BY <1>6, <1>12, <1>14
  <2>3. Verdict(result, total)
    BY <1>6, <2>1, <2>2, VerdictOfAppend
  <2> QED
    BY <1>2, <2>3
<1> QED
  BY <1>13, <1>14

LEMMA AppendedIsRight ==
    ASSUME IndexInv, ~index_poisoned, NEW k \in Nat, k >= 1, NEW result, result = Appended(k)
    PROVE  Verdict(result, page_count + k)
<1>1. CASE right_spine = << >>
  BY <1>1, UncachedIsRight
<1>2. CASE right_spine # << >>
  BY <1>2, CachedIsRight
<1> QED
  BY <1>1, <1>2

LEMMA RootIsSomewhere ==
    ASSUME NEW file \in Seq(Nodes), NEW entry, NEW pages, NEW h, NEW E,
           Ladder(file, entry, pages, h, E)
    PROVE  entry # NoRoot
<1>1. Leads(file, entry, h - 1)
  BY LadderTop
<1>2. entry.pointer # 0
  BY <1>1 DEF Leads
<1>3. NoRoot.pointer = 0
  BY DEF NoRoot, Entry
<1> QED
  BY <1>2, <1>3

(* What is written after it leaves every tree where it is.                 *)
LEMMA TreesStay ==
    ASSUME IndexInv, NEW more, Extends(nodes, more)
    PROVE  /\ \A g \in trees : \E h, E : Ladder(more, g.root, g.pages, h, E)
           /\ \/ root = NoRoot /\ page_count = 0
              \/ root # NoRoot /\ \E h, E : Ladder(more, root, page_count, h, E)
<1>1. ASSUME NEW g \in trees PROVE \E h, E : Ladder(more, g.root, g.pages, h, E)
  <2>1. PICK h, E : Ladder(nodes, g.root, g.pages, h, E)
    BY DEF IndexInv
  <2>2. Ladder(more, g.root, g.pages, h, E)
    BY <2>1, LadderSame
  <2> QED
    BY <2>2
<1>2. CASE root = NoRoot
  BY <1>1, <1>2 DEF IndexInv
<1>3. CASE root # NoRoot
  <2>1. PICK h, E : Ladder(nodes, root, page_count, h, E)
    BY <1>3 DEF IndexInv
  <2>2. Ladder(more, root, page_count, h, E)
    BY <2>1, LadderSame
  <2> QED
    BY <1>1, <1>3, <2>2
<1> QED
  BY <1>2, <1>3

LEMMA PoisonedStep ==
    ASSUME IndexInv, Extends(nodes, nodes'), index_poisoned' = TRUE,
           UNCHANGED <<root, page_count, trees>>
    PROVE  IndexInv'
<1>1. PICK more : more = nodes'
  OBVIOUS
<1>2. more \in Seq(Nodes) /\ page_count \in Nat
  BY <1>1 DEF Extends, IndexInv
<1>3. /\ \A g \in trees : \E h, E : Ladder(more, g.root, g.pages, h, E)
      /\ \/ root = NoRoot /\ page_count = 0
         \/ root # NoRoot /\ \E h, E : Ladder(more, root, page_count, h, E)
  BY <1>1, TreesStay
<1>4. CASE root = NoRoot
  BY <1>1, <1>2, <1>3, <1>4 DEF IndexInv
<1>5. CASE root # NoRoot
  <2>1. PICK h, E : Ladder(more, root, page_count, h, E)
    BY <1>3, <1>5
  <2>2. \E j, G : /\ Ladder(nodes', root', page_count', j, G)
                  /\ \/ index_poisoned'
                     \/ right_spine' = << >>
                     \/ Chain(nodes', right_spine', j, G)
    BY <1>1, <2>1
  <2> QED
    BY <1>1, <1>2, <1>3, <1>5, <2>2 DEF IndexInv
<1> QED
  BY <1>4, <1>5

LEMMA InvStarts == IndexInit => IndexInv
<1> SUFFICES ASSUME IndexInit PROVE IndexInv
  OBVIOUS
<1>1. << >> \in Seq(Nodes)
  BY EmptySeq
<1> QED
  BY <1>1 DEF IndexInit, IndexInv

LEMMA CheckpointStep ==
    ASSUME IndexInv, NEW k \in 1 .. MaxBatch, CheckpointIndex(k)
    PROVE  IndexInv'
<1>1. k \in Nat /\ k >= 1
  BY TimeIndexAssumption
<1>2. PICK result : result = Appended(k)
  OBVIOUS
<1>3. /\ ~index_poisoned /\ result.error = "none" /\ nodes' = result.file
      /\ root' = result.root /\ right_spine' = result.spine
      /\ trees' = trees \cup {[root |-> result.root, pages |-> page_count + k]}
      /\ page_count' = page_count + k /\ index_poisoned' = index_poisoned
  BY <1>2 DEF CheckpointIndex
<1>4. PICK more, total : more = result.file /\ total = page_count + k
  OBVIOUS
<1>5. Verdict(result, total)
  BY <1>1, <1>2, <1>3, <1>4, AppendedIsRight
<1>6. Extends(nodes, more) /\ Grown(result, total)
  BY <1>3, <1>4, <1>5 DEF Verdict
<1>7. PICK h, E : Ladder(more, result.root, total, h, E) /\ Chain(more, result.spine, h, E)
  BY <1>4, <1>6 DEF Grown
<1>8. more \in Seq(Nodes) /\ total \in Nat
  <2>1. page_count \in Nat
    BY DEF IndexInv
  <2> QED
    BY <1>1, <1>4, <1>6, <2>1 DEF Extends
<1>9. root' # NoRoot
  BY <1>3, <1>7, <1>8, RootIsSomewhere
<1>10. ASSUME NEW g \in trees' PROVE \E j, G : Ladder(nodes', g.root, g.pages, j, G)
  <2>1. CASE g \in trees
    <3>1. \E j, G : Ladder(more, g.root, g.pages, j, G)
      BY <1>6, <2>1, TreesStay
    <3> QED
      BY <1>3, <1>4, <3>1
  <2>2. CASE g = [root |-> result.root, pages |-> page_count + k]
    <3>1. g.root = result.root /\ g.pages = total
      BY <1>4, <2>2
    <3>2. Ladder(nodes', g.root, g.pages, h, E)
      BY <1>3, <1>4, <1>7, <3>1
    <3> QED
      BY <3>2
  <2> QED
    BY <1>3, <2>1, <2>2
<1>11. \E j, G : /\ Ladder(nodes', root', page_count', j, G)
                 /\ \/ index_poisoned'
                    \/ right_spine' = << >>
                    \/ Chain(nodes', right_spine', j, G)
  <2>1. Ladder(nodes', root', page_count', h, E) /\ Chain(nodes', right_spine', h, E)
    BY <1>3, <1>4, <1>7
  <2> QED
    BY <2>1
<1>12. nodes' \in Seq(Nodes) /\ page_count' \in Nat
  BY <1>3, <1>4, <1>8
<1> QED
  BY <1>9, <1>10, <1>11, <1>12 DEF IndexInv

LEMMA RefusedStep ==
    ASSUME IndexInv, NEW k \in 1 .. MaxBatch, CheckpointIndexRefused(k)
    PROVE  IndexInv'
<1>1. k \in Nat /\ k >= 1
  BY TimeIndexAssumption
<1>2. PICK result : result = Appended(k)
  OBVIOUS
<1>3. /\ ~index_poisoned /\ nodes' = result.file /\ index_poisoned' = TRUE
      /\ UNCHANGED <<root, page_count, trees>>
  BY <1>2 DEF CheckpointIndexRefused
<1>4. Verdict(result, page_count + k)
  BY <1>1, <1>2, <1>3, AppendedIsRight
<1>5. Extends(nodes, nodes')
  BY <1>3, <1>4 DEF Verdict
<1> QED
  BY <1>3, <1>5, PoisonedStep

LEMMA FailsStep ==
    ASSUME IndexInv, NEW k \in 1 .. MaxBatch, CheckpointIndexFails(k)
    PROVE  IndexInv'
<1>1. k \in Nat /\ k >= 1
  BY TimeIndexAssumption
<1>2. PICK result : result = Appended(k)
  OBVIOUS
<1>3. /\ ~index_poisoned /\ index_poisoned' = TRUE
      /\ UNCHANGED <<root, page_count, trees>>
      /\ \E n \in Len(nodes) .. Len(result.file) : nodes' = SubSeq(result.file, 1, n)
  BY <1>2 DEF CheckpointIndexFails
<1>4. Verdict(result, page_count + k)
  BY <1>1, <1>2, <1>3, AppendedIsRight
<1>5. PICK file \in Seq(Nodes) : file = result.file /\ Extends(nodes, file)
  BY <1>4 DEF Verdict, Extends
<1>6. PICK n \in Len(nodes) .. Len(file) : nodes' = SubSeq(file, 1, n)
  BY <1>3, <1>5
<1>7. PICK b, c \in Nat : b = Len(nodes) /\ c = Len(file)
  BY <1>5 DEF Extends
<1>8. n \in Nat /\ b <= n /\ n <= c
  BY <1>6, <1>7
<1>9. \A i \in 1 .. n : file[i] \in Nodes
  BY <1>7, <1>8
<1>10. /\ nodes' \in Seq(Nodes) /\ Len(nodes') = IF 1 <= n THEN n - 1 + 1 ELSE 0
       /\ \A i \in 1 .. n - 1 + 1 : nodes'[i] = file[1 + i - 1]
  BY <1>6, <1>8, <1>9, SubSeqProperties
<1>11. Len(nodes') = n /\ \A i \in 1 .. n : nodes'[i] = file[i]
  BY <1>8, <1>10
<1>12. Extends(nodes, nodes')
  <2>1. nodes \in Seq(Nodes) /\ \A i \in 1 .. b : file[i] = nodes[i]
    BY <1>5, <1>7 DEF Extends
  <2>2. \A i \in 1 .. b : nodes'[i] = nodes[i]
    BY <1>8, <1>11, <2>1
  <2> QED
    BY <1>7, <1>8, <1>10, <1>11, <2>1, <2>2 DEF Extends
<1> QED
  BY <1>3, <1>12, PoisonedStep

LEMMA ReopenStep ==
    ASSUME IndexInv, ReopenIndex
    PROVE  IndexInv'
<1>1. /\ right_spine' = << >> /\ nodes' = nodes /\ root' = root
      /\ page_count' = page_count /\ trees' = trees
  BY DEF ReopenIndex
<1>2. CASE root = NoRoot
  BY <1>1, <1>2 DEF IndexInv
<1>3. CASE root # NoRoot
  <2>1. PICK h, E : Ladder(nodes, root, page_count, h, E)
    BY <1>3 DEF IndexInv
  <2>2. \E j, G : /\ Ladder(nodes', root', page_count', j, G)
                  /\ \/ index_poisoned'
                     \/ right_spine' = << >>
                     \/ Chain(nodes', right_spine', j, G)
    BY <1>1, <2>1
  <2> QED
    BY <1>1, <1>3, <2>2 DEF IndexInv
<1> QED
  BY <1>2, <1>3

LEMMA InvStays == IndexInv /\ [IndexNext]_indexVars => IndexInv'
<1> SUFFICES ASSUME IndexInv, [IndexNext]_indexVars PROVE IndexInv'
  OBVIOUS
<1>1. ASSUME NEW k \in 1 .. MaxBatch, CheckpointIndex(k) PROVE IndexInv'
  BY <1>1, CheckpointStep
<1>2. ASSUME NEW k \in 1 .. MaxBatch, CheckpointIndexRefused(k) PROVE IndexInv'
  BY <1>2, RefusedStep
<1>3. ASSUME NEW k \in 1 .. MaxBatch, CheckpointIndexFails(k) PROVE IndexInv'
  BY <1>3, FailsStep
<1>4. CASE ReopenIndex
  BY <1>4, ReopenStep
<1>5. CASE UNCHANGED indexVars
  BY <1>5 DEF indexVars, IndexInv
<1> QED
  BY <1>1, <1>2, <1>3, <1>4, <1>5 DEF IndexNext

(* Every generation of the index is a tree of its own whatever checkpoints *)
(* failed, and the cached spine, when there is one, is its right edge.     *)
LEMMA IndexInvHolds == IndexSpec => []IndexInv
BY InvStarts, InvStays, PTL DEF IndexSpec

(* A tree that lists its pages.                                            *)
Holds(g, below, height) ==
    /\ \A d \in 0 .. height - 1 : \A i \in DOMAIN below[d] :
        LET node == nodes[below[d][i].pointer] IN
        /\ node.level = height - 1 - d
        /\ Len(node.entries) \in 1 .. Capacity
        /\ node.first = below[d][i].first
        /\ node.last = below[d][i].last
    /\ below[height] = [i \in 1 .. g.pages |-> PageEntry(i)]

LEMMA InvHolds ==
    ASSUME IndexInv, NEW g \in trees, NEW below, below = Levels(g.root),
           NEW height, height = nodes[g.root.pointer].level + 1
    PROVE  Holds(g, below, height)
<1>1. nodes \in Seq(Nodes)
  BY DEF IndexInv
<1>2. PICK h, E : Ladder(nodes, g.root, g.pages, h, E)
  BY DEF IndexInv
<1>3. height = h /\ (\A d \in 0 .. h : below[d] = E[h - d]) /\ h \in Nat /\ h >= 1
  BY <1>1, <1>2, LevelsAreRungs, LadderTop
<1>4. ASSUME NEW d \in 0 .. height - 1, NEW i \in DOMAIN below[d]
      PROVE /\ nodes[below[d][i].pointer].level = height - 1 - d
            /\ Len(nodes[below[d][i].pointer].entries) \in 1 .. Capacity
            /\ nodes[below[d][i].pointer].first = below[d][i].first
            /\ nodes[below[d][i].pointer].last = below[d][i].last
  <2>1. PICK l \in 1 .. h : l = h - d /\ l - 1 = height - 1 - d
    BY <1>3
  <2>2. PICK node : node = nodes[Last(E[l]).pointer]
    OBVIOUS
  <2>3. E[l] \in Seq(Entries) /\ AllLead(nodes, E[l], l - 1)
    BY <1>1, <1>2, <2>2, LadderRung
  <2>4. below[d] = E[l]
    BY <1>3, <2>1
  <2>5. i \in 1 .. Len(E[l])
    BY <2>3, <2>4
  <2>6. Leads(nodes, below[d][i], height - 1 - d)
    BY <2>1, <2>3, <2>4, <2>5 DEF AllLead
  <2> QED
    BY <2>6 DEF Leads
<1>5. below[height] = [i \in 1 .. g.pages |-> PageEntry(i)]
  <2>1. h \in 0 .. h /\ h - h = 0
    BY <1>3
  <2>2. E[0] = Pages(g.pages)
    BY <1>2 DEF Ladder
  <2> QED
    BY <1>3, <2>1, <2>2 DEF Pages
<1> QED
  BY <1>4, <1>5 DEF Holds

LEMMA InvListsPages == IndexInv => TreesHoldTheirPages
<1> SUFFICES ASSUME IndexInv PROVE TreesHoldTheirPages
  OBVIOUS
<1>1. ASSUME NEW g \in trees
      PROVE Holds(g, Levels(g.root), nodes[g.root.pointer].level + 1)
  BY InvHolds
<1> QED
  BY Zenon, <1>1 DEF TreesHoldTheirPages, Holds

LEMMA InvRefusesWhenFull == IndexInv => RefusedExactlyWhenFull
<1> SUFFICES ASSUME IndexInv, ~index_poisoned, NEW k \in 1 .. MaxBatch
             PROVE  (Appended(k).error # "none") <=> (page_count + k > Room[HeightMax])
  BY DEF RefusedExactlyWhenFull
<1>1. k \in Nat /\ k >= 1
  BY TimeIndexAssumption
<1>2. PICK result : result = Appended(k)
  OBVIOUS
<1>3. Verdict(result, page_count + k)
  BY <1>1, <1>2, AppendedIsRight
<1> QED
  BY <1>2, <1>3 DEF Verdict

(* index.zig, whatever the capacity and the height limit: however often    *)
(* the right spine is rewritten, from the cache or from the file, and      *)
(* whatever checkpoints fail in between, every generation ever published   *)
(* is a tree with right levels and summaries whose leaves list exactly its *)
(* pages, in order.                                                        *)
THEOREM TreesHoldTheirPagesHolds == IndexSpec => []TreesHoldTheirPages
BY IndexInvHolds, InvListsPages, PTL

(* appendedSpineDepth and appendWithSpine: a checkpoint is refused by the  *)
(* height limit exactly when a full tree of that height could not hold its *)
(* pages, whether the spine is cached or read.                             *)
THEOREM RefusedExactlyWhenFullHolds == IndexSpec => []RefusedExactlyWhenFull
BY IndexInvHolds, InvRefusesWhenFull, PTL
=============================================================================
