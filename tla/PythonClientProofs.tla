------------------------- MODULE PythonClientProofs -------------------------
(***************************************************************************)
(* Proofs about PythonReader: for any number of readers, generators,       *)
(* prepared series and refreshes, at whatever addresses the allocator      *)
(* places handles, what was made in a snapshot is used in that snapshot or *)
(* not at all, and the native cursor of a generator is there exactly while *)
(* the generator can still use it.                                         *)
(*                                                                         *)
(* The Python objects hold an epoch, a number that a reader counts itself. *)
(* That an equal epoch means the same native snapshot is the invariant: it *)
(* rests on handles not being shared, on the epoch going up with every     *)
(* refresh that changes the handle, and on a closed reader staying closed, *)
(* for its address may soon be that of another reader.                     *)
(*                                                                         *)
(* What a generator yields is then a matter of positions: the points of a  *)
(* range lie side by side, the cursor has delivered the first of them, and *)
(* of these the application has seen all but the buffered ones.            *)
(*                                                                         *)
(* The next part is about NativeReaders alone, as a C program uses it: a   *)
(* cursor that is kept while readers are closed and opened reads the       *)
(* reader it was made with, or is refused, and delivers its range of it.   *)
(*                                                                         *)
(* The Python writer comes after it: what checkpoint and close acknowledge *)
(* is published, whatever calls raised in between.  The invariant follows  *)
(* two things through every call: a buffer that cannot be flushed stays so *)
(* and keeps checkpoint from returning, and as long as no buffer is, the   *)
(* points of the calls that returned are in what has been appended and in  *)
(* the buffers after it.                                                   *)
(***************************************************************************)
EXTENDS PythonWriter, PythonReader, SharedLemmas

HandleRecord == [token : Nat \ {0}, file : Files, generation : Nat]
ReaderRecord == [handle : Addresses \cup {NullHandle}, opened : BOOLEAN, epoch : Nat]

ReadersTyped ==
    /\ history \in [Files -> Seq(Seq(Nat)) \ {<< >>}]
    /\ heap \in [Addresses -> HandleRecord \cup {Freed}]
    /\ next_token \in Nat \ {0}
    /\ readers \in [ReaderObjects -> ReaderRecord]

(* An open reader has a handle, and has it alone.                          *)
HandlesAreOwned ==
    /\ \A r \in ReaderObjects : IsOpen(r) => Live(Handle(r)) /\ readers[r].opened
    /\ \A r, q \in ReaderObjects : IsOpen(r) /\ Handle(q) = Handle(r) => q = r

(* What was made by r in this epoch and this snapshot is current while the *)
(* reader is open and counts the same epoch.                               *)
TakenIn(r, epoch, snapshot) ==
    /\ r \in ReaderObjects /\ readers[r].opened
    /\ epoch \in Nat /\ epoch <= readers[r].epoch
    /\ CheckIteration(r, epoch) => heap[Handle(r)] = snapshot

PreparedAreTaken ==
    \A p \in PreparedObjects : prepared[p] # NoPrepared =>
        TakenIn(prepared[p].reader, prepared[p].epoch, prepared[p].snapshot)

IteratorsAreTaken ==
    \A i \in Iterators : iterators[i] # NoIterator =>
        TakenIn(iterators[i].reader, iterators[i].epoch, iterators[i].snapshot)

IteratorFields ==
    {"phase", "reader", "epoch", "range", "batch", "buffered", "asked", "snapshot", "yielded"}
IteratorPhases == {"unstarted", "suspended", "exhausted", "failed", "closed"}

(* A generator, and the cursor of its name: there while it is suspended.   *)
CursorFollows(it, cursor) ==
    IF it.phase = "suspended"
    THEN "owner" \in DOMAIN cursor /\ cursor.owner \in Addresses
    ELSE cursor = NoCursor

IteratorsTyped ==
    /\ DOMAIN iterators = Iterators /\ DOMAIN cursors = Cursors
    /\ DOMAIN prepared = PreparedObjects
    /\ \A i \in Iterators :
        /\ iterators[i] = NoIterator \/ /\ DOMAIN iterators[i] = IteratorFields
                                        /\ iterators[i].phase \in IteratorPhases
        /\ CursorFollows(iterators[i], cursors[i])

PythonReaderInv ==
    /\ ReadersTyped /\ HandlesAreOwned
    /\ IteratorsTyped
    /\ PreparedAreTaken /\ IteratorsAreTaken

-----------------------------------------------------------------------------
(* Ranges of ordered points.                                               *)

(* The points of a range are those from lo to hi, none if hi = lo - 1.     *)
Bounds(points, start, end, lo, hi) ==
    /\ lo \in 1 .. Len(points) + 1 /\ hi \in lo - 1 .. Len(points)
    /\ \A i \in DOMAIN points :
        (start <= points[i] /\ points[i] <= end) <=> (lo <= i /\ i <= hi)

LEMMA RangeWithin ==
    ASSUME NEW points \in Seq(Nat), NEW start, NEW end, NEW lo, NEW hi,
           Bounds(points, start, end, lo, hi)
    PROVE  InRange(points, start, end) = SubSeq(points, lo, hi)
<1> DEFINE inside == {i \in DOMAIN points : start <= points[i] /\ points[i] <= end}
<1>1. PICK n \in Nat : n = Len(points) /\ DOMAIN points = 1 .. n
  BY LenProperties
<1>2. lo \in 1 .. n + 1 /\ hi \in lo - 1 .. n
  BY <1>1 DEF Bounds
<1>3. inside = lo .. hi
  BY <1>1, <1>2 DEF Bounds
<1> HIDE DEF inside
<1>4. InRange(points, start, end) =
        IF inside = {} THEN << >> ELSE SubSeq(points, Min(inside), Max(inside))
  BY DEF InRange, inside
<1>5. CASE hi < lo
  BY <1>2, <1>3, <1>4, <1>5, SubSeqEmpty
<1>6. CASE lo <= hi
  <2>1. Min(lo .. hi) = lo /\ Max(lo .. hi) = hi
    BY <1>2, <1>6 DEF Min, Max
  <2>2. lo \in lo .. hi
    BY <1>2, <1>6
  <2> QED
    BY <1>3, <1>4, <2>1, <2>2
<1> QED
  BY <1>2, <1>5, <1>6

LEMMA RangeHasBounds ==
    ASSUME NEW points \in Seq(Nat), Increasing(points), NEW start \in Int, NEW end \in Int
    PROVE  \E lo, hi : Bounds(points, start, end, lo, hi)
<1>1. PICK n \in Nat : n = Len(points) /\ DOMAIN points = 1 .. n
  BY LenProperties
<1>2. \A i \in 1 .. n : points[i] \in Nat
  BY <1>1
<1>3. \A i, j \in 1 .. n : i < j => points[i] < points[j]
  BY <1>1 DEF Increasing
<1>4. PICK lo \in 1 .. n + 1 : \A i \in 1 .. n : start <= points[i] <=> lo <= i
  <2> DEFINE T == {i \in 1 .. n + 1 : i = n + 1 \/ start <= points[i]}
  <2>1. T \subseteq Nat /\ n + 1 \in T
    OBVIOUS
  <2>2. PICK lo \in T : \A i \in T : lo <= i
    BY <2>1, LeastNumber
  <2>3. \A i \in 1 .. n : start <= points[i] => lo <= i
    BY <2>2
  <2>4. \A i \in 1 .. n : lo <= i => start <= points[i]
    <3> SUFFICES ASSUME NEW i \in 1 .. n, lo <= i PROVE start <= points[i]
      OBVIOUS
    <3>1. lo \in 1 .. n /\ start <= points[lo]
      BY <2>2
    <3>2. lo = i \/ points[lo] < points[i]
      BY <1>3, <3>1
    <3> QED
      BY <1>2, <3>1, <3>2
  <2> QED
    BY <2>2, <2>3, <2>4
<1>5. PICK up \in 1 .. n + 1 : \A i \in 1 .. n : end < points[i] <=> up <= i
  <2> DEFINE T == {i \in 1 .. n + 1 : i = n + 1 \/ end < points[i]}
  <2>1. T \subseteq Nat /\ n + 1 \in T
    OBVIOUS
  <2>2. PICK up \in T : \A i \in T : up <= i
    BY <2>1, LeastNumber
  <2>3. \A i \in 1 .. n : end < points[i] => up <= i
    BY <2>2
  <2>4. \A i \in 1 .. n : up <= i => end < points[i]
    <3> SUFFICES ASSUME NEW i \in 1 .. n, up <= i PROVE end < points[i]
      OBVIOUS
    <3>1. up \in 1 .. n /\ end < points[up]
      BY <2>2
    <3>2. up = i \/ points[up] < points[i]
      BY <1>3, <3>1
    <3> QED
      BY <1>2, <3>1, <3>2
  <2> QED
    BY <2>2, <2>3, <2>4
<1>6. \A i \in 1 .. n : points[i] <= end <=> i < up
  BY <1>2, <1>5
<1>7. PICK hi : hi = IF up < lo THEN lo - 1 ELSE up - 1
  OBVIOUS
<1>8. hi \in lo - 1 .. n
  BY <1>4, <1>5, <1>7
<1>9. \A i \in 1 .. n : (lo <= i /\ i < up) <=> (lo <= i /\ i <= hi)
  BY <1>4, <1>5, <1>7
<1>10. Bounds(points, start, end, lo, hi)
  BY <1>1, <1>4, <1>6, <1>8, <1>9 DEF Bounds
<1> QED
  BY <1>10

LEMMA SliceTyped ==
    ASSUME NEW points \in Seq(Nat), NEW lo \in 1 .. Len(points) + 1,
           NEW hi \in lo - 1 .. Len(points)
    PROVE  /\ SubSeq(points, lo, hi) \in Seq(Nat)
           /\ Len(SubSeq(points, lo, hi)) = hi - lo + 1
           /\ \A i \in 1 .. hi - lo + 1 : SubSeq(points, lo, hi)[i] = points[lo + i - 1]
<1>1. PICK n \in Nat : n = Len(points) /\ DOMAIN points = 1 .. n
  BY LenProperties
<1>2. lo \in Int /\ hi \in Int /\ \A i \in lo .. hi : points[i] \in Nat
  BY <1>1
<1>3. /\ SubSeq(points, lo, hi) \in Seq(Nat)
      /\ Len(SubSeq(points, lo, hi)) = IF lo <= hi THEN hi - lo + 1 ELSE 0
      /\ \A i \in 1 .. hi - lo + 1 : SubSeq(points, lo, hi)[i] = points[lo + i - 1]
  BY <1>2, SubSeqProperties
<1> QED
  BY <1>1, <1>3

LEMMA SliceOfSlice ==
    ASSUME NEW points \in Seq(Nat), NEW lo \in 1 .. Len(points) + 1,
           NEW hi \in lo - 1 .. Len(points), NEW m \in 0 .. hi - lo + 1
    PROVE  SubSeq(SubSeq(points, lo, hi), 1, m) = SubSeq(points, lo, lo + m - 1)
<1>1. PICK n \in Nat : n = Len(points)
  BY LenProperties
<1>2. PICK s \in Seq(Nat) : /\ s = SubSeq(points, lo, hi) /\ Len(s) = hi - lo + 1
                           /\ \A i \in 1 .. hi - lo + 1 : s[i] = points[lo + i - 1]
  BY SliceTyped
<1>3. m \in 1 - 1 .. Len(s) /\ 1 \in 1 .. Len(s) + 1
  BY <1>1, <1>2
<1>4. /\ SubSeq(s, 1, m) \in Seq(Nat) /\ Len(SubSeq(s, 1, m)) = m - 1 + 1
      /\ \A i \in 1 .. m - 1 + 1 : SubSeq(s, 1, m)[i] = s[1 + i - 1]
  BY <1>3, SliceTyped
<1>5. PICK k : k = lo + m - 1
  OBVIOUS
<1>6. k \in lo - 1 .. Len(points) /\ k - lo + 1 = m
  BY <1>1, <1>5
<1>7. /\ SubSeq(points, lo, k) \in Seq(Nat) /\ Len(SubSeq(points, lo, k)) = k - lo + 1
      /\ \A i \in 1 .. k - lo + 1 : SubSeq(points, lo, k)[i] = points[lo + i - 1]
  BY <1>6, SliceTyped
<1>8. \A i \in 1 .. m : SubSeq(s, 1, m)[i] = SubSeq(points, lo, k)[i]
  <2> SUFFICES ASSUME NEW i \in 1 .. m PROVE SubSeq(s, 1, m)[i] = SubSeq(points, lo, k)[i]
    OBVIOUS
  <2>1. SubSeq(s, 1, m)[i] = s[i] /\ i \in 1 .. hi - lo + 1
    BY <1>1, <1>4
  <2> QED
    BY <1>2, <1>6, <1>7, <2>1
<1>9. Len(SubSeq(s, 1, m)) = m /\ Len(SubSeq(points, lo, k)) = m
  BY <1>1, <1>4, <1>6, <1>7
<1> QED
  BY <1>2, <1>4, <1>5, <1>7, <1>8, <1>9, SeqEqual

LEMMA PrefixOfConcat ==
    ASSUME NEW s \in Seq(Nat), NEW u \in Seq(Nat), NEW t \in Seq(Nat), IsPrefix(s \o u, t)
    PROVE  IsPrefix(s, t)
<1>1. PICK n \in Nat, m \in Nat, l \in Nat : n = Len(s) /\ m = Len(u) /\ l = Len(t)
  BY LenProperties
<1>2. PICK su \in Seq(Nat) : /\ su = s \o u /\ Len(su) = n + m
                            /\ \A i \in 1 .. n + m : su[i] = IF i <= n THEN s[i] ELSE u[i - n]
  <2>1. /\ s \o u \in Seq(Nat) /\ Len(s \o u) = Len(s) + Len(u)
        /\ \A i \in 1 .. Len(s) + Len(u) :
            (s \o u)[i] = IF i <= Len(s) THEN s[i] ELSE u[i - Len(s)]
    BY ConcatProperties
  <2> QED
    BY <1>1, <2>1
<1>3. n + m <= l /\ SubSeq(t, 1, n + m) = su
  <2>1. SubSeq(su, 1, Len(su)) = su
    BY SubSeqFull
  <2> QED
    BY <1>1, <1>2, <2>1 DEF IsPrefix
<1>4. \A i \in 1 .. n + m : su[i] = t[i]
  <2>1. n + m \in 1 - 1 .. Len(t) /\ 1 \in 1 .. Len(t) + 1
    BY <1>1, <1>3
  <2>2. \A i \in 1 .. n + m - 1 + 1 : SubSeq(t, 1, n + m)[i] = t[1 + i - 1]
    BY <2>1, SliceTyped
  <2> QED
    BY <1>3, <2>2
<1>5. /\ SubSeq(t, 1, n) \in Seq(Nat) /\ Len(SubSeq(t, 1, n)) = n
      /\ \A i \in 1 .. n : SubSeq(t, 1, n)[i] = t[i]
  <2>1. n \in 1 - 1 .. Len(t) /\ 1 \in 1 .. Len(t) + 1
    BY <1>1, <1>3
  <2>2. /\ SubSeq(t, 1, n) \in Seq(Nat) /\ Len(SubSeq(t, 1, n)) = n - 1 + 1
        /\ \A i \in 1 .. n - 1 + 1 : SubSeq(t, 1, n)[i] = t[1 + i - 1]
    BY <2>1, SliceTyped
  <2> QED
    BY <2>2
<1>6. \A i \in 1 .. n : s[i] = t[i]
  <2> SUFFICES ASSUME NEW i \in 1 .. n PROVE s[i] = t[i]
    OBVIOUS
  <2>1. i \in 1 .. n + m /\ i <= n
    OBVIOUS
  <2> QED
    BY <1>2, <1>4, <2>1
<1>7. SubSeq(t, 1, n) = s
  BY <1>1, <1>5, <1>6, SeqEqual
<1> QED
  BY <1>1, <1>3, <1>7, SubSeqFull DEF IsPrefix

(* What a call added to the points delivered.                              *)
LEMMA AddedIsSuffix ==
    ASSUME NEW s \in Seq(Nat), NEW u \in Seq(Nat)
    PROVE  SubSeq(s \o u, Len(s) + 1, Len(s \o u)) = u
<1>1. PICK n \in Nat, m \in Nat : n = Len(s) /\ m = Len(u)
  BY LenProperties
<1>2. Len(s \o u) = n + m
  BY <1>1, ConcatProperties
<1>3. CASE m = 0
  <2>1. u = << >>
    BY <1>1, <1>3, EmptySeq
  <2>2. n + 1 \in Int /\ n + m \in Int /\ n + m < n + 1
    BY <1>3
  <2>3. SubSeq(s \o u, n + 1, n + m) = << >>
    BY <2>2, SubSeqEmpty
  <2> QED
    BY <1>1, <1>2, <2>1, <2>3
<1>4. CASE m # 0
  <2>1. /\ Len(s) + 1 \in Len(s) + 1 .. Len(s) + Len(u)
        /\ Len(s) + Len(u) \in Len(s) + 1 .. Len(s) + Len(u)
        /\ Len(s) + 1 - Len(s) = 1 /\ Len(s) + Len(u) - Len(s) = Len(u)
    BY <1>1, <1>4
  <2>2. SubSeq(s \o u, Len(s) + 1, Len(s) + Len(u)) =
            SubSeq(u, Len(s) + 1 - Len(s), Len(s) + Len(u) - Len(s))
    BY <2>1, SubSeqOfConcat2
  <2> QED
    BY <1>1, <1>2, <2>1, <2>2, SubSeqFull
<1> QED
  BY <1>3, <1>4

(* A yield moves the first buffered point to those the application saw.    *)
LEMMA HeadMoves ==
    ASSUME NEW s \in Seq(Nat), NEW p \in Seq(Nat), p # << >>
    PROVE  /\ Append(s, Head(p)) \in Seq(Nat) /\ Tail(p) \in Seq(Nat)
           /\ Append(s, Head(p)) \o Tail(p) = s \o p
<1>1. Head(p) \in Nat /\ Tail(p) \in Seq(Nat)
  BY HeadTailProperties
<1>2. Len(p) \in Nat /\ Len(p) # 0 /\ Head(p) = p[1]
  BY LenProperties, EmptySeq
<1>3. p = <<Head(p)>> \o Tail(p)
  <2>1. 1 \in 1 .. Len(p) /\ Len(p) \in 1 .. Len(p)
    BY <1>2
  <2>2. SubSeq(p, 1, Len(p)) = <<p[1]>> \o SubSeq(p, 1 + 1, Len(p))
    BY <2>1, SubSeqRecursiveFirst
  <2>3. Tail(p) = SubSeq(p, 2, Len(p))
    BY TailIsSubSeq
  <2> QED
    BY <1>2, <2>2, <2>3, SubSeqFull
<1>4. PICK h \in Seq(Nat) : h = <<Head(p)>>
  <2>1. PICK e \in Nat : e = Head(p)
    BY <1>1
  <2>2. <<e>> \in Seq(Nat)
    OBVIOUS
  <2> QED
    BY <2>1, <2>2
<1>5. Append(s, Head(p)) = s \o h /\ Append(s, Head(p)) \in Seq(Nat)
  BY <1>1, <1>4, AppendIsConcat, AppendProperties
<1>6. (s \o h) \o Tail(p) = s \o (h \o Tail(p))
  BY SMTT(40), <1>1, ConcatAssociative
<1> QED
  BY <1>1, <1>3, <1>4, <1>5, <1>6

-----------------------------------------------------------------------------
(* Cursors.                                                                *)

CursorFields == {"owner", "owner_token", "generation", "next", "end", "complete", "start",
                 "file", "delivered"}

(* Of the points from lo to hi that were asked for, the cursor has         *)
(* delivered those up to k.                                                *)
Delivers(cursor, points, lo, k, hi) ==
    /\ Bounds(points, cursor.start, cursor.end, lo, hi)
    /\ k \in lo - 1 .. hi
    /\ cursor.delivered = SubSeq(points, lo, k)
    /\ cursor.next = IF k < lo THEN cursor.start ELSE points[k] + 1
    /\ cursor.complete => k = hi

OnTrack(cursor, points) ==
    /\ DOMAIN cursor = CursorFields /\ cursor.complete \in BOOLEAN
    /\ cursor.start \in Int /\ cursor.end \in Int
    /\ \E lo, k, hi : Delivers(cursor, points, lo, k, hi)

LEMMA NewOnTrack ==
    ASSUME NEW a, NEW range \in [start : Int, end : Int],
           NEW points \in Seq(Nat), Increasing(points)
    PROVE  /\ OnTrack(CursorState(a, range), points)
           /\ CursorState(a, range).delivered = << >>
           /\ CursorState(a, range).start = range.start
           /\ CursorState(a, range).end = range.end
<1>1. PICK c : c = CursorState(a, range)
  OBVIOUS
<1>2. /\ DOMAIN c = CursorFields /\ c.complete = (range.end < range.start)
      /\ c.start = range.start /\ c.end = range.end /\ c.next = range.start
      /\ c.delivered = << >>
  BY <1>1 DEF CursorState, CursorFields
<1>3. PICK lo, hi : Bounds(points, range.start, range.end, lo, hi)
  BY RangeHasBounds
<1>4. PICK n \in Nat : n = Len(points) /\ DOMAIN points = 1 .. n
  BY LenProperties
<1>5. lo \in 1 .. n + 1 /\ hi \in lo - 1 .. n
  BY <1>3, <1>4 DEF Bounds
<1>6. range.end < range.start => hi = lo - 1
  <2> SUFFICES ASSUME range.end < range.start, hi # lo - 1 PROVE FALSE
    OBVIOUS
  <2>1. lo \in 1 .. n /\ lo <= hi
    BY <1>5
  <2>2. range.start <= points[lo] /\ points[lo] <= range.end
    BY SMTT(40), <1>3, <1>4, <2>1 DEF Bounds
  <2>3. points[lo] \in Nat
    BY <1>4, <2>1
  <2> QED
    BY <2>2, <2>3
<1>7. PICK k : k = lo - 1
  OBVIOUS
<1>8. SubSeq(points, lo, k) = << >> /\ k < lo /\ k \in lo - 1 .. hi
  BY <1>5, <1>7, SubSeqEmpty
<1>9. Delivers(c, points, lo, k, hi)
  BY <1>2, <1>3, <1>6, <1>7, <1>8 DEF Delivers
<1> QED
  BY <1>1, <1>2, <1>9 DEF OnTrack

(* What a cursor on its track has delivered is the beginning of its range. *)
LEMMA TrackMeans ==
    ASSUME NEW points \in Seq(Nat), NEW cursor, OnTrack(cursor, points)
    PROVE  LET asked == InRange(points, cursor.start, cursor.end) IN
           /\ cursor.delivered \in Seq(Nat) /\ asked \in Seq(Nat)
           /\ IsPrefix(cursor.delivered, asked)
           /\ cursor.complete => cursor.delivered = asked
<1>1. PICK lo, k, hi : Delivers(cursor, points, lo, k, hi)
  BY DEF OnTrack
<1>2. PICK n \in Nat : n = Len(points)
  BY LenProperties
<1>3. lo \in 1 .. n + 1 /\ hi \in lo - 1 .. n /\ k \in lo - 1 .. n /\ k <= hi
  BY <1>1, <1>2 DEF Delivers, Bounds
<1>4. PICK asked : asked = InRange(points, cursor.start, cursor.end)
  OBVIOUS
<1>5. asked = SubSeq(points, lo, hi)
  BY <1>1, <1>4, RangeWithin DEF Delivers
<1>6. PICK d : d = cursor.delivered
  OBVIOUS
<1>7. d = SubSeq(points, lo, k)
  BY <1>1, <1>6 DEF Delivers
<1>8. asked \in Seq(Nat) /\ Len(asked) = hi - lo + 1
  BY <1>2, <1>3, <1>5, SliceTyped
<1>9. d \in Seq(Nat) /\ Len(d) = k - lo + 1
  BY <1>2, <1>3, <1>7, SliceTyped
<1>10. SubSeq(d, 1, Len(d)) = d
  BY <1>9, SubSeqFull
<1>11. PICK m \in 0 .. hi - lo + 1 : m = k - lo + 1
  BY <1>3
<1>12. lo + m - 1 = k
  BY <1>3, <1>11
<1>13. SubSeq(asked, 1, m) = SubSeq(points, lo, lo + m - 1)
  BY <1>2, <1>3, <1>5, SliceOfSlice
<1>14. SubSeq(asked, 1, Len(d)) = d
  BY <1>7, <1>9, <1>11, <1>12, <1>13
<1>15. IsPrefix(d, asked)
  BY <1>3, <1>8, <1>9, <1>10, <1>14 DEF IsPrefix
<1>16. cursor.complete => d = asked
  BY <1>1, <1>5, <1>7 DEF Delivers
<1> QED
  BY <1>4, <1>6, <1>8, <1>9, <1>15, <1>16

(* A call adds points to those delivered, and none only if there is no     *)
(* more of the range.                                                      *)
AddsPoints(cursor, after, points) ==
    \E copied \in Seq(Nat) :
        /\ after.delivered = cursor.delivered \o copied
        /\ copied = << >> => cursor.delivered = InRange(points, cursor.start, cursor.end)

(* A call delivers the next points of the range, as many as fit.           *)
LEMMA CursorMoves ==
    ASSUME NEW a, NEW points \in Seq(Nat), Increasing(points), Snapshot(a) = points,
           NEW cursor, OnTrack(cursor, points), NEW capacity \in Nat \ {0},
           NEW after \in CursorAfter(a, cursor, capacity)
    PROVE  /\ OnTrack(after, points)
           /\ after.start = cursor.start /\ after.end = cursor.end
           /\ after.owner = cursor.owner
           /\ after.file = cursor.file /\ after.generation = cursor.generation
           /\ AddsPoints(cursor, after, points)
<1>1. PICK lo, k, hi : Delivers(cursor, points, lo, k, hi)
  BY DEF OnTrack
<1>2. PICK n \in Nat : n = Len(points) /\ DOMAIN points = 1 .. n
  BY LenProperties
<1>3. lo \in 1 .. n + 1 /\ hi \in lo - 1 .. n /\ k \in lo - 1 .. n /\ k <= hi
  BY <1>1, <1>2 DEF Delivers, Bounds
<1>4. PICK found : found = Remaining(a, cursor)
  OBVIOUS
<1>5. PICK l \in 1 .. Len(points) + 1 : l = k + 1
  BY <1>2, <1>3
<1>6. /\ l - 1 = k /\ hi \in l - 1 .. Len(points) /\ hi - l + 1 = hi - k
       /\ l \in 1 .. n + 1 /\ hi \in l - 1 .. n
  BY <1>2, <1>3, <1>5
<1>7. found = SubSeq(points, l, hi)
  <2>1. CASE cursor.complete
    <3>1. k = hi /\ found = << >>
      BY <1>1, <1>4, <2>1 DEF Delivers, Remaining
    <3> QED
      BY <1>3, <1>5, <3>1, SubSeqEmpty
  <2>2. CASE ~cursor.complete
    <3>1. found = InRange(points, cursor.next, cursor.end)
      BY <1>4, <2>2 DEF Remaining
    <3>2. ASSUME NEW i \in 1 .. n
          PROVE  (cursor.next <= points[i] /\ points[i] <= cursor.end) <=> (l <= i /\ i <= hi)
      <4>1. (cursor.start <= points[i] /\ points[i] <= cursor.end) <=> (lo <= i /\ i <= hi)
        BY <1>1, <1>2 DEF Delivers, Bounds
      <4>2. CASE k < lo
        <5>1. cursor.next = cursor.start /\ l = lo
          BY <1>1, <1>3, <1>5, <4>2 DEF Delivers
        <5> QED
          BY <4>1, <5>1
      <4>3. CASE lo <= k
        <5>1. k \in 1 .. n /\ lo <= k /\ k <= hi
          BY <1>3, <4>3
        <5>2. points[k] \in Nat /\ points[i] \in Nat
          BY <1>2, <5>1
        <5>3. cursor.start <= points[k]
          BY <1>1, <1>2, <5>1 DEF Delivers, Bounds
        <5>4. cursor.next = points[k] + 1
          BY <1>1, <1>3, <4>3 DEF Delivers
        <5>5. (k < i => points[k] < points[i]) /\ (i < k => points[i] < points[k])
          BY <1>2, <5>1 DEF Increasing
        <5>6. cursor.next <= points[i] <=> k < i
          BY <1>3, <5>2, <5>4, <5>5
        <5>7. cursor.start \in Int
          BY DEF OnTrack
        <5>8. k < i => cursor.start <= points[i]
          BY SMTT(40), <5>2, <5>5, <5>7, <5>3
        <5> QED
          BY <1>3, <1>5, <4>1, <4>3, <5>6, <5>8
      <4> QED
        BY <1>3, <4>2, <4>3
    <3>3. Bounds(points, cursor.next, cursor.end, l, hi)
      BY <1>2, <1>6, <3>2 DEF Bounds
    <3> QED
      BY <3>1, <3>3, RangeWithin
  <2> QED
    BY <2>1, <2>2
<1>8. found \in Seq(Nat) /\ Len(found) = hi - k
  BY <1>6, <1>7, SliceTyped
<1>9. PICK m \in 0 .. hi - k : /\ m = Min({capacity, Len(found)})
                               /\ m = IF capacity < hi - k THEN capacity ELSE hi - k
  <2>1. hi - k \in Nat
    BY <1>3
  <2>2. Min({capacity, hi - k}) = IF capacity < hi - k THEN capacity ELSE hi - k
    BY <2>1 DEF Min
  <2> QED
    BY <1>8, <2>1, <2>2
<1>10. PICK j : j = k + m
  OBVIOUS
<1>11. j \in lo - 1 .. hi /\ j \in k .. n /\ j - l + 1 = m /\ j = l + m - 1
  BY <1>3, <1>5, <1>9, <1>10
<1>12. PICK copied : copied = SubSeq(found, 1, Min({capacity, Len(found)}))
  OBVIOUS
<1>13. copied = SubSeq(points, l, j)
  <2>1. m \in 0 .. hi - l + 1
    BY <1>6
  <2>2. SubSeq(SubSeq(points, l, hi), 1, m) = SubSeq(points, l, l + m - 1)
    BY <1>6, <2>1, SliceOfSlice
  <2>3. copied = SubSeq(found, 1, m)
    BY <1>9, <1>12
  <2> QED
    BY <1>7, <1>11, <2>2, <2>3
<1>14. /\ copied \in Seq(Nat) /\ Len(copied) = m
       /\ \A i \in 1 .. m : copied[i] = points[l + i - 1]
  <2>1. j \in l - 1 .. Len(points)
    BY <1>2, <1>6, <1>11
  <2> QED
    BY SMTT(40), <1>11, <1>13, <2>1, SliceTyped
<1>15. (copied = << >>) <=> (m = 0)
  BY <1>9, <1>14, EmptySeq
<1>16. m # 0 => Last(copied) = points[j]
  <2>1. m # 0 => m \in 1 .. m
    BY <1>3, <1>9
  <2> QED
    BY <1>10, <1>11, <1>14, <2>1 DEF Last
<1>17. PICK complete \in BOOLEAN :
        /\ complete => j = hi
        /\ after = [cursor EXCEPT !.delivered = @ \o copied,
                                  !.next = IF copied = << >> THEN @ ELSE Last(copied) + 1,
                                  !.complete = complete]
  <2>1. PICK complete \in IF cursor.complete \/ Len(found) < capacity THEN {TRUE}
                          ELSE IF Len(found) = capacity THEN BOOLEAN
                          ELSE {FALSE} :
            after = [cursor EXCEPT !.delivered = @ \o copied,
                                   !.next = IF copied = << >> THEN @ ELSE Last(copied) + 1,
                                   !.complete = complete]
    BY <1>4, <1>12 DEF CursorAfter
  <2>2. complete \in BOOLEAN
    BY <2>1
  <2>3. cursor.complete => k = hi
    BY <1>1 DEF Delivers
  <2>4. complete => cursor.complete \/ Len(found) < capacity \/ Len(found) = capacity
    BY <2>1
  <2>5. hi - k \in Int /\ Len(found) = hi - k
    BY <1>3, <1>8
  <2>6. complete => j = hi
    BY <1>3, <1>9, <1>10, <2>3, <2>4, <2>5
  <2> QED
    BY <2>1, <2>2, <2>6
<1>18. /\ DOMAIN after = CursorFields /\ after.complete = complete
       /\ after.start = cursor.start /\ after.end = cursor.end
       /\ after.owner = cursor.owner
       /\ after.file = cursor.file /\ after.generation = cursor.generation
       /\ after.delivered = cursor.delivered \o copied
       /\ after.next = IF copied = << >> THEN cursor.next ELSE Last(copied) + 1
  <2>1. DOMAIN cursor = CursorFields
    BY DEF OnTrack
  <2> QED
    BY <1>17, <2>1 DEF CursorFields
<1>19. after.delivered = SubSeq(points, lo, j)
  <2>1. lo \in 1 .. Len(points) + 1 /\ k \in lo - 1 .. Len(points) /\ j \in k .. Len(points)
    BY <1>2, <1>3, <1>11
  <2>2. SubSeq(points, lo, k) \o SubSeq(points, l, j) = SubSeq(points, lo, j)
    BY <1>5, <2>1, ConcatAdjacentSubSeq
  <2> QED
    BY <1>1, <1>13, <1>18, <2>2 DEF Delivers
<1>20. after.next = IF j < lo THEN cursor.start ELSE points[j] + 1
  <2>1. CASE m = 0
    BY SMTT(40), <1>1, <1>3, <1>10, <1>15, <1>18, <2>1 DEF Delivers
  <2>2. CASE m # 0
    <3>1. ~(j < lo)
      BY <1>3, <1>9, <1>10, <2>2
    <3> QED
      BY <1>15, <1>16, <1>18, <2>2, <3>1
  <2> QED
    BY <2>1, <2>2
<1>21. Delivers(after, points, lo, j, hi)
  BY <1>1, <1>11, <1>17, <1>18, <1>19, <1>20 DEF Delivers
<1>22. OnTrack(after, points)
  BY <1>17, <1>18, <1>21 DEF OnTrack
<1>23. copied = << >> => cursor.delivered = InRange(points, cursor.start, cursor.end)
  <2> SUFFICES ASSUME copied = << >>
               PROVE  cursor.delivered = InRange(points, cursor.start, cursor.end)
    OBVIOUS
  <2>1. k = hi
    BY <1>3, <1>9, <1>15
  <2> QED
    BY <1>1, <2>1, RangeWithin DEF Delivers
<1> QED
  BY <1>14, <1>18, <1>22, <1>23 DEF AddsPoints

-----------------------------------------------------------------------------
(* The readers.                                                            *)

LEMMA Handles ==
    /\ NullHandle \notin Addresses
    /\ \A x \in HandleRecord : x # Freed
BY NativeReadersAssumption DEF NullHandle, HandleRecord, Freed

(* Opening a reader takes an address that no open reader has.              *)
LEMMA OpenKeeps ==
    ASSUME ReadersTyped, HandlesAreOwned,
           NEW r \in ReaderObjects, NEW f \in Files, NEW a \in Addresses, OpenReader(r, f, a)
    PROVE  /\ ReadersTyped' /\ HandlesAreOwned'
           /\ \A q, epoch, snapshot :
                TakenIn(q, epoch, snapshot) => TakenIn(q, epoch, snapshot)'
<1>1. PICK y \in HandleRecord : heap' = [heap EXCEPT ![a] = y]
  <2>1. PICK y : y = [token |-> next_token, file |-> f, generation |-> Len(history[f])]
    OBVIOUS
  <2>2. PICK n \in Nat : n = Len(history[f])
    BY DEF ReadersTyped
  <2>3. y \in HandleRecord
    BY <2>1, <2>2 DEF ReadersTyped, HandleRecord
  <2> QED
    BY <2>1, <2>3 DEF OpenReader, CtOpenReader
<1>2. PICK x \in ReaderRecord :
        /\ readers' = [readers EXCEPT ![r] = x]
        /\ x.handle = a /\ x.opened /\ x.epoch = 0
  <2>1. PICK x : x = [handle |-> a, opened |-> TRUE, epoch |-> 0]
    OBVIOUS
  <2>2. x \in ReaderRecord /\ x.handle = a /\ x.opened /\ x.epoch = 0
    BY <2>1 DEF ReaderRecord
  <2> QED
    BY <2>1, <2>2 DEF OpenReader
<1>3. /\ ~readers[r].opened /\ ~Live(a)
      /\ next_token' = next_token + 1 /\ history' = history
  BY DEF OpenReader, CtOpenReader
<1>4. ReadersTyped'
  BY <1>1, <1>2, <1>3 DEF ReadersTyped
<1>5. /\ readers'[r] = x /\ heap'[a] = y /\ y # Freed
      /\ \A q \in ReaderObjects : q # r => readers'[q] = readers[q]
      /\ \A b \in Addresses : b # a => heap'[b] = heap[b]
      /\ \A q \in ReaderObjects : IsOpen(q) => /\ Handle(q) # a /\ q # r
                                               /\ heap'[Handle(q)] = heap[Handle(q)]
  BY <1>1, <1>2, <1>3, Handles DEF ReadersTyped, HandlesAreOwned, Live, IsOpen, Handle, ReaderRecord
<1>6. HandlesAreOwned'
  BY <1>2, <1>3, <1>5, Handles DEF HandlesAreOwned, IsOpen, Handle, Live
<1>7. ASSUME NEW q, NEW epoch, NEW snapshot, TakenIn(q, epoch, snapshot)
      PROVE  TakenIn(q, epoch, snapshot)'
  BY <1>3, <1>5, <1>7 DEF TakenIn, CheckIteration, IsOpen, Handle
<1> QED
  BY <1>4, <1>6, <1>7

(* A refresh that changes the snapshot goes on to an epoch in which        *)
(* nothing was made yet, and leaves the handles of other readers alone.    *)
LEMMA RefreshKeeps ==
    ASSUME ReadersTyped, HandlesAreOwned, NEW r \in ReaderObjects, Refresh(r)
    PROVE  /\ ReadersTyped' /\ HandlesAreOwned'
           /\ \A q, epoch, snapshot :
                TakenIn(q, epoch, snapshot) => TakenIn(q, epoch, snapshot)'
<1>1. PICK a \in Addresses : a = Handle(r) /\ readers[r].handle = a /\ Live(a)
  BY DEF Refresh, IsOpen, Handle, HandlesAreOwned, ReadersTyped, ReaderRecord
<1>2. PICK x \in HandleRecord : x = heap[a]
  BY <1>1 DEF ReadersTyped, Live
<1>3. PICK n \in Nat : n = Len(history[x.file])
  BY <1>2 DEF ReadersTyped, HandleRecord
<1>4. PICK y \in HandleRecord : y = [x EXCEPT !.generation = n]
  BY DEF HandleRecord
<1>5. heap' = [heap EXCEPT ![a] = y] /\ history' = history /\ next_token' = next_token
  BY <1>1, <1>2, <1>3, <1>4 DEF Refresh, CtRefresh, ReadersTyped
<1>6. PICK z \in ReaderRecord :
        /\ z.handle = a /\ z.opened = readers[r].opened /\ z.epoch = readers[r].epoch + 1
        /\ readers' = [readers EXCEPT ![r] = z]
  <2>1. PICK w \in ReaderRecord : w = readers[r]
    BY DEF ReadersTyped
  <2>2. PICK z : z = [w EXCEPT !.epoch = w.epoch + 1]
    OBVIOUS
  <2>3. z \in ReaderRecord /\ z.handle = w.handle /\ z.opened = w.opened /\ z.epoch = w.epoch + 1
    BY <2>2 DEF ReaderRecord
  <2>4. readers' = [readers EXCEPT ![r] = z]
    BY <2>1, <2>2 DEF Refresh, ChangedEpoch, ReadersTyped
  <2> QED
    BY <1>1, <2>1, <2>3, <2>4
<1>7. ReadersTyped'
  BY <1>5, <1>6 DEF ReadersTyped
<1>8. /\ readers'[r] = z /\ heap'[a] = y /\ y # Freed
      /\ \A q \in ReaderObjects : q # r => readers'[q] = readers[q]
      /\ \A q \in ReaderObjects : q # r /\ IsOpen(q) =>
            Handle(q) # a /\ heap'[Handle(q)] = heap[Handle(q)]
  BY <1>1, <1>5, <1>6, Handles DEF ReadersTyped, HandlesAreOwned, IsOpen, Handle, ReaderRecord
<1>9. HandlesAreOwned'
  BY <1>1, <1>6, <1>8, Handles DEF HandlesAreOwned, IsOpen, Handle, Live
<1>10. ASSUME NEW q, NEW epoch, NEW snapshot, TakenIn(q, epoch, snapshot)
       PROVE  TakenIn(q, epoch, snapshot)'
  BY <1>6, <1>8, <1>10 DEF TakenIn, CheckIteration, IsOpen, Handle, ReadersTyped, ReaderRecord
<1> QED
  BY <1>7, <1>9, <1>10

(* A reader that is closed has been opened, and so stays closed.           *)
LEMMA CloseKeeps ==
    ASSUME ReadersTyped, HandlesAreOwned, NEW r \in ReaderObjects, CloseReader(r)
    PROVE  /\ ReadersTyped' /\ HandlesAreOwned'
           /\ \A q, epoch, snapshot :
                TakenIn(q, epoch, snapshot) => TakenIn(q, epoch, snapshot)'
<1>1. PICK a \in Addresses : a = Handle(r) /\ readers[r].handle = a
  BY DEF CloseReader, IsOpen, Handle, ReadersTyped, ReaderRecord
<1>2. PICK z \in ReaderRecord :
        /\ z.handle = NullHandle /\ z.opened = readers[r].opened /\ z.epoch = readers[r].epoch
        /\ readers' = [readers EXCEPT ![r] = z]
  <2>1. PICK w \in ReaderRecord : w = readers[r]
    BY DEF ReadersTyped
  <2>2. PICK z : z = [w EXCEPT !.handle = NullHandle]
    OBVIOUS
  <2>3. z \in ReaderRecord /\ z.handle = NullHandle /\ z.opened = w.opened /\ z.epoch = w.epoch
    BY <2>2 DEF ReaderRecord
  <2>4. readers' = [readers EXCEPT ![r] = z]
    BY <2>1, <2>2 DEF CloseReader, ReadersTyped
  <2> QED
    BY <2>1, <2>3, <2>4
<1>3. heap' = [heap EXCEPT ![a] = Freed] /\ history' = history /\ next_token' = next_token
  BY <1>1 DEF CloseReader, CtClose
<1>4. ReadersTyped'
  BY <1>2, <1>3 DEF ReadersTyped
<1>5. /\ readers'[r] = z
      /\ \A q \in ReaderObjects : q # r => readers'[q] = readers[q]
      /\ \A q \in ReaderObjects : q # r /\ IsOpen(q) =>
            Handle(q) # a /\ heap'[Handle(q)] = heap[Handle(q)]
  BY <1>1, <1>2, <1>3, Handles DEF ReadersTyped, HandlesAreOwned, IsOpen, Handle, ReaderRecord
<1>6. HandlesAreOwned'
  BY <1>1, <1>2, <1>5, Handles DEF HandlesAreOwned, IsOpen, Handle, Live
<1>7. ASSUME NEW q, NEW epoch, NEW snapshot, TakenIn(q, epoch, snapshot)
      PROVE  TakenIn(q, epoch, snapshot)'
  BY <1>2, <1>5, <1>7 DEF TakenIn, CheckIteration, IsOpen, Handle
<1> QED
  BY <1>4, <1>6, <1>7

(* A step of the readers, or of the writer of a file.                      *)
LEMMA ReaderStepHolds ==
    ASSUME PythonReaderInv, UNCHANGED <<cursors, iterators, prepared>>,
           ReadersTyped', HandlesAreOwned',
           \A q, epoch, snapshot : TakenIn(q, epoch, snapshot) => TakenIn(q, epoch, snapshot)'
    PROVE  PythonReaderInv'
<1> USE DEF PythonReaderInv
<1>1. IteratorsTyped'
  BY DEF IteratorsTyped, CursorFollows
<1>2. PreparedAreTaken'
  <2> SUFFICES ASSUME NEW p \in PreparedObjects, prepared'[p] # NoPrepared
               PROVE  TakenIn(prepared[p].reader, prepared[p].epoch, prepared[p].snapshot)'
    BY DEF PreparedAreTaken
  <2>1. PICK r, epoch, snapshot : /\ r = prepared'[p].reader /\ epoch = prepared'[p].epoch
                                  /\ snapshot = prepared'[p].snapshot
    OBVIOUS
  <2>2. TakenIn(r, epoch, snapshot)
    BY <2>1 DEF PreparedAreTaken
  <2>3. TakenIn(r, epoch, snapshot)'
    BY <2>2
  <2> QED
    BY <2>1, <2>3 DEF TakenIn, CheckIteration, IsOpen, Handle
<1>3. IteratorsAreTaken'
  <2> SUFFICES ASSUME NEW i \in Iterators, iterators'[i] # NoIterator
               PROVE  TakenIn(iterators[i].reader, iterators[i].epoch, iterators[i].snapshot)'
    BY DEF IteratorsAreTaken
  <2>1. PICK r, epoch, snapshot : /\ r = iterators'[i].reader /\ epoch = iterators'[i].epoch
                                  /\ snapshot = iterators'[i].snapshot
    OBVIOUS
  <2>2. TakenIn(r, epoch, snapshot)
    BY <2>1 DEF IteratorsAreTaken
  <2>3. TakenIn(r, epoch, snapshot)'
    BY <2>2
  <2> QED
    BY <2>1, <2>3 DEF TakenIn, CheckIteration, IsOpen, Handle
<1> QED
  BY <1>1, <1>2, <1>3

(* A file only gets longer.                                                *)
Histories == [Files -> Seq(Seq(Nat)) \ {<< >>}]

GenerationsOrdered ==
    \A f \in Files : \A g \in DOMAIN history[f] : Increasing(history[f][g])

LEMMA ContinuedIncreasing ==
    ASSUME NEW points \in Seq(Nat), NEW n \in Nat,
           n = IF points = << >> THEN 0 ELSE Last(points)
    PROVE  /\ points \o <<n + 1, n + 2>> \in Seq(Nat)
           /\ Increasing(points) => Increasing(points \o <<n + 1, n + 2>>)
<1>1. PICK m \in Nat : m = Len(points) /\ DOMAIN points = 1 .. m
  BY LenProperties
<1>2. PICK tail : tail = <<n + 1, n + 2>>
  OBVIOUS
<1>3. tail \in Seq(Nat) /\ Len(tail) = 2 /\ tail[1] = n + 1 /\ tail[2] = n + 2
  BY <1>2
<1>4. PICK more : more = points \o tail
  OBVIOUS
<1>5. /\ more \in Seq(Nat) /\ Len(more) = m + 2
      /\ \A i \in 1 .. m + 2 : more[i] = IF i <= m THEN points[i] ELSE tail[i - m]
  <2>1. /\ points \o tail \in Seq(Nat) /\ Len(points \o tail) = Len(points) + Len(tail)
        /\ \A i \in 1 .. Len(points) + Len(tail) :
            (points \o tail)[i] = IF i <= Len(points) THEN points[i] ELSE tail[i - Len(points)]
    BY <1>3, ConcatProperties
  <2> QED
    BY <1>1, <1>3, <1>4, <2>1
<1>6. DOMAIN more = 1 .. m + 2
  BY <1>5, LenProperties
<1>7. ASSUME Increasing(points) PROVE Increasing(more)
  <2>1. \A i \in 1 .. m : more[i] = points[i] /\ points[i] \in Nat
    BY <1>1, <1>5
  <2>2. more[m + 1] = n + 1 /\ more[m + 2] = n + 2
    BY SMTT(40), <1>3, <1>5
  <2>3. \A i \in 1 .. m : points[i] <= n
    <3> SUFFICES ASSUME NEW i \in 1 .. m PROVE points[i] <= n
      OBVIOUS
    <3>1. n = points[m]
      BY <1>1 DEF Last
    <3>2. i = m \/ points[i] < points[m]
      BY <1>1, <1>7 DEF Increasing
    <3> QED
      BY <2>1, <3>1, <3>2
  <2>4. \A i, j \in 1 .. m : i < j => points[i] < points[j]
    BY <1>1, <1>7 DEF Increasing
  <2>5. ASSUME NEW i \in 1 .. m + 2, NEW j \in 1 .. m + 2, i < j PROVE more[i] < more[j]
    <3>1. CASE j <= m
      <4>1. i \in 1 .. m /\ j \in 1 .. m
        BY <2>5, <3>1
      <4> QED
        BY <2>1, <2>4, <2>5, <4>1
    <3>2. CASE i <= m /\ j > m
      <4>1. j = m + 1 \/ j = m + 2
        BY <3>2
      <4>2. i \in 1 .. m
        BY <2>5, <3>2
      <4>3. more[i] = points[i] /\ points[i] \in Nat /\ points[i] <= n
        BY <2>1, <2>3, <4>2
      <4>4. more[j] = n + 1 \/ more[j] = n + 2
        BY <2>2, <4>1
      <4> QED
        BY <4>3, <4>4
    <3>3. CASE i > m
      <4>1. i = m + 1 /\ j = m + 2
        BY <2>5, <3>3
      <4> QED
        BY <2>2, <4>1
    <3> QED
      BY <3>1, <3>2, <3>3
  <2> QED
    BY <1>6, <2>5 DEF Increasing
<1> QED
  BY <1>2, <1>4, <1>5, <1>7

(* A publication adds a generation and leaves the others alone.            *)
LEMMA HistoryGrows ==
    ASSUME history \in Histories, Publish
    PROVE  /\ history' \in Histories
           /\ GenerationsOrdered => GenerationsOrdered'
           /\ \A f \in Files : \A g \in DOMAIN history[f] :
                g \in DOMAIN history'[f] /\ history'[f][g] = history[f][g]
<1>1. PICK gs \in Seq(Seq(Nat)) : gs = history[PublishedFile] /\ gs # << >>
  BY NativeReadersAssumption DEF Histories
<1>2. PICK l \in Nat : l = Len(gs) /\ l >= 1 /\ DOMAIN gs = 1 .. l
  BY <1>1
<1>3. PICK points \in Seq(Nat) : points = gs[l] /\ points = Last(gs)
  BY <1>1, <1>2 DEF Last
<1>4. PICK n \in Nat : n = IF points = << >> THEN 0 ELSE Last(points)
  <2>1. CASE points = << >>
    BY <2>1
  <2>2. CASE points # << >>
    <3>1. Len(points) \in 1 .. Len(points)
      BY <1>3, <2>2, EmptySeq
    <3>2. points[Len(points)] \in Nat
      BY <1>3, <3>1, ElementOfSeq
    <3> QED
      BY <2>2, <3>2 DEF Last
  <2> QED
    BY <2>1, <2>2
<1>5. PICK more \in Seq(Nat) : /\ more = points \o <<n + 1, n + 2>>
                               /\ Increasing(points) => Increasing(more)
  BY <1>3, <1>4, ContinuedIncreasing
<1>6. PICK hs : hs = Append(gs, more)
  OBVIOUS
<1>7. /\ hs \in Seq(Seq(Nat)) /\ hs # << >> /\ Len(hs) = l + 1
      /\ \A g \in 1 .. l : hs[g] = gs[g]
      /\ hs[l + 1] = more
  <2>1. more \in Seq(Nat)
    OBVIOUS
  <2>2. PICK S : S = Seq(Nat)
    OBVIOUS
  <2>3. gs \in Seq(S) /\ more \in S
    BY <2>1, <2>2
  <2>4. /\ Append(gs, more) \in Seq(S) /\ Append(gs, more) # << >>
        /\ Len(Append(gs, more)) = Len(gs) + 1
        /\ \A i \in 1 .. Len(gs) : Append(gs, more)[i] = gs[i]
        /\ Append(gs, more)[Len(gs) + 1] = more
    BY <2>3, AppendProperties
  <2> QED
    BY <1>2, <1>6, <2>2, <2>4
<1>8. DOMAIN hs = 1 .. l + 1
  BY <1>7, LenProperties
<1>9. history' = [history EXCEPT ![PublishedFile] = hs]
  BY <1>1, <1>3, <1>4, <1>5, <1>6 DEF Publish
<1>10. /\ history' \in Histories /\ history'[PublishedFile] = hs
       /\ \A f \in Files : f # PublishedFile => history'[f] = history[f]
  BY <1>7, <1>9, NativeReadersAssumption DEF Histories
<1>11. ASSUME NEW f \in Files, NEW g \in DOMAIN history[f]
       PROVE  g \in DOMAIN history'[f] /\ history'[f][g] = history[f][g]
  <2>1. CASE f # PublishedFile
    BY <1>10, <2>1
  <2>2. CASE f = PublishedFile
    <3>1. history[f] = gs /\ history'[f] = hs /\ g \in 1 .. l
      BY <1>1, <1>2, <1>10, <2>2
    <3>2. g \in 1 .. l + 1
      BY <3>1
    <3> QED
      BY <1>7, <1>8, <3>1, <3>2
  <2> QED
    BY <2>1, <2>2
<1>12. ASSUME GenerationsOrdered, NEW f \in Files, NEW g \in DOMAIN history'[f]
       PROVE  Increasing(history'[f][g])
  <2>1. CASE f # PublishedFile
    BY <1>10, <1>12, <2>1 DEF GenerationsOrdered
  <2>2. CASE f = PublishedFile
    <3>1. g \in 1 .. l + 1
      BY <1>8, <1>10, <2>2
    <3>2. CASE g = l + 1
      <4>1. Increasing(points)
        <5>1. l \in 1 .. l
          BY <1>2
        <5> QED
          BY <1>1, <1>2, <1>3, <1>12, <5>1, NativeReadersAssumption DEF GenerationsOrdered
      <4> QED
        BY <1>5, <1>7, <1>10, <2>2, <3>2, <4>1
    <3>3. CASE g # l + 1
      <4>1. g \in 1 .. l
        BY <3>1, <3>3
      <4>2. history'[f][g] = gs[g]
        BY <1>7, <1>10, <2>2, <4>1
      <4> QED
        BY <1>1, <1>2, <1>12, <4>1, <4>2, NativeReadersAssumption DEF GenerationsOrdered
    <3> QED
      BY <3>2, <3>3
  <2> QED
    BY <2>1, <2>2
<1> QED
  BY <1>10, <1>11, <1>12 DEF GenerationsOrdered, Increasing

(* A generation of a file: what a handle reads, and what a cursor or a     *)
(* generator was made for.                                                 *)
Published(s) == s.file \in Files /\ s.generation \in DOMAIN history[s.file]
PointsOf(s) == history[s.file][s.generation]

SnapshotsExist == \A a \in Addresses : Live(a) => Published(heap[a])

LEMMA PublishedPoints ==
    ASSUME history \in Histories, GenerationsOrdered, NEW s, Published(s)
    PROVE  PointsOf(s) \in Seq(Nat) /\ Increasing(PointsOf(s))
<1>1. PICK gs \in Seq(Seq(Nat)) : gs = history[s.file]
  BY DEF Histories, Published
<1>2. PICK g : g = s.generation /\ g \in DOMAIN gs
  BY <1>1 DEF Published
<1>3. gs[g] \in Seq(Nat)
  BY <1>2
<1> QED
  BY <1>1, <1>2, <1>3 DEF PointsOf, GenerationsOrdered, Published

LEMMA PublishedStays ==
    ASSUME history \in Histories, Publish, NEW s, Published(s)
    PROVE  Published(s)' /\ PointsOf(s)' = PointsOf(s)
BY HistoryGrows DEF Published, PointsOf

(* A handle that is opened or refreshed reads the last generation.         *)
LEMMA LatestIsPublished ==
    ASSUME history \in Histories, NEW s, s.file \in Files,
           s.generation = Len(history[s.file])
    PROVE  Published(s)
<1>1. PICK gs \in Seq(Seq(Nat)) : gs = history[s.file] /\ gs # << >>
  BY DEF Histories
<1>2. Len(gs) \in DOMAIN gs
  BY <1>1
<1> QED
  BY <1>1, <1>2 DEF Published

LEMMA SnapshotsStay ==
    ASSUME history \in Histories, heap \in [Addresses -> HandleRecord \cup {Freed}],
           SnapshotsExist, UNCHANGED history,
           \/ UNCHANGED heap
           \/ \E f \in Files, a \in Addresses : CtOpenReader(f, a)
           \/ \E a \in Addresses : Live(a) /\ (CtRefresh(a) \/ CtClose(a))
    PROVE  SnapshotsExist'
<1>1. CASE UNCHANGED heap
  BY <1>1 DEF SnapshotsExist, Live, Published
<1>2. ASSUME NEW a \in Addresses, NEW y, heap' = [heap EXCEPT ![a] = y],
             y = Freed \/ Published(y)
      PROVE  SnapshotsExist'
  <2>1. heap'[a] = y /\ \A b \in Addresses : b # a => heap'[b] = heap[b]
    BY <1>2
  <2> SUFFICES ASSUME NEW b \in Addresses, Live(b)' PROVE Published(heap[b])'
    BY DEF SnapshotsExist
  <2>2. PICK s : s = heap'[b]
    OBVIOUS
  <2>3. Published(s)
    BY <1>2, <2>1, <2>2 DEF SnapshotsExist, Live
  <2> QED
    BY <2>2, <2>3 DEF Published
<1>3. ASSUME NEW f \in Files, NEW a \in Addresses, CtOpenReader(f, a) PROVE SnapshotsExist'
  <2>1. PICK y : y = [token |-> next_token, file |-> f, generation |-> Len(history[f])]
    OBVIOUS
  <2>2. y.file = f /\ y.generation = Len(history[f])
    BY <2>1
  <2>3. Published(y)
    BY <2>2, LatestIsPublished
  <2>4. heap' = [heap EXCEPT ![a] = y]
    BY <1>3, <2>1 DEF CtOpenReader
  <2> QED
    BY <1>2, <2>3, <2>4
<1>4. ASSUME NEW a \in Addresses, Live(a), CtRefresh(a) PROVE SnapshotsExist'
  <2>1. PICK x \in HandleRecord : x = heap[a]
    BY <1>4 DEF Live
  <2>2. PICK n : n = Len(history[x.file])
    OBVIOUS
  <2>3. PICK y : y = [x EXCEPT !.generation = n]
    OBVIOUS
  <2>4. y.file = x.file /\ x.file \in Files /\ y.generation = n
    BY <2>3 DEF HandleRecord
  <2>5. Published(y)
    BY <2>2, <2>4, LatestIsPublished
  <2>6. heap' = [heap EXCEPT ![a] = y]
    BY <1>4, <2>1, <2>2, <2>3 DEF CtRefresh
  <2> QED
    BY <1>2, <2>5, <2>6
<1>5. ASSUME NEW a \in Addresses, CtClose(a) PROVE SnapshotsExist'
  BY <1>2, <1>5 DEF CtClose
<1> QED
  BY <1>1, <1>3, <1>4, <1>5

LEMMA SnapshotsStayPublished ==
    ASSUME history \in Histories, SnapshotsExist, Publish PROVE SnapshotsExist'
<1>1. heap' = heap
  BY DEF Publish
<1> SUFFICES ASSUME NEW a \in Addresses, Live(a)' PROVE Published(heap[a])'
  BY DEF SnapshotsExist
<1>2. PICK s : s = heap[a]
  OBVIOUS
<1>3. Published(s)'
  BY <1>1, <1>2, PublishedStays DEF SnapshotsExist, Live
<1> QED
  BY <1>1, <1>2, <1>3 DEF Published

LEMMA PublishHolds ==
    ASSUME PythonReaderInv, Publish, UNCHANGED <<readers, iterators, prepared>>
    PROVE  PythonReaderInv'
<1>1. UNCHANGED <<heap, next_token, cursors>>
  BY DEF Publish
<1>2. history' \in [Files -> Seq(Seq(Nat)) \ {<< >>}]
  BY HistoryGrows DEF PythonReaderInv, ReadersTyped, Histories
<1>3. ReadersTyped'
  BY <1>1, <1>2 DEF PythonReaderInv, ReadersTyped
<1>4. HandlesAreOwned'
  BY <1>1 DEF PythonReaderInv, HandlesAreOwned, IsOpen, Handle, Live
<1>5. ASSUME NEW q, NEW epoch, NEW snapshot, TakenIn(q, epoch, snapshot)
      PROVE  TakenIn(q, epoch, snapshot)'
  BY <1>1, <1>5 DEF TakenIn, CheckIteration, IsOpen, Handle
<1> QED
  BY <1>1, <1>3, <1>4, <1>5, ReaderStepHolds

-----------------------------------------------------------------------------
(* Prepared series and generators.                                         *)

(* What a reader makes now is of its present snapshot.                     *)
LEMMA MadeNow ==
    ASSUME PythonReaderInv, NEW r \in ReaderObjects, IsOpen(r)
    PROVE  TakenIn(r, readers[r].epoch, heap[Handle(r)])
BY DEF PythonReaderInv, ReadersTyped, ReaderRecord, HandlesAreOwned, TakenIn

LEMMA PrepareHolds ==
    ASSUME PythonReaderInv, NEW r \in ReaderObjects, NEW p \in PreparedObjects,
           PrepareSeries(r, p)
    PROVE  PythonReaderInv'
<1>1. UNCHANGED <<history, heap, next_token, cursors, readers, iterators>> /\ IsOpen(r)
  BY DEF PrepareSeries, nativeVars
<1>2. PICK epoch, snapshot :
        /\ epoch = readers[r].epoch /\ snapshot = heap[Handle(r)]
        /\ prepared' = [prepared EXCEPT ![p] =
                [reader |-> r, epoch |-> epoch, snapshot |-> snapshot]]
  BY DEF PrepareSeries
<1>3. TakenIn(r, epoch, snapshot)
  BY <1>1, <1>2, MadeNow
<1>4. ASSUME NEW q, NEW e, NEW s, TakenIn(q, e, s)
      PROVE  TakenIn(q, e, s)'
  BY <1>1, <1>4 DEF TakenIn, CheckIteration, IsOpen, Handle
<1>5. ReadersTyped' /\ HandlesAreOwned' /\ IteratorsTyped'
  BY <1>1, <1>2 DEF PythonReaderInv, ReadersTyped, HandlesAreOwned, IsOpen, Handle, Live,
                    IteratorsTyped, CursorFollows
<1>6. IteratorsAreTaken'
  BY <1>1 DEF PythonReaderInv, IteratorsAreTaken, TakenIn, CheckIteration, IsOpen, Handle
<1>7. PreparedAreTaken'
  <2> SUFFICES ASSUME NEW o \in PreparedObjects, prepared'[o] # NoPrepared
               PROVE  TakenIn(prepared[o].reader, prepared[o].epoch, prepared[o].snapshot)'
    BY DEF PreparedAreTaken
  <2>1. PICK q, e, s : /\ q = prepared'[o].reader /\ e = prepared'[o].epoch
                       /\ s = prepared'[o].snapshot
    OBVIOUS
  <2>2. CASE o = p
    <3>1. q = r /\ e = epoch /\ s = snapshot
      BY <1>2, <2>1, <2>2 DEF PythonReaderInv, IteratorsTyped
    <3>2. TakenIn(q, e, s)'
      BY <1>3, <1>4, <3>1
    <3> QED
      BY <2>1, <3>2 DEF TakenIn, CheckIteration, IsOpen, Handle
  <2>3. CASE o # p
    <3>1. TakenIn(q, e, s)
      BY <1>2, <2>1, <2>3 DEF PythonReaderInv, PreparedAreTaken, IteratorsTyped
    <3>2. TakenIn(q, e, s)'
      BY <1>4, <3>1
    <3> QED
      BY <2>1, <3>2 DEF TakenIn, CheckIteration, IsOpen, Handle
  <2> QED
    BY <2>2, <2>3
<1> QED
  BY <1>5, <1>6, <1>7 DEF PythonReaderInv

(* One generator becomes y, and its cursor becomes c.                      *)
LEMMA IteratorStep ==
    ASSUME PythonReaderInv, NEW i \in Iterators, NEW y, NEW c,
           iterators' = [iterators EXCEPT ![i] = y],
           cursors' = [cursors EXCEPT ![i] = c] \/ (cursors' = cursors /\ cursors[i] = c),
           DOMAIN y = IteratorFields, y.phase \in IteratorPhases, CursorFollows(y, c),
           TakenIn(y.reader, y.epoch, y.snapshot),
           UNCHANGED <<history, heap, next_token, readers, prepared>>
    PROVE  PythonReaderInv'
<1>1. i \in Cursors
  BY PythonReaderAssumption
<1>2. /\ iterators'[i] = y /\ cursors'[i] = c
      /\ \A j \in Iterators : j # i => iterators'[j] = iterators[j] /\ cursors'[j] = cursors[j]
      /\ DOMAIN iterators' = Iterators /\ DOMAIN cursors' = Cursors
  BY <1>1, PythonReaderAssumption DEF PythonReaderInv, IteratorsTyped
<1>3. ReadersTyped' /\ HandlesAreOwned'
  BY DEF PythonReaderInv, ReadersTyped, HandlesAreOwned, IsOpen, Handle, Live
<1>4. IteratorsTyped'
  BY <1>2 DEF PythonReaderInv, IteratorsTyped, CursorFollows
<1>5. PreparedAreTaken'
  BY DEF PythonReaderInv, PreparedAreTaken, TakenIn, CheckIteration, IsOpen, Handle
<1>6. IteratorsAreTaken'
  <2> SUFFICES ASSUME NEW j \in Iterators, iterators'[j] # NoIterator
               PROVE  TakenIn(iterators[j].reader, iterators[j].epoch, iterators[j].snapshot)'
    BY DEF IteratorsAreTaken
  <2>1. PICK x : x = iterators'[j]
    OBVIOUS
  <2>2. TakenIn(x.reader, x.epoch, x.snapshot)
    BY <1>2, <2>1 DEF PythonReaderInv, IteratorsAreTaken
  <2> QED
    BY <2>1, <2>2 DEF TakenIn, CheckIteration, IsOpen, Handle
<1> QED
  BY <1>3, <1>4, <1>5, <1>6 DEF PythonReaderInv

(* A generator that is there, with what is known of it.                    *)
LEMMA RunningFacts ==
    ASSUME PythonReaderInv, NEW i \in Iterators, Running(i)
    PROVE  /\ iterators[i] # NoIterator
           /\ DOMAIN iterators[i] = IteratorFields
           /\ TakenIn(iterators[i].reader, iterators[i].epoch, iterators[i].snapshot)
           /\ CursorFollows(iterators[i], cursors[i])
<1>1. iterators[i] # NoIterator
  BY DEF Running, NoIterator
<1> QED
  BY <1>1 DEF PythonReaderInv, IteratorsTyped, IteratorsAreTaken

(* The end of a generator takes its cursor with it.                        *)
LEMMA FinishHolds ==
    ASSUME PythonReaderInv, NEW i \in Iterators, Running(i),
           NEW phase \in {"exhausted", "failed", "closed"}, Finishes(i, phase),
           UNCHANGED <<history, heap, next_token, readers, prepared>>
    PROVE  PythonReaderInv' /\ iterators'[i].yielded = iterators[i].yielded
<1>1. PICK x : x = iterators[i]
  OBVIOUS
<1>2. DOMAIN x = IteratorFields /\ TakenIn(x.reader, x.epoch, x.snapshot)
  BY <1>1, RunningFacts
<1>3. PICK y : y = [x EXCEPT !.phase = phase, !.buffered = << >>]
  OBVIOUS
<1>4. /\ DOMAIN y = IteratorFields /\ y.phase = phase
      /\ y.reader = x.reader /\ y.epoch = x.epoch /\ y.snapshot = x.snapshot
      /\ y.yielded = x.yielded
  BY <1>2, <1>3 DEF IteratorFields
<1>5. iterators' = [iterators EXCEPT ![i] = y] /\ cursors' = [cursors EXCEPT ![i] = NoCursor]
  BY <1>1, <1>3 DEF Finishes, PythonReaderInv, IteratorsTyped
<1>6. CursorFollows(y, NoCursor) /\ y.phase \in IteratorPhases
  BY <1>4 DEF CursorFollows, IteratorPhases
<1>7. TakenIn(y.reader, y.epoch, y.snapshot)
  BY <1>2, <1>4
<1>8. iterators'[i] = y
  BY <1>5 DEF PythonReaderInv, IteratorsTyped
<1> QED
  BY <1>1, <1>4, <1>5, <1>6, <1>7, <1>8, IteratorStep

(* A generator that yields keeps a cursor of an address.                   *)
LEMMA YieldHolds ==
    ASSUME PythonReaderInv, NEW i \in Iterators, Running(i), NEW points, NEW c,
           iterators' = [iterators EXCEPT ![i] = Yields(@, points)],
           cursors' = [cursors EXCEPT ![i] = c] \/ (cursors' = cursors /\ cursors[i] = c),
           "owner" \in DOMAIN c, c.owner \in Addresses,
           UNCHANGED <<history, heap, next_token, readers, prepared>>
    PROVE  PythonReaderInv'
<1>1. PICK x : x = iterators[i]
  OBVIOUS
<1>2. DOMAIN x = IteratorFields /\ TakenIn(x.reader, x.epoch, x.snapshot)
  BY <1>1, RunningFacts
<1>3. PICK y : y = Yields(x, points)
  OBVIOUS
<1>4. /\ DOMAIN y = IteratorFields /\ y.phase = "suspended"
      /\ y.reader = x.reader /\ y.epoch = x.epoch /\ y.snapshot = x.snapshot
  BY <1>2, <1>3 DEF IteratorFields, Yields
<1>5. iterators' = [iterators EXCEPT ![i] = y]
  BY <1>1, <1>3 DEF PythonReaderInv, IteratorsTyped
<1>6. CursorFollows(y, c) /\ y.phase \in IteratorPhases
  BY <1>4 DEF CursorFollows, IteratorPhases
<1>7. TakenIn(y.reader, y.epoch, y.snapshot)
  BY <1>2, <1>4
<1> QED
  BY <1>4, <1>5, <1>6, <1>7, IteratorStep

(* A call of the library moves the cursor on and leaves its owner.         *)
LEMMA CursorAfterOwner ==
    ASSUME NEW a, NEW cursor, NEW capacity, "owner" \in DOMAIN cursor,
           NEW after \in CursorAfter(a, cursor, capacity)
    PROVE  "owner" \in DOMAIN after /\ after.owner = cursor.owner
<1> DEFINE found == Remaining(a, cursor)
           copied == SubSeq(found, 1, Min({capacity, Len(found)}))
<1>1. PICK complete :
        after = [cursor EXCEPT !.delivered = @ \o copied,
                               !.next = IF copied = << >> THEN @ ELSE Last(copied) + 1,
                               !.complete = complete]
  BY DEF CursorAfter
<1> HIDE DEF copied
<1> QED
  BY <1>1

LEMMA FetchHolds ==
    ASSUME PythonReaderInv, NEW i \in Iterators, Running(i), NEW cursor,
           "owner" \in DOMAIN cursor, cursor.owner \in Addresses, Fetch(i, cursor),
           UNCHANGED <<history, heap, next_token, readers, prepared>>
    PROVE  PythonReaderInv'
<1>1. CASE Finishes(i, "failed")
  BY <1>1, FinishHolds
<1>2. CASE Finishes(i, "exhausted")
  BY <1>2, FinishHolds
<1>3. ASSUME NEW after \in CursorAfter(Handle(iterators[i].reader), cursor, iterators[i].batch),
             NEW points, iterators' = [iterators EXCEPT ![i] = Yields(@, points)],
             cursors' = [cursors EXCEPT ![i] = after]
      PROVE  PythonReaderInv'
  <2>1. "owner" \in DOMAIN after /\ after.owner \in Addresses
    BY <1>3, CursorAfterOwner
  <2> QED
    BY <1>3, <2>1, YieldHolds
<1> QED
  BY <1>1, <1>2, <1>3 DEF Fetch

LEMMA NextPointHolds == ASSUME PythonReaderInv, NEW i \in Iterators, NextPoint(i)
                        PROVE  PythonReaderInv'
<1>1. UNCHANGED <<history, heap, next_token, readers, prepared>> /\ Running(i)
  BY DEF NextPoint, Start, YieldBuffered, FetchMore, Running
<1>2. CASE Finishes(i, "failed") \/ Finishes(i, "exhausted")
  BY <1>1, <1>2, FinishHolds
<1>3. CASE Start(i) /\ Valid(i) /\ Fetch(i, CursorState(Handle(iterators[i].reader), iterators[i].range))
  <2>1. PICK cursor : cursor = CursorState(Handle(iterators[i].reader), iterators[i].range)
    OBVIOUS
  <2>2. Handle(iterators[i].reader) \in Addresses
    BY <1>1, <1>3, RunningFacts DEF Valid, CheckIteration, IsOpen, Handle, TakenIn, PythonReaderInv,
                                   ReadersTyped, ReaderRecord
  <2>3. "owner" \in DOMAIN cursor /\ cursor.owner \in Addresses
    BY <2>1, <2>2 DEF CursorState
  <2> QED
    BY <1>1, <1>3, <2>1, <2>3, FetchHolds
<1>4. CASE YieldBuffered(i) /\ Valid(i)
  <2>1. /\ iterators' = [iterators EXCEPT ![i] = Yields(@, @.buffered)]
        /\ cursors' = cursors /\ iterators[i].phase = "suspended"
    BY <1>4 DEF YieldBuffered
  <2>2. "owner" \in DOMAIN cursors[i] /\ cursors[i].owner \in Addresses
    BY <1>1, <2>1, RunningFacts DEF CursorFollows
  <2>3. PICK points : points = iterators[i].buffered
    OBVIOUS
  <2>4. iterators' = [iterators EXCEPT ![i] = Yields(@, points)]
    BY <2>1, <2>3
  <2> QED
    BY <1>1, <2>1, <2>2, <2>4, YieldHolds
<1>5. CASE FetchMore(i) /\ Fetch(i, cursors[i])
  <2>1. "owner" \in DOMAIN cursors[i] /\ cursors[i].owner \in Addresses
    BY <1>1, <1>5, RunningFacts DEF CursorFollows, FetchMore
  <2> QED
    BY <1>1, <1>5, <2>1, FetchHolds
<1> QED
  BY <1>2, <1>3, <1>4, <1>5 DEF NextPoint, Start, YieldBuffered, FetchMore

LEMMA IterRangeHolds ==
    ASSUME PythonReaderInv, NEW r \in ReaderObjects, NEW i \in Iterators, NEW range, NEW batch,
           IterRange(r, i, range, batch)
    PROVE  PythonReaderInv'
<1>1. /\ UNCHANGED <<history, heap, next_token, cursors, readers, prepared>>
      /\ IsOpen(r) /\ iterators[i] = NoIterator
  BY DEF IterRange, nativeVars
<1>2. PICK epoch, snapshot, asked :
        epoch = readers[r].epoch /\ snapshot = heap[Handle(r)] /\ asked = ReadRange(r, range)
  OBVIOUS
<1>3. PICK y : y = [phase |-> "unstarted", reader |-> r, epoch |-> epoch,
                    range |-> range, batch |-> batch, buffered |-> << >>,
                    asked |-> asked, snapshot |-> snapshot, yielded |-> << >>]
  OBVIOUS
<1>4. iterators' = [iterators EXCEPT ![i] = y]
  BY <1>2, <1>3 DEF IterRange
<1>5. /\ DOMAIN y = IteratorFields /\ y.phase = "unstarted"
      /\ y.reader = r /\ y.epoch = epoch /\ y.snapshot = snapshot
  BY <1>3 DEF IteratorFields
<1>6. TakenIn(y.reader, y.epoch, y.snapshot)
  BY <1>1, <1>2, <1>5, MadeNow
<1>7. cursors[i] = NoCursor
  BY <1>1 DEF PythonReaderInv, IteratorsTyped, CursorFollows, NoIterator
<1>8. CursorFollows(y, NoCursor) /\ y.phase \in IteratorPhases
  BY <1>5 DEF CursorFollows, IteratorPhases
<1> QED
  BY <1>1, <1>4, <1>5, <1>6, <1>7, <1>8, IteratorStep

-----------------------------------------------------------------------------
LEMMA PythonReaderInitially == PythonReaderInit => PythonReaderInv
<1> SUFFICES ASSUME PythonReaderInit PROVE PythonReaderInv
  OBVIOUS
<1> USE DEF PythonReaderInit, NativeInit
<1>1. ReadersTyped
  BY NativeReadersAssumption DEF ReadersTyped, ReaderRecord
<1>2. HandlesAreOwned
  BY DEF HandlesAreOwned, IsOpen
<1>3. IteratorsTyped
  BY PythonReaderAssumption DEF IteratorsTyped, CursorFollows, NoIterator
<1>4. PreparedAreTaken /\ IteratorsAreTaken
  BY DEF PreparedAreTaken, IteratorsAreTaken
<1> QED
  BY <1>1, <1>2, <1>3, <1>4 DEF PythonReaderInv

LEMMA PythonReaderStep ==
    ASSUME PythonReaderInv, [PythonReaderNext]_pythonReaderVars PROVE PythonReaderInv'
<1>1. CASE UNCHANGED pythonReaderVars
  <2>1. UNCHANGED <<history, heap, next_token, cursors, readers, iterators, prepared>>
    BY <1>1 DEF pythonReaderVars, nativeVars
  <2>2. ReadersTyped' /\ HandlesAreOwned'
    BY <2>1 DEF PythonReaderInv, ReadersTyped, HandlesAreOwned, IsOpen, Handle, Live
  <2>3. ASSUME NEW q, NEW epoch, NEW snapshot, TakenIn(q, epoch, snapshot)
        PROVE  TakenIn(q, epoch, snapshot)'
    BY <2>1, <2>3 DEF TakenIn, CheckIteration, IsOpen, Handle
  <2> QED
    BY <2>1, <2>2, <2>3, ReaderStepHolds
<1>2. CASE Publish /\ UNCHANGED <<exports, readers, iterators, prepared>>
  BY <1>2, PublishHolds
<1>3. ASSUME NEW r \in ReaderObjects, NEW f \in Files, NEW a \in Addresses, OpenReader(r, f, a)
      PROVE  PythonReaderInv'
  <2>1. UNCHANGED <<cursors, iterators, prepared>>
    BY <1>3 DEF OpenReader
  <2>2. ReadersTyped /\ HandlesAreOwned
    BY DEF PythonReaderInv
  <2> QED
    BY <1>3, <2>1, <2>2, OpenKeeps, ReaderStepHolds
<1>4. ASSUME NEW r \in ReaderObjects, Refresh(r) \/ CloseReader(r) PROVE PythonReaderInv'
  <2>1. UNCHANGED <<cursors, iterators, prepared>>
    BY <1>4 DEF Refresh, CloseReader
  <2>2. ReadersTyped /\ HandlesAreOwned
    BY DEF PythonReaderInv
  <2> QED
    BY <1>4, <2>1, <2>2, RefreshKeeps, CloseKeeps, ReaderStepHolds
<1>5. ASSUME NEW r \in ReaderObjects, NEW p \in PreparedObjects, PrepareSeries(r, p)
      PROVE  PythonReaderInv'
  BY <1>5, PrepareHolds
<1>6. ASSUME NEW r \in ReaderObjects, NEW i \in Iterators, NEW range \in Ranges,
             NEW batch \in BufferSizes, IterRange(r, i, range, batch)
      PROVE  PythonReaderInv'
  BY <1>6, IterRangeHolds
<1>7. ASSUME NEW i \in Iterators, NextPoint(i) PROVE PythonReaderInv'
  BY <1>7, NextPointHolds
<1>8. ASSUME NEW i \in Iterators, CloseIterator(i) PROVE PythonReaderInv'
  BY <1>8, FinishHolds DEF CloseIterator
<1> QED
  BY <1>1, <1>2, <1>3, <1>4, <1>5, <1>6, <1>7, <1>8 DEF PythonReaderNext

LEMMA PythonReaderInvariant == PythonReaderSpec => []PythonReaderInv
BY PythonReaderInitially, PythonReaderStep, PTL DEF PythonReaderSpec

(* A prepared lookup that passes the checks of lookup_prepared is made     *)
(* through the handle and in the snapshot in which the series was          *)
(* prepared, with a function that the library exports: the epoch that the  *)
(* client compares stands for the snapshot it never sees.                  *)
THEOREM PreparedIsCurrent == PythonReaderSpec => []PreparedLookupsAreCurrent
<1>1. PythonReaderInv => PreparedLookupsAreCurrent
  <2> SUFFICES ASSUME PythonReaderInv, NEW r \in ReaderObjects, NEW p \in PreparedObjects,
                      prepared[p] # NoPrepared,
                      LookupPreparedOutcome(r, p) = "ct_lookup_prepared"
               PROVE  /\ "ct_lookup_prepared" \in exports
                      /\ LookupOutcome(r) = "ct_lookup" /\ "ct_lookup" \in exports
                      /\ heap[Handle(r)] = prepared[p].snapshot
    BY DEF PreparedLookupsAreCurrent
  <2>1. IsOpen(r) /\ prepared[p].reader = r /\ prepared[p].epoch = readers[r].epoch /\ HasLookup
    BY DEF LookupPreparedOutcome
  <2>2. TakenIn(r, prepared[p].epoch, prepared[p].snapshot)
    BY <2>1 DEF PythonReaderInv, PreparedAreTaken
  <2>3. heap[Handle(r)] = prepared[p].snapshot
    BY <2>1, <2>2 DEF TakenIn, CheckIteration
  <2> QED
    BY <2>1, <2>3 DEF HasLookup, LookupSymbols, LookupOutcome
<1> QED
  BY <1>1, PythonReaderInvariant, PTL

(* However a generator ends, the native cursor that it created is          *)
(* destroyed, and it is never destroyed while the generator may still ask  *)
(* for more: the finally clause of iter_range.                             *)
THEOREM CursorsReleased == PythonReaderSpec => []CursorsAreReleased
<1>1. PythonReaderInv => CursorsAreReleased
  <2> SUFFICES ASSUME PythonReaderInv, NEW i \in Iterators, iterators[i] # NoIterator
               PROVE  (cursors[i] # NoCursor) = (iterators[i].phase = "suspended")
    BY DEF CursorsAreReleased
  <2>1. CursorFollows(iterators[i], cursors[i])
    BY DEF PythonReaderInv, IteratorsTyped
  <2>2. NoCursor.owner = NullHandle
    BY DEF NoCursor, NullHandle
  <2> QED
    BY <2>1, <2>2, Handles DEF CursorFollows
<1> QED
  BY <1>1, PythonReaderInvariant, PTL

(* A generator that yields a point does so while its reader is open and in *)
(* the snapshot in which iter_range was called.                            *)
THEOREM YieldsOnlyWhileCurrent == PythonReaderSpec => NoPointAfterChange
<1> DEFINE Stays(i) ==
        Running(i) /\ iterators'[i].yielded # iterators[i].yielded =>
            LET r == iterators[i].reader IN
            IsOpen(r) /\ heap[Handle(r)] = iterators[i].snapshot
<1>1. ASSUME PythonReaderInv, [PythonReaderNext]_pythonReaderVars
      PROVE  [\A i \in Iterators : Stays(i)]_pythonReaderVars
  <2>1. CASE UNCHANGED iterators
    BY <2>1
  <2>2. ASSUME NEW i \in Iterators, NextPoint(i) \/ CloseIterator(i)
        PROVE  \A j \in Iterators : Stays(j)
    <3>1. \A j \in Iterators : j # i => iterators'[j] = iterators[j]
      BY <1>1, <2>2 DEF NextPoint, CloseIterator, Start, YieldBuffered, FetchMore, Fetch, Finishes,
                  PythonReaderInv, IteratorsTyped
    <3>2. UNCHANGED <<history, heap, next_token, readers, prepared>> /\ Running(i)
      BY <2>2 DEF NextPoint, Start, YieldBuffered, FetchMore, Running, CloseIterator
    <3>3. CASE Finishes(i, "failed") \/ Finishes(i, "exhausted") \/ Finishes(i, "closed")
      BY <1>1, <3>1, <3>2, <3>3, FinishHolds
    <3>4. CASE Valid(i)
      <4>1. TakenIn(iterators[i].reader, iterators[i].epoch, iterators[i].snapshot)
        BY <1>1, <3>2, RunningFacts
      <4> QED
        BY <3>1, <3>4, <4>1 DEF Valid, TakenIn, CheckIteration
    <3> QED
      BY <2>2, <3>3, <3>4 DEF NextPoint, CloseIterator, Start, YieldBuffered, FetchMore
  <2>3. ASSUME NEW r \in ReaderObjects, NEW i \in Iterators, NEW range \in Ranges,
               NEW batch \in BufferSizes, IterRange(r, i, range, batch)
        PROVE  \A j \in Iterators : Stays(j)
    <3>1. ~Running(i) /\ \A j \in Iterators : j # i => iterators'[j] = iterators[j]
      BY <1>1, <2>3 DEF IterRange, Running, NoIterator, PythonReaderInv, IteratorsTyped
    <3> QED
      BY <3>1
  <2> QED
    BY <1>1, <2>1, <2>2, <2>3 DEF PythonReaderNext, pythonReaderVars, OpenReader, Refresh,
                                  CloseReader, PrepareSeries
<1> QED
  BY <1>1, PythonReaderInvariant, PTL DEF PythonReaderSpec, NoPointAfterChange

-----------------------------------------------------------------------------
(* What the generators yield.                                              *)

RangeRecord == [start : Int, end : Int]

(* What the application saw of a generator, and what is buffered for it,   *)
(* is what its cursor has delivered.                                       *)
Buffers(it, cursor) ==
    /\ OnTrack(cursor, PointsOf(it.snapshot))
    /\ cursor.start = it.range.start /\ cursor.end = it.range.end
    /\ cursor.delivered = it.yielded \o it.buffered

YieldsItsRange(it, cursor) ==
    /\ Published(it.snapshot) /\ it.range \in RangeRecord /\ it.batch \in Nat \ {0}
    /\ it.yielded \in Seq(Nat) /\ it.buffered \in Seq(Nat)
    /\ it.asked = InRange(PointsOf(it.snapshot), it.range.start, it.range.end)
    /\ IsPrefix(it.yielded, it.asked)
    /\ it.phase = "exhausted" => it.yielded = it.asked
    /\ it.phase = "unstarted" => it.yielded = << >>
    /\ it.phase = "suspended" => Buffers(it, cursor)

IteratorsDeliver ==
    \A i \in Iterators : iterators[i] # NoIterator =>
        YieldsItsRange(iterators[i], cursors[i])

PythonDeliveryInv ==
    /\ PythonReaderInv
    /\ GenerationsOrdered /\ SnapshotsExist
    /\ IteratorsDeliver

LEMMA FilesTyped ==
    ASSUME PythonReaderInv
    PROVE  history \in Histories /\ heap \in [Addresses -> HandleRecord \cup {Freed}]
BY DEF PythonReaderInv, ReadersTyped, Histories

(* Reader.range returns the whole range, in one call or in two.            *)
LEMMA ReadRangeIsWhole ==
    ASSUME NEW r, NEW range \in RangeRecord, NEW points \in Seq(Nat), Increasing(points),
           Snapshot(Handle(r)) = points
    PROVE  /\ ReadRange(r, range) = InRange(points, range.start, range.end)
           /\ InRange(points, range.start, range.end) \in Seq(Nat)
<1>1. PICK found : found = InRange(points, range.start, range.end)
  OBVIOUS
<1>2. found \in Seq(Nat)
  <2>1. range.start \in Int /\ range.end \in Int
    BY DEF RangeRecord
  <2>2. PICK lo, hi : Bounds(points, range.start, range.end, lo, hi)
    BY <2>1, RangeHasBounds
  <2>3. found = SubSeq(points, lo, hi)
    BY <1>1, <2>2, RangeWithin
  <2> QED
    BY <2>2, <2>3, SliceTyped DEF Bounds
<1>3. PICK l \in Nat : l = Len(found)
  BY <1>2, LenProperties
<1>4. SubSeq(found, 1, l) = found
  BY <1>2, <1>3, SubSeqFull
<1>5. \A capacity \in Nat : l <= capacity => Min({capacity, l}) = l
  BY DEF Min
<1>6. ASSUME NEW capacity \in Nat
      PROVE  /\ CtRange(Handle(r), range, capacity).too_small <=> l > capacity
             /\ CtRange(Handle(r), range, capacity).count = l
             /\ l <= capacity => CtRange(Handle(r), range, capacity).points = found
  <2>1. PICK small, part : small = (l > capacity) /\ part = SubSeq(found, 1, Min({capacity, l}))
    OBVIOUS
  <2>2. CtRange(Handle(r), range, capacity) = [too_small |-> small, count |-> l, points |-> part]
    BY <1>1, <1>3, <2>1 DEF CtRange
  <2>3. l <= capacity => part = found
    BY <1>4, <1>5, <2>1
  <2>4. PICK answer : answer = CtRange(Handle(r), range, capacity)
    OBVIOUS
  <2>5. answer.too_small = small /\ answer.count = l /\ answer.points = part
    BY <2>2, <2>4
  <2>6. answer.too_small <=> l > capacity
    BY <2>1, <2>5, Zenon
  <2> QED
    BY <2>3, <2>4, <2>5, <2>6
<1>7. FirstCapacity \in Nat /\ l <= l
  BY <1>3, PythonReaderAssumption
<1>8. CASE l > FirstCapacity
  <2>1. ReadRange(r, range) = CtRange(Handle(r), range, l).points
    BY <1>6, <1>7, <1>8 DEF ReadRange
  <2> QED
    BY <1>1, <1>2, <1>3, <1>6, <1>7, <2>1
<1>9. CASE ~(l > FirstCapacity)
  <2>1. ReadRange(r, range) = CtRange(Handle(r), range, FirstCapacity).points
    BY <1>6, <1>7, <1>9 DEF ReadRange
  <2>2. l <= FirstCapacity
    BY SMTT(40), <1>3, <1>7, <1>9
  <2> QED
    BY <1>1, <1>2, <1>6, <1>7, <2>1, <2>2
<1> QED
  BY <1>8, <1>9

(* One generator becomes y, and its cursor becomes c.                      *)
LEMMA IteratorDelivers ==
    ASSUME PythonReaderInv, IteratorsDeliver, UNCHANGED history,
           NEW i \in Iterators, NEW y, NEW c,
           iterators' = [iterators EXCEPT ![i] = y],
           cursors' = [cursors EXCEPT ![i] = c] \/ (cursors' = cursors /\ cursors[i] = c),
           YieldsItsRange(y, c)
    PROVE  IteratorsDeliver'
<1>1. i \in Cursors
  BY PythonReaderAssumption
<1>2. /\ iterators'[i] = y /\ cursors'[i] = c
      /\ \A j \in Iterators : j # i => iterators'[j] = iterators[j] /\ cursors'[j] = cursors[j]
  BY <1>1, PythonReaderAssumption DEF PythonReaderInv, IteratorsTyped
<1> SUFFICES ASSUME NEW j \in Iterators, iterators'[j] # NoIterator
             PROVE  YieldsItsRange(iterators[j], cursors[j])'
  BY DEF IteratorsDeliver
<1>3. PICK x, d : x = iterators'[j] /\ d = cursors'[j]
  OBVIOUS
<1>4. YieldsItsRange(x, d)
  BY SMTT(40), <1>2, <1>3 DEF IteratorsDeliver
<1>5. YieldsItsRange(x, d)'
  BY <1>4 DEF YieldsItsRange, Buffers, Published, PointsOf
<1> QED
  BY <1>3, <1>5 DEF YieldsItsRange, Buffers, Published, PointsOf

LEMMA FinishDelivers ==
    ASSUME PythonReaderInv, IteratorsDeliver, UNCHANGED history,
           NEW i \in Iterators, Running(i),
           NEW phase \in {"exhausted", "failed", "closed"}, Finishes(i, phase),
           phase = "exhausted" => iterators[i].yielded = iterators[i].asked
    PROVE  IteratorsDeliver'
<1>1. PICK x : x = iterators[i]
  OBVIOUS
<1>2. DOMAIN x = IteratorFields /\ YieldsItsRange(x, cursors[i])
  BY <1>1, RunningFacts DEF IteratorsDeliver
<1>3. PICK y : y = [x EXCEPT !.phase = phase, !.buffered = << >>]
  OBVIOUS
<1>4. /\ y.phase = phase /\ y.buffered = << >> /\ y.yielded = x.yielded
      /\ y.snapshot = x.snapshot /\ y.range = x.range /\ y.batch = x.batch
      /\ y.asked = x.asked
  BY <1>2, <1>3 DEF IteratorFields
<1>5. iterators' = [iterators EXCEPT ![i] = y] /\ cursors' = [cursors EXCEPT ![i] = NoCursor]
  BY <1>1, <1>3 DEF Finishes, PythonReaderInv, IteratorsTyped
<1>6. << >> \in Seq(Nat)
  OBVIOUS
<1>7. YieldsItsRange(y, NoCursor)
  BY <1>1, <1>2, <1>4, <1>6 DEF YieldsItsRange
<1> QED
  BY <1>5, <1>7, IteratorDelivers

(* A generator that yields the first of the points that its cursor has     *)
(* delivered and the application has not seen.                             *)
LEMMA YieldDelivers ==
    ASSUME PythonDeliveryInv, UNCHANGED history, NEW i \in Iterators, Running(i),
           NEW points \in Seq(Nat), points # << >>, NEW c,
           iterators' = [iterators EXCEPT ![i] = Yields(@, points)],
           cursors' = [cursors EXCEPT ![i] = c] \/ (cursors' = cursors /\ cursors[i] = c),
           OnTrack(c, PointsOf(iterators[i].snapshot)),
           c.start = iterators[i].range.start, c.end = iterators[i].range.end,
           c.delivered = iterators[i].yielded \o points
    PROVE  IteratorsDeliver'
<1>1. PICK x : x = iterators[i]
  OBVIOUS
<1>2. DOMAIN x = IteratorFields /\ YieldsItsRange(x, cursors[i])
  BY <1>1, RunningFacts DEF PythonDeliveryInv, IteratorsDeliver
<1>3. PICK seen, rest : seen = Append(x.yielded, Head(points)) /\ rest = Tail(points)
  OBVIOUS
<1>4. seen \in Seq(Nat) /\ rest \in Seq(Nat) /\ seen \o rest = x.yielded \o points
  BY <1>2, <1>3, HeadMoves DEF YieldsItsRange
<1>5. PICK y : y = Yields(x, points)
  OBVIOUS
<1>6. /\ y.phase = "suspended" /\ y.buffered = rest /\ y.yielded = seen
      /\ y.snapshot = x.snapshot /\ y.range = x.range /\ y.batch = x.batch
      /\ y.asked = x.asked
  BY <1>2, <1>3, <1>5 DEF IteratorFields, Yields
<1>7. PICK pts \in Seq(Nat) : pts = PointsOf(x.snapshot)
  BY <1>2, FilesTyped, PublishedPoints DEF PythonDeliveryInv, YieldsItsRange
<1>8. x.asked = InRange(pts, c.start, c.end) /\ OnTrack(c, pts)
  BY <1>1, <1>2, <1>7 DEF YieldsItsRange
<1>9. x.asked \in Seq(Nat) /\ IsPrefix(c.delivered, x.asked)
  BY <1>8, TrackMeans
<1>10. IsPrefix(seen \o rest, x.asked)
  BY <1>1, <1>4, <1>9
<1>11. IsPrefix(seen, x.asked)
  BY <1>4, <1>9, <1>10, PrefixOfConcat
<1>12. Buffers(y, c)
  BY <1>1, <1>4, <1>6, <1>7, <1>8 DEF Buffers
<1>13. YieldsItsRange(y, c)
  BY <1>2, <1>4, <1>6, <1>11, <1>12 DEF YieldsItsRange
<1>14. iterators' = [iterators EXCEPT ![i] = y]
  BY SMTT(40), <1>1, <1>5 DEF PythonDeliveryInv, PythonReaderInv, IteratorsTyped
<1> QED
  BY <1>13, <1>14, IteratorDelivers DEF PythonDeliveryInv

(* A valid generator reads the snapshot it was made in.                    *)
LEMMA ValidReadsItsSnapshot ==
    ASSUME PythonDeliveryInv, NEW i \in Iterators, Running(i), Valid(i)
    PROVE  /\ PointsOf(iterators[i].snapshot) \in Seq(Nat)
           /\ Increasing(PointsOf(iterators[i].snapshot))
           /\ Snapshot(Handle(iterators[i].reader)) = PointsOf(iterators[i].snapshot)
<1>1. YieldsItsRange(iterators[i], cursors[i])
  BY RunningFacts DEF PythonDeliveryInv, IteratorsDeliver
<1>2. heap[Handle(iterators[i].reader)] = iterators[i].snapshot
  BY RunningFacts DEF PythonDeliveryInv, TakenIn, Valid
<1> QED
  BY <1>1, <1>2, FilesTyped, PublishedPoints
  DEF PythonDeliveryInv, YieldsItsRange, Snapshot, PointsOf

LEMMA FetchDelivers ==
    ASSUME PythonDeliveryInv, UNCHANGED history, NEW i \in Iterators, Running(i), Valid(i),
           NEW cursor, OnTrack(cursor, PointsOf(iterators[i].snapshot)),
           cursor.start = iterators[i].range.start, cursor.end = iterators[i].range.end,
           cursor.delivered = iterators[i].yielded, Fetch(i, cursor)
    PROVE  IteratorsDeliver'
<1>1. PICK a, it, pts : /\ a = Handle(iterators[i].reader) /\ it = iterators[i]
                        /\ pts = PointsOf(iterators[i].snapshot)
  OBVIOUS
<1>2. pts \in Seq(Nat) /\ Increasing(pts) /\ Snapshot(a) = pts
  BY <1>1, ValidReadsItsSnapshot
<1>3. YieldsItsRange(it, cursors[i])
  BY <1>1, RunningFacts DEF PythonDeliveryInv, IteratorsDeliver
<1>4. CASE Finishes(i, "failed")
  BY SMTT(40), <1>4, FinishDelivers DEF PythonDeliveryInv
<1>5. ASSUME NEW after \in CursorAfter(a, cursor, it.batch)
      PROVE  /\ OnTrack(after, pts)
             /\ after.start = cursor.start /\ after.end = cursor.end
             /\ \E copied \in Seq(Nat) :
                    /\ after.delivered = cursor.delivered \o copied
                    /\ copied = SubSeq(after.delivered, Len(cursor.delivered) + 1,
                                       Len(after.delivered))
                    /\ copied = << >> => it.yielded = it.asked
  <2>1. PICK batch \in Nat \ {0} : batch = it.batch
    BY <1>3 DEF YieldsItsRange
  <2>2. OnTrack(cursor, pts) /\ after \in CursorAfter(a, cursor, batch)
    BY <1>1, <1>5, <2>1
  <2>3. /\ OnTrack(after, pts) /\ AddsPoints(cursor, after, pts)
        /\ after.start = cursor.start /\ after.end = cursor.end
    BY <1>2, <2>1, <2>2, CursorMoves
  <2>4. PICK copied \in Seq(Nat) :
            /\ after.delivered = cursor.delivered \o copied
            /\ copied = << >> => cursor.delivered = InRange(pts, cursor.start, cursor.end)
    BY <2>3 DEF AddsPoints
  <2>5. PICK d \in Seq(Nat) : d = cursor.delivered
    BY <1>1, <1>3 DEF YieldsItsRange
  <2>6. copied = SubSeq(after.delivered, Len(cursor.delivered) + 1, Len(after.delivered))
    BY <2>4, <2>5, AddedIsSuffix
  <2>7. it.asked = InRange(pts, cursor.start, cursor.end)
    BY <1>1, <1>3 DEF YieldsItsRange
  <2> QED
    BY <1>1, <2>3, <2>4, <2>6, <2>7
<1>6. CASE ~Finishes(i, "failed")
  <2>1. PICK after \in CursorAfter(a, cursor, it.batch) :
            LET points == SubSeq(after.delivered, Len(cursor.delivered) + 1,
                                 Len(after.delivered))
            IN  IF points = << >> THEN Finishes(i, "exhausted")
                ELSE /\ iterators' = [iterators EXCEPT ![i] = Yields(@, points)]
                     /\ cursors' = [cursors EXCEPT ![i] = after]
    BY <1>1, <1>6 DEF Fetch
  <2>2. PICK copied \in Seq(Nat) :
            /\ after.delivered = cursor.delivered \o copied
            /\ copied = SubSeq(after.delivered, Len(cursor.delivered) + 1, Len(after.delivered))
            /\ copied = << >> => it.yielded = it.asked
    BY <1>5
  <2>3. CASE copied = << >>
    <3>1. Finishes(i, "exhausted") /\ it.yielded = it.asked
      BY <2>1, <2>2, <2>3
    <3> QED
      BY <1>1, <3>1, FinishDelivers DEF PythonDeliveryInv
  <2>4. CASE copied # << >>
    <3>1. /\ iterators' = [iterators EXCEPT ![i] = Yields(@, copied)]
          /\ cursors' = [cursors EXCEPT ![i] = after]
      BY <2>1, <2>2, <2>4
    <3>2. /\ OnTrack(after, PointsOf(iterators[i].snapshot))
          /\ after.start = iterators[i].range.start /\ after.end = iterators[i].range.end
          /\ after.delivered = iterators[i].yielded \o copied
      BY <1>1, <1>5, <2>2
    <3> QED
      BY <2>4, <3>1, <3>2, YieldDelivers
  <2> QED
    BY <2>3, <2>4
<1> QED
  BY <1>4, <1>6

LEMMA NextPointDelivers ==
    ASSUME PythonDeliveryInv, NEW i \in Iterators, NextPoint(i) PROVE IteratorsDeliver'
<1>1. UNCHANGED history /\ Running(i)
  BY DEF NextPoint, Start, YieldBuffered, FetchMore, Running
<1>2. PICK it : it = iterators[i]
  OBVIOUS
<1>3. YieldsItsRange(it, cursors[i])
  BY <1>1, <1>2, RunningFacts DEF PythonDeliveryInv, IteratorsDeliver
<1>4. CASE Finishes(i, "failed")
  BY <1>1, <1>4, FinishDelivers DEF PythonDeliveryInv
<1>5. CASE /\ it.phase = "unstarted" /\ Valid(i)
           /\ Fetch(i, CursorState(Handle(it.reader), it.range))
  <2>1. PICK cursor : cursor = CursorState(Handle(it.reader), it.range)
    OBVIOUS
  <2>2. PICK pts \in Seq(Nat) : pts = PointsOf(it.snapshot) /\ Increasing(pts)
    BY <1>1, <1>2, <1>5, ValidReadsItsSnapshot
  <2>3. it.range \in [start : Int, end : Int] /\ it.yielded = << >>
    BY <1>3, <1>5 DEF YieldsItsRange, RangeRecord
  <2>4. /\ OnTrack(cursor, pts) /\ cursor.delivered = << >>
        /\ cursor.start = it.range.start /\ cursor.end = it.range.end
    BY <2>1, <2>2, <2>3, NewOnTrack
  <2> QED
    BY <1>1, <1>2, <1>5, <2>1, <2>2, <2>3, <2>4, FetchDelivers
<1>6. CASE YieldBuffered(i) /\ Valid(i)
  <2>1. PICK points : points = it.buffered
    OBVIOUS
  <2>2. points \in Seq(Nat) /\ points # << >> /\ Buffers(it, cursors[i])
    BY <1>2, <1>3, <1>6, <2>1 DEF YieldBuffered, YieldsItsRange
  <2>3. iterators' = [iterators EXCEPT ![i] = Yields(@, points)] /\ cursors' = cursors
    BY <1>2, <1>6, <2>1 DEF YieldBuffered
  <2> QED
    BY <1>1, <1>2, <2>1, <2>2, <2>3, YieldDelivers DEF Buffers
<1>7. CASE FetchMore(i) /\ ~Finishes(i, "failed")
  <2>1. it.phase = "suspended" /\ it.buffered = << >>
    BY <1>2, <1>7 DEF FetchMore
  <2>2. Buffers(it, cursors[i]) /\ it.yielded \in Seq(Nat)
    BY <1>3, <2>1 DEF YieldsItsRange
  <2>3. it.yielded \o << >> = it.yielded
    BY <2>2, ConcatEmptySeq
  <2>4. cursors[i].delivered = it.yielded
    BY <2>1, <2>2, <2>3 DEF Buffers
  <2>5. CASE cursors[i].complete
    <3>1. PICK pts \in Seq(Nat) : pts = PointsOf(it.snapshot)
      BY <1>3, FilesTyped, PublishedPoints DEF PythonDeliveryInv, YieldsItsRange
    <3>2. cursors[i].delivered = InRange(pts, cursors[i].start, cursors[i].end)
      BY <2>2, <2>5, <3>1, TrackMeans DEF Buffers
    <3>3. it.yielded = it.asked
      BY <1>3, <2>2, <2>4, <3>1, <3>2 DEF Buffers, YieldsItsRange
    <3> QED
      BY <1>1, <1>2, <1>7, <2>5, <3>3, FinishDelivers DEF FetchMore, PythonDeliveryInv
  <2>6. CASE ~cursors[i].complete
    <3>1. Valid(i) /\ Fetch(i, cursors[i])
      BY <1>7, <2>6 DEF FetchMore
    <3> QED
      BY <1>1, <1>2, <2>2, <2>4, <3>1, FetchDelivers DEF Buffers
  <2> QED
    BY <2>5, <2>6
<1> QED
  BY <1>2, <1>4, <1>5, <1>6, <1>7 DEF NextPoint, Start, YieldBuffered

LEMMA IterRangeDelivers ==
    ASSUME PythonDeliveryInv, NEW r \in ReaderObjects, NEW i \in Iterators,
           NEW range \in Ranges, NEW batch \in BufferSizes, IterRange(r, i, range, batch)
    PROVE  IteratorsDeliver'
<1>1. UNCHANGED <<history, cursors>> /\ IsOpen(r)
  BY DEF IterRange, nativeVars
<1>2. range \in RangeRecord /\ batch \in Nat \ {0}
  BY NativeReadersAssumption DEF RangeRecord
<1>3. PICK snapshot : snapshot = heap[Handle(r)]
  OBVIOUS
<1>4. Published(snapshot)
  BY <1>1, <1>3 DEF PythonDeliveryInv, PythonReaderInv, ReadersTyped, ReaderRecord,
                    HandlesAreOwned, SnapshotsExist, IsOpen, Handle
<1>5. PICK pts \in Seq(Nat) : pts = PointsOf(snapshot) /\ Increasing(pts)
  BY <1>4, FilesTyped, PublishedPoints DEF PythonDeliveryInv
<1>6. Snapshot(Handle(r)) = pts
  BY <1>3, <1>5 DEF Snapshot, PointsOf
<1>7. PICK asked \in Seq(Nat) : /\ asked = ReadRange(r, range)
                               /\ asked = InRange(pts, range.start, range.end)
  BY <1>2, <1>5, <1>6, ReadRangeIsWhole
<1>8. PICK epoch : epoch = readers[r].epoch
  OBVIOUS
<1>9. PICK y : y = [phase |-> "unstarted", reader |-> r, epoch |-> epoch,
                    range |-> range, batch |-> batch, buffered |-> << >>,
                    asked |-> asked, snapshot |-> snapshot, yielded |-> << >>]
  OBVIOUS
<1>10. iterators' = [iterators EXCEPT ![i] = y]
  BY <1>3, <1>7, <1>8, <1>9 DEF IterRange
<1>11. /\ y.phase = "unstarted" /\ y.range = range /\ y.batch = batch /\ y.buffered = << >>
       /\ y.asked = asked /\ y.snapshot = snapshot /\ y.yielded = << >>
  BY <1>9
<1>12. << >> \in Seq(Nat) /\ IsPrefix(<< >>, asked)
  <2>1. Len(<< >>) = 0 /\ Len(asked) \in Nat /\ << >> \in Seq(Nat)
    BY EmptySeq, LenProperties
  <2>2. SubSeq(<< >>, 1, 0) = << >> /\ SubSeq(asked, 1, 0) = << >>
    BY SubSeqEmpty
  <2> QED
    BY <2>1, <2>2 DEF IsPrefix
<1>13. YieldsItsRange(y, cursors[i])
  BY <1>2, <1>4, <1>5, <1>7, <1>11, <1>12 DEF YieldsItsRange
<1> QED
  BY <1>1, <1>10, <1>13, IteratorDelivers DEF PythonDeliveryInv

LEMMA PythonDeliveryInitially == PythonReaderInit => PythonDeliveryInv
BY PythonReaderInitially, NativeReadersAssumption
DEF PythonReaderInit, NativeInit, PythonDeliveryInv, GenerationsOrdered, SnapshotsExist, Live,
    IteratorsDeliver

LEMMA PythonDeliveryStep ==
    ASSUME PythonDeliveryInv, [PythonReaderNext]_pythonReaderVars PROVE PythonDeliveryInv'
<1>1. PythonReaderInv /\ PythonReaderInv'
  BY PythonReaderStep DEF PythonDeliveryInv
<1>2. history \in Histories /\ heap \in [Addresses -> HandleRecord \cup {Freed}]
  BY <1>1, FilesTyped
<1>3. CASE UNCHANGED <<history, cursors, iterators>> /\ SnapshotsExist'
  BY <1>1, <1>3 DEF PythonDeliveryInv, GenerationsOrdered, IteratorsDeliver, YieldsItsRange,
                    Buffers, Published, PointsOf
<1>4. CASE UNCHANGED <<history, heap>> /\ IteratorsDeliver'
  BY <1>1, <1>4 DEF PythonDeliveryInv, GenerationsOrdered, SnapshotsExist, Live, Published
<1>5. CASE UNCHANGED pythonReaderVars
  BY <1>3, <1>5 DEF pythonReaderVars, nativeVars, PythonDeliveryInv, SnapshotsExist, Live, Published
<1>6. CASE Publish /\ UNCHANGED <<exports, readers, iterators, prepared>>
  <2>1. GenerationsOrdered' /\ SnapshotsExist' /\ UNCHANGED <<cursors, iterators>>
    BY <1>2, <1>6, HistoryGrows, SnapshotsStayPublished DEF PythonDeliveryInv, Publish
  <2>2. ASSUME NEW i \in Iterators, iterators'[i] # NoIterator
        PROVE  YieldsItsRange(iterators[i], cursors[i])'
    <3>1. PICK x, d, s : x = iterators[i] /\ d = cursors[i] /\ s = x.snapshot
      OBVIOUS
    <3>2. YieldsItsRange(x, d)
      BY <2>1, <2>2, <3>1 DEF PythonDeliveryInv, IteratorsDeliver
    <3>3. Published(s)' /\ PointsOf(s)' = PointsOf(s)
      BY <1>2, <1>6, <3>1, <3>2, PublishedStays DEF YieldsItsRange
    <3>4. YieldsItsRange(x, d)'
      BY <3>1, <3>2, <3>3 DEF YieldsItsRange, Buffers, Published, PointsOf
    <3> QED
      BY <2>1, <3>1, <3>4 DEF YieldsItsRange, Buffers, Published, PointsOf
  <2> QED
    BY <1>1, <2>1, <2>2 DEF PythonDeliveryInv, IteratorsDeliver
<1>7. ASSUME NEW r \in ReaderObjects, NEW f \in Files, NEW a \in Addresses, OpenReader(r, f, a)
      PROVE  PythonDeliveryInv'
  BY <1>2, <1>3, <1>7, SnapshotsStay DEF OpenReader, PythonDeliveryInv
<1>8. ASSUME NEW r \in ReaderObjects, Refresh(r) \/ CloseReader(r) PROVE PythonDeliveryInv'
  <2>1. Handle(r) \in Addresses /\ Live(Handle(r))
    BY <1>1, <1>8 DEF Refresh, CloseReader, IsOpen, Handle, PythonReaderInv, ReadersTyped,
                      ReaderRecord, HandlesAreOwned
  <2> QED
    BY <1>2, <1>3, <1>8, <2>1, SnapshotsStay DEF Refresh, CloseReader, PythonDeliveryInv
<1>9. ASSUME NEW r \in ReaderObjects, NEW p \in PreparedObjects, PrepareSeries(r, p)
      PROVE  PythonDeliveryInv'
  BY <1>3, <1>9 DEF PrepareSeries, nativeVars, PythonDeliveryInv, SnapshotsExist, Live, Published
<1>10. ASSUME NEW r \in ReaderObjects, NEW i \in Iterators, NEW range \in Ranges,
              NEW batch \in BufferSizes, IterRange(r, i, range, batch)
       PROVE  PythonDeliveryInv'
  BY <1>4, <1>10, IterRangeDelivers DEF IterRange, nativeVars
<1>11. ASSUME NEW i \in Iterators, NextPoint(i) PROVE PythonDeliveryInv'
  BY <1>4, <1>11, NextPointDelivers DEF NextPoint
<1>12. ASSUME NEW i \in Iterators, CloseIterator(i) PROVE PythonDeliveryInv'
  BY <1>1, <1>4, <1>12, FinishDelivers DEF CloseIterator, PythonDeliveryInv
<1> QED
  BY <1>5, <1>6, <1>7, <1>8, <1>9, <1>10, <1>11, <1>12 DEF PythonReaderNext

(* A generator of iter_range yields the range that Reader.range returned   *)
(* when it was made, from its beginning, in order and without a gap, and   *)
(* one that ends normally has yielded all of it: whatever happened to its  *)
(* reader and to the file in between, and however the points fell into     *)
(* batches.                                                                *)
THEOREM GeneratorsYieldTheirRange == PythonReaderSpec => []IteratorsYieldTheirSnapshot
<1>1. PythonDeliveryInv => IteratorsYieldTheirSnapshot
  BY DEF PythonDeliveryInv, IteratorsDeliver, YieldsItsRange, PointsOf,
         IteratorsYieldTheirSnapshot
<1> QED
  BY <1>1, PythonDeliveryInitially, PythonDeliveryStep, PTL DEF PythonReaderSpec

-----------------------------------------------------------------------------
(* A C program, which may pass any handle with any cursor.                 *)

HeapTyped ==
    /\ history \in [Files -> Seq(Seq(Nat)) \ {<< >>}]
    /\ heap \in [Addresses -> HandleRecord \cup {Freed}]
    /\ next_token \in Nat \ {0}
    /\ DOMAIN cursors = Cursors

(* No handle has a token that is still to be given out, and a cursor knows *)
(* the file of the handle that has its token, if there is one.             *)
TokensIdentify ==
    /\ \A a \in Addresses : Live(a) => heap[a].token < next_token
    /\ \A c \in Cursors : cursors[c] # NoCursor =>
        /\ {"owner", "owner_token", "file", "generation"} \subseteq DOMAIN cursors[c]
        /\ cursors[c].owner_token \in Nat /\ cursors[c].owner_token < next_token
        /\ \A a \in Addresses :
            Live(a) /\ Owns(a, cursors[c]) => heap[a].file = cursors[c].file

NativeInv == HeapTyped /\ TokensIdentify

(* The call that advances a cursor reads the file and the generation of    *)
(* the reader the cursor was created with.                                 *)
AdvancesReadTheirReader ==
    [][\A a \in Addresses, c \in Cursors, capacity \in BufferSizes :
          AdvanceCursor(a, c, capacity) =>
            /\ heap[a].file = cursors[c].file /\ heap[a].generation = cursors[c].generation
            /\ cursors'[c].file = cursors[c].file
            /\ cursors'[c].generation = cursors[c].generation]_nativeVars

LEMMA NativeInitially == NativeInit => NativeInv
BY NativeReadersAssumption DEF NativeInit, NativeInv, HeapTyped, TokensIdentify, Live

(* A new handle has a token that no cursor has, whatever its address.      *)
LEMMA OpenHandleHolds ==
    ASSUME NativeInv, NEW f \in Files, NEW a \in Addresses, OpenHandle(f, a) PROVE NativeInv'
<1> USE DEF NativeInv
<1>1. PICK y \in HandleRecord : heap' = [heap EXCEPT ![a] = y] /\ y.token = next_token
  <2>1. PICK y : y = [token |-> next_token, file |-> f, generation |-> Len(history[f])]
    OBVIOUS
  <2>2. PICK n \in Nat : n = Len(history[f])
    BY DEF HeapTyped
  <2>3. y \in HandleRecord
    BY <2>1, <2>2 DEF HeapTyped, HandleRecord
  <2> QED
    BY <2>1, <2>3 DEF OpenHandle, CtOpenReader
<1>2. next_token' = next_token + 1 /\ UNCHANGED <<history, cursors>>
  BY DEF OpenHandle, CtOpenReader
<1>3. HeapTyped'
  BY <1>1, <1>2 DEF HeapTyped
<1>4. heap'[a] = y /\ \A b \in Addresses : b # a => heap'[b] = heap[b]
  BY <1>1 DEF HeapTyped
<1>5. \A b \in Addresses : Live(b)' => heap'[b].token < next_token'
  BY SMTT(40), <1>1, <1>2, <1>4 DEF HeapTyped, TokensIdentify, Live, HandleRecord
<1>6. ASSUME NEW c \in Cursors, cursors[c] # NoCursor, NEW b \in Addresses, Live(b)',
             Owns(b, cursors[c])'
      PROVE  heap'[b].file = cursors[c].file
  <2>1. cursors[c].owner_token # next_token
    BY <1>6 DEF TokensIdentify, HeapTyped
  <2>2. b # a
    BY <1>1, <1>2, <1>4, <1>6, <2>1 DEF Owns
  <2> QED
    BY <1>2, <1>4, <1>6, <2>2 DEF TokensIdentify, Live, Owns
<1>7. TokensIdentify'
  BY <1>2, <1>5, <1>6 DEF TokensIdentify, HeapTyped
<1> QED
  BY <1>3, <1>7

(* The other steps of handles keep the tokens and the files of those that  *)
(* stay open.                                                              *)
LEMMA HandleStepHolds ==
    ASSUME NativeInv, NEW a \in Addresses, RefreshHandle(a) \/ CloseHandle(a)
    PROVE  NativeInv'
<1> USE DEF NativeInv
<1>1. UNCHANGED <<history, next_token, cursors>> /\ Live(a)
  BY DEF RefreshHandle, CloseHandle
<1>2. PICK x \in HandleRecord : x = heap[a]
  BY <1>1 DEF HeapTyped, Live
<1>3. PICK y : /\ heap' = [heap EXCEPT ![a] = y]
               /\ \/ y = Freed
                  \/ y \in HandleRecord /\ y.token = x.token /\ y.file = x.file
  <2>1. CASE RefreshHandle(a)
    <3>1. PICK n \in Nat : n = Len(history[x.file])
      BY <1>2 DEF HeapTyped, HandleRecord
    <3>2. PICK y : y = [x EXCEPT !.generation = n]
      OBVIOUS
    <3>3. y \in HandleRecord /\ y.token = x.token /\ y.file = x.file
      BY <3>2 DEF HandleRecord
    <3>4. heap' = [heap EXCEPT ![a] = y]
      BY <1>2, <2>1, <3>1, <3>2 DEF RefreshHandle, CtRefresh, HeapTyped
    <3> QED
      BY <3>3, <3>4
  <2>2. CASE CloseHandle(a)
    BY <2>2 DEF CloseHandle, CtClose
  <2> QED
    BY <2>1, <2>2
<1>4. heap'[a] = y /\ \A b \in Addresses : b # a => heap'[b] = heap[b]
  BY <1>3 DEF HeapTyped
<1>5. HeapTyped'
  BY <1>1, <1>3 DEF HeapTyped
<1>6. \A b \in Addresses : Live(b)' => /\ Live(b) /\ heap'[b].token = heap[b].token
                                       /\ heap'[b].file = heap[b].file
  BY <1>1, <1>2, <1>3, <1>4 DEF Live
<1>7. TokensIdentify'
  BY <1>1, <1>6 DEF TokensIdentify, Owns
<1> QED
  BY <1>5, <1>7

LEMMA CreateHolds ==
    ASSUME NativeInv, NEW a \in Addresses, NEW c \in Cursors, NEW range,
           CreateCursor(a, c, range)
    PROVE  NativeInv'
<1> USE DEF NativeInv
<1>1. UNCHANGED <<history, heap, next_token>> /\ Live(a)
  BY DEF CreateCursor
<1>2. PICK y : y = CursorState(a, range)
  OBVIOUS
<1>3. /\ {"owner", "owner_token", "file", "generation"} \subseteq DOMAIN y
      /\ y.owner = a /\ y.owner_token = heap[a].token /\ y.file = heap[a].file
  BY <1>2 DEF CursorState
<1>4. cursors' = [cursors EXCEPT ![c] = y]
  BY <1>2 DEF CreateCursor
<1>5. /\ cursors'[c] = y /\ DOMAIN cursors' = Cursors
      /\ \A d \in Cursors : d # c => cursors'[d] = cursors[d]
  BY <1>4 DEF HeapTyped
<1>6. HeapTyped'
  BY <1>1, <1>5 DEF HeapTyped
<1>7. heap[a].token \in Nat
  BY <1>1 DEF HeapTyped, Live, HandleRecord
<1>8. \A b \in Addresses : Live(b)' <=> Live(b)
  BY <1>1 DEF Live
<1>9. TokensIdentify'
  BY <1>1, <1>3, <1>5, <1>7, <1>8 DEF TokensIdentify, Owns
<1> QED
  BY <1>6, <1>9

(* A call moves the cursor on and leaves what identifies its reader.       *)
LEMMA CursorAfterReader ==
    ASSUME NEW a, NEW cursor, NEW capacity,
           {"owner", "owner_token", "file", "generation"} \subseteq DOMAIN cursor,
           NEW after \in CursorAfter(a, cursor, capacity)
    PROVE  /\ {"owner", "owner_token", "file", "generation"} \subseteq DOMAIN after
           /\ after.owner = cursor.owner /\ after.owner_token = cursor.owner_token
           /\ after.file = cursor.file /\ after.generation = cursor.generation
<1> DEFINE found == Remaining(a, cursor)
           copied == SubSeq(found, 1, Min({capacity, Len(found)}))
<1>1. PICK complete :
        after = [cursor EXCEPT !.delivered = @ \o copied,
                               !.next = IF copied = << >> THEN @ ELSE Last(copied) + 1,
                               !.complete = complete]
  BY DEF CursorAfter
<1> HIDE DEF copied
<1> QED
  BY <1>1

LEMMA AdvanceReads ==
    ASSUME NativeInv, NEW a \in Addresses, NEW c \in Cursors, NEW capacity,
           AdvanceCursor(a, c, capacity)
    PROVE  /\ NativeInv'
           /\ heap[a].file = cursors[c].file /\ heap[a].generation = cursors[c].generation
           /\ cursors'[c].file = cursors[c].file
           /\ cursors'[c].generation = cursors[c].generation
<1> USE DEF NativeInv
<1>1. /\ UNCHANGED <<history, heap, next_token>> /\ Live(a) /\ cursors[c] # NoCursor
      /\ Owns(a, cursors[c]) /\ cursors[c].generation = heap[a].generation
  BY DEF AdvanceCursor, CursorStatus
<1>2. PICK y \in CursorAfter(a, cursors[c], capacity) : cursors' = [cursors EXCEPT ![c] = y]
  BY DEF AdvanceCursor
<1>3. /\ {"owner", "owner_token", "file", "generation"} \subseteq DOMAIN y
      /\ y.owner = cursors[c].owner /\ y.owner_token = cursors[c].owner_token
      /\ y.file = cursors[c].file /\ y.generation = cursors[c].generation
  BY <1>1, <1>2, CursorAfterReader DEF TokensIdentify
<1>4. /\ cursors'[c] = y /\ DOMAIN cursors' = Cursors
      /\ \A d \in Cursors : d # c => cursors'[d] = cursors[d]
  BY <1>2 DEF HeapTyped
<1>5. HeapTyped'
  BY <1>1, <1>4 DEF HeapTyped
<1>6. \A b \in Addresses : Live(b)' <=> Live(b)
  BY <1>1 DEF Live
<1>7. TokensIdentify'
  BY <1>1, <1>3, <1>4, <1>6 DEF TokensIdentify, Owns
<1> QED
  BY <1>1, <1>3, <1>4, <1>5, <1>7 DEF TokensIdentify

LEMMA NativeStep == ASSUME NativeInv, [NativeNext]_nativeVars PROVE NativeInv'
<1>1. CASE UNCHANGED nativeVars
  BY <1>1 DEF nativeVars, NativeInv, HeapTyped, TokensIdentify, Live, Owns
<1>2. CASE Publish
  <2>1. history' \in [Files -> Seq(Seq(Nat)) \ {<< >>}] /\ UNCHANGED <<heap, next_token, cursors>>
    BY <1>2, HistoryGrows DEF NativeInv, HeapTyped, Publish, Histories
  <2> QED
    BY <2>1 DEF NativeInv, HeapTyped, TokensIdentify, Live, Owns
<1>3. ASSUME NEW f \in Files, NEW a \in Addresses, OpenHandle(f, a) PROVE NativeInv'
  BY <1>3, OpenHandleHolds
<1>4. ASSUME NEW a \in Addresses, RefreshHandle(a) \/ CloseHandle(a) PROVE NativeInv'
  BY <1>4, HandleStepHolds
<1>5. ASSUME NEW a \in Addresses, NEW c \in Cursors, NEW range \in Ranges,
             CreateCursor(a, c, range)
      PROVE  NativeInv'
  BY <1>5, CreateHolds
<1>6. ASSUME NEW a \in Addresses, NEW c \in Cursors, NEW capacity \in BufferSizes,
             AdvanceCursor(a, c, capacity)
      PROVE  NativeInv'
  BY <1>6, AdvanceReads
<1>7. ASSUME NEW c \in Cursors, DestroyCursor(c) PROVE NativeInv'
  BY <1>7 DEF DestroyCursor, NativeInv, HeapTyped, TokensIdentify, Live, Owns
<1> QED
  BY <1>1, <1>2, <1>3, <1>4, <1>5, <1>6, <1>7 DEF NativeNext

(* An address that is used again does not deceive a cursor: a call of      *)
(* ct_cursor_state_next that is not refused reads the file and the         *)
(* generation of the reader the cursor was created with, because a token   *)
(* is never given to two handles.                                          *)
THEOREM CursorReadsItsReader == NativeSpec => AdvancesReadTheirReader
<1>1. NativeInv /\ [NativeNext]_nativeVars =>
        [\A a \in Addresses, c \in Cursors, capacity \in BufferSizes :
          AdvanceCursor(a, c, capacity) =>
            /\ heap[a].file = cursors[c].file /\ heap[a].generation = cursors[c].generation
            /\ cursors'[c].file = cursors[c].file
            /\ cursors'[c].generation = cursors[c].generation]_nativeVars
  BY AdvanceReads
<1> QED
  BY <1>1, NativeInitially, NativeStep, PTL DEF NativeSpec, AdvancesReadTheirReader

(* Every cursor has delivered the beginning of its range of the generation *)
(* it was created in.                                                      *)
CursorsOnTrack ==
    \A c \in Cursors : cursors[c] # NoCursor =>
        Published(cursors[c]) /\ OnTrack(cursors[c], PointsOf(cursors[c]))

NativeDeliveryInv ==
    NativeInv /\ GenerationsOrdered /\ SnapshotsExist /\ CursorsOnTrack

LEMMA NativeDeliveryInitially == NativeInit => NativeDeliveryInv
BY NativeInitially, NativeReadersAssumption
DEF NativeInit, NativeDeliveryInv, GenerationsOrdered, SnapshotsExist, Live, CursorsOnTrack

(* One cursor becomes y, or there is no change of cursors.                 *)
LEMMA CursorStepOnTrack ==
    ASSUME CursorsOnTrack, DOMAIN cursors = Cursors, UNCHANGED history,
           NEW c \in Cursors, NEW y, cursors' = [cursors EXCEPT ![c] = y],
           y # NoCursor => Published(y) /\ OnTrack(y, PointsOf(y))
    PROVE  CursorsOnTrack'
<1>1. cursors'[c] = y /\ \A d \in Cursors : d # c => cursors'[d] = cursors[d]
  OBVIOUS
<1> SUFFICES ASSUME NEW d \in Cursors, cursors'[d] # NoCursor
             PROVE  Published(cursors[d])' /\ OnTrack(cursors'[d], PointsOf(cursors[d])')
  BY DEF CursorsOnTrack
<1>2. PICK x : x = cursors'[d]
  OBVIOUS
<1>3. Published(x) /\ OnTrack(x, PointsOf(x))
  BY <1>1, <1>2 DEF CursorsOnTrack
<1> QED
  BY <1>2, <1>3 DEF Published, PointsOf

LEMMA NativeDeliveryStep ==
    ASSUME NativeDeliveryInv, [NativeNext]_nativeVars PROVE NativeDeliveryInv'
<1>1. NativeInv /\ NativeInv' /\ history \in Histories
  BY NativeStep DEF NativeDeliveryInv, NativeInv, HeapTyped, Histories
<1>2. heap \in [Addresses -> HandleRecord \cup {Freed}] /\ DOMAIN cursors = Cursors
  BY <1>1 DEF NativeInv, HeapTyped
<1>3. CASE UNCHANGED <<history, cursors>> /\ SnapshotsExist'
  BY <1>1, <1>3 DEF NativeDeliveryInv, GenerationsOrdered, CursorsOnTrack, Published, PointsOf
<1>4. CASE UNCHANGED <<history, heap>> /\ CursorsOnTrack'
  BY <1>1, <1>4 DEF NativeDeliveryInv, GenerationsOrdered, SnapshotsExist, Live, Published
<1>5. CASE UNCHANGED nativeVars
  BY <1>3, <1>5 DEF nativeVars, NativeDeliveryInv, SnapshotsExist, Live, Published
<1>6. CASE Publish
  <2>1. GenerationsOrdered' /\ SnapshotsExist' /\ cursors' = cursors
    BY <1>1, <1>6, HistoryGrows, SnapshotsStayPublished DEF NativeDeliveryInv, Publish
  <2>2. ASSUME NEW c \in Cursors, cursors'[c] # NoCursor
        PROVE  Published(cursors[c])' /\ OnTrack(cursors'[c], PointsOf(cursors[c])')
    <3>1. PICK x : x = cursors[c]
      OBVIOUS
    <3>2. Published(x) /\ OnTrack(x, PointsOf(x))
      BY <2>1, <2>2, <3>1 DEF NativeDeliveryInv, CursorsOnTrack
    <3>3. Published(x)' /\ PointsOf(x)' = PointsOf(x)
      BY <1>1, <1>6, <3>2, PublishedStays
    <3> QED
      BY <2>1, <3>1, <3>2, <3>3 DEF Published, PointsOf
  <2> QED
    BY <1>1, <2>1, <2>2 DEF NativeDeliveryInv, CursorsOnTrack
<1>7. ASSUME NEW f \in Files, NEW a \in Addresses, OpenHandle(f, a) PROVE NativeDeliveryInv'
  BY <1>1, <1>2, <1>3, <1>7, SnapshotsStay DEF OpenHandle, NativeDeliveryInv
<1>8. ASSUME NEW a \in Addresses, RefreshHandle(a) \/ CloseHandle(a) PROVE NativeDeliveryInv'
  BY <1>1, <1>2, <1>3, <1>8, SnapshotsStay DEF RefreshHandle, CloseHandle, NativeDeliveryInv
<1>9. ASSUME NEW a \in Addresses, NEW c \in Cursors, NEW range \in Ranges,
             CreateCursor(a, c, range)
      PROVE  NativeDeliveryInv'
  <2>1. Live(a) /\ UNCHANGED <<history, heap>>
    BY <1>9 DEF CreateCursor
  <2>2. Published(heap[a])
    BY <2>1 DEF NativeDeliveryInv, SnapshotsExist
  <2>3. PICK points \in Seq(Nat) : points = PointsOf(heap[a]) /\ Increasing(points)
    BY <1>1, <2>2, PublishedPoints DEF NativeDeliveryInv
  <2>4. PICK y : y = CursorState(a, range)
    OBVIOUS
  <2>5. OnTrack(y, points)
    BY <2>3, <2>4, NewOnTrack, NativeReadersAssumption
  <2>6. y.file = heap[a].file /\ y.generation = heap[a].generation
    BY <2>4 DEF CursorState
  <2>7. Published(y) /\ PointsOf(y) = points
    BY <2>2, <2>3, <2>6 DEF Published, PointsOf
  <2>8. cursors' = [cursors EXCEPT ![c] = y]
    BY <1>9, <2>4 DEF CreateCursor
  <2> QED
    BY <1>2, <1>4, <2>1, <2>5, <2>7, <2>8, CursorStepOnTrack DEF NativeDeliveryInv
<1>10. ASSUME NEW a \in Addresses, NEW c \in Cursors, NEW capacity \in BufferSizes,
              AdvanceCursor(a, c, capacity)
       PROVE  NativeDeliveryInv'
  <2>1. cursors[c] # NoCursor /\ UNCHANGED <<history, heap>>
    BY <1>10 DEF AdvanceCursor
  <2>2. PICK x : x = cursors[c]
    OBVIOUS
  <2>3. Published(x) /\ OnTrack(x, PointsOf(x))
    BY <2>1, <2>2 DEF NativeDeliveryInv, CursorsOnTrack
  <2>4. PICK points \in Seq(Nat) : points = PointsOf(x) /\ Increasing(points)
    BY <1>1, <2>3, PublishedPoints DEF NativeDeliveryInv
  <2>5. heap[a].file = x.file /\ heap[a].generation = x.generation
    BY <1>1, <1>10, <2>2, AdvanceReads
  <2>6. Snapshot(a) = points
    BY <2>4, <2>5 DEF Snapshot, PointsOf
  <2>7. PICK y \in CursorAfter(a, x, capacity) : cursors' = [cursors EXCEPT ![c] = y]
    BY <1>10, <2>2 DEF AdvanceCursor
  <2>8. capacity \in Nat \ {0}
    BY NativeReadersAssumption
  <2>9. OnTrack(y, points) /\ y.file = x.file /\ y.generation = x.generation
    BY <2>3, <2>4, <2>6, <2>7, <2>8, CursorMoves
  <2>10. Published(y) /\ PointsOf(y) = points
    BY <2>3, <2>4, <2>9 DEF Published, PointsOf
  <2> QED
    BY <1>2, <1>4, <2>1, <2>7, <2>9, <2>10, CursorStepOnTrack DEF NativeDeliveryInv
<1>11. ASSUME NEW c \in Cursors, DestroyCursor(c) PROVE NativeDeliveryInv'
  BY <1>2, <1>4, <1>11, CursorStepOnTrack DEF DestroyCursor, NativeDeliveryInv
<1> QED
  BY <1>5, <1>6, <1>7, <1>8, <1>9, <1>10, <1>11 DEF NativeNext

(* Whatever handles a C program closes and opens, and whichever it passes, *)
(* a cursor delivers the range of its own generation in order and each     *)
(* point once, and is complete only when it has delivered all of it: what  *)
(* ct_cursor_state_next promises.                                          *)
THEOREM CursorDeliversItsReader == NativeSpec => []CursorStaysWithItsReader
<1>1. NativeDeliveryInv => CursorStaysWithItsReader
  <2> SUFFICES ASSUME NativeDeliveryInv, NEW c \in Cursors, cursors[c] # NoCursor
               PROVE  LET cursor == cursors[c]
                          asked == InRange(history[cursor.file][cursor.generation],
                                           cursor.start, cursor.end)
                      IN  /\ IsPrefix(cursor.delivered, asked)
                          /\ cursor.complete => cursor.delivered = asked
    BY DEF CursorStaysWithItsReader
  <2>1. PICK x : x = cursors[c]
    OBVIOUS
  <2>2. Published(x) /\ OnTrack(x, PointsOf(x))
    BY <2>1 DEF NativeDeliveryInv, CursorsOnTrack
  <2>3. PICK points \in Seq(Nat) : points = PointsOf(x)
    BY <2>2, PublishedPoints DEF NativeDeliveryInv, NativeInv, HeapTyped, Histories
  <2>4. LET asked == InRange(points, x.start, x.end) IN
        IsPrefix(x.delivered, asked) /\ (x.complete => x.delivered = asked)
    BY <2>2, <2>3, TrackMeans
  <2> QED
    BY <2>1, <2>3, <2>4 DEF PointsOf
<1> QED
  BY <1>1, NativeDeliveryInitially, NativeDeliveryStep, PTL DEF NativeSpec

-----------------------------------------------------------------------------
(* The Python writer.  Sequences of timestamps.                            *)

Ascends(q) == \A i, j \in 1 .. Len(q) : i < j => q[i] < q[j]

(* Everything in x is before everything in y.                              *)
Precedes(x, y) == \A i \in 1 .. Len(x), j \in 1 .. Len(y) : x[i] < y[j]

(* y goes on where x ends.                                                 *)
Continued(x, y) == Len(x) <= Len(y) /\ \A i \in 1 .. Len(x) : y[i] = x[i]

(* The points of k, in order of time, are among those of q.                *)
Held(k, q) == Ascends(k) /\ \A i \in 1 .. Len(k) : \E j \in 1 .. Len(q) : k[i] = q[j]

(* The code compares neighbours.                                           *)
LEMMA NeighboursAscend ==
    ASSUME NEW q \in Seq(Int), StrictlyIncreasing(q)
    PROVE  Ascends(q)
<1>1. PICK n \in Nat : n = Len(q) /\ \A i \in 1 .. n : q[i] \in Int
  OBVIOUS
<1>2. ASSUME NEW i \in 1 .. n PROVE \A j \in 1 .. n : i < j => q[i] < q[j]
  <2>1. PICK m \in Nat : m = n - i
    <3>1. n - i \in Nat
      BY <1>1
    <3> QED
      BY <3>1
  <2> DEFINE T == {d \in 0 .. m : d = 0 \/ q[i] < q[i + d]}
  <2>2. 0 \in T
    BY <2>1
  <2>3. ASSUME NEW d \in 0 .. m, d # m, d \in T PROVE d + 1 \in T
    <3>1. i + d \in 1 .. n /\ i + d + 1 \in 1 .. n /\ d + 1 \in 1 .. m
      BY <1>1, <2>1, <2>3
    <3>2. q[i + d] < q[i + d + 1]
      BY <1>1, <3>1 DEF StrictlyIncreasing
    <3>3. q[i] < q[i + (d + 1)]
      BY <1>1, <2>3, <3>1, <3>2
    <3> QED
      BY <3>1, <3>3
  <2> HIDE DEF T
  <2>4. \A d \in 0 .. m : d \in T
    BY <2>2, <2>3, Induction
  <2>5. ASSUME NEW j \in 1 .. n, i < j PROVE q[i] < q[j]
    <3>1. j - i \in 0 .. m /\ j - i # 0 /\ i + (j - i) = j
      BY <1>1, <2>1, <2>5
    <3>2. j - i \in T
      BY <2>4, <3>1
    <3> QED
      BY <3>1, <3>2 DEF T
  <2> QED
    BY <2>5
<1> QED
  BY <1>1, <1>2 DEF Ascends

LEMMA AscendsNeighbours ==
    ASSUME NEW q \in Seq(Int), Ascends(q) PROVE StrictlyIncreasing(q)
<1> SUFFICES ASSUME NEW i \in 1 .. Len(q) - 1 PROVE q[i] < q[i + 1]
  BY DEF StrictlyIncreasing
<1>1. i \in 1 .. Len(q) /\ i + 1 \in 1 .. Len(q) /\ i < i + 1
  OBVIOUS
<1> QED
  BY <1>1 DEF Ascends

(* Concatenation.                                                          *)
Joined(x, y, z) ==
    /\ z = x \o y /\ z \in Seq(Int) /\ Len(z) = Len(x) + Len(y)
    /\ \A i \in 1 .. Len(x) : z[i] = x[i]
    /\ \A j \in 1 .. Len(y) : z[Len(x) + j] = y[j]

LEMMA Joining ==
    ASSUME NEW x \in Seq(Int), NEW y \in Seq(Int)
    PROVE  \E z : Joined(x, y, z)
<1>1. PICK z : z = x \o y
  OBVIOUS
<1>2. /\ z \in Seq(Int) /\ Len(z) = Len(x) + Len(y)
      /\ \A i \in 1 .. Len(x) + Len(y) :
            z[i] = IF i <= Len(x) THEN x[i] ELSE y[i - Len(x)]
  BY <1>1, ConcatProperties
<1>3. PICK m, n \in Nat : m = Len(x) /\ n = Len(y)
  OBVIOUS
<1>4. \A i \in 1 .. m : z[i] = x[i]
  BY <1>2, <1>3
<1>5. ASSUME NEW j \in 1 .. n PROVE z[m + j] = y[j]
  <2>1. m + j \in 1 .. m + n /\ ~(m + j <= m) /\ (m + j) - m = j
    BY <1>3
  <2>2. \A i \in 1 .. m + n : z[i] = IF i <= m THEN x[i] ELSE y[i - m]
    BY <1>2, <1>3
  <2>3. z[m + j] = y[(m + j) - m]
    BY <2>1, <2>2
  <2> QED
    BY <2>1, <2>3
<1> QED
  BY <1>1, <1>2, <1>3, <1>4, <1>5 DEF Joined

LEMMA AscendsParts ==
    ASSUME NEW x \in Seq(Int), NEW y \in Seq(Int)
    PROVE  Ascends(x \o y) <=> Ascends(x) /\ Ascends(y) /\ Precedes(x, y)
<1>1. PICK z : Joined(x, y, z)
  BY Joining
<1>2. PICK m, n \in Nat : m = Len(x) /\ n = Len(y)
  OBVIOUS
<1>3. /\ Len(z) = m + n
      /\ \A i \in 1 .. m : z[i] = x[i] /\ x[i] \in Int
      /\ \A j \in 1 .. n : z[m + j] = y[j] /\ y[j] \in Int
  BY <1>1, <1>2 DEF Joined
<1>4. ASSUME Ascends(z) PROVE Ascends(x) /\ Ascends(y) /\ Precedes(x, y)
  <2>1. ASSUME NEW i \in 1 .. m, NEW j \in 1 .. m, i < j PROVE x[i] < x[j]
    <3>1. i \in 1 .. m + n /\ j \in 1 .. m + n
      OBVIOUS
    <3> QED
      BY <1>3, <1>4, <2>1, <3>1 DEF Ascends
  <2>2. ASSUME NEW i \in 1 .. n, NEW j \in 1 .. n, i < j PROVE y[i] < y[j]
    <3>1. m + i \in 1 .. m + n /\ m + j \in 1 .. m + n /\ m + i < m + j
      BY <2>2
    <3>2. z[m + i] < z[m + j]
      BY <1>3, <1>4, <3>1 DEF Ascends
    <3> QED
      BY <1>3, <3>2
  <2>3. ASSUME NEW i \in 1 .. m, NEW j \in 1 .. n PROVE x[i] < y[j]
    <3>1. i \in 1 .. m + n /\ m + j \in 1 .. m + n /\ i < m + j
      OBVIOUS
    <3>2. z[i] < z[m + j]
      BY <1>3, <1>4, <3>1 DEF Ascends
    <3> QED
      BY <1>3, <3>2
  <2> QED
    BY <1>2, <2>1, <2>2, <2>3 DEF Ascends, Precedes
<1>5. ASSUME Ascends(x), Ascends(y), Precedes(x, y) PROVE Ascends(z)
  <2>1. ASSUME NEW i \in 1 .. m + n, NEW j \in 1 .. m + n, i < j PROVE z[i] < z[j]
    <3>1. CASE j <= m
      <4>1. i \in 1 .. m /\ j \in 1 .. m
        BY <2>1, <3>1
      <4> QED
        BY <1>2, <1>3, <1>5, <2>1, <4>1 DEF Ascends
    <3>2. CASE i <= m /\ j > m
      <4>1. i \in 1 .. m /\ j - m \in 1 .. n /\ m + (j - m) = j
        BY <3>2
      <4>2. x[i] < y[j - m]
        BY <1>2, <1>5, <4>1 DEF Precedes
      <4>3. z[i] = x[i] /\ z[m + (j - m)] = y[j - m]
        BY <1>3, <4>1
      <4> QED
        BY <4>1, <4>2, <4>3
    <3>3. CASE i > m
      <4>1. /\ i - m \in 1 .. n /\ j - m \in 1 .. n /\ i - m < j - m
            /\ m + (i - m) = i /\ m + (j - m) = j
        BY <2>1, <3>3
      <4>2. y[i - m] < y[j - m]
        BY <1>2, <1>5, <4>1 DEF Ascends
      <4>3. z[m + (i - m)] = y[i - m] /\ z[m + (j - m)] = y[j - m]
        BY <1>3, <4>1
      <4> QED
        BY <4>1, <4>2, <4>3
    <3> QED
      BY <3>1, <3>2, <3>3
  <2> QED
    BY <1>3, <2>1 DEF Ascends
<1>6. z = x \o y
  BY <1>1 DEF Joined
<1> QED
  BY <1>4, <1>5, <1>6

LEMMA ContinuedTransitive ==
    ASSUME NEW x \in Seq(Int), NEW y \in Seq(Int), NEW z \in Seq(Int),
           Continued(x, y), Continued(y, z)
    PROVE  Continued(x, z)
<1>1. PICK l, m, n \in Nat : l = Len(x) /\ m = Len(y) /\ n = Len(z)
  OBVIOUS
<1>2. l <= m /\ m <= n /\ (\A i \in 1 .. l : y[i] = x[i]) /\ (\A i \in 1 .. m : z[i] = y[i])
  BY <1>1 DEF Continued
<1>3. \A i \in 1 .. l : i \in 1 .. m
  BY <1>2
<1> QED
  BY <1>1, <1>2, <1>3 DEF Continued

LEMMA ContinuedSame == ASSUME NEW x \in Seq(Int) PROVE Continued(x, x)
BY DEF Continued

LEMMA ContinuedConcat ==
    ASSUME NEW x \in Seq(Int), NEW y \in Seq(Int) PROVE Continued(x, x \o y)
<1>1. PICK z : Joined(x, y, z)
  BY Joining
<1>2. Len(x) \in Nat /\ Len(y) \in Nat
  OBVIOUS
<1> QED
  BY <1>1, <1>2 DEF Joined, Continued

LEMMA HeldGrows ==
    ASSUME NEW k \in Seq(Int), NEW q \in Seq(Int), NEW r \in Seq(Int),
           Held(k, q), Continued(q, r)
    PROVE  Held(k, r)
<1>1. \A j \in 1 .. Len(q) : j \in 1 .. Len(r) /\ r[j] = q[j]
  BY DEF Continued
<1> QED
  BY <1>1 DEF Held

LEMMA HeldSelf == ASSUME NEW q \in Seq(Int), Ascends(q) PROVE Held(q, q)
BY DEF Held

LEMMA HeldBoth ==
    ASSUME NEW k \in Seq(Int), NEW q \in Seq(Int), NEW p \in Seq(Int),
           Held(k, q), Ascends(q \o p)
    PROVE  Held(k \o p, q \o p)
<1>1. Ascends(q) /\ Ascends(p) /\ Precedes(q, p)
  BY AscendsParts
<1>2. Ascends(k) /\ \A i \in 1 .. Len(k) : \E j \in 1 .. Len(q) : k[i] = q[j]
  BY DEF Held
<1>3. Precedes(k, p)
  BY <1>1, <1>2 DEF Precedes
<1>4. Ascends(k \o p)
  BY <1>1, <1>2, <1>3, AscendsParts
<1>5. PICK x : Joined(k, p, x)
  BY Joining
<1>6. PICK y : Joined(q, p, y)
  BY Joining
<1>7. PICK l, m, n \in Nat : l = Len(k) /\ m = Len(q) /\ n = Len(p)
  OBVIOUS
<1>8. /\ Len(x) = l + n /\ Len(y) = m + n
      /\ \A i \in 1 .. l : x[i] = k[i]
      /\ \A i \in 1 .. m : y[i] = q[i]
      /\ \A j \in 1 .. n : x[l + j] = p[j] /\ y[m + j] = p[j]
  BY <1>5, <1>6, <1>7 DEF Joined
<1>9. ASSUME NEW i \in 1 .. l + n PROVE \E j \in 1 .. m + n : x[i] = y[j]
  <2>1. CASE i <= l
    <3>1. i \in 1 .. l
      BY <2>1
    <3>2. PICK j \in 1 .. m : k[i] = q[j]
      BY <1>2, <1>7, <3>1
    <3>3. j \in 1 .. m + n /\ x[i] = y[j]
      BY <1>8, <3>1, <3>2
    <3> QED
      BY <3>3
  <2>2. CASE i > l
    <3>1. i - l \in 1 .. n /\ l + (i - l) = i /\ m + (i - l) \in 1 .. m + n
      BY <2>2
    <3>2. x[l + (i - l)] = p[i - l] /\ y[m + (i - l)] = p[i - l]
      BY <1>8, <3>1
    <3> QED
      BY <3>1, <3>2
  <2> QED
    BY <2>1, <2>2
<1>10. x = k \o p /\ y = q \o p
  BY <1>5, <1>6 DEF Joined
<1>11. Ascends(x)
  BY <1>4, <1>10
<1>12. Held(x, y)
  BY <1>8, <1>9, <1>11 DEF Held
<1> QED
  BY <1>10, <1>12

(* Dropping the middle keeps the order.                                    *)
LEMMA AscendsWithout ==
    ASSUME NEW x \in Seq(Int), NEW y \in Seq(Int), NEW z \in Seq(Int),
           Ascends((x \o y) \o z)
    PROVE  Ascends(x \o z)
<1>1. PICK w : Joined(x, y, w)
  BY Joining
<1>2. w = x \o y /\ w \in Seq(Int) /\ \A i \in 1 .. Len(x) : i \in 1 .. Len(w) /\ w[i] = x[i]
  <2>1. Len(x) \in Nat /\ Len(y) \in Nat
    OBVIOUS
  <2> QED
    BY <1>1, <2>1 DEF Joined
<1>3. Ascends(w) /\ Ascends(z) /\ Precedes(w, z)
  BY <1>2, AscendsParts
<1>4. Ascends(x)
  BY <1>2, <1>3, AscendsParts
<1>5. Precedes(x, z)
  BY <1>2, <1>3 DEF Precedes
<1> QED
  BY <1>3, <1>4, <1>5, AscendsParts

-----------------------------------------------------------------------------
(* The native writer and the buffers.                                      *)

WriterRecord ==
    [open : BOOLEAN, poisoned : BOOLEAN, raised : BOOLEAN, fault : Int,
     buffers : [Series -> Seq(Int)], order : Seq(Series), appended : [Series -> Seq(Int)]]

Whole(w, s) == w.appended[s] \o w.buffers[s]

(* What has been appended is in order, and every buffer in use is listed.  *)
Well(w) ==
    /\ w \in WriterRecord
    /\ \A s \in Series :
        /\ Ascends(w.appended[s])
        /\ w.buffers[s] # << >> => \E i \in 1 .. Len(w.order) : w.order[i] = s

(* The buffers could be flushed.                                           *)
Unblocked(w) ==
    w.open /\ ~w.poisoned /\ \A s \in Series : Ascends(Whole(w, s))

(* The same series, whatever became of the call and the handle.            *)
SameSeries(w, v) ==
    v.appended = w.appended /\ v.buffers = w.buffers /\ v.order = w.order

Submits(w, v, s, batch) ==
    /\ v \in WriterRecord
    /\ v.buffers = w.buffers /\ v.order = w.order
    /\ v.appended = [w.appended EXCEPT ![s] = @ \o batch]
    /\ v.open = w.open /\ v.poisoned = w.poisoned /\ v.raised = w.raised

Refuses(w, v) ==
    /\ v \in WriterRecord /\ SameSeries(w, v)
    /\ v.open = w.open /\ (w.poisoned => v.poisoned) /\ v.raised

LEMMA WriterFields ==
    ASSUME NEW w \in WriterRecord
    PROVE  /\ w.open \in BOOLEAN /\ w.poisoned \in BOOLEAN /\ w.raised \in BOOLEAN
           /\ w.fault \in Int /\ w.order \in Seq(Series)
           /\ w.appended \in [Series -> Seq(Int)] /\ w.buffers \in [Series -> Seq(Int)]
BY DEF WriterRecord

LEMMA RaiseRefuses ==
    ASSUME NEW w \in WriterRecord
    PROVE  Refuses(w, Raise(w)) /\ Raise(w).poisoned = w.poisoned
BY DEF WriterRecord, Refuses, SameSeries, Raise

LEMMA AppendOutcome ==
    ASSUME NEW w \in WriterRecord, NEW s \in Series, NEW batch \in Seq(Int),
           NEW v, v = CtAppend(w, s, batch)
    PROVE  \/ v = w /\ (w.raised \/ batch = << >>)
           \/ /\ ~w.raised /\ Refuses(w, v)
              /\ ~w.open \/ v.poisoned \/ ~InOrder(w, s, batch)
           \/ /\ ~w.raised /\ w.open /\ ~w.poisoned /\ batch # << >>
              /\ InOrder(w, s, batch) /\ Submits(w, v, s, batch)
<1>1. CASE w.raised \/ (Usable(w) /\ batch = << >>)
  BY <1>1 DEF CtAppend
<1>2. CASE ~w.raised /\ ~(Usable(w) /\ batch = << >>) /\ (~Usable(w) \/ ~InOrder(w, s, batch))
  <2>1. v = Raise(w)
    BY <1>2 DEF CtAppend
  <2> QED
    BY <1>2, <2>1, RaiseRefuses DEF Usable
<1>3. CASE ~w.raised /\ Usable(w) /\ batch # << >> /\ InOrder(w, s, batch) /\ w.fault = 1
  <2>1. v = [Raise(w) EXCEPT !.poisoned = TRUE]
    BY <1>3 DEF CtAppend
  <2>2. Refuses(w, v) /\ v.poisoned
    BY <2>1 DEF WriterRecord, Refuses, SameSeries, Raise
  <2> QED
    BY <1>3, <2>2
<1>4. CASE ~w.raised /\ Usable(w) /\ batch # << >> /\ InOrder(w, s, batch) /\ w.fault # 1
  <2>1. v = [w EXCEPT !.appended[s] = @ \o batch, !.fault = @ - 1]
    BY <1>4 DEF CtAppend
  <2>2. w.appended[s] \o batch \in Seq(Int)
    BY WriterFields, ConcatProperties
  <2>3. PICK c \in Seq(Int) : c = w.appended[s] \o batch
    BY <2>2
  <2>4. PICK a : a = [w.appended EXCEPT ![s] = c]
    OBVIOUS
  <2>5. a \in [Series -> Seq(Int)] /\ a = [w.appended EXCEPT ![s] = @ \o batch]
    BY <2>3, <2>4, WriterFields
  <2>6. v = [w EXCEPT !.appended = a, !.fault = @ - 1]
    BY <2>1, <2>3, <2>4 DEF WriterRecord
  <2>7. w.fault - 1 \in Int
    BY WriterFields
  <2>8. Submits(w, v, s, batch)
    BY <2>5, <2>6, <2>7 DEF Submits, WriterRecord
  <2> QED
    BY <1>4, <2>8 DEF Usable
<1> QED
  BY <1>1, <1>2, <1>3, <1>4

(* A batch is in order if it continues what has been appended.             *)
LEMMA InOrderAscends ==
    ASSUME NEW w \in WriterRecord, NEW s \in Series, Ascends(w.appended[s]),
           NEW batch \in Seq(Int), batch # << >>
    PROVE  InOrder(w, s, batch) <=> Ascends(w.appended[s] \o batch)
<1>1. PICK a \in Seq(Int) : a = w.appended[s] /\ Ascends(a)
  BY WriterFields
<1>2. PICK m, n \in Nat : m = Len(a) /\ n = Len(batch)
  OBVIOUS
<1>3. n >= 1 /\ 1 \in 1 .. n
  <2>1. n # 0
    BY <1>2
  <2> QED
    BY <2>1
<1>4. /\ \A i \in 1 .. m : a[i] \in Int
      /\ \A i \in 1 .. n : batch[i] \in Int
  BY <1>2
<1>5. ASSUME InOrder(w, s, batch) PROVE Ascends(a \o batch)
  <2>1. Ascends(batch)
    BY <1>5, NeighboursAscend DEF InOrder
  <2>2. ASSUME NEW i \in 1 .. m, NEW j \in 1 .. n PROVE a[i] < batch[j]
    <3>1. m \in 1 .. m /\ a # << >>
      BY <1>2
    <3>2. a[m] < batch[1]
      BY <1>1, <1>2, <1>5, <3>1 DEF InOrder, Last
    <3>3. i = m \/ a[i] < a[m]
      <4>1. i = m \/ i < m
        BY <1>2
      <4> QED
        BY <1>1, <1>2, <3>1, <4>1 DEF Ascends
    <3>4. j = 1 \/ batch[1] < batch[j]
      BY <1>2, <1>3, <2>1 DEF Ascends
    <3>5. PICK b, c, d, e \in Int : b = a[i] /\ c = a[m] /\ d = batch[1] /\ e = batch[j]
      BY <1>3, <1>4, <3>1
    <3>6. b <= c /\ c < d /\ d <= e
      BY SMTT(40), <3>2, <3>3, <3>4, <3>5
    <3> QED
      BY SMTT(40), <3>5, <3>6
  <2>3. Precedes(a, batch)
    BY <1>2, <2>2 DEF Precedes
  <2> QED
    BY <1>1, <2>1, <2>3, AscendsParts
<1>6. ASSUME Ascends(a \o batch) PROVE InOrder(w, s, batch)
  <2>1. Ascends(batch) /\ Precedes(a, batch)
    BY <1>6, AscendsParts
  <2>2. StrictlyIncreasing(batch)
    BY <2>1, AscendsNeighbours
  <2>3. ASSUME a # << >> PROVE Last(a) < batch[1]
    <3>1. m \in 1 .. m
      BY <1>2, <2>3
    <3>2. a[m] < batch[1]
      BY <1>2, <1>3, <2>1, <3>1 DEF Precedes
    <3> QED
      BY <1>2, <3>2 DEF Last
  <2> QED
    BY <1>1, <2>2, <2>3 DEF InOrder
<1> QED
  BY <1>1, <1>5, <1>6

(* What every step of a method does: it never repairs what blocks.         *)
Follows(w, v) ==
    /\ Well(v)
    /\ v.open = w.open /\ (w.poisoned => v.poisoned) /\ (w.raised => v.raised)
    /\ \A s \in Series : Continued(w.appended[s], v.appended[s])
    /\ Unblocked(v) => Unblocked(w)

LEMMA WellFields ==
    ASSUME NEW w, Well(w)
    PROVE  /\ w \in WriterRecord
           /\ \A s \in Series : Ascends(w.appended[s]) /\ w.appended[s] \in Seq(Int)
                                /\ w.buffers[s] \in Seq(Int) /\ Whole(w, s) \in Seq(Int)
<1>1. w \in WriterRecord
  BY DEF Well
<1>2. ASSUME NEW s \in Series
      PROVE  Ascends(w.appended[s]) /\ w.appended[s] \in Seq(Int) /\ w.buffers[s] \in Seq(Int)
  BY <1>1, WriterFields DEF Well
<1>3. ASSUME NEW s \in Series PROVE Whole(w, s) \in Seq(Int)
  BY <1>2, ConcatProperties DEF Whole
<1> QED
  BY <1>1, <1>2, <1>3

LEMMA FollowsSame == ASSUME NEW w, Well(w) PROVE Follows(w, w)
<1>1. \A s \in Series : Continued(w.appended[s], w.appended[s])
  BY WellFields, ContinuedSame
<1> QED
  BY <1>1 DEF Follows

LEMMA FollowsTransitive ==
    ASSUME NEW u, NEW v, NEW w, Well(u), Follows(u, v), Follows(v, w)
    PROVE  Follows(u, w)
<1>1. Well(v) /\ Well(w)
  BY DEF Follows
<1>2. ASSUME NEW s \in Series PROVE Continued(u.appended[s], w.appended[s])
  <2>1. Continued(u.appended[s], v.appended[s]) /\ Continued(v.appended[s], w.appended[s])
    BY DEF Follows
  <2>2. PICK x, y, z \in Seq(Int) : x = u.appended[s] /\ y = v.appended[s] /\ z = w.appended[s]
    BY <1>1, WellFields
  <2> QED
    BY <2>1, <2>2, ContinuedTransitive
<1> QED
  BY <1>1, <1>2 DEF Follows

(* A refusal blocks nothing by itself, and unblocks nothing.               *)
LEMMA RefusesFollows ==
    ASSUME NEW w, Well(w), NEW v, Refuses(w, v)
    PROVE  Follows(w, v)
<1>1. v \in WriterRecord /\ SameSeries(w, v) /\ v.open = w.open /\ v.raised /\ (w.poisoned => v.poisoned)
  BY DEF Refuses
<1>2. Well(v)
  BY <1>1 DEF Well, SameSeries
<1>3. \A s \in Series : Continued(w.appended[s], v.appended[s])
  <2>1. \A s \in Series : Continued(w.appended[s], w.appended[s])
    BY WellFields, ContinuedSame
  <2> QED
    BY <1>1, <2>1 DEF SameSeries
<1>4. Unblocked(v) => Unblocked(w)
  BY <1>1 DEF Unblocked, Whole, SameSeries
<1> QED
  BY <1>1, <1>2, <1>3, <1>4 DEF Follows

(* One native append, and what it changes.                                 *)
Appends(w, v, s, batch) ==
    /\ Follows(w, v)
    /\ v.buffers = w.buffers /\ v.order = w.order
    /\ \A r \in Series \ {s} : v.appended[r] = w.appended[r]
    /\ v.appended[s] \in {w.appended[s], w.appended[s] \o batch}
    /\ ~v.raised => v.appended[s] = w.appended[s] \o batch

LEMMA SubmitsAppends ==
    ASSUME NEW w, Well(w), NEW s \in Series, NEW batch \in Seq(Int), batch # << >>,
           InOrder(w, s, batch), NEW v, Submits(w, v, s, batch)
    PROVE  Appends(w, v, s, batch)
<1>1. /\ v \in WriterRecord /\ v.buffers = w.buffers /\ v.order = w.order
      /\ v.appended = [w.appended EXCEPT ![s] = @ \o batch]
      /\ v.open = w.open /\ v.poisoned = w.poisoned /\ v.raised = w.raised
  BY DEF Submits
<1>2. w \in WriterRecord /\ w.appended \in [Series -> Seq(Int)]
  BY WellFields, WriterFields
<1>3. /\ v.appended[s] = w.appended[s] \o batch
      /\ \A r \in Series \ {s} : v.appended[r] = w.appended[r]
  BY <1>1, <1>2
<1>4. Ascends(w.appended[s] \o batch)
  BY <1>2, WellFields, InOrderAscends
<1>5. Well(v)
  <2>1. \A r \in Series : Ascends(v.appended[r])
    BY <1>3, <1>4, WellFields
  <2> QED
    BY <1>1, <2>1 DEF Well
<1>6. ASSUME NEW r \in Series PROVE Continued(w.appended[r], v.appended[r])
  <2>1. PICK a \in Seq(Int) : a = w.appended[r]
    BY WellFields
  <2> QED
    BY <1>3, <2>1, ContinuedSame, ContinuedConcat
<1>7. ASSUME Unblocked(v) PROVE Unblocked(w)
  <2>1. v.open /\ ~v.poisoned /\ \A r \in Series : Ascends(v.appended[r] \o v.buffers[r])
    BY <1>7 DEF Unblocked, Whole
  <2>2. PICK a, b \in Seq(Int) : a = w.appended[s] /\ b = w.buffers[s]
    BY WellFields
  <2>3. Ascends((a \o batch) \o b)
    BY <1>1, <1>3, <2>1, <2>2
  <2>4. Ascends(a \o b)
    BY <2>3, AscendsWithout
  <2>5. \A r \in Series : Ascends(w.appended[r] \o w.buffers[r])
    BY <1>1, <1>3, <2>1, <2>2, <2>4
  <2> QED
    BY <1>1, <2>1, <2>5 DEF Unblocked, Whole
<1>8. Follows(w, v)
  BY <1>1, <1>5, <1>6, <1>7 DEF Follows
<1> QED
  BY <1>1, <1>3, <1>8 DEF Appends

LEMMA CtAppendAppends ==
    ASSUME NEW w, Well(w), NEW s \in Series, NEW batch \in Seq(Int),
           NEW v, v = CtAppend(w, s, batch)
    PROVE  /\ Appends(w, v, s, batch)
           /\ w.raised => v = w
<1>1. w \in WriterRecord /\ w.appended[s] \in Seq(Int)
  BY WellFields
<1>2. CASE v = w /\ (w.raised \/ batch = << >>)
  <2>1. Follows(w, v)
    BY <1>2, FollowsSame
  <2>2. batch = << >> => w.appended[s] \o batch = w.appended[s]
    BY <1>1, ConcatEmptySeq
  <2> QED
    BY <1>2, <2>1, <2>2 DEF Appends
<1>3. CASE ~w.raised /\ Refuses(w, v)
  <2>1. Follows(w, v)
    BY <1>3, RefusesFollows
  <2> QED
    BY <1>3, <2>1 DEF Appends, Refuses, SameSeries
<1>4. CASE ~w.raised /\ batch # << >> /\ InOrder(w, s, batch) /\ Submits(w, v, s, batch)
  BY <1>4, SubmitsAppends
<1> QED
  BY <1>1, <1>2, <1>3, <1>4, AppendOutcome

(* A buffer that is replaced, and nothing else.                            *)
Rebuffered(w, v, s, c) ==
    /\ v \in WriterRecord
    /\ v.buffers[s] = c /\ \A r \in Series \ {s} : v.buffers[r] = w.buffers[r]
    /\ v.appended = w.appended /\ v.order = w.order
    /\ v.open = w.open /\ v.poisoned = w.poisoned /\ v.raised = w.raised

LEMMA BufferReplaced ==
    ASSUME NEW w \in WriterRecord, NEW s \in Series, NEW c \in Seq(Int),
           NEW v, v = [w EXCEPT !.buffers[s] = c]
    PROVE  Rebuffered(w, v, s, c)
<1>1. PICK b : b = [w.buffers EXCEPT ![s] = c]
  OBVIOUS
<1>2. /\ b \in [Series -> Seq(Int)] /\ b[s] = c
      /\ \A r \in Series \ {s} : b[r] = w.buffers[r]
  BY <1>1, WriterFields
<1>3. v = [w EXCEPT !.buffers = b]
  BY <1>1 DEF WriterRecord
<1> QED
  BY <1>2, <1>3 DEF Rebuffered, WriterRecord

(* A buffer in use that grows.                                             *)
Listed(w, s) == \E i \in 1 .. Len(w.order) : w.order[i] = s

Grown(w, s, c) == [w EXCEPT !.buffers[s] = @ \o c]

Lengthens(w, v, s, c) ==
    /\ Follows(w, v)
    /\ v.appended = w.appended /\ v.order = w.order /\ v.raised = w.raised
    /\ v.buffers[s] = w.buffers[s] \o c
    /\ \A r \in Series \ {s} : v.buffers[r] = w.buffers[r]

LEMMA BufferGrows ==
    ASSUME NEW w, Well(w), NEW s \in Series, Listed(w, s), NEW c \in Seq(Int),
           NEW v, v = Grown(w, s, c)
    PROVE  /\ Lengthens(w, v, s, c)
           /\ v.open = w.open /\ v.poisoned = w.poisoned
           /\ Whole(v, s) = Whole(w, s) \o c
<1>1. w \in WriterRecord
  BY WellFields
<1>2. PICK a, b \in Seq(Int) : a = w.appended[s] /\ b = w.buffers[s]
  BY WellFields
<1>3. PICK d : d = b \o c
  OBVIOUS
<1>4. d \in Seq(Int)
  BY <1>3, ConcatProperties
<1>5. v = [w EXCEPT !.buffers[s] = d]
  BY <1>1, <1>2, <1>3 DEF WriterRecord, Grown
<1>6. Rebuffered(w, v, s, d)
  BY <1>1, <1>4, <1>5, BufferReplaced
<1>7. /\ v \in WriterRecord /\ v.buffers[s] = d
      /\ \A r \in Series \ {s} : v.buffers[r] = w.buffers[r]
      /\ v.appended = w.appended /\ v.order = w.order
      /\ v.open = w.open /\ v.poisoned = w.poisoned /\ v.raised = w.raised
  BY <1>6 DEF Rebuffered
<1>8. Well(v)
  BY <1>7 DEF Well, Listed
<1>9. \A r \in Series : Continued(w.appended[r], v.appended[r])
  <2>1. \A r \in Series : Continued(w.appended[r], w.appended[r])
    BY WellFields, ContinuedSame
  <2> QED
    BY <1>7, <2>1
<1>10. (a \o b) \o c = a \o d
  <2>1. Associates(a, b, c)
    BY Regrouping
  <2> QED
    BY <1>3, <2>1 DEF Associates
<1>11. Whole(v, s) = Whole(w, s) \o c
  BY <1>2, <1>7, <1>10 DEF Whole
<1>12. ASSUME Unblocked(v) PROVE Unblocked(w)
  <2>1. \A r \in Series : Ascends(v.appended[r] \o v.buffers[r])
    BY <1>12 DEF Unblocked, Whole
  <2>2. PICK x \in Seq(Int) : x = a \o b
    BY ConcatProperties
  <2>3. Ascends(x \o c)
    BY <1>2, <1>7, <1>10, <2>1, <2>2
  <2>4. Ascends(x)
    BY <2>3, AscendsParts
  <2>5. \A r \in Series : Ascends(w.appended[r] \o w.buffers[r])
    BY <1>2, <1>7, <2>1, <2>2, <2>4
  <2> QED
    BY <1>7, <1>12, <2>5 DEF Unblocked, Whole
<1>13. Follows(w, v)
  BY <1>7, <1>8, <1>9, <1>12 DEF Follows
<1> QED
  BY <1>2, <1>3, <1>7, <1>11, <1>13 DEF Lengthens

(* A flush of one series moves its points, or fails and leaves them.  What *)
(* it fails on stays in the way.                                           *)
Flushes(w, v, s) ==
    /\ Follows(w, v) /\ v.order = w.order
    /\ \A r \in Series \ {s} : v.appended[r] = w.appended[r] /\ v.buffers[r] = w.buffers[r]
    /\ Whole(v, s) = Whole(w, s)
    /\ v.buffers[s] \in {w.buffers[s], << >>}
    /\ ~v.raised => v.buffers[s] = << >>
    /\ v.raised /\ ~w.raised => ~Unblocked(v)

LEMMA FlushFlushes ==
    ASSUME NEW w, Well(w), NEW s \in Series, w.buffers[s] # << >>,
           NEW v, v = FlushSeries(w, s)
    PROVE  Flushes(w, v, s)
<1>1. PICK after : after = CtAppend(w, s, w.buffers[s])
  OBVIOUS
<1>2. w \in WriterRecord
  BY WellFields
<1>3. PICK a, b \in Seq(Int) : a = w.appended[s] /\ b = w.buffers[s] /\ Ascends(a)
  BY WellFields
<1>4. v = IF after.raised THEN after ELSE [after EXCEPT !.buffers[s] = << >>]
  BY <1>1 DEF FlushSeries
<1>5. Appends(w, after, s, b) /\ (w.raised => after = w)
  BY <1>1, <1>3, CtAppendAppends
<1>6. \/ after = w /\ w.raised
      \/ /\ ~w.raised /\ Refuses(w, after)
         /\ ~w.open \/ after.poisoned \/ ~InOrder(w, s, b)
      \/ /\ ~w.raised /\ Submits(w, after, s, b)
  BY <1>1, <1>2, <1>3, AppendOutcome
<1>7. CASE after = w /\ w.raised
  <2>1. v = w
    BY <1>4, <1>7
  <2> QED
    BY <1>7, <2>1, FollowsSame DEF Flushes
<1>8. CASE /\ ~w.raised /\ Refuses(w, after)
           /\ ~w.open \/ after.poisoned \/ ~InOrder(w, s, b)
  <2>1. v = after /\ v.raised /\ SameSeries(w, v) /\ Follows(w, v) /\ v.open = w.open
    BY <1>4, <1>5, <1>8 DEF Refuses, Appends
  <2>2. InOrder(w, s, b) <=> Ascends(a \o b)
    BY <1>2, <1>3, InOrderAscends
  <2>3. ~Unblocked(v)
    BY <1>3, <1>8, <2>1, <2>2 DEF Unblocked, Whole, SameSeries
  <2> QED
    BY <2>1, <2>3 DEF Flushes, Whole, SameSeries
<1>9. CASE ~w.raised /\ Submits(w, after, s, b)
  <2>1. ~after.raised /\ after.buffers = w.buffers /\ after.order = w.order
    BY <1>9 DEF Submits
  <2>2. after.appended[s] = a \o b /\ \A r \in Series \ {s} : after.appended[r] = w.appended[r]
    BY <1>3, <1>5, <2>1 DEF Appends
  <2>3. Follows(w, after) /\ Well(after) /\ after \in WriterRecord
    BY <1>5 DEF Appends, Follows, Well
  <2>4. PICK e : e = << >>
    OBVIOUS
  <2>5. e \in Seq(Int)
    BY <2>4
  <2>6. v = [after EXCEPT !.buffers[s] = e]
    BY <1>4, <2>1, <2>4
  <2>7. Rebuffered(after, v, s, e)
    BY <2>3, <2>5, <2>6, BufferReplaced
  <2>8. /\ v \in WriterRecord /\ v.buffers[s] = e
        /\ \A r \in Series \ {s} : v.buffers[r] = w.buffers[r]
        /\ v.appended = after.appended /\ v.order = w.order
        /\ v.open = after.open /\ v.poisoned = after.poisoned /\ ~v.raised
    BY <2>1, <2>7 DEF Rebuffered
  <2>9. Well(v)
    <3>1. \A r \in Series : Ascends(v.appended[r])
      BY <2>3, <2>8 DEF Well
    <3>2. ASSUME NEW r \in Series, v.buffers[r] # << >> PROVE \E i \in 1 .. Len(w.order) : w.order[i] = r
      <4>1. r # s /\ w.buffers[r] # << >>
        BY <2>4, <2>8, <3>2
      <4> QED
        BY <4>1 DEF Well
    <3> QED
      BY <2>8, <3>1, <3>2 DEF Well
  <2>10. PICK x \in Seq(Int) : x = a \o b
    BY ConcatProperties
  <2>11. x \o e = x
    BY <2>4, ConcatEmptySeq
  <2>12. Whole(v, s) = x /\ Whole(w, s) = x
    BY <1>3, <2>2, <2>8, <2>10, <2>11 DEF Whole
  <2>13. \A r \in Series \ {s} : Whole(v, r) = Whole(w, r)
    BY <2>2, <2>8 DEF Whole
  <2>14. v.open = w.open /\ (w.poisoned <=> v.poisoned)
    BY <1>9, <2>8 DEF Submits
  <2>15. Unblocked(v) => Unblocked(w)
    BY <2>12, <2>13, <2>14 DEF Unblocked
  <2>16. \A r \in Series : Continued(w.appended[r], v.appended[r])
    BY <2>3, <2>8 DEF Follows
  <2>17. Follows(w, v)
    BY <1>9, <2>9, <2>14, <2>15, <2>16 DEF Follows
  <2> QED
    BY <2>2, <2>4, <2>8, <2>12, <2>17 DEF Flushes
<1> QED
  BY <1>6, <1>7, <1>8, <1>9

-----------------------------------------------------------------------------
(* Slices.                                                                 *)

LEMMA MaxOfTwo ==
    ASSUME NEW x \in Int, NEW y \in Int PROVE Max({x, y}) = IF x >= y THEN x ELSE y
<1>1. PICK z \in {x, y} : \A u \in {x, y} : z >= u
  OBVIOUS
<1>2. Max({x, y}) \in {x, y} /\ \A u \in {x, y} : Max({x, y}) >= u
  BY <1>1 DEF Max
<1> QED
  BY <1>2

LEMMA MinOfTwo ==
    ASSUME NEW x \in Int, NEW y \in Int PROVE Min({x, y}) = IF x <= y THEN x ELSE y
<1>1. PICK z \in {x, y} : \A u \in {x, y} : z <= u
  OBVIOUS
<1>2. Min({x, y}) \in {x, y} /\ \A u \in {x, y} : Min({x, y}) <= u
  BY <1>1 DEF Min
<1> QED
  BY <1>2

Upto(n, x) == IF x <= n THEN x ELSE n

LEMMA PositionWithin ==
    ASSUME NEW list \in Seq(Int), NEW n \in Nat, n = Len(list), NEW i \in Int
    PROVE  /\ SlicePosition(list, i) \in 0 .. n
           /\ i >= 0 => SlicePosition(list, i) = Upto(n, i)
<1>1. CASE i < 0
  <2>1. SlicePosition(list, i) = Max({0, n + i})
    BY <1>1 DEF SlicePosition
  <2>2. Max({0, n + i}) = IF 0 >= n + i THEN 0 ELSE n + i
    BY MaxOfTwo
  <2> QED
    BY <1>1, <2>1, <2>2
<1>2. CASE i >= 0
  <2>1. SlicePosition(list, i) = Min({i, n})
    BY <1>2 DEF SlicePosition
  <2>2. Min({i, n}) = IF i <= n THEN i ELSE n
    BY MinOfTwo
  <2> QED
    BY <1>2, <2>1, <2>2 DEF Upto
<1> QED
  BY <1>1, <1>2

(* The points of a list after position a, up to position b.                *)
Part(list, a, b) == SubSeq(list, a + 1, b)

LEMMA PartTyped ==
    ASSUME NEW list \in Seq(Int), NEW n \in Nat, n = Len(list),
           NEW a \in 0 .. n, NEW b \in 0 .. n
    PROVE  /\ Part(list, a, b) \in Seq(Int)
           /\ a <= b => Len(Part(list, a, b)) = b - a
<1>1. PICK c \in Int : c = a + 1
  OBVIOUS
<1>2. b \in Int /\ \A i \in c .. b : list[i] \in Int
  BY <1>1
<1>3. /\ SubSeq(list, c, b) \in Seq(Int)
      /\ Len(SubSeq(list, c, b)) = IF c <= b THEN b - c + 1 ELSE 0
  BY <1>1, <1>2, SubSeqProperties
<1> QED
  BY <1>1, <1>3 DEF Part

LEMMA PartJoins ==
    ASSUME NEW list \in Seq(Int), NEW n \in Nat, n = Len(list),
           NEW a \in 0 .. n, NEW b \in a .. n, NEW c \in b .. n
    PROVE  Part(list, a, b) \o Part(list, b, c) = Part(list, a, c)
<1>1. PICK d : d = a + 1
  OBVIOUS
<1>2. d \in 1 .. Len(list) + 1 /\ b \in d - 1 .. Len(list) /\ c \in b .. Len(list)
  BY <1>1
<1>3. SubSeq(list, d, b) \o SubSeq(list, b + 1, c) = SubSeq(list, d, c)
  BY <1>2, ConcatAdjacentSubSeq
<1> QED
  BY <1>1, <1>3 DEF Part

LEMMA PartEmpty == ASSUME NEW list \in Seq(Int), NEW a \in Nat PROVE Part(list, a, a) = << >>
BY SubSeqEmpty DEF Part

LEMMA PartWhole ==
    ASSUME NEW list \in Seq(Int), NEW n, n = Len(list) PROVE Part(list, 0, n) = list
BY SubSeqFull DEF Part

LEMMA SliceIsPart ==
    ASSUME NEW list \in Seq(Int), NEW n \in Nat, n = Len(list), NEW i \in Int, NEW j \in Int
    PROVE  /\ Slice(list, i, j) \in Seq(Int)
           /\ i >= 0 /\ i <= n /\ j >= 0 => Slice(list, i, j) = Part(list, i, Upto(n, j))
<1>1. PICK a, b \in 0 .. n : a = SlicePosition(list, i) /\ b = SlicePosition(list, j)
  BY PositionWithin
<1>2. Slice(list, i, j) = Part(list, a, b)
  BY <1>1 DEF Slice, Part
<1>3. i >= 0 /\ i <= n /\ j >= 0 => a = i /\ b = Upto(n, j)
  BY <1>1, PositionWithin DEF Upto
<1> QED
  BY <1>1, <1>2, <1>3, PartTyped

-----------------------------------------------------------------------------
(* Batches, one after the other.                                           *)

Wells == {w \in WriterRecord : Well(w)}

BatchesRun(g, w, s, list, offset, k) ==
    g[0] = w /\ \A i \in 1 .. k : g[i] = CtAppend(g[i - 1], s, Batch(list, offset, i))

LEMMA BatchTyped ==
    ASSUME NEW list \in Seq(Int), NEW offset \in Int, NEW i \in Int
    PROVE  Batch(list, offset, i) \in Seq(Int)
<1>1. PICK x, y \in Int : x = offset + (i - 1) * BatchSize /\ y = offset + i * BatchSize
  BY PythonWriterAssumption
<1>2. PICK n \in Nat : n = Len(list)
  OBVIOUS
<1>3. Slice(list, x, y) \in Seq(Int)
  BY <1>2, SliceIsPart
<1> QED
  BY <1>1, <1>3 DEF Batch

LEMMA AppendBatchesRun ==
    ASSUME NEW w, Well(w), NEW s \in Series, NEW list \in Seq(Int), NEW offset \in Int,
           NEW k \in Nat
    PROVE  \E g : BatchesRun(g, w, s, list, offset, k) /\ AppendBatches(w, s, list, offset, k) = g[k]
<1> DEFINE F == [p \in (1 .. k) \X Wells |-> CtAppend(p[2], s, Batch(list, offset, p[1]))]
<1>1. ASSUME NEW i \in 1 .. k, NEW v \in Wells
      PROVE  F[<<i, v>>] = CtAppend(v, s, Batch(list, offset, i)) /\ F[<<i, v>>] \in Wells
  <2>1. PICK u : u = CtAppend(v, s, Batch(list, offset, i))
    OBVIOUS
  <2>2. Batch(list, offset, i) \in Seq(Int) /\ Well(v)
    BY BatchTyped DEF Wells
  <2>3. Appends(v, u, s, Batch(list, offset, i))
    BY <2>1, <2>2, CtAppendAppends
  <2>4. Well(u)
    BY <2>3 DEF Appends, Follows
  <2>5. u \in Wells
    BY <2>4 DEF Wells, Well
  <2>6. F[<<i, v>>] = u
    BY <2>1
  <2> QED
    BY <2>1, <2>5, <2>6
<1> HIDE DEF F
<1>2. w \in Wells
  BY DEF Wells, Well
<1>3. PICK f \in [0 .. k -> Wells] : Iterates(f, w, F, k)
  BY <1>1, <1>2, Recursion
<1>4. ASSUME NEW i \in 1 .. k PROVE f[i] = CtAppend(f[i - 1], s, Batch(list, offset, i))
  <2>1. i - 1 \in 0 .. k
    OBVIOUS
  <2>2. f[i - 1] \in Wells
    BY <2>1
  <2> QED
    BY <1>1, <1>3, <2>2 DEF Iterates
<1>5. f[0] = w
  BY <1>3 DEF Iterates
<1> DEFINE Is(h) == h = [i \in 0 .. k |->
                            IF i = 0 THEN w ELSE CtAppend(h[i - 1], s, Batch(list, offset, i))]
<1>6. Is(f)
  BY <1>4, <1>5
<1>7. PICK g : g = (CHOOSE h : Is(h)) /\ Is(g)
  BY ZenonT(60), <1>6
<1>8. AppendBatches(w, s, list, offset, k) = g[k]
  BY <1>7 DEF AppendBatches
<1>9. \A i \in 0 .. k : g[i] = IF i = 0 THEN w ELSE CtAppend(g[i - 1], s, Batch(list, offset, i))
  BY Zenon, <1>7
<1>10. BatchesRun(g, w, s, list, offset, k)
  <2>1. 0 \in 0 .. k /\ \A i \in 1 .. k : i \in 0 .. k /\ i # 0
    OBVIOUS
  <2> QED
    BY Zenon, <1>9, <2>1 DEF BatchesRun
<1> QED
  BY <1>8, <1>10

(* Where batch i ends.                                                     *)
BatchEnd(list, offset, i) == Upto(Len(list), offset + i * BatchSize)

(* The batches do not pass the end of the list by more than one.           *)
BatchesWithin(list, offset, k) ==
    /\ offset \in 0 .. Len(list)
    /\ k # 0 => offset + (k - 1) * BatchSize <= Len(list)

LEMMA BatchIsPart ==
    ASSUME NEW list \in Seq(Int), NEW offset, NEW k \in Nat, BatchesWithin(list, offset, k),
           NEW i \in 1 .. k
    PROVE  /\ Batch(list, offset, i)
                = Part(list, BatchEnd(list, offset, i - 1), BatchEnd(list, offset, i))
           /\ BatchEnd(list, offset, i - 1) \in offset .. Len(list)
           /\ BatchEnd(list, offset, i) \in BatchEnd(list, offset, i - 1) .. Len(list)
<1>1. PICK n \in Nat : n = Len(list)
  OBVIOUS
<1>2. PICK B \in Nat \ {0} : B = BatchSize
  BY PythonWriterAssumption
<1>3. PICK x, y, z \in Int : x = (i - 1) * B /\ y = i * B /\ z = (k - 1) * B
  BY <1>2
<1>4. 0 <= x /\ y = x + B /\ x <= z
  <2>1. PICK j, l \in Nat : j = i - 1 /\ l = k - i
    <3>1. i - 1 \in Nat /\ k - i \in Nat
      OBVIOUS
    <3> QED
      BY <3>1
  <2>2. (i - 1) * B = j * B /\ i * B = j * B + B /\ j * B \in Nat
    BY <1>2, <2>1
  <2>3. (k - 1) * B = j * B + l * B /\ l * B \in Nat
    BY <1>2, <2>1
  <2> QED
    BY <1>3, <2>2, <2>3
<1>5. offset \in 0 .. n /\ offset + z <= n
  BY <1>1, <1>2, <1>3 DEF BatchesWithin
<1>6. PICK a, b \in Int : a = offset + x /\ b = offset + y
  BY <1>3, <1>5
<1>7. a \in offset .. n /\ b >= a /\ b >= 0
  BY <1>2, <1>4, <1>5, <1>6, <1>3
<1>8. Slice(list, a, b) = Part(list, a, Upto(n, b))
  BY <1>1, <1>5, <1>7, SliceIsPart
<1>9. BatchEnd(list, offset, i - 1) = a /\ BatchEnd(list, offset, i) = Upto(n, b)
  BY <1>1, <1>2, <1>3, <1>6, <1>7 DEF BatchEnd, Upto
<1>10. Batch(list, offset, i) = Slice(list, a, b)
  BY <1>2, <1>3, <1>6 DEF Batch
<1>11. Upto(n, b) \in a .. n
  BY <1>7 DEF Upto
<1> QED
  BY <1>1, <1>7, <1>8, <1>9, <1>10, <1>11

(* After some batches.                                                     *)
Batched(w, v, s) ==
    /\ Follows(w, v) /\ v.buffers = w.buffers /\ v.order = w.order
    /\ \A r \in Series \ {s} : v.appended[r] = w.appended[r]

LEMMA BatchesFollow ==
    ASSUME NEW w, Well(w), NEW s \in Series, NEW list \in Seq(Int), NEW offset \in Int,
           NEW k \in Nat, NEW v, v = AppendBatches(w, s, list, offset, k)
    PROVE  Batched(w, v, s)
<1>1. PICK g : BatchesRun(g, w, s, list, offset, k) /\ v = g[k]
  BY AppendBatchesRun
<1> DEFINE T == {i \in 0 .. k : Batched(w, g[i], s)}
<1>2. 0 \in T
  BY <1>1, FollowsSame DEF BatchesRun, Batched
<1>3. ASSUME NEW i \in 0 .. k, i # k, i \in T PROVE i + 1 \in T
  <2>1. PICK j \in 1 .. k : j = i + 1 /\ j - 1 = i
    BY <1>3
  <2>2. PICK u, x, b : u = g[i] /\ x = g[j] /\ b = Batch(list, offset, j)
    OBVIOUS
  <2>3. Batched(w, u, s) /\ b \in Seq(Int)
    BY <1>3, <2>2, BatchTyped
  <2>4. x = CtAppend(u, s, b)
    BY <1>1, <2>1, <2>2 DEF BatchesRun
  <2>5. Follows(w, u) /\ Well(u)
    BY <2>3 DEF Batched, Follows
  <2>6. Appends(u, x, s, b)
    BY <2>3, <2>4, <2>5, CtAppendAppends
  <2>7. Follows(w, x)
    BY <2>5, <2>6, FollowsTransitive DEF Appends
  <2>8. Batched(w, x, s)
    BY <2>3, <2>6, <2>7 DEF Batched, Appends
  <2> QED
    BY <2>1, <2>2, <2>8
<1> HIDE DEF T
<1>4. \A i \in 0 .. k : i \in T
  BY <1>2, <1>3, Induction
<1>5. k \in T
  BY <1>4
<1> QED
  BY <1>1, <1>5 DEF T

LEMMA BatchesAppend ==
    ASSUME NEW w, Well(w), NEW s \in Series, NEW list \in Seq(Int), NEW offset,
           NEW k \in Nat, BatchesWithin(list, offset, k),
           NEW v, v = AppendBatches(w, s, list, offset, k), ~v.raised
    PROVE  v.appended[s] = w.appended[s] \o Part(list, offset, BatchEnd(list, offset, k))
<1>0. offset \in Int /\ offset \in 0 .. Len(list)
  BY DEF BatchesWithin
<1>1. PICK g : BatchesRun(g, w, s, list, offset, k) /\ v = g[k]
  BY <1>0, AppendBatchesRun
<1>2. PICK a \in Seq(Int) : a = w.appended[s]
  BY WellFields
<1> DEFINE T == {i \in 0 .. k :
                    /\ Well(g[i])
                    /\ ~g[i].raised =>
                        g[i].appended[s] = a \o Part(list, offset, BatchEnd(list, offset, i))}
<1>3. 0 \in T
  <2>1. BatchEnd(list, offset, 0) = offset
    <3>1. 0 * BatchSize = 0
      BY PythonWriterAssumption
    <3> QED
      BY <1>0, <3>1 DEF BatchEnd, Upto
  <2>2. a \o Part(list, offset, offset) = a
    BY <1>0, PartEmpty, ConcatEmptySeq
  <2> QED
    BY SMTT(40), <1>1, <1>2, <2>1, <2>2 DEF BatchesRun
<1>4. ASSUME NEW i \in 0 .. k, i # k, i \in T PROVE i + 1 \in T
  <2>1. PICK j \in 1 .. k : j = i + 1 /\ j - 1 = i
    BY <1>4
  <2>2. PICK u, x, b : u = g[i] /\ x = g[j] /\ b = Batch(list, offset, j)
    OBVIOUS
  <2>3. PICK n, e, f : n = Len(list) /\ e = BatchEnd(list, offset, i) /\ f = BatchEnd(list, offset, j)
    OBVIOUS
  <2>4. b = Part(list, e, f) /\ e \in offset .. n /\ f \in e .. n
    BY <2>1, <2>2, <2>3, BatchIsPart
  <2>5. n \in Nat /\ offset \in 0 .. n /\ e \in 0 .. n /\ f \in 0 .. n /\ e \in offset .. n /\ f \in e .. n
    BY <1>0, <2>3, <2>4
  <2>6. b \in Seq(Int)
    BY <2>3, <2>4, <2>5, PartTyped
  <2>7. Well(u) /\ (~u.raised => u.appended[s] = a \o Part(list, offset, e))
    BY <1>4, <2>2, <2>3
  <2>8. x = CtAppend(u, s, b)
    BY <1>1, <2>1, <2>2 DEF BatchesRun
  <2>9. Appends(u, x, s, b)
    BY <2>6, <2>7, <2>8, CtAppendAppends
  <2>10. Well(x)
    BY <2>9 DEF Appends, Follows
  <2>11. ASSUME ~x.raised PROVE x.appended[s] = a \o Part(list, offset, f)
    <3>1. ~u.raised /\ x.appended[s] = u.appended[s] \o b
      BY <2>9, <2>11 DEF Appends, Follows
    <3>2. PICK c \in Seq(Int) : c = Part(list, offset, e)
      BY <2>3, <2>5, PartTyped
    <3>3. c \o b = Part(list, offset, f)
      BY ZenonT(60), <2>3, <2>4, <2>5, <3>2, PartJoins
    <3>4. Associates(a, c, b)
      BY <2>6, Regrouping
    <3> QED
      BY <2>7, <3>1, <3>2, <3>3, <3>4 DEF Associates
  <2> QED
    BY SMTT(40), <2>1, <2>2, <2>3, <2>10, <2>11
<1> HIDE DEF T
<1>5. \A i \in 0 .. k : i \in T
  BY <1>3, <1>4, Induction
<1>6. k \in T
  BY <1>5
<1> QED
  BY <1>1, <1>2, <1>6 DEF T

-----------------------------------------------------------------------------
(* The flush of all series.                                                *)

LEMMA FlushIfAnyFlushes ==
    ASSUME NEW w, Well(w), NEW s \in Series, NEW v, v = FlushIfAny(w, s)
    PROVE  Flushes(w, v, s)
<1>1. CASE w.buffers[s] = << >>
  <2>1. v = w
    BY <1>1 DEF FlushIfAny
  <2> QED
    BY <1>1, <2>1, FollowsSame DEF Flushes
<1>2. CASE w.buffers[s] # << >>
  <2>1. v = FlushSeries(w, s)
    BY <1>2 DEF FlushIfAny
  <2> QED
    BY <1>2, <2>1, FlushFlushes
<1> QED
  BY <1>1, <1>2

FlushRuns(g, w, m) ==
    g[0] = w /\ \A n \in 1 .. m : g[n] = FlushIfAny(g[n - 1], w.order[n])

LEMMA FlushRun ==
    ASSUME NEW w, Well(w), NEW m \in Nat, m = Len(w.order)
    PROVE  \E g : FlushRuns(g, w, m) /\ Flush(w) = g[m]
<1> DEFINE F == [p \in (1 .. m) \X Wells |-> FlushIfAny(p[2], w.order[p[1]])]
<1>0. w.order \in Seq(Series) /\ \A n \in 1 .. m : w.order[n] \in Series
  BY WellFields, WriterFields
<1>1. ASSUME NEW n \in 1 .. m, NEW v \in Wells
      PROVE  F[<<n, v>>] = FlushIfAny(v, w.order[n]) /\ F[<<n, v>>] \in Wells
  <2>1. PICK u : u = FlushIfAny(v, w.order[n])
    OBVIOUS
  <2>2. Flushes(v, u, w.order[n])
    BY <1>0, <2>1, FlushIfAnyFlushes DEF Wells
  <2>3. Well(u)
    BY <2>2 DEF Flushes, Follows
  <2>4. u \in Wells
    BY <2>3 DEF Wells, Well
  <2>5. F[<<n, v>>] = u
    BY <2>1
  <2> QED
    BY <2>1, <2>4, <2>5
<1> HIDE DEF F
<1>2. w \in Wells
  BY DEF Wells, Well
<1>3. PICK f \in [0 .. m -> Wells] : Iterates(f, w, F, m)
  BY <1>1, <1>2, Recursion
<1>4. ASSUME NEW n \in 1 .. m PROVE f[n] = FlushIfAny(f[n - 1], w.order[n])
  <2>1. n - 1 \in 0 .. m
    OBVIOUS
  <2>2. f[n - 1] \in Wells
    BY <2>1
  <2> QED
    BY <1>1, <1>3, <2>2 DEF Iterates
<1>5. f[0] = w
  BY <1>3 DEF Iterates
<1> DEFINE Is(h) == h = [n \in 0 .. m |->
                            IF n = 0 THEN w ELSE FlushIfAny(h[n - 1], w.order[n])]
<1>6. Is(f)
  BY <1>4, <1>5
<1>7. PICK g : g = (CHOOSE h : Is(h)) /\ Is(g)
  BY ZenonT(60), <1>6
<1>8. Flush(w) = g[m]
  BY <1>7 DEF Flush
<1>9. \A n \in 0 .. m : g[n] = IF n = 0 THEN w ELSE FlushIfAny(g[n - 1], w.order[n])
  BY Zenon, <1>7
<1>10. FlushRuns(g, w, m)
  <2>1. 0 \in 0 .. m /\ \A n \in 1 .. m : n \in 0 .. m /\ n # 0
    OBVIOUS
  <2> QED
    BY Zenon, <1>9, <2>1 DEF FlushRuns
<1> QED
  BY <1>8, <1>10

(* Points move from buffers to the native writer, and a flush that fails   *)
(* is blocked.                                                             *)
Flushed(w, v) ==
    /\ Follows(w, v) /\ v.order = w.order
    /\ \A s \in Series : Whole(v, s) = Whole(w, s) /\ v.buffers[s] \in {w.buffers[s], << >>}
    /\ v.raised => ~Unblocked(v)

LEMMA FlushAll ==
    ASSUME NEW w, Well(w), ~w.raised, NEW v, v = Flush(w)
    PROVE  /\ Flushed(w, v)
           /\ ~v.raised => \A s \in Series : v.buffers[s] = << >> /\ v.appended[s] = Whole(w, s)
<1>1. PICK m \in Nat : m = Len(w.order)
  BY WellFields, WriterFields
<1>2. PICK g : FlushRuns(g, w, m) /\ v = g[m]
  BY <1>1, FlushRun
<1>3. \A n \in 1 .. m : w.order[n] \in Series
  BY <1>1, WellFields, WriterFields
<1> DEFINE T == {n \in 0 .. m :
                    /\ Flushed(w, g[n])
                    /\ ~g[n].raised => \A i \in 1 .. n : g[n].buffers[w.order[i]] = << >>}
<1>4. 0 \in T
  <2>1. Flushed(w, w)
    BY FollowsSame DEF Flushed
  <2> QED
    BY <1>2, <2>1 DEF FlushRuns
<1>5. ASSUME NEW n \in 0 .. m, n # m, n \in T PROVE n + 1 \in T
  <2>1. PICK l \in 1 .. m : l = n + 1 /\ l - 1 = n
    BY <1>5
  <2>2. PICK u, x, s : u = g[n] /\ x = g[l] /\ s = w.order[l]
    OBVIOUS
  <2>3. /\ Flushed(w, u) /\ s \in Series
        /\ ~u.raised => \A i \in 1 .. n : u.buffers[w.order[i]] = << >>
    BY <1>3, <1>5, <2>2
  <2>4. x = FlushIfAny(u, s)
    BY <1>2, <2>1, <2>2 DEF FlushRuns
  <2>5. Follows(w, u) /\ Well(u) /\ u.order = w.order
    BY <2>3 DEF Flushed, Follows
  <2>6. Flushes(u, x, s)
    BY <2>3, <2>4, <2>5, FlushIfAnyFlushes
  <2>7. /\ Follows(u, x) /\ x.order = u.order
        /\ \A r \in Series \ {s} : x.appended[r] = u.appended[r] /\ x.buffers[r] = u.buffers[r]
        /\ Whole(x, s) = Whole(u, s) /\ x.buffers[s] \in {u.buffers[s], << >>}
        /\ ~x.raised => x.buffers[s] = << >>
        /\ x.raised /\ ~u.raised => ~Unblocked(x)
    BY <2>6 DEF Flushes
  <2>8. Follows(w, x)
    BY <2>5, <2>7, FollowsTransitive
  <2>9. \A r \in Series : Whole(x, r) = Whole(w, r) /\ x.buffers[r] \in {w.buffers[r], << >>}
    <3>1. \A r \in Series : Whole(u, r) = Whole(w, r) /\ u.buffers[r] \in {w.buffers[r], << >>}
      BY <2>3 DEF Flushed
    <3>2. \A r \in Series \ {s} : Whole(x, r) = Whole(u, r)
      BY <2>7 DEF Whole
    <3> QED
      BY <2>3, <2>7, <3>1, <3>2
  <2>10. x.raised => ~Unblocked(x)
    BY <2>3, <2>7 DEF Flushed, Follows
  <2>11. Flushed(w, x)
    BY <2>5, <2>7, <2>8, <2>9, <2>10 DEF Flushed
  <2>12. ASSUME ~x.raised PROVE \A i \in 1 .. l : x.buffers[w.order[i]] = << >>
    <3>1. ~u.raised
      BY <2>7, <2>12 DEF Follows
    <3>2. ASSUME NEW i \in 1 .. l PROVE x.buffers[w.order[i]] = << >>
      <4>1. CASE w.order[i] = s
        BY <2>7, <2>12, <4>1
      <4>2. CASE w.order[i] # s
        <5>1. i \in 1 .. n /\ i \in 1 .. m
          <6>1. i # l
            BY <2>2, <4>2
          <6> QED
            BY <2>1, <6>1
        <5>2. w.order[i] \in Series \ {s}
          BY <1>3, <4>2, <5>1
        <5> QED
          BY <2>3, <2>7, <3>1, <5>1, <5>2
      <4> QED
        BY <4>1, <4>2
    <3> QED
      BY <3>2
  <2> QED
    BY <2>1, <2>2, <2>11, <2>12
<1> HIDE DEF T
<1>6. \A n \in 0 .. m : n \in T
  BY <1>4, <1>5, Induction
<1>7. m \in T
  BY <1>6
<1>8. Flushed(w, v) /\ (~v.raised => \A i \in 1 .. m : v.buffers[w.order[i]] = << >>)
  BY <1>2, <1>7 DEF T
<1>9. ASSUME ~v.raised, NEW s \in Series PROVE v.buffers[s] = << >> /\ v.appended[s] = Whole(w, s)
  <2>1. v.buffers[s] \in {w.buffers[s], << >>} /\ Whole(v, s) = Whole(w, s) /\ Well(v)
    BY <1>8 DEF Flushed, Follows
  <2>2. v.buffers[s] = << >>
    <3>1. CASE w.buffers[s] = << >>
      BY <2>1, <3>1
    <3>2. CASE w.buffers[s] # << >>
      <4>1. PICK i \in 1 .. m : w.order[i] = s
        BY <1>1, <3>2 DEF Well
      <4> QED
        BY <1>8, <1>9, <4>1
    <3> QED
      BY <3>1, <3>2
  <2>3. v.appended[s] \in Seq(Int)
    BY <2>1, WellFields
  <2>4. v.appended[s] \o << >> = v.appended[s]
    BY <2>3, ConcatEmptySeq
  <2> QED
    BY <2>1, <2>2, <2>4 DEF Whole
<1> QED
  BY <1>8, <1>9

-----------------------------------------------------------------------------
(* The calls that append.                                                  *)

Ready(w) ==
    Unblocked(w) /\ ~w.raised /\ \A s \in Series : Len(w.buffers[s]) < BatchSize

(* A writer that is ready takes the points, or some of them, or is blocked *)
(* afterwards; it takes all of them unless it raises.                      *)
Takes(w, v, s, points) ==
    /\ Unblocked(v) =>
        \A r \in Series : Len(v.buffers[r]) < BatchSize /\ Continued(Whole(w, r), Whole(v, r))
    /\ ~v.raised =>
        /\ Whole(v, s) = Whole(w, s) \o points
        /\ \A r \in Series \ {s} : Whole(v, r) = Whole(w, r)

(* A buffer that grows, and is flushed or not.                             *)
Fills(w, v, s, c) ==
    /\ Follows(w, v) /\ v.order = w.order
    /\ \A r \in Series \ {s} : v.appended[r] = w.appended[r] /\ v.buffers[r] = w.buffers[r]
    /\ Whole(v, s) = Whole(w, s) \o c
    /\ v.raised /\ ~w.raised => ~Unblocked(v)
    /\ ~v.raised => v.buffers[s] \in {w.buffers[s] \o c, << >>}

Grows(w, v, s, c) == v.buffers[s] = w.buffers[s] \o c /\ v.raised = w.raised

LEMMA GrowsFills ==
    ASSUME NEW w, Well(w), NEW s \in Series, Listed(w, s), NEW c \in Seq(Int),
           NEW v, v = Grown(w, s, c)
    PROVE  Fills(w, v, s, c) /\ Grows(w, v, s, c)
<1>1. Lengthens(w, v, s, c) /\ Whole(v, s) = Whole(w, s) \o c
  BY BufferGrows
<1> QED
  BY <1>1 DEF Lengthens, Fills, Grows

LEMMA GrowsAndFlushesFills ==
    ASSUME NEW w, Well(w), NEW s \in Series, Listed(w, s), NEW c \in Seq(Int),
           NEW u, u = Grown(w, s, c), u.buffers[s] # << >>,
           NEW v, v = FlushSeries(u, s)
    PROVE  Fills(w, v, s, c) /\ (~v.raised => v.buffers[s] = << >>)
<1>0. Fills(w, u, s, c) /\ Grows(w, u, s, c)
  BY GrowsFills
<1>1. /\ Follows(w, u) /\ u.order = w.order /\ u.raised = w.raised
      /\ \A r \in Series \ {s} : u.appended[r] = w.appended[r] /\ u.buffers[r] = w.buffers[r]
      /\ Whole(u, s) = Whole(w, s) \o c
  BY <1>0 DEF Fills, Grows
<1>2. Flushes(u, v, s)
  BY <1>1, FlushFlushes DEF Follows
<1>3. Follows(w, v)
  BY <1>1, <1>2, FollowsTransitive DEF Flushes
<1> QED
  BY <1>1, <1>2, <1>3 DEF Flushes, Fills

LEMMA ShorterThanBatch ==
    ASSUME NEW w, Well(w), NEW s \in Series, NEW c \in Seq(Int), NEW n, n = Len(c)
    PROVE  /\ w.buffers[s] \o c \in Seq(Int) /\ n \in Nat
           /\ Len(w.buffers[s] \o c) = Len(w.buffers[s]) + n
           /\ Len(w.buffers[s]) \in Nat
<1>1. PICK b \in Seq(Int) : b = w.buffers[s]
  BY WellFields
<1> QED
  BY <1>1, ConcatProperties

LEMMA GrownByOne ==
    ASSUME NEW w, Well(w), NEW s \in Series, NEW t \in Int, NEW c, c = <<t>>,
           NEW u, u = [w EXCEPT !.buffers[s] = Append(@, t)]
    PROVE  u = Grown(w, s, c)
<1>1. PICK b \in Seq(Int) : b = w.buffers[s]
  BY WellFields
<1>2. Append(b, t) = b \o c
  BY AppendIsConcat
<1>3. w \in WriterRecord
  BY WellFields
<1> QED
  BY <1>1, <1>2, <1>3 DEF WriterRecord, Grown

(* append.                                                                 *)
LEMMA AppendOneTakes ==
    ASSUME NEW w, Well(w), NEW s \in Series, Listed(w, s),
           NEW c \in Seq(Int), Len(c) = 1, NEW u, u = Grown(w, s, c),
           NEW v, v = IF Len(u.buffers[s]) >= BatchSize THEN FlushSeries(u, s) ELSE u
    PROVE  Follows(w, v) /\ (Ready(w) => Takes(w, v, s, c))
<1>2. PICK b \in Seq(Int) : b = w.buffers[s]
  BY WellFields
<1>3. Fills(w, u, s, c) /\ Grows(w, u, s, c)
  BY GrowsFills
<1>4. Len(b \o c) = Len(b) + Len(c) /\ Len(b) \in Nat
  <2>1. PICK z : Joined(b, c, z)
    BY Joining
  <2> QED
    BY <2>1 DEF Joined
<1>5. Fills(w, u, s, c) /\ u.buffers[s] = b \o c /\ u.raised = w.raised
  BY <1>2, <1>3 DEF Grows
<1>6. Len(u.buffers[s]) = Len(b) + 1 /\ Len(b) \in Nat /\ BatchSize \in Nat \ {0}
  BY <1>4, <1>5, PythonWriterAssumption
<1>7. u.buffers[s] # << >>
  BY <1>6
<1>8. /\ Fills(w, v, s, c)
      /\ \/ ~v.raised => v.buffers[s] = << >>
         \/ v = u /\ Len(v.buffers[s]) < BatchSize
  <2>1. CASE Len(u.buffers[s]) >= BatchSize
    BY <1>7, <2>1, GrowsAndFlushesFills
  <2>2. CASE ~(Len(u.buffers[s]) >= BatchSize)
    BY <1>5, <1>6, <2>2
  <2> QED
    BY <2>1, <2>2
<1>9. ASSUME Ready(w) PROVE Takes(w, v, s, c)
  <2>1. /\ \A r \in Series \ {s} : v.appended[r] = w.appended[r] /\ v.buffers[r] = w.buffers[r]
        /\ Whole(v, s) = Whole(w, s) \o c
        /\ v.raised /\ ~w.raised => ~Unblocked(v)
    BY SMTT(40), <1>8 DEF Fills
  <2>2. \A r \in Series \ {s} : Whole(v, r) = Whole(w, r)
    BY <2>1 DEF Whole
  <2>3. ASSUME Unblocked(v), NEW r \in Series
        PROVE  Len(v.buffers[r]) < BatchSize /\ Continued(Whole(w, r), Whole(v, r))
    <3>1. ~v.raised
      BY <1>9, <2>1, <2>3 DEF Ready
    <3>2. Len(v.buffers[s]) < BatchSize
      <4>1. Len(<< >>) = 0
        OBVIOUS
      <4> QED
        BY <1>6, <1>8, <3>1, <4>1
    <3>3. Len(v.buffers[r]) < BatchSize
      BY <1>9, <2>1, <3>2 DEF Ready
    <3>4. PICK x \in Seq(Int) : x = Whole(w, r)
      BY WellFields
    <3>5. Continued(x, x) /\ Continued(x, x \o c)
      BY ContinuedSame, ContinuedConcat
    <3> QED
      BY <2>1, <2>2, <3>3, <3>4, <3>5
  <2> QED
    BY <2>1, <2>2, <2>3 DEF Takes
<1> QED
  BY <1>8, <1>9 DEF Fills

-----------------------------------------------------------------------------
(* append_many.                                                            *)

LEMMA Division ==
    ASSUME NEW x \in Nat
    PROVE  /\ x \div BatchSize \in Nat
           /\ (x \div BatchSize) * BatchSize <= x
           /\ x < (x \div BatchSize) * BatchSize + BatchSize
           /\ ((x \div BatchSize) - 1) * BatchSize = (x \div BatchSize) * BatchSize - BatchSize
<1>1. PICK B \in Nat \ {0} : B = BatchSize
  BY PythonWriterAssumption
<1>2. x \div B \in Nat /\ (x \div B) * B <= x /\ x < (x \div B) * B + B
  BY SMTT(40)
<1>3. PICK q \in Nat : q = x \div B
  BY <1>2
<1>4. (q - 1) * B = q * B - B
  OBVIOUS
<1> QED
  BY <1>1, <1>2, <1>3, <1>4

LEMMA NoBatches ==
    ASSUME NEW w, Well(w), NEW s \in Series, NEW list \in Seq(Int), NEW offset \in Int
    PROVE  AppendBatches(w, s, list, offset, 0) = w
<1>1. PICK g : BatchesRun(g, w, s, list, offset, 0) /\ AppendBatches(w, s, list, offset, 0) = g[0]
  BY AppendBatchesRun
<1> QED
  BY <1>1 DEF BatchesRun

(* Arrays, when nothing is pending.                                        *)
LEMMA ArrayTakes ==
    ASSUME NEW w, Well(w), NEW s \in Series, w.buffers[s] = << >>, NEW list \in Seq(Int),
           NEW v, v = AppendBufferBatches(w, s, list)
    PROVE  Follows(w, v) /\ (Ready(w) => Takes(w, v, s, list))
<1>1. PICK n \in Nat : n = Len(list)
  OBVIOUS
<1>2. PICK B \in Nat \ {0} : B = BatchSize
  BY PythonWriterAssumption
<1>3. PICK x \in Nat : x = n + B - 1
  <2>1. n + B - 1 \in Nat
    OBVIOUS
  <2> QED
    BY <2>1
<1>4. PICK k \in Nat : k = x \div B
  BY <1>2, Division
<1>5. PICK y, z \in Int : y = k * B /\ z = (k - 1) * B
  BY <1>2
<1>6. y <= x /\ x < y + B /\ z = y - B
  BY <1>2, <1>4, <1>5, Division
<1>7. n <= y /\ z <= n
  BY <1>3, <1>6
<1>8. v = AppendBatches(w, s, list, 0, k)
  BY <1>1, <1>2, <1>3, <1>4 DEF AppendBufferBatches
<1>9. BatchesWithin(list, 0, k)
  BY <1>1, <1>2, <1>5, <1>7 DEF BatchesWithin
<1>10. BatchEnd(list, 0, k) = n
  BY <1>1, <1>2, <1>5, <1>7 DEF BatchEnd, Upto
<1>11. Batched(w, v, s)
  BY <1>8, BatchesFollow
<1>12. /\ Follows(w, v) /\ v.buffers = w.buffers /\ Well(v)
       /\ \A r \in Series \ {s} : v.appended[r] = w.appended[r]
  BY <1>11 DEF Batched, Follows
<1>13. \A r \in Series \ {s} : Whole(v, r) = Whole(w, r)
  BY <1>12 DEF Whole
<1>14. PICK a, b \in Seq(Int) : a = w.appended[s] /\ b = v.appended[s]
  BY <1>12, WellFields
<1>15. Whole(w, s) = a /\ Whole(v, s) = b /\ Continued(a, b)
  BY ZenonT(60), <1>12, <1>14, ConcatEmptySeq DEF Whole, Follows
<1>16. ASSUME ~v.raised PROVE Whole(v, s) = Whole(w, s) \o list
  <2>1. b = a \o Part(list, 0, n)
    <3>1. v.appended[s] = w.appended[s] \o Part(list, 0, BatchEnd(list, 0, k))
      BY SMTT(40), <1>8, <1>9, <1>16, BatchesAppend
    <3> QED
      BY <1>10, <1>14, <3>1
  <2> QED
    BY <1>1, <1>15, <2>1, PartWhole
<1>17. ASSUME Ready(w), NEW r \in Series
       PROVE  Len(v.buffers[r]) < BatchSize /\ Continued(Whole(w, r), Whole(v, r))
  <2>1. Len(v.buffers[r]) < BatchSize
    BY <1>12, <1>17 DEF Ready
  <2>2. PICK c \in Seq(Int) : c = Whole(w, r)
    BY WellFields
  <2>3. Continued(c, c)
    BY ContinuedSame
  <2> QED
    BY <1>13, <1>15, <2>1, <2>2, <2>3
<1> QED
  BY <1>12, <1>13, <1>16, <1>17 DEF Takes

(* The pending points are filled up, or there are none.                    *)
Offset(w, s, list) ==
    IF w.buffers[s] = << >> THEN 0 ELSE Min({BatchSize - Len(w.buffers[s]), Len(list)})
Filled(w, s, list) ==
    IF w.buffers[s] = << >> THEN w ELSE FillPending(w, s, list, Offset(w, s, list))

LEMMA OffsetTyped ==
    ASSUME NEW w, Well(w), NEW s \in Series, NEW list \in Seq(Int), NEW n \in Nat, n = Len(list)
    PROVE  /\ Offset(w, s, list) \in Int /\ Offset(w, s, list) <= n
           /\ Len(w.buffers[s]) < BatchSize => Offset(w, s, list) \in 0 .. n
           /\ w.buffers[s] # << >> =>
                \/ Len(w.buffers[s]) + Offset(w, s, list) = BatchSize
                \/ Offset(w, s, list) = n /\ Len(w.buffers[s]) + n < BatchSize
<1>1. PICK p \in Nat : p = Len(w.buffers[s])
  BY WellFields
<1>2. PICK B \in Nat \ {0} : B = BatchSize
  BY PythonWriterAssumption
<1>3. PICK d \in Int : d = B - p
  OBVIOUS
<1>4. Min({d, n}) = IF d <= n THEN d ELSE n
  BY MinOfTwo
<1>5. Offset(w, s, list) = IF w.buffers[s] = << >> THEN 0 ELSE Min({d, n})
  BY <1>1, <1>2, <1>3 DEF Offset
<1>6. CASE w.buffers[s] = << >>
  BY <1>5, <1>6
<1>7. CASE w.buffers[s] # << >> /\ d <= n
  <2>1. Offset(w, s, list) = d
    BY <1>4, <1>5, <1>7
  <2> QED
    BY <1>1, <1>2, <1>3, <1>7, <2>1
<1>8. CASE w.buffers[s] # << >> /\ ~(d <= n)
  <2>1. Offset(w, s, list) = n
    BY <1>4, <1>5, <1>8
  <2> QED
    BY <1>1, <1>2, <1>3, <1>8, <2>1
<1> QED
  BY <1>6, <1>7, <1>8

LEMMA FilledFollows ==
    ASSUME NEW w, Well(w), NEW s \in Series, Listed(w, s), NEW list \in Seq(Int),
           NEW u, u = Filled(w, s, list)
    PROVE  Follows(w, u) /\ u.order = w.order
<1>1. CASE w.buffers[s] = << >>
  <2>1. u = w
    BY <1>1 DEF Filled
  <2> QED
    BY <2>1, FollowsSame
<1>2. CASE w.buffers[s] # << >>
  <2>1. PICK o \in Int : o = Offset(w, s, list)
    BY OffsetTyped
  <2>2. PICK c : c = Slice(list, 0, o)
    OBVIOUS
  <2>3. c \in Seq(Int)
    BY <2>2, SliceIsPart
  <2>4. PICK x : x = Grown(w, s, c)
    OBVIOUS
  <2>5. Fills(w, x, s, c) /\ Grows(w, x, s, c)
    BY <2>3, <2>4, GrowsFills
  <2>6. u = IF Len(x.buffers[s]) = BatchSize THEN FlushSeries(x, s) ELSE x
    BY <1>2, <2>1, <2>2, <2>4 DEF Filled, FillPending, Grown
  <2>7. CASE u = x
    BY <2>5, <2>7 DEF Fills
  <2>8. CASE u = FlushSeries(x, s) /\ x.buffers[s] # << >>
    <3>1. Fills(w, u, s, c)
      BY <2>3, <2>4, <2>8, GrowsAndFlushesFills
    <3> QED
      BY <3>1 DEF Fills
  <2>9. Len(x.buffers[s]) = BatchSize => x.buffers[s] # << >>
    <3>1. Len(<< >>) = 0 /\ BatchSize # 0
      BY PythonWriterAssumption
    <3> QED
      BY <3>1
  <2> QED
    BY <2>6, <2>7, <2>8, <2>9
<1> QED
  BY <1>1, <1>2

(* If the buffer was not overfull, it is full, which flushes it, or has    *)
(* room for the whole list.                                                *)
Fulfils(w, u, s, list, o) ==
    /\ o \in 0 .. Len(list)
    /\ \A r \in Series \ {s} : u.appended[r] = w.appended[r] /\ u.buffers[r] = w.buffers[r]
    /\ Whole(u, s) = Whole(w, s) \o Part(list, 0, o)
    /\ u.raised /\ ~w.raised => ~Unblocked(u)
    /\ ~u.raised =>
        \/ u.buffers[s] = << >>
        \/ o = Len(list) /\ Len(u.buffers[s]) < BatchSize

LEMMA FilledFulfils ==
    ASSUME NEW w, Well(w), NEW s \in Series, Listed(w, s), NEW list \in Seq(Int),
           Len(w.buffers[s]) < BatchSize,
           NEW u, u = Filled(w, s, list), NEW o, o = Offset(w, s, list)
    PROVE  Fulfils(w, u, s, list, o)
<1>0. PICK n \in Nat : n = Len(list)
  OBVIOUS
<1>1. CASE w.buffers[s] = << >>
  <2>1. u = w /\ o = 0
    BY <1>1 DEF Filled, Offset
  <2>2. Whole(w, s) \o Part(list, 0, 0) = Whole(w, s)
    BY WellFields, PartEmpty, ConcatEmptySeq
  <2> QED
    BY <1>0, <1>1, <2>1, <2>2 DEF Fulfils
<1>2. CASE w.buffers[s] # << >>
  <2>1. /\ o \in 0 .. n
        /\ \/ Len(w.buffers[s]) + o = BatchSize
           \/ o = n /\ Len(w.buffers[s]) + n < BatchSize
    BY <1>0, <1>2, OffsetTyped
  <2>2. PICK c : c = Slice(list, 0, o)
    OBVIOUS
  <2>3. c = Part(list, 0, o)
    <3>1. o \in Int /\ 0 >= 0 /\ 0 <= n /\ o >= 0 /\ Upto(n, o) = o
      BY <2>1 DEF Upto
    <3> QED
      BY <1>0, <2>2, <3>1, SliceIsPart
  <2>4. c \in Seq(Int) /\ Len(c) = o
    <3>1. 0 \in 0 .. n /\ 0 <= o /\ o - 0 = o
      BY <2>1
    <3> QED
      BY <1>0, <2>1, <2>3, <3>1, PartTyped
  <2>5. PICK x : x = Grown(w, s, c)
    OBVIOUS
  <2>6. Fills(w, x, s, c) /\ Grows(w, x, s, c)
    BY <2>4, <2>5, GrowsFills
  <2>7. u = IF Len(x.buffers[s]) = BatchSize THEN FlushSeries(x, s) ELSE x
    BY <1>2, <2>2, <2>5 DEF Filled, FillPending, Grown
  <2>8. PICK b \in Seq(Int) : b = w.buffers[s]
    BY WellFields
  <2>9. PICK z : Joined(b, c, z)
    BY <2>4, Joining
  <2>10. x.buffers[s] = z /\ Len(z) = Len(b) + o /\ Len(b) \in Nat
    BY <2>4, <2>6, <2>8, <2>9 DEF Grows, Joined
  <2>11. CASE Len(z) = BatchSize
    <3>1. z # << >>
      BY <2>11, PythonWriterAssumption
    <3>2. u = FlushSeries(x, s) /\ x.buffers[s] # << >>
      BY <2>7, <2>10, <2>11, <3>1
    <3>3. Fills(w, u, s, c) /\ (~u.raised => u.buffers[s] = << >>)
      BY <2>4, <2>5, <3>2, GrowsAndFlushesFills
    <3> QED
      BY <1>0, <2>1, <2>3, <3>3 DEF Fills, Fulfils
  <2>12. CASE Len(z) # BatchSize
    <3>1. u = x
      BY <2>7, <2>10, <2>12
    <3>2. o = n /\ Len(u.buffers[s]) < BatchSize
      BY <2>1, <2>8, <2>10, <2>12, <3>1
    <3> QED
      BY <1>0, <2>1, <2>3, <2>6, <3>1, <3>2 DEF Fills, Fulfils
  <2> QED
    BY <2>11, <2>12
<1> QED
  BY <1>1, <1>2

Submitted(w, v, s, list, offset, k) ==
    v.appended[s] = w.appended[s] \o Part(list, offset, BatchEnd(list, offset, k))

(* The same, by name.                                                      *)
LEMMA BatchesSubmit ==
    ASSUME NEW w, Well(w), NEW s \in Series, NEW list \in Seq(Int), NEW offset,
           NEW k \in Nat, BatchesWithin(list, offset, k),
           NEW v, v = AppendBatches(w, s, list, offset, k), ~v.raised
    PROVE  Submitted(w, v, s, list, offset, k)
BY BatchesAppend DEF Submitted


(* Lists and everything that is not an array, with whatever is pending.    *)
LEMMA ListTakes ==
    ASSUME NEW w, Well(w), NEW s \in Series, Listed(w, s), NEW list \in Seq(Int),
           NEW v, v = AppendList(w, s, list)
    PROVE  Follows(w, v) /\ (Ready(w) => Takes(w, v, s, list))
<1>1. PICK n \in Nat : n = Len(list)
  OBVIOUS
<1>2. PICK B \in Nat \ {0} : B = BatchSize
  BY PythonWriterAssumption
<1>3. PICK o \in Int : o = Offset(w, s, list) /\ o <= n
  BY <1>1, OffsetTyped
<1>4. PICK l \in Nat : l = n - o
  <2>1. n - o \in Nat
    BY <1>3
  <2> QED
    BY <2>1
<1>5. PICK k \in Nat : k = l \div B
  BY <1>2, Division
<1>6. PICK y, z \in Int : y = k * B /\ z = (k - 1) * B
  BY <1>2
<1>7. y <= l /\ l < y + B /\ z = y - B
  BY <1>2, <1>4, <1>5, <1>6, Division
<1>8. PICK e \in Int : e = o + y /\ e <= n /\ n - e < B
  <2>1. o + y \in Int /\ o + y <= n /\ n - (o + y) < B
    BY <1>4, <1>6, <1>7
  <2> QED
    BY <2>1
<1>9. PICK u : u = Filled(w, s, list)
  OBVIOUS
<1>10. PICK x : x = AppendBatches(u, s, list, o, k)
  OBVIOUS
<1>11. PICK c : c = Slice(list, e, n)
  BY Zenon
<1>12. v = IF x.raised THEN x ELSE Grown(x, s, c)
  <2>1. e = o + k * BatchSize /\ k = (Len(list) - o) \div BatchSize
    BY <1>1, <1>2, <1>4, <1>5, <1>6, <1>8
  <2> QED
    BY ZenonT(60), <1>1, <1>3, <1>9, <1>10, <1>11, <2>1 DEF AppendList, Offset, Filled, Grown
<1>13. Follows(w, u) /\ u.order = w.order /\ Well(u)
  BY <1>9, FilledFollows DEF Follows
<1>14. Batched(u, x, s)
  BY <1>10, <1>13, BatchesFollow
<1>15. /\ Follows(u, x) /\ x.buffers = u.buffers /\ x.order = w.order /\ Well(x)
       /\ \A r \in Series \ {s} : x.appended[r] = u.appended[r]
  BY <1>13, <1>14 DEF Batched, Follows
<1>16. Follows(w, x)
  BY <1>13, <1>15, FollowsTransitive
<1>17. c \in Seq(Int)
  BY <1>1, <1>11, SliceIsPart
<1>18. Listed(x, s)
  BY <1>15 DEF Listed
<1>19. PICK t : t = Grown(x, s, c)
  OBVIOUS
<1>20. Fills(x, t, s, c) /\ Grows(x, t, s, c)
  BY <1>15, <1>17, <1>18, <1>19, GrowsFills
<1>21. Follows(w, v)
  <2>1. Follows(w, t)
    BY <1>16, <1>20, FollowsTransitive DEF Fills
  <2> QED
    BY <1>12, <1>16, <1>19, <2>1
<1>22. ASSUME Ready(w) PROVE Takes(w, v, s, list)
  <2>1. ~w.raised /\ \A r \in Series : Len(w.buffers[r]) < BatchSize
    BY <1>22 DEF Ready
  <2>2. Fulfils(w, u, s, list, o)
    BY <1>3, <1>9, <2>1, FilledFulfils
  <2>3. /\ o \in 0 .. n
        /\ \A r \in Series \ {s} : u.appended[r] = w.appended[r] /\ u.buffers[r] = w.buffers[r]
        /\ Whole(u, s) = Whole(w, s) \o Part(list, 0, o)
        /\ u.raised => ~Unblocked(u)
        /\ ~u.raised => u.buffers[s] = << >> \/ (o = n /\ Len(u.buffers[s]) < BatchSize)
    BY <1>1, <2>1, <2>2 DEF Fulfils
  <2>4. PICK p \in Seq(Int) : p = Part(list, 0, o)
    <3>1. 0 \in 0 .. n
      OBVIOUS
    <3> QED
      BY <1>1, <2>3, <3>1, PartTyped
  <2>5. e \in o .. n /\ e \in 0 .. n
    <3>1. y >= 0
      BY <1>2, <1>5, <1>6
    <3>2. e >= o /\ o >= 0 /\ o \in Int /\ n \in Int
      BY <1>8, <2>3, <3>1
    <3> QED
      BY <1>8, <3>2
  <2>6. PICK q \in Seq(Int) : q = Part(list, o, e)
    BY <1>1, <2>3, <2>5, PartTyped
  <2>7. c = Part(list, e, n) /\ Len(c) = n - e
    <3>1. e >= 0 /\ e <= n /\ n >= 0 /\ Upto(n, n) = n /\ n \in 0 .. n /\ n \in Int
      BY <2>5 DEF Upto
    <3>2. c = Part(list, e, n)
      BY <1>1, <1>11, <3>1, SliceIsPart
    <3>3. Len(Part(list, e, n)) = n - e
      <4>1. n \in Nat /\ n = Len(list) /\ e \in 0 .. n /\ n \in 0 .. n /\ e <= n
        BY <1>1, <2>5, <3>1
      <4>2. \A a, b \in 0 .. n : a <= b => Len(Part(list, a, b)) = b - a
        BY <4>1, PartTyped
      <4> QED
        BY <4>1, <4>2
    <3> QED
      BY <3>2, <3>3
  <2>8. p \o q = Part(list, 0, e)
    <3>1. 0 \in 0 .. n /\ o \in 0 .. n /\ e \in o .. n
      BY <2>3, <2>5
    <3> QED
      BY ZenonT(60), <1>1, <2>4, <2>6, <3>1, PartJoins
  <2>9. (p \o q) \o c = list
    <3>1. 0 \in 0 .. n /\ e \in 0 .. n /\ n \in e .. n
      BY <2>5
    <3>2. Part(list, 0, e) \o Part(list, e, n) = Part(list, 0, n)
      BY ZenonT(60), <1>1, <3>1, PartJoins
    <3> QED
      BY <1>1, <2>7, <2>8, <3>2, PartWhole
  <2>10. BatchesWithin(list, o, k) /\ BatchEnd(list, o, k) = e
    <3>1. k # 0 => o + z <= n
      BY <1>2, <1>7, <1>8
    <3>2. BatchesWithin(list, o, k)
      BY <1>1, <1>2, <1>6, <2>3, <3>1 DEF BatchesWithin
    <3>3. BatchEnd(list, o, k) = e
      BY <1>1, <1>2, <1>6, <1>8 DEF BatchEnd, Upto
    <3> QED
      BY <3>2, <3>3
  <2>11. PICK f, g, h \in Seq(Int) :
            f = Whole(w, s) /\ g = u.appended[s] /\ h = u.buffers[s]
    BY <1>13, WellFields
  <2>12. ASSUME ~x.raised PROVE Whole(x, s) = (f \o p) \o q /\ ~u.raised
    <3>1. ~u.raised
      BY <1>15, <2>12 DEF Follows
    <3>2. x.appended[s] = g \o q
      <4>1. x.appended[s] = u.appended[s] \o Part(list, o, BatchEnd(list, o, k))
        <5>1. Well(u) /\ x = AppendBatches(u, s, list, o, k) /\ ~x.raised
          BY <1>10, <1>13, <2>12
        <5>2. BatchesWithin(list, o, k)
          BY <2>10
        <5>3. k \in Nat
          BY <1>5
        <5>4. Submitted(u, x, s, list, o, k)
          BY SMTT(40), <5>1, <5>2, <5>3, BatchesSubmit
        <5> QED
          BY <5>4 DEF Submitted
      <4> QED
        BY <2>6, <2>10, <2>11, <4>1
    <3>3. g \o h = f \o p
      BY <2>3, <2>4, <2>11 DEF Whole
    <3>4. Whole(x, s) = (g \o q) \o h
      BY <1>15, <2>11, <3>2 DEF Whole
    <3>5. CASE h = << >>
      <4>1. PICK i \in Seq(Int) : i = g \o q
        BY ConcatProperties
      <4>2. i \o h = i /\ g \o h = g
        BY <3>5, ConcatEmptySeq
      <4> QED
        BY <3>1, <3>3, <3>4, <4>1, <4>2
    <3>6. CASE h # << >>
      <4>1. o = n
        BY <2>3, <2>11, <3>1, <3>6
      <4>2. e = o
        BY <2>5, <4>1
      <4>3. q = << >>
        BY <2>3, <2>6, <4>2, PartEmpty
      <4>4. PICK i \in Seq(Int) : i = f \o p
        BY ConcatProperties
      <4>5. g \o q = g /\ i \o q = i
        BY <4>3, ConcatEmptySeq
      <4> QED
        BY <3>1, <3>3, <3>4, <4>4, <4>5
    <3> QED
      BY <3>5, <3>6
  <2>13. ASSUME ~v.raised
         PROVE  Whole(v, s) = f \o list /\ ~x.raised /\ v = t
    <3>1. ~x.raised /\ v = t
      BY <1>12, <1>19, <2>13
    <3>2. Whole(v, s) = ((f \o p) \o q) \o c
      BY <1>20, <2>12, <3>1 DEF Fills
    <3>3. PICK i \in Seq(Int) : i = p \o q
      BY ConcatProperties
    <3>4. Associates(f, p, q) /\ Associates(f, i, c)
      BY <1>17, Regrouping
    <3> QED
      BY <2>9, <3>1, <3>2, <3>3, <3>4 DEF Associates
  <2>14. \A r \in Series \ {s} : v.appended[r] = w.appended[r] /\ v.buffers[r] = w.buffers[r]
    BY <1>12, <1>15, <1>19, <1>20, <2>3 DEF Fills
  <2>15. \A r \in Series \ {s} : Whole(v, r) = Whole(w, r)
    BY <2>14 DEF Whole
  <2>16. ASSUME Unblocked(v), v.raised
         PROVE  Len(v.buffers[s]) < BatchSize /\ Continued(f, Whole(v, s))
    <3>1. v = x /\ x.raised
      <4>1. ~x.raised => t.raised = x.raised
        BY <1>20 DEF Grows
      <4> QED
        BY <1>12, <1>19, <2>16, <4>1
    <3>2. Unblocked(u) /\ ~u.raised
      BY <1>15, <2>3, <2>16, <3>1 DEF Follows
    <3>3. h = << >>
      <4>1. SUFFICES ASSUME h # << >> PROVE FALSE
        OBVIOUS
      <4>2. o = n
        BY <2>3, <2>11, <3>2, <4>1
      <4>3. l = 0
        BY <1>4, <4>2
      <4>4. y <= 0
        BY <1>7, <4>3
      <4>5. k = 0
        BY <1>2, <1>6, <4>4
      <4>6. x = u
        BY <1>10, <1>13, <4>5, NoBatches
      <4> QED
        BY <3>1, <3>2, <4>6
    <3>4. PICK i \in Seq(Int) : i = x.appended[s]
      BY SMTT(40), <1>15, WellFields
    <3>5. Whole(v, s) = i /\ f \o p = g /\ Continued(g, i)
      <4>1. i \o h = i /\ g \o h = g
        BY <3>3, ConcatEmptySeq
      <4> QED
        BY <1>15, <2>3, <2>4, <2>11, <3>1, <3>4, <4>1 DEF Whole, Follows
    <3>6. Continued(f, g)
      BY <3>5, ContinuedConcat
    <3>7. Continued(f, i)
      BY <3>5, <3>6, ContinuedTransitive
    <3>8. Len(v.buffers[s]) < BatchSize
      <4>1. Len(<< >>) = 0 /\ BatchSize > 0
        BY PythonWriterAssumption
      <4> QED
        BY <1>15, <2>11, <3>1, <3>3, <4>1
    <3> QED
      BY <3>5, <3>7, <3>8
  <2>17. ASSUME ~v.raised
         PROVE  Len(v.buffers[s]) < BatchSize /\ Continued(f, Whole(v, s))
    <3>1. Continued(f, f \o list)
      BY ContinuedConcat
    <3>2. ~u.raised /\ v.buffers[s] = h \o c
      BY <1>15, <1>20, <2>11, <2>12, <2>13, <2>17 DEF Grows
    <3>3. PICK i : Joined(h, c, i)
      BY <1>17, Joining
    <3>4. v.buffers[s] = i /\ Len(i) = Len(h) + (n - e)
      BY <2>7, <3>2, <3>3 DEF Joined
    <3>5. CASE h = << >>
      <4>1. Len(h) = 0
        BY <3>5
      <4>2. Len(i) < B
        BY <1>8, <3>4, <4>1
      <4> QED
        BY <1>2, <2>13, <2>17, <3>1, <3>4, <4>2
    <3>6. CASE h # << >>
      <4>1. o = n /\ Len(h) < BatchSize
        BY <2>3, <2>11, <3>2, <3>6
      <4>2. n - e = 0
        BY <2>5, <4>1
      <4>3. Len(h) \in Nat
        OBVIOUS
      <4>4. Len(i) < BatchSize
        BY <3>4, <4>1, <4>2, <4>3
      <4> QED
        BY <2>13, <2>17, <3>1, <3>4, <4>4
    <3> QED
      BY <3>5, <3>6
  <2>18. ASSUME Unblocked(v), NEW r \in Series
         PROVE  Len(v.buffers[r]) < BatchSize /\ Continued(Whole(w, r), Whole(v, r))
    <3>1. CASE r = s
      BY <2>11, <2>16, <2>17, <2>18, <3>1
    <3>2. CASE r # s
      <4>1. Len(v.buffers[r]) < BatchSize
        BY <2>1, <2>14, <3>2
      <4>2. PICK i \in Seq(Int) : i = Whole(w, r)
        BY WellFields
      <4>3. Continued(i, i)
        BY ContinuedSame
      <4> QED
        BY <2>15, <3>2, <4>1, <4>2, <4>3
    <3> QED
      BY <3>1, <3>2
  <2> QED
    BY <2>11, <2>13, <2>15, <2>18 DEF Takes
<1> QED
  BY <1>21, <1>22

-----------------------------------------------------------------------------
(* The invariant.  What blocks a writer stays with it: a handle that is    *)
(* closed or poisoned, a buffer whose points come too late.  A writer that *)
(* is blocked can raise, but never publishes and returns.  The others hold *)
(* in every buffer less than a batch, and the points of every call that    *)
(* returned are, with the buffers, in what has been appended.              *)

Public(w, p, a) ==
    \A s \in Series :
        Ascends(p[s]) /\ Held(a[s], p[s]) /\ Held(a[s], w.appended[s])

Retains(w, k) ==
    Unblocked(w) =>
        \A s \in Series : Len(w.buffers[s]) < BatchSize /\ Held(k[s], Whole(w, s))

Exact(w, k, c) ==
    Unblocked(w) /\ ~c => \A s \in Series : k[s] = Whole(w, s)

PythonWriterInv ==
    /\ Well(writer) /\ ~writer.raised
    /\ published \in [Series -> Seq(Int)] /\ kept \in [Series -> Seq(Int)]
    /\ acknowledged \in [Series -> Seq(Int)] /\ complained \in BOOLEAN
    /\ Public(writer, published, acknowledged)
    /\ Retains(writer, kept)
    /\ Exact(writer, kept, complained)
    /\ ~complained => published = acknowledged

(* The same points and handle, in another call.                            *)
Resembles(w, v) ==
    /\ Well(v) /\ v.appended = w.appended /\ v.buffers = w.buffers
    /\ v.open = w.open /\ v.poisoned = w.poisoned

LEMMA ResemblesWhole ==
    ASSUME NEW w, NEW v, Resembles(w, v)
    PROVE  /\ \A s \in Series : Whole(v, s) = Whole(w, s)
           /\ Unblocked(v) <=> Unblocked(w)
<1>1. \A s \in Series : Whole(v, s) = Whole(w, s)
  BY DEF Resembles, Whole
<1>2. v.open = w.open /\ v.poisoned = w.poisoned
  BY DEF Resembles
<1> QED
  BY <1>1, <1>2, Zenon DEF Unblocked

LEMMA FaultResembles ==
    ASSUME NEW w, Well(w), NEW fault \in Int, NEW v, v = [w EXCEPT !.fault = fault]
    PROVE  Resembles(w, v) /\ v.raised = w.raised /\ v.order = w.order
<1>1. w \in WriterRecord
  BY WellFields
<1>2. /\ v \in WriterRecord /\ v.appended = w.appended /\ v.buffers = w.buffers
      /\ v.open = w.open /\ v.poisoned = w.poisoned
      /\ v.raised = w.raised /\ v.order = w.order
  BY <1>1 DEF WriterRecord
<1> QED
  BY <1>2 DEF Well, Resembles

LEMMA ReturnResembles ==
    ASSUME NEW w, Well(w), NEW v, v = [w EXCEPT !.fault = 0, !.raised = FALSE]
    PROVE  Resembles(w, v) /\ ~v.raised
<1>1. PICK x : x = [w EXCEPT !.fault = 0]
  OBVIOUS
<1>2. Resembles(w, x) /\ x.order = w.order
  BY <1>1, FaultResembles
<1>3. x \in WriterRecord /\ v = [x EXCEPT !.raised = FALSE]
  BY <1>1, <1>2, WellFields DEF Resembles
<1>4. /\ v \in WriterRecord /\ v.appended = x.appended /\ v.buffers = x.buffers
      /\ v.open = x.open /\ v.poisoned = x.poisoned /\ v.order = x.order
      /\ ~v.raised
  BY <1>3 DEF WriterRecord
<1> QED
  BY <1>2, <1>4 DEF Well, Resembles

LEMMA RaiseResembles ==
    ASSUME NEW w, Well(w), NEW v, v = Raise(w)
    PROVE  Resembles(w, v) /\ v.raised
<1>1. w \in WriterRecord
  BY WellFields
<1>2. /\ v \in WriterRecord /\ v.appended = w.appended /\ v.buffers = w.buffers
      /\ v.open = w.open /\ v.poisoned = w.poisoned
      /\ v.raised = TRUE /\ v.order = w.order
  BY <1>1 DEF WriterRecord, Raise
<1> QED
  BY <1>2 DEF Well, Resembles

(* dict.setdefault lists the series.                                       *)
LEMMA WithBufferResembles ==
    ASSUME NEW w, Well(w), NEW s \in Series, NEW v, v = WithBuffer(w, s)
    PROVE  Resembles(w, v) /\ v.raised = w.raised /\ Listed(v, s)
<1>1. w \in WriterRecord /\ w.order \in Seq(Series)
  BY WellFields, WriterFields
<1>2. PICK m \in Nat : m = Len(w.order) /\ \A i \in 1 .. m : w.order[i] \in Series
  BY <1>1
<1>3. CASE s \in ToSet(w.order)
  <2>1. v = w
    BY <1>3 DEF WithBuffer
  <2>2. \E i \in 1 .. m : w.order[i] = s
    BY <1>1, <1>2, <1>3 DEF ToSet
  <2> QED
    BY <1>2, <2>1, <2>2 DEF Resembles, Listed
<1>4. CASE s \notin ToSet(w.order)
  <2>1. PICK q : q = Append(w.order, s)
    OBVIOUS
  <2>2. /\ q \in Seq(Series) /\ Len(q) = m + 1 /\ q[m + 1] = s
        /\ \A i \in 1 .. m : q[i] = w.order[i]
    BY <1>1, <1>2, <2>1
  <2>3. v = [w EXCEPT !.order = q]
    BY <1>4, <2>1 DEF WithBuffer
  <2>4. /\ v \in WriterRecord /\ v.appended = w.appended /\ v.buffers = w.buffers
        /\ v.open = w.open /\ v.poisoned = w.poisoned
        /\ v.raised = w.raised /\ v.order = q
    BY <1>1, <2>2, <2>3 DEF WriterRecord
  <2>5. Listed(v, s)
    <3>1. m + 1 \in 1 .. Len(v.order) /\ v.order[m + 1] = s
      BY <1>2, <2>2, <2>4
    <3> QED
      BY <3>1 DEF Listed
  <2>6. ASSUME NEW r \in Series, w.buffers[r] # << >>
        PROVE  \E i \in 1 .. Len(v.order) : v.order[i] = r
    <3>1. PICK i \in 1 .. m : w.order[i] = r
      BY <1>2, <2>6 DEF Well
    <3>2. i \in 1 .. Len(v.order) /\ v.order[i] = r
      BY <1>2, <2>2, <2>4, <3>1
    <3> QED
      BY <3>2
  <2>7. Well(v)
    BY <2>4, <2>6 DEF Well
  <2> QED
    BY <2>4, <2>5, <2>7 DEF Resembles
<1> QED
  BY <1>3, <1>4

-----------------------------------------------------------------------------
(* The methods that append.                                                *)

LEMMA PublicGrows ==
    ASSUME NEW w, Well(w), NEW v, Well(v),
           NEW p \in [Series -> Seq(Int)], NEW a \in [Series -> Seq(Int)],
           Public(w, p, a), \A s \in Series : Continued(w.appended[s], v.appended[s])
    PROVE  Public(v, p, a)
<1>1. ASSUME NEW s \in Series
      PROVE  Ascends(p[s]) /\ Held(a[s], p[s]) /\ Held(a[s], v.appended[s])
  <2>1. PICK x, y, z \in Seq(Int) : x = a[s] /\ y = w.appended[s] /\ z = v.appended[s]
    BY WellFields
  <2>2. Held(x, y) /\ Continued(y, z)
    BY <2>1 DEF Public
  <2>3. Held(x, z)
    BY <2>2, HeldGrows
  <2> QED
    BY <2>1, <2>3 DEF Public
<1> QED
  BY <1>1 DEF Public

Kept(v, k, s, points) == IF v.raised THEN k ELSE [k EXCEPT ![s] = @ \o points]

Recorded(v, k, s, points, j) ==
    /\ j \in [Series -> Seq(Int)]
    /\ v.raised => j = k
    /\ ~v.raised => j[s] = k[s] \o points /\ \A r \in Series \ {s} : j[r] = k[r]

LEMMA KeptIs ==
    ASSUME NEW v, NEW k \in [Series -> Seq(Int)], NEW s \in Series, NEW points \in Seq(Int),
           NEW j, j = Kept(v, k, s, points)
    PROVE  Recorded(v, k, s, points, j)
<1>1. PICK x \in Seq(Int) : x = k[s]
  OBVIOUS
<1>2. PICK y : Joined(x, points, y)
  BY Joining
<1>3. y \in Seq(Int) /\ y = k[s] \o points
  BY <1>1, <1>2 DEF Joined
<1>4. j = IF v.raised THEN k ELSE [k EXCEPT ![s] = y]
  BY <1>3 DEF Kept
<1> QED
  BY <1>3, <1>4 DEF Recorded

LEMMA TakenIsRetained ==
    ASSUME NEW w, Well(w), NEW v, Well(v), NEW s \in Series, NEW points \in Seq(Int),
           NEW k \in [Series -> Seq(Int)], Retains(w, k), Follows(w, v),
           Unblocked(w) => Takes(w, v, s, points),
           NEW j, j = Kept(v, k, s, points)
    PROVE  Retains(v, j)
<1>1. SUFFICES ASSUME Unblocked(v), NEW r \in Series
               PROVE  Len(v.buffers[r]) < BatchSize /\ Held(j[r], Whole(v, r))
  BY DEF Retains
<1>2. Unblocked(w)
  BY <1>1 DEF Follows
<1>3. /\ Len(v.buffers[r]) < BatchSize /\ Continued(Whole(w, r), Whole(v, r))
      /\ ~v.raised =>
            /\ Whole(v, s) = Whole(w, s) \o points
            /\ \A t \in Series \ {s} : Whole(v, t) = Whole(w, t)
  BY <1>1, <1>2 DEF Takes
<1>4. Held(k[r], Whole(w, r))
  BY <1>2 DEF Retains
<1>5. /\ v.raised => j = k
      /\ ~v.raised => j[s] = k[s] \o points /\ \A t \in Series \ {s} : j[t] = k[t]
  <2>1. Recorded(v, k, s, points, j)
    BY KeptIs
  <2> QED
    BY <2>1 DEF Recorded
<1>6. PICK x, y, z \in Seq(Int) : x = k[r] /\ y = Whole(w, r) /\ z = Whole(v, r)
  BY WellFields
<1>7. Held(x, z)
  BY <1>3, <1>4, <1>6, HeldGrows
<1>8. CASE ~v.raised /\ r = s
  <2>1. z = y \o points /\ j[r] = x \o points
    BY <1>3, <1>5, <1>6, <1>8
  <2>2. Ascends(y \o points)
    BY <1>1, <1>6, <2>1 DEF Unblocked
  <2>3. Held(x \o points, y \o points)
    BY <1>4, <1>6, <2>2, HeldBoth
  <2> QED
    BY <1>3, <1>6, <2>1, <2>3
<1>9. CASE v.raised \/ r # s
  <2>1. j[r] = k[r]
    BY <1>5, <1>9
  <2> QED
    BY <1>3, <1>6, <1>7, <2>1
<1> QED
  BY <1>8, <1>9

LEMMA TakenIsExact ==
    ASSUME NEW w, NEW v, NEW s \in Series, NEW points \in Seq(Int),
           NEW k \in [Series -> Seq(Int)], NEW c \in BOOLEAN, Exact(w, k, c), Follows(w, v),
           Unblocked(w) => Takes(w, v, s, points),
           NEW j, j = Kept(v, k, s, points)
    PROVE  Exact(v, j, c \/ v.raised)
<1>1. SUFFICES ASSUME Unblocked(v), ~c, ~v.raised, NEW r \in Series PROVE j[r] = Whole(v, r)
  BY DEF Exact
<1>2. Unblocked(w)
  BY <1>1 DEF Follows
<1>3. /\ Whole(v, s) = Whole(w, s) \o points
      /\ \A t \in Series \ {s} : Whole(v, t) = Whole(w, t)
  BY <1>1, <1>2 DEF Takes
<1>4. \A t \in Series : k[t] = Whole(w, t)
  BY <1>1, <1>2 DEF Exact
<1>5. j[s] = k[s] \o points /\ \A t \in Series \ {s} : j[t] = k[t]
  <2>1. Recorded(v, k, s, points, j)
    BY KeptIs
  <2> QED
    BY <1>1, <2>1 DEF Recorded
<1> QED
  BY <1>3, <1>4, <1>5

(* Whatever resembles a writer retains what it retains.                    *)
LEMMA ResemblesKeeps ==
    ASSUME NEW w, NEW v, Resembles(w, v)
    PROVE  /\ \A k : Retains(w, k) => Retains(v, k)
           /\ \A k, c : Exact(w, k, c) => Exact(v, k, c)
<1>1. /\ \A s \in Series : Whole(v, s) = Whole(w, s)
      /\ Unblocked(v) => Unblocked(w)
      /\ v.buffers = w.buffers
  BY ResemblesWhole DEF Resembles
<1>2. ASSUME NEW k, Retains(w, k) PROVE Retains(v, k)
  BY <1>1, <1>2 DEF Retains
<1>3. ASSUME NEW k, NEW c, Exact(w, k, c) PROVE Exact(v, k, c)
  BY <1>1, <1>3 DEF Exact
<1> QED
  BY <1>2, <1>3

-----------------------------------------------------------------------------
(* The steps.                                                              *)

(* What a method leaves is what the next one finds.                        *)
LEMMA ReturnsKeeps ==
    ASSUME NEW v, Well(v), Returns(v), complained \in BOOLEAN,
           published' \in [Series -> Seq(Int)], kept' \in [Series -> Seq(Int)],
           acknowledged' \in [Series -> Seq(Int)],
           Public(v, published', acknowledged'), Retains(v, kept'),
           Exact(v, kept', complained \/ v.raised),
           ~complained /\ ~v.raised => published' = acknowledged'
    PROVE  PythonWriterInv'
<1>1. PICK u : u = writer'
  OBVIOUS
<1>2. u = [v EXCEPT !.fault = 0, !.raised = FALSE] /\ complained' = (complained \/ v.raised)
  BY <1>1 DEF Returns
<1>3. Resembles(v, u) /\ ~u.raised
  BY <1>2, ReturnResembles
<1>4. Well(u) /\ u.appended = v.appended
  BY <1>3 DEF Resembles
<1>5. v.raised \in BOOLEAN
  BY WellFields, WriterFields
<1>6. complained' \in BOOLEAN /\ (~complained' => ~complained /\ ~v.raised)
  BY <1>2, <1>5
<1>7. Public(u, published', acknowledged')
  BY <1>4 DEF Public
<1>8. Retains(u, kept')
  BY <1>3, ResemblesKeeps
<1>9. Exact(u, kept', complained')
  BY <1>2, <1>3, ResemblesKeeps
<1> QED
  BY <1>1, <1>3, <1>4, <1>6, <1>7, <1>8, <1>9 DEF PythonWriterInv

(* The methods that append.                                                *)
LEMMA MethodKeeps ==
    ASSUME PythonWriterInv, NEW w, Resembles(writer, w), ~w.raised,
           NEW s \in Series, NEW points \in Seq(Int),
           NEW v, Follows(w, v), Ready(w) => Takes(w, v, s, points),
           Returns(v), Keeps(v, s, points), UNCHANGED <<published, acknowledged>>
    PROVE  PythonWriterInv'
<1>1. /\ Well(writer) /\ kept \in [Series -> Seq(Int)] /\ complained \in BOOLEAN
      /\ published \in [Series -> Seq(Int)] /\ acknowledged \in [Series -> Seq(Int)]
      /\ Public(writer, published, acknowledged)
      /\ Retains(writer, kept) /\ Exact(writer, kept, complained)
      /\ ~complained => published = acknowledged
  BY DEF PythonWriterInv
<1>2. Well(w) /\ Well(v) /\ w.appended = writer.appended
  BY DEF Resembles, Follows
<1>3. Retains(w, kept) /\ Exact(w, kept, complained)
  BY <1>1, ResemblesKeeps
<1>4. Unblocked(w) => Takes(w, v, s, points)
  BY <1>3 DEF Retains, Ready
<1>5. PICK j : j = Kept(v, kept, s, points)
  OBVIOUS
<1>6. kept' = j /\ j \in [Series -> Seq(Int)]
  <2>1. Recorded(v, kept, s, points, j)
    BY <1>1, <1>5, KeptIs
  <2> QED
    BY <1>5, <2>1 DEF Recorded, Keeps, Kept
<1>7. Retains(v, j)
  BY <1>1, <1>2, <1>3, <1>4, <1>5, TakenIsRetained
<1>8. Exact(v, j, complained \/ v.raised)
  BY <1>1, <1>3, <1>4, <1>5, TakenIsExact
<1>9. Public(v, published', acknowledged')
  <2>1. \A r \in Series : Continued(writer.appended[r], v.appended[r])
    BY <1>2 DEF Follows
  <2>2. Public(v, published, acknowledged)
    BY <1>1, <1>2, <2>1, PublicGrows
  <2> QED
    BY <2>2
<1> QED
  BY <1>1, <1>2, <1>6, <1>7, <1>8, <1>9, ReturnsKeeps

(* Methods that change nothing but the order of the buffers, and may raise. *)
LEMMA IdleKeeps ==
    ASSUME PythonWriterInv, NEW v, Resembles(writer, v), Returns(v),
           UNCHANGED <<published, kept, acknowledged>>
    PROVE  PythonWriterInv'
<1>1. /\ Well(writer) /\ kept \in [Series -> Seq(Int)] /\ complained \in BOOLEAN
      /\ published \in [Series -> Seq(Int)] /\ acknowledged \in [Series -> Seq(Int)]
      /\ Public(writer, published, acknowledged)
      /\ Retains(writer, kept) /\ Exact(writer, kept, complained)
      /\ ~complained => published = acknowledged
  BY DEF PythonWriterInv
<1>2. Well(v) /\ v.appended = writer.appended
  BY DEF Resembles
<1>3. Retains(v, kept) /\ Exact(v, kept, complained)
  BY <1>1, ResemblesKeeps
<1>4. Exact(v, kept, complained \/ v.raised)
  BY <1>3 DEF Exact
<1>5. Public(v, published, acknowledged)
  BY <1>1, <1>2 DEF Public
<1> QED
  BY <1>1, <1>2, <1>3, <1>4, <1>5, ReturnsKeeps

(* A call starts from the writer as the last one left it.                  *)
LEMMA CalledResembles ==
    ASSUME PythonWriterInv, NEW fault \in Int
    PROVE  Resembles(writer, Called(fault)) /\ ~Called(fault).raised
<1>1. PICK v : v = Called(fault)
  OBVIOUS
<1>2. Well(writer) /\ ~writer.raised /\ v = [writer EXCEPT !.fault = fault]
  BY <1>1 DEF PythonWriterInv, Called
<1>3. Resembles(writer, v) /\ v.raised = writer.raised
  BY <1>2, FaultResembles
<1> QED
  BY <1>1, <1>2, <1>3

LEMMA FoundResembles ==
    ASSUME PythonWriterInv, NEW fault \in Int, NEW s \in Series,
           NEW w, w = WithBuffer(Called(fault), s)
    PROVE  Resembles(writer, w) /\ ~w.raised /\ Listed(w, s) /\ Well(w)
<1>1. PICK v : v = Called(fault)
  OBVIOUS
<1>2. Resembles(writer, v) /\ ~v.raised
  BY <1>1, CalledResembles
<1>3. Resembles(v, w) /\ w.raised = v.raised /\ Listed(w, s)
  BY <1>1, <1>2, WithBufferResembles DEF Resembles
<1> QED
  BY <1>2, <1>3 DEF Resembles

LEMMA AppendOneKeeps ==
    ASSUME PythonWriterInv, NEW s \in Series, NEW timestamp \in Singles, AppendOne(s, timestamp)
    PROVE  PythonWriterInv'
<1>1. PICK fault \in 0 .. 1 :
        LET buffered == [WithBuffer(Called(fault), s) EXCEPT
                            !.buffers[s] = Append(@, timestamp)]
            w == IF Len(buffered.buffers[s]) >= BatchSize
                 THEN FlushSeries(buffered, s) ELSE buffered
        IN  /\ Returns(w)
            /\ Keeps(w, s, <<timestamp>>)
            /\ UNCHANGED <<published, acknowledged>>
  BY DEF AppendOne
<1>2. PICK w : w = WithBuffer(Called(fault), s)
  OBVIOUS
<1>3. Resembles(writer, w) /\ ~w.raised /\ Listed(w, s) /\ Well(w)
  BY <1>2, FoundResembles
<1>4. PICK c : c = <<timestamp>>
  OBVIOUS
<1>5. c \in Seq(Int) /\ Len(c) = 1
  BY <1>4, PythonWriterAssumption
<1>6. PICK u : u = [w EXCEPT !.buffers[s] = Append(@, timestamp)]
  OBVIOUS
<1>7. u = Grown(w, s, c)
  <2>1. timestamp \in Int
    BY PythonWriterAssumption
  <2> QED
    BY <1>3, <1>4, <1>6, <2>1, GrownByOne
<1>8. PICK v : v = IF Len(u.buffers[s]) >= BatchSize THEN FlushSeries(u, s) ELSE u
  OBVIOUS
<1>9. Returns(v) /\ Keeps(v, s, c) /\ UNCHANGED <<published, acknowledged>>
  BY <1>1, <1>2, <1>4, <1>6, <1>8
<1>10. Follows(w, v) /\ (Ready(w) => Takes(w, v, s, c))
  BY <1>3, <1>5, <1>7, <1>8, AppendOneTakes
<1> QED
  BY <1>3, <1>5, <1>9, <1>10, MethodKeeps

LEMMA AppendManyKeeps ==
    ASSUME PythonWriterInv, NEW s \in Series, NEW list \in Lists, NEW direct \in BOOLEAN,
           AppendMany(s, list, direct)
    PROVE  PythonWriterInv'
<1>1. PICK fault \in 0 .. MaxFault :
        LET found == WithBuffer(Called(fault), s)
            w == IF direct /\ found.buffers[s] = << >>
                 THEN AppendBufferBatches(found, s, list)
                 ELSE AppendList(found, s, list)
        IN  /\ Returns(w)
            /\ Keeps(w, s, list)
            /\ UNCHANGED <<published, acknowledged>>
  BY DEF AppendMany
<1>2. fault \in Int /\ list \in Seq(Int)
  BY PythonWriterAssumption
<1>3. PICK w : w = WithBuffer(Called(fault), s)
  OBVIOUS
<1>4. Resembles(writer, w) /\ ~w.raised /\ Listed(w, s) /\ Well(w)
  BY <1>2, <1>3, FoundResembles
<1>5. PICK v : v = IF direct /\ w.buffers[s] = << >>
                  THEN AppendBufferBatches(w, s, list) ELSE AppendList(w, s, list)
  OBVIOUS
<1>6. Returns(v) /\ Keeps(v, s, list) /\ UNCHANGED <<published, acknowledged>>
  BY <1>1, <1>3, <1>5
<1>7. Follows(w, v) /\ (Ready(w) => Takes(w, v, s, list))
  <2>1. CASE direct /\ w.buffers[s] = << >>
    <3>1. v = AppendBufferBatches(w, s, list)
      BY <1>5, <2>1
    <3> QED
      BY <1>2, <1>4, <2>1, <3>1, ArrayTakes
  <2>2. CASE ~(direct /\ w.buffers[s] = << >>)
    <3>1. v = AppendList(w, s, list)
      BY <1>5, <2>2
    <3> QED
      BY <1>2, <1>4, <3>1, ListTakes
  <2> QED
    BY <2>1, <2>2
<1> QED
  BY <1>2, <1>4, <1>6, <1>7, MethodKeeps

LEMMA AppendUnequalKeeps ==
    ASSUME PythonWriterInv, NEW s \in Series, AppendUnequal(s)
    PROVE  PythonWriterInv'
<1>1. PICK w : w = WithBuffer(Called(0), s)
  OBVIOUS
<1>2. Resembles(writer, w) /\ Well(w)
  BY <1>1, FoundResembles
<1>3. PICK v : v = Raise(w)
  OBVIOUS
<1>4. Resembles(writer, v)
  BY <1>2, <1>3, RaiseResembles DEF Resembles
<1>5. Returns(v) /\ UNCHANGED <<published, kept, acknowledged>>
  BY <1>1, <1>3 DEF AppendUnequal
<1> QED
  BY <1>4, <1>5, IdleKeeps

LEMMA PrepareAppendKeeps ==
    ASSUME PythonWriterInv, PrepareAppend
    PROVE  PythonWriterInv'
<1>1. PICK w : w = Called(0)
  OBVIOUS
<1>2. Resembles(writer, w) /\ Well(w)
  BY <1>1, CalledResembles DEF Resembles
<1>3. PICK v : v = Raise(w)
  OBVIOUS
<1>4. Resembles(writer, v)
  BY <1>2, <1>3, RaiseResembles DEF Resembles
<1>5. (Returns(w) \/ Returns(v)) /\ UNCHANGED <<published, kept, acknowledged>>
  BY <1>1, <1>3 DEF PrepareAppend
<1> QED
  BY <1>2, <1>4, <1>5, IdleKeeps

-----------------------------------------------------------------------------
(* The methods that publish.                                               *)

(* A flushed writer retains what the writer did, and one that could be     *)
(* published holds it in what has been appended.                           *)
LEMMA FlushKeeps ==
    ASSUME PythonWriterInv, NEW w, Resembles(writer, w), ~w.raised, NEW v, v = Flush(w)
    PROVE  /\ Well(v) /\ v.open = writer.open
           /\ Public(v, published, acknowledged)
           /\ Retains(v, kept) /\ Exact(v, kept, complained)
           /\ v.raised => ~Unblocked(v)
           /\ ~v.raised =>
                \A s \in Series : v.buffers[s] = << >> /\ v.appended[s] = Whole(v, s)
<1>1. Well(writer) /\ Retains(writer, kept) /\ Exact(writer, kept, complained)
  BY DEF PythonWriterInv
<1>2. Well(w) /\ w.appended = writer.appended /\ w.open = writer.open
  BY DEF Resembles
<1>3. Retains(w, kept) /\ Exact(w, kept, complained)
  BY <1>1, ResemblesKeeps
<1>4. /\ Flushed(w, v)
      /\ ~v.raised => \A s \in Series : v.buffers[s] = << >> /\ v.appended[s] = Whole(w, s)
  BY <1>2, FlushAll
<1>5. /\ Follows(w, v) /\ (v.raised => ~Unblocked(v))
      /\ \A s \in Series : Whole(v, s) = Whole(w, s) /\ v.buffers[s] \in {w.buffers[s], << >>}
  BY <1>4 DEF Flushed
<1>6. Well(v) /\ v.open = w.open /\ (Unblocked(v) => Unblocked(w))
      /\ \A s \in Series : Continued(w.appended[s], v.appended[s])
  BY <1>5 DEF Follows
<1>7. Public(v, published, acknowledged)
  <2>1. /\ Public(writer, published, acknowledged)
        /\ published \in [Series -> Seq(Int)] /\ acknowledged \in [Series -> Seq(Int)]
    BY DEF PythonWriterInv
  <2> QED
    BY <1>1, <1>2, <1>6, <2>1, PublicGrows
<1>8. Exact(v, kept, complained)
  BY <1>3, <1>5, <1>6 DEF Exact
<1>9. Retains(v, kept)
  <2>1. SUFFICES ASSUME Unblocked(v), NEW s \in Series
                 PROVE  Len(v.buffers[s]) < BatchSize /\ Held(kept[s], Whole(v, s))
    BY DEF Retains
  <2>2. Len(w.buffers[s]) < BatchSize /\ Held(kept[s], Whole(w, s))
    BY <1>3, <1>6, <2>1 DEF Retains
  <2>3. Len(<< >>) < BatchSize
    BY PythonWriterAssumption
  <2> QED
    BY <1>5, <2>2, <2>3
<1> QED
  BY <1>2, <1>4, <1>5, <1>6, <1>7, <1>8, <1>9

(* What a healthy writer publishes holds all points of the calls that      *)
(* returned.                                                               *)
LEMMA PublishedHolds ==
    ASSUME NEW v, Well(v), ~v.poisoned, v.open, NEW k \in [Series -> Seq(Int)], NEW c,
           Retains(v, k), Exact(v, k, c),
           \A s \in Series : v.appended[s] = Whole(v, s)
    PROVE  /\ v.appended \in [Series -> Seq(Int)]
           /\ Public(v, v.appended, k)
           /\ ~c => v.appended = k
<1>1. \A s \in Series : Ascends(v.appended[s])
  BY WellFields
<1>2. Unblocked(v)
  BY <1>1 DEF Unblocked
<1>3. \A s \in Series : Held(k[s], v.appended[s])
  BY <1>2 DEF Retains
<1>4. Public(v, v.appended, k)
  BY <1>1, <1>3 DEF Public
<1>5. v.appended \in [Series -> Seq(Int)]
  BY WellFields, WriterFields
<1>6. ASSUME ~c PROVE v.appended = k
  <2>1. \A s \in Series : k[s] = v.appended[s]
    BY <1>2, <1>6 DEF Exact
  <2> QED
    BY <1>5, <2>1
<1> QED
  BY <1>4, <1>5, <1>6

(* Whatever a publication that failed left on the file.                    *)
LEMMA PublicEither ==
    ASSUME NEW v, Well(v), NEW p, NEW a, Public(v, p, a), NEW q \in {p, v.appended}
    PROVE  Public(v, q, a)
<1>1. \A s \in Series : Ascends(v.appended[s])
  BY WellFields
<1> QED
  BY <1>1 DEF Public

(* A writer that raised, on a handle that is closed or poisoned, whichever *)
(* of the two was published.                                               *)
LEMMA FailureKeeps ==
    ASSUME PythonWriterInv, NEW v, Well(v), v.raised, ~Unblocked(v), Returns(v),
           NEW q, q \in [Series -> Seq(Int)], published' = q, Public(v, q, acknowledged),
           acknowledged' = acknowledged, kept' = kept
    PROVE  PythonWriterInv'
<1>1. /\ complained \in BOOLEAN /\ kept \in [Series -> Seq(Int)]
      /\ acknowledged \in [Series -> Seq(Int)]
  BY DEF PythonWriterInv
<1>2. Retains(v, kept') /\ Exact(v, kept', complained \/ v.raised)
  BY DEF Retains, Exact
<1>3. Public(v, published', acknowledged')
  OBVIOUS
<1> QED
  BY <1>1, <1>2, <1>3, ReturnsKeeps

LEMMA CheckpointKeeps ==
    ASSUME PythonWriterInv, Checkpoint
    PROVE  PythonWriterInv'
<1>1. PICK fault \in 0 .. MaxFault :
        LET w == Flush(Called(fault)) IN
        /\ \/ /\ w.raised \/ ~Usable(w)
              /\ Returns(Raise(w))
              /\ UNCHANGED <<published, acknowledged>>
           \/ /\ ~w.raised /\ Usable(w)
              /\ Returns(w)
              /\ published' = w.appended
              /\ acknowledged' = kept
           \/ /\ ~w.raised /\ Usable(w)
              /\ Returns([Raise(w) EXCEPT !.poisoned = TRUE])
              /\ published' \in {published, w.appended}
              /\ UNCHANGED acknowledged
        /\ UNCHANGED kept
  BY DEF Checkpoint
<1>2. fault \in Int
  BY PythonWriterAssumption
<1>3. PICK w : w = Called(fault)
  OBVIOUS
<1>4. PICK v : v = Flush(w)
  OBVIOUS
<1>5. /\ Well(v) /\ v.open = writer.open
      /\ Public(v, published, acknowledged)
      /\ Retains(v, kept) /\ Exact(v, kept, complained)
      /\ v.raised => ~Unblocked(v)
      /\ ~v.raised =>
            \A s \in Series : v.buffers[s] = << >> /\ v.appended[s] = Whole(v, s)
  BY <1>2, <1>3, <1>4, CalledResembles, FlushKeeps
<1>6. PICK x : x = Raise(v)
  OBVIOUS
<1>7. Resembles(v, x) /\ x.raised /\ Well(x)
  BY <1>5, <1>6, RaiseResembles DEF Resembles
<1>8. PICK y : y = [x EXCEPT !.poisoned = TRUE]
  OBVIOUS
<1>9. Well(y) /\ y.appended = v.appended /\ y.raised /\ y.poisoned
  <2>1. x \in WriterRecord /\ x.appended = v.appended
    BY <1>7, WellFields DEF Resembles
  <2>2. /\ y \in WriterRecord /\ y.appended = x.appended /\ y.buffers = x.buffers
        /\ y.order = x.order /\ y.raised = x.raised /\ y.poisoned = TRUE
    BY <1>8, <2>1 DEF WriterRecord
  <2> QED
    BY <1>7, <2>1, <2>2 DEF Well
<1>10. kept' = kept
  BY <1>1
<1>11. /\ published \in [Series -> Seq(Int)] /\ kept \in [Series -> Seq(Int)]
       /\ complained \in BOOLEAN /\ v.appended \in [Series -> Seq(Int)]
  BY <1>5, WellFields, WriterFields DEF PythonWriterInv
<1>12. CASE /\ v.raised \/ ~Usable(v)
            /\ Returns(x)
            /\ UNCHANGED <<published, acknowledged>>
  <2>1. ~Unblocked(v)
    BY <1>5, <1>12 DEF Usable, Unblocked
  <2>2. ~Unblocked(x) /\ Public(x, published, acknowledged)
    BY <1>5, <1>7, <2>1, ResemblesWhole DEF Public, Resembles
  <2> QED
    BY <1>7, <1>10, <1>11, <1>12, <2>2, FailureKeeps
<1>13. CASE /\ ~v.raised /\ Usable(v)
            /\ Returns(v)
            /\ published' = v.appended
            /\ acknowledged' = kept
  <2>1. ~v.poisoned /\ v.open
    BY <1>13 DEF Usable
  <2>2. \A s \in Series : v.appended[s] = Whole(v, s)
    BY <1>5, <1>13
  <2>3. Public(v, v.appended, kept) /\ (~complained => v.appended = kept)
    BY <1>5, <1>11, <2>1, <2>2, PublishedHolds
  <2>4. Exact(v, kept, complained \/ v.raised)
    BY <1>5 DEF Exact
  <2> QED
    BY <1>5, <1>10, <1>11, <1>13, <2>3, <2>4, ReturnsKeeps
<1>14. CASE /\ ~v.raised /\ Usable(v)
            /\ Returns(y)
            /\ published' \in {published, v.appended}
            /\ UNCHANGED acknowledged
  <2>1. ~Unblocked(y)
    BY <1>9 DEF Unblocked
  <2>2. PICK q : q = published'
    OBVIOUS
  <2>3. q \in {published, v.appended} /\ q \in [Series -> Seq(Int)]
    BY <1>11, <1>14, <2>2
  <2>4. Public(v, q, acknowledged)
    BY <1>5, <2>3, PublicEither
  <2>5. Public(y, q, acknowledged)
    BY <1>9, <2>4 DEF Public
  <2> QED
    BY <1>9, <1>10, <1>14, <2>1, <2>2, <2>3, <2>5, FailureKeeps
<1> QED
  BY <1>1, <1>3, <1>4, <1>6, <1>8, <1>12, <1>13, <1>14

LEMMA CloseWriterKeeps ==
    ASSUME PythonWriterInv, CloseWriter
    PROVE  PythonWriterInv'
<1>1. PICK fault \in 0 .. MaxFault :
        LET flushed == Flush(Called(fault))
            w == TakeHandle(flushed)
        IN  /\ writer.open
            /\ \/ /\ flushed.poisoned
                  /\ Returns(Raise(w))
                  /\ UNCHANGED <<published, acknowledged>>
               \/ /\ ~flushed.poisoned
                  /\ Returns(w)
                  /\ published' = flushed.appended
                  /\ acknowledged' = IF w.raised THEN acknowledged ELSE kept
               \/ /\ ~flushed.poisoned
                  /\ Returns(Raise(w))
                  /\ published' \in {published, flushed.appended}
                  /\ UNCHANGED acknowledged
            /\ UNCHANGED kept
  BY DEF CloseWriter
<1>2. fault \in Int
  BY PythonWriterAssumption
<1>3. PICK w : w = Called(fault)
  OBVIOUS
<1>4. PICK v : v = Flush(w)
  OBVIOUS
<1>5. /\ Well(v) /\ v.open = writer.open
      /\ Public(v, published, acknowledged)
      /\ Retains(v, kept) /\ Exact(v, kept, complained)
      /\ ~v.raised =>
            \A s \in Series : v.buffers[s] = << >> /\ v.appended[s] = Whole(v, s)
  BY <1>2, <1>3, <1>4, CalledResembles, FlushKeeps
<1>6. PICK x : x = TakeHandle(v)
  OBVIOUS
<1>7. Well(x) /\ x.appended = v.appended /\ x.raised = v.raised /\ ~x.open
  <2>1. v \in WriterRecord
    BY <1>5, WellFields
  <2>2. /\ x \in WriterRecord /\ x.appended = v.appended /\ x.buffers = v.buffers
        /\ x.order = v.order /\ x.raised = v.raised /\ x.open = FALSE
    BY <1>6, <2>1 DEF WriterRecord, TakeHandle
  <2> QED
    BY <1>5, <2>2 DEF Well
<1>8. PICK y : y = Raise(x)
  OBVIOUS
<1>9. Well(y) /\ y.appended = v.appended /\ y.raised /\ ~y.open
  BY <1>7, <1>8, RaiseResembles DEF Resembles
<1>10. kept' = kept /\ writer.open
  BY <1>1
<1>11. /\ published \in [Series -> Seq(Int)] /\ kept \in [Series -> Seq(Int)]
       /\ acknowledged \in [Series -> Seq(Int)]
       /\ complained \in BOOLEAN /\ v.appended \in [Series -> Seq(Int)]
  BY <1>5, WellFields, WriterFields DEF PythonWriterInv
<1>12. ~Unblocked(x) /\ ~Unblocked(y)
  BY <1>7, <1>9 DEF Unblocked
<1>13. ASSUME NEW q \in {published, v.appended}
       PROVE  q \in [Series -> Seq(Int)] /\ Public(x, q, acknowledged) /\ Public(y, q, acknowledged)
  <2>1. Public(v, q, acknowledged)
    BY <1>5, <1>13, PublicEither
  <2> QED
    BY <1>7, <1>9, <1>11, <2>1 DEF Public
<1>14. CASE Returns(y) /\ published' \in {published, v.appended} /\ UNCHANGED acknowledged
  <2>1. PICK q : q = published'
    OBVIOUS
  <2>2. q \in [Series -> Seq(Int)] /\ Public(y, q, acknowledged)
    BY <1>13, <1>14, <2>1
  <2> QED
    BY <1>9, <1>10, <1>12, <1>14, <2>1, <2>2, FailureKeeps
<1>15. CASE /\ ~v.poisoned /\ Returns(x) /\ published' = v.appended
            /\ acknowledged' = IF x.raised THEN acknowledged ELSE kept
  <2>1. CASE x.raised
    <3>1. Public(x, v.appended, acknowledged) /\ acknowledged' = acknowledged
      BY <1>13, <1>15, <2>1
    <3> QED
      BY <1>7, <1>10, <1>11, <1>12, <1>15, <2>1, <3>1, FailureKeeps
  <2>2. CASE ~x.raised
    <3>1. acknowledged' = kept /\ \A s \in Series : v.appended[s] = Whole(v, s)
      BY <1>5, <1>7, <1>15, <2>2
    <3>2. v.open /\ ~v.poisoned
      BY <1>5, <1>10, <1>15
    <3>3. Public(v, v.appended, kept) /\ (~complained => v.appended = kept)
      BY <1>5, <1>11, <3>1, <3>2, PublishedHolds
    <3>4. Public(x, v.appended, kept)
      BY <1>7, <3>3 DEF Public
    <3>5. Retains(x, kept) /\ Exact(x, kept, complained \/ x.raised)
      BY <1>12 DEF Retains, Exact
    <3> QED
      BY <1>7, <1>10, <1>11, <1>15, <3>1, <3>3, <3>4, <3>5, ReturnsKeeps
  <2> QED
    BY <2>1, <2>2
<1>16. \/ Returns(y) /\ published' \in {published, v.appended} /\ UNCHANGED acknowledged
       \/ /\ ~v.poisoned /\ Returns(x) /\ published' = v.appended
          /\ acknowledged' = IF x.raised THEN acknowledged ELSE kept
  BY <1>1, <1>3, <1>4, <1>6, <1>8
<1> QED
  BY <1>14, <1>15, <1>16

LEMMA PythonWriterStarts == ASSUME PythonWriterInit PROVE PythonWriterInv
<1>1. PICK w : w = NewWriter
  OBVIOUS
<1>2. /\ w \in WriterRecord /\ w.open = TRUE /\ w.raised = FALSE
      /\ \A s \in Series : w.appended[s] = << >> /\ w.buffers[s] = << >>
  BY <1>1 DEF NewWriter, WriterRecord
<1>3. Ascends(<< >>) /\ Held(<< >>, << >>) /\ Len(<< >>) < BatchSize
  BY PythonWriterAssumption DEF Ascends, Held
<1>4. << >> \in Seq(Int) /\ << >> \o << >> = << >>
  OBVIOUS
<1>5. Well(w) /\ ~w.raised
  BY <1>2, <1>3 DEF Well
<1>6. \A s \in Series : Whole(w, s) = << >>
  BY <1>2, <1>4 DEF Whole
<1>7. PICK e : e = [s \in Series |-> << >>]
  OBVIOUS
<1>8. e \in [Series -> Seq(Int)] /\ \A s \in Series : e[s] = << >>
  BY <1>4, <1>7
<1>9. Public(w, e, e) /\ Retains(w, e) /\ Exact(w, e, FALSE)
  BY <1>2, <1>3, <1>6, <1>8 DEF Public, Retains, Exact
<1> QED
  BY <1>1, <1>5, <1>7, <1>8, <1>9 DEF PythonWriterInit, PythonWriterInv

LEMMA PythonWriterStep ==
    ASSUME PythonWriterInv, [PythonWriterNext]_writerVars
    PROVE  PythonWriterInv'
<1>1. CASE PythonWriterNext
  <2>1. ASSUME NEW s \in Series, NEW timestamp \in Singles, AppendOne(s, timestamp)
        PROVE  PythonWriterInv'
    BY <2>1, AppendOneKeeps
  <2>2. ASSUME NEW s \in Series, NEW list \in Lists, NEW direct \in BOOLEAN,
               AppendMany(s, list, direct)
        PROVE  PythonWriterInv'
    BY <2>2, AppendManyKeeps
  <2>3. ASSUME NEW s \in Series, AppendUnequal(s) PROVE PythonWriterInv'
    BY <2>3, AppendUnequalKeeps
  <2> QED
    BY <1>1, <2>1, <2>2, <2>3, PrepareAppendKeeps, CheckpointKeeps, CloseWriterKeeps
       DEF PythonWriterNext
<1>2. CASE UNCHANGED writerVars
  BY <1>2 DEF writerVars, PythonWriterInv, Public, Retains, Exact
<1> QED
  BY <1>1, <1>2

LEMMA PythonWriterInvStates == ASSUME PythonWriterInv PROVE AcknowledgedIsPublished
<1>1. ASSUME NEW s \in Series
      PROVE  /\ StrictlyIncreasing(published[s]) /\ StrictlyIncreasing(acknowledged[s])
             /\ ToSet(acknowledged[s]) \subseteq ToSet(published[s])
  <2>1. PICK p, a \in Seq(Int) : p = published[s] /\ a = acknowledged[s]
    BY DEF PythonWriterInv
  <2>2. Ascends(p) /\ Held(a, p)
    BY <2>1 DEF PythonWriterInv, Public
  <2>3. StrictlyIncreasing(p) /\ StrictlyIncreasing(a)
    BY <2>2, AscendsNeighbours DEF Held
  <2>4. ToSet(a) \subseteq ToSet(p)
    <3>1. DOMAIN a = 1 .. Len(a) /\ DOMAIN p = 1 .. Len(p)
      OBVIOUS
    <3> QED
      BY <2>2, <3>1 DEF Held, ToSet
  <2> QED
    BY <2>1, <2>3, <2>4
<1> QED
  BY <1>1 DEF PythonWriterInv, AcknowledgedIsPublished

(* The invariant holds in every reachable state, whatever the series, the  *)
(* batch size, the lists and the calls that fail.                          *)
THEOREM PythonWriterInvHolds == PythonWriterSpec => []PythonWriterInv
<1>1. PythonWriterInit => PythonWriterInv
  BY PythonWriterStarts
<1>2. PythonWriterInv /\ [PythonWriterNext]_writerVars => PythonWriterInv'
  BY PythonWriterStep
<1> QED
  BY <1>1, <1>2, PTL DEF PythonWriterSpec

(* When checkpoint or close of the Python writer returns, every point of   *)
(* every call that returned before is published, in strict order of time;  *)
(* if no call raised, nothing else is and no point twice.                  *)
THEOREM AcknowledgedIsPublishedHolds == PythonWriterSpec => []AcknowledgedIsPublished
<1>1. PythonWriterInv => AcknowledgedIsPublished
  BY PythonWriterInvStates
<1> QED
  BY <1>1, PythonWriterInvHolds, PTL

=============================================================================
