------------------------------ MODULE Queries ------------------------------
(***************************************************************************)
(* The queries of engine.ReaderFor on one series of the snapshot a reader  *)
(* holds: lookup, range, cursor, aggregate, windows and borrowed pages.    *)
(*                                                                         *)
(* A reader with a mapped file remembers for each series the root and the  *)
(* leaf that a query entered last, and starts later queries from them; a   *)
(* reader without one walks from the root every time.  A cursor keeps its  *)
(* place between calls while other queries move that leaf and refreshes    *)
(* replace the snapshot.                                                   *)
(***************************************************************************)
EXTENDS Traversal

CONSTANTS
    Values,         \* the value of each timestamp that may be stored
    RecordsMax,     \* points of a page
    Capacities,     \* the output sizes callers use
    MaxPages,       \* bound: pages of the series
    MaxCursors      \* bound: cursors made

ASSUME QueriesAssumption ==
    /\ Values \in [TimestampDomain -> Int]
    /\ RecordsMax \in Nat \ {0}
    /\ Capacities \subseteq Nat \ {0}
    /\ MaxPages \in 0 .. Room[HeightMax]
    /\ MaxCursors \in Nat

VARIABLES
    pages,          \* of the series in the snapshot; empty: no such series
    stored,         \* its tree in the file, empty or the root's node
    generation,
    mapped,         \* the file is mapped
    root,           \* SeriesRuntime.root, empty or one node
    active_leaf,    \* SeriesRuntime.active_leaf, empty or one node
    cursor,
    delivered,      \* what the cursor has delivered
    asked,          \* what it was asked for
    cursors

runtimeVars == <<root, active_leaf>>
cursorVars == <<cursor, delivered, asked, cursors>>
queryVars == <<pages, stored, generation, mapped, runtimeVars, cursorVars>>

-----------------------------------------------------------------------------
(* loadSeriesRoot, and the series as the manifest and the file have it.    *)

LoadSeriesRoot == IF root # << >> THEN root[1] ELSE stored[1]
StoredRoot == IF mapped THEN LoadSeriesRoot ELSE stored[1]
Whole == stored[1].summary

(* Mutant: a leaf serves every query that begins in it.                    *)
FirstNodeByStart(start, end) ==
    IF active_leaf # << >>
       /\ start >= active_leaf[1].summary.timestamp_min
       /\ start <= active_leaf[1].summary.timestamp_max
    THEN active_leaf[1] ELSE LoadSeriesRoot

(* Where a mapped query begins: the leaf entered last if it covers the     *)
(* query, the root otherwise.                                              *)
FirstNode(start, end) ==
    IF active_leaf # << >>
       /\ start >= active_leaf[1].summary.timestamp_min
       /\ end <= active_leaf[1].summary.timestamp_max
    THEN active_leaf[1] ELSE LoadSeriesRoot

QueryNode(start, end) == IF mapped THEN FirstNode(start, end) ELSE stored[1]

-----------------------------------------------------------------------------
(* Lookup.                                                                 *)

(* Mutant: the entry at or after the timestamp serves a predecessor too.   *)
LookupEntryAtOrAfter(node, timestamp, direction) ==
    LET selected == NodeLowerBound(node, timestamp) + 1 IN
    IF selected <= Len(node.entries) THEN <<selected>>
    ELSE IF direction = "predecessor" THEN <<selected - 1>> ELSE << >>

(* lookupEntryIndex, empty for null.                                       *)
LookupEntryIndex(node, timestamp, direction) ==
    LET count == Len(node.entries)
        selected == NodeLowerBound(node, timestamp) + 1
        starts_after == node.entries[selected].summary.timestamp_min > timestamp
    IN  CASE direction = "successor" ->
                IF selected > count THEN << >> ELSE <<selected>>
          [] direction = "predecessor" ->
                IF selected > count THEN <<count>>
                ELSE IF ~starts_after THEN <<selected>>
                ELSE IF selected = 1 THEN << >> ELSE <<selected - 1>>

(* lookupPagePoint, empty for null.                                        *)
LookupPagePoint(page, timestamp, direction) ==
    LET selected == PageLowerBound(page, timestamp) + 1
    IN  CASE direction = "successor" ->
                IF selected > Len(page) THEN << >> ELSE <<page[selected]>>
          [] direction = "predecessor" ->
                IF selected > Len(page) THEN <<Last(page)>>
                ELSE IF page[selected].timestamp <= timestamp THEN <<page[selected]>>
                ELSE IF selected = 1 THEN << >> ELSE <<page[selected - 1]>>

(* lookupDirectional: the path down, one node a level.  It ends in a page  *)
(* or where no entry is selected; the leaf is the one it went down to.     *)
LookupDirectional(timestamp, direction) ==
    LET top == StoredRoot
        path[depth \in 0 .. top.level] ==
            IF depth = 0 THEN <<top>>
            ELSE IF path[depth - 1] = << >> THEN << >>
            ELSE LET node == path[depth - 1][1]
                     selected == LookupEntryIndex(node, timestamp, direction)
                 IN  IF selected = << >> THEN << >>
                     ELSE <<node.entries[selected[1]].child>>
        leaf == path[top.level]
        selected == LookupEntryIndex(leaf[1], timestamp, direction)
    IN  [leaf |-> IF top.level > 0 THEN leaf ELSE << >>,
         point |-> IF leaf = << >> \/ selected = << >> THEN << >>
                   ELSE LookupPagePoint(leaf[1].entries[selected[1]].child,
                                        timestamp, direction)]

TimestampDistance(a, b) == IF a < b THEN b - a ELSE a - b

Nearest(before, after, timestamp) ==
    IF before = << >> THEN after
    ELSE IF after = << >> THEN before
    ELSE IF TimestampDistance(before[1].timestamp, timestamp)
                <= TimestampDistance(after[1].timestamp, timestamp)
    THEN before ELSE after

(* lookupPrepared; limit is empty or the largest distance accepted.        *)
LookupPrepared(timestamp, mode, limit) ==
    LET before == LookupDirectional(timestamp, "predecessor").point
        after == LookupDirectional(timestamp, "successor").point
        Exact(point) == point # << >> /\ point[1].timestamp = timestamp
        selected == CASE mode = "exact" -> IF Exact(after) THEN after ELSE << >>
                      [] mode = "predecessor" -> before
                      [] mode = "successor" -> after
                      [] mode = "nearest" ->
                            IF Exact(before) THEN before
                            ELSE Nearest(before, after, timestamp)
    IN  IF selected # << >> /\ limit # << >>
           /\ TimestampDistance(selected[1].timestamp, timestamp) > limit[1]
        THEN << >> ELSE selected

-----------------------------------------------------------------------------
(* Range.  A mode is "count" (profile too), "copy" into an output of some  *)
(* capacity, or "file".                                                    *)

SummarizesCovered(mode, matches, capacity) ==
    mode = "count" \/ (mode = "copy" /\ matches >= capacity)

(* rangePreparedInternal and rangeMapped.                                  *)
RangePrepared(start, end, mode, capacity) ==
    LET nothing == [matches |-> 0, output |-> << >>]
        Start(g) == start
        Classify(g, s) ==
            IF ~mapped /\ s.timestamp_max < start THEN "skip"
            ELSE IF s.timestamp_min > end THEN "leave"
            ELSE IF /\ SummarizesCovered(mode, g.matches, capacity)
                    /\ s.timestamp_min >= start
                    /\ s.timestamp_max <= end
            THEN "merge" ELSE "enter"
        Merge(g, s) == [g EXCEPT !.matches = @ + s.point_count]
        Read(g, page) ==
            LET found == PointsBetween(page, start, end)
                room == capacity - Min({g.matches, capacity})
                wanted == CASE mode = "count" -> 0
                            [] mode = "copy" -> Min({room, Len(found)})
                            [] mode = "file" -> Len(found)
            IN  [matches |-> g.matches + Len(found),
                 output |-> g.output \o SubSeq(found, 1, wanted)]
        single == LoadSeriesRoot.entries[1]
        walk == WalkAll(QueryNode(start, end), start, nothing,
                        Start, Unmoved, Classify, Merge, Read)
        Result(g, leaf) == [matches |-> g.matches, output |-> g.output, leaf |-> leaf]
    IN  IF end < start THEN Result(nothing, << >>)
        ELSE IF mode = "count" /\ start <= Whole.timestamp_min
                               /\ end >= Whole.timestamp_max
        THEN Result([nothing EXCEPT !.matches = Whole.point_count], << >>)
        ELSE IF mapped /\ LoadSeriesRoot.level = 0 /\ Len(LoadSeriesRoot.entries) = 1
        THEN IF single.summary.timestamp_max < start \/ single.summary.timestamp_min > end
             THEN Result(nothing, << >>)
             ELSE Result(Read(nothing, single.child), << >>)
        ELSE Result(walk.gathered, walk.leaf)

-----------------------------------------------------------------------------
(* Aggregates.                                                             *)

NoAggregate == [count |-> 0, minimum |-> NaN, maximum |-> NaN, sum |-> 0,
                first |-> NaN, last |-> NaN]

MergeAggregateSummary(a, s) ==
    [count |-> a.count + s.point_count,
     minimum |-> Minimum(a.minimum, s.value_min),
     maximum |-> Maximum(a.maximum, s.value_max),
     sum |-> a.sum + s.value_sum,
     first |-> IF a.count = 0 THEN s.value_first ELSE a.first,
     last |-> s.value_last]

MergeAggregateValue(a, v) ==
    [count |-> a.count + 1,
     minimum |-> Minimum(a.minimum, v),
     maximum |-> Maximum(a.maximum, v),
     sum |-> IF v = NaN THEN a.sum ELSE a.sum + v,
     first |-> IF a.count = 0 THEN v ELSE a.first,
     last |-> v]

(* aggregatePrepared and aggregateMapped.                                  *)
AggregatePrepared(start, end) ==
    LET Start(g) == start
        Classify(g, s) ==
            IF ~mapped /\ s.timestamp_max < start THEN "skip"
            ELSE IF s.timestamp_min > end THEN "leave"
            ELSE IF s.timestamp_min >= start /\ s.timestamp_max <= end
            THEN "merge" ELSE "enter"
        Read(g, page) ==
            FoldLeft(LAMBDA a, p : MergeAggregateValue(a, p.value), g,
                     PointsBetween(page, start, end))
        walk == WalkAll(QueryNode(start, end), start, NoAggregate,
                        Start, Unmoved, Classify, MergeAggregateSummary, Read)
        Result(g, leaf) == [aggregate |-> g, leaf |-> leaf]
    IN  IF end < start THEN Result(NoAggregate, << >>)
        ELSE IF start <= Whole.timestamp_min /\ end >= Whole.timestamp_max
        THEN Result(MergeAggregateSummary(NoAggregate, Whole), << >>)
        ELSE Result(walk.gathered, walk.leaf)

ScanEnd(start, end, resolution, filled, buckets) ==
    IF filled = buckets THEN end ELSE start + filled * resolution - 1

AggregateBucket(start, resolution, timestamp) ==
    ((timestamp - start) \div resolution) + 1

(* Mutant: a summary goes to the bucket of its first point.                *)
InSomeBucket(start, resolution, s) == TRUE

(* A summary is merged whole only if its first and last points share a     *)
(* bucket.                                                                 *)
InOneBucket(start, resolution, s) ==
    AggregateBucket(start, resolution, s.timestamp_min)
        = AggregateBucket(start, resolution, s.timestamp_max)

(* aggregateWindowsPrepared: the number of buckets asked for, and those    *)
(* that fit into the output.                                               *)
AggregateWindows(start, end, resolution, capacity) ==
    LET buckets == ((end - start) \div resolution) + 1
        filled == Min({buckets, capacity})
        scan_end == ScanEnd(start, end, resolution, filled, buckets)
        Bucket(timestamp) == AggregateBucket(start, resolution, timestamp)
        Start(g) == start
        Classify(g, s) ==
            IF s.timestamp_max < start THEN "skip"
            ELSE IF s.timestamp_min > scan_end THEN "leave"
            ELSE IF /\ s.timestamp_min >= start
                    /\ s.timestamp_max <= scan_end
                    /\ InOneBucket(start, resolution, s)
            THEN "merge" ELSE "enter"
        Merge(g, s) ==
            [g EXCEPT ![Bucket(s.timestamp_min)] = MergeAggregateSummary(@, s)]
        Read(g, page) ==
            FoldLeft(LAMBDA windows, p :
                        [windows EXCEPT ![Bucket(p.timestamp)] =
                            MergeAggregateValue(@, p.value)],
                     g, PointsBetween(page, start, scan_end))
        empty == [i \in 1 .. filled |-> NoAggregate]
    IN  IF end < start THEN [buckets |-> 0, windows |-> << >>]
        ELSE [buckets |-> buckets,
              windows |-> IF filled = 0 THEN << >>
                          ELSE WalkAll(stored[1], start, empty,
                                       Start, Unmoved, Classify, Merge, Read).gathered]

-----------------------------------------------------------------------------
(* findMappedPage and borrowRawPage: the page of a timestamp, empty for    *)
(* TimestampNotFound.  Whether the page is raw is not modelled.            *)

FindMappedPage(timestamp) ==
    LET top == FirstNode(timestamp, timestamp)
        path[depth \in 0 .. top.level + 1] ==
            IF depth = 0 THEN <<top>>
            ELSE LET node == path[depth - 1][1]
                     selected == NodeLowerBound(node, timestamp) + 1
                 IN  IF path[depth - 1] = << >> \/ selected > Len(node.entries)
                     THEN << >> ELSE <<node.entries[selected].child>>
    IN  [leaf |-> IF top.level > 0 THEN path[top.level] ELSE << >>,
         page |-> path[top.level + 1]]

(* Mutant: the page after a gap is lent for a timestamp in the gap.        *)
BorrowNextPage(timestamp) == FindMappedPage(timestamp).page

BorrowRawPage(timestamp) ==
    LET found == FindMappedPage(timestamp).page IN
    IF found = << >> \/ timestamp < found[1][1].timestamp
                     \/ timestamp > Last(found[1]).timestamp
    THEN << >> ELSE found

-----------------------------------------------------------------------------
(* Cursors.                                                                *)

NoCursor == [generation |-> 0, complete |-> TRUE]

CursorPrepared(start, end) ==
    [generation |-> generation, next_timestamp |-> start, end |-> end,
     complete |-> end < start, initialized |-> FALSE, frames |-> << >>,
     current_page |-> << >>, point_index |-> 0]

(* Mutant: the next call begins at the last point delivered.               *)
ResumeAtLast(c, last) == [c EXCEPT !.next_timestamp = last]

ResumeAfter(c, last) == [c EXCEPT !.next_timestamp = last + 1]

(* cursorNext without a mapping: a range from where the last call ended.   *)
CursorNextGeneric(c, capacity) ==
    LET found == RangePrepared(c.next_timestamp, c.end, "copy", capacity)
        last == Last(found.output).timestamp
    IN  [copied |-> found.output, leaf |-> << >>,
         cursor |->
            IF found.matches <= capacity \/ last = TimestampMax
            THEN [c EXCEPT !.complete = TRUE]
            ELSE ResumeAfter(c, last)]

(* Copying from the current page, up to the output's end, the cursor's     *)
(* end or the greatest timestamp.                                          *)
CopyFromPage(c, copied, capacity) ==
    LET page == c.current_page[1]
        stop == Min({capacity - Len(copied), Len(page) - c.point_index})
        taken == SelectSeq(SubSeq(page, c.point_index + 1, c.point_index + stop),
                           LAMBDA p : p.timestamp <= c.end)
        reached == c.point_index + Len(taken)
        at_end == \/ Len(taken) < stop
                  \/ taken # << >> /\ Last(taken).timestamp = TimestampMax
        Advanced(d) ==
            IF taken = << >> \/ Last(taken).timestamp = TimestampMax
            THEN d ELSE [d EXCEPT !.next_timestamp = Last(taken).timestamp + 1]
    IN  [copied |-> copied \o taken,
         cursor |-> Advanced([c EXCEPT !.point_index = reached,
                                       !.complete = at_end,
                                       !.current_page =
                                            IF at_end \/ reached = Len(page)
                                            THEN << >> ELSE @])]

CallEnds(st, capacity) == st.cursor.complete \/ Len(st.copied) = capacity

(* One round of the loop of cursorNextMapped.                              *)
CursorRound(st, capacity) ==
    LET c == st.cursor
        frame == Last(c.frames)
        entry == frame.node.entries[frame.next]
        past == [c EXCEPT !.frames[Len(c.frames)].next = @ + 1]
        index == PageLowerBound(entry.child, c.next_timestamp)
        copy == CopyFromPage(c, st.copied, capacity)
    IN  IF CallEnds(st, capacity) THEN st
        ELSE IF c.current_page # << >>
        THEN [st EXCEPT !.copied = copy.copied, !.cursor = copy.cursor]
        ELSE IF c.frames = << >> THEN [st EXCEPT !.cursor.complete = TRUE]
        ELSE IF frame.next > Len(frame.node.entries)
        THEN [st EXCEPT !.cursor.frames = Front(@)]
        ELSE IF entry.summary.timestamp_min > c.end
        THEN [st EXCEPT !.cursor = [past EXCEPT !.complete = TRUE]]
        ELSE IF frame.node.level > 0
        THEN [st EXCEPT !.cursor = [past EXCEPT !.frames =
                                        Append(@, Frame(entry.child, c.next_timestamp))],
                        !.leaf = IF entry.child.level = 0 THEN <<entry.child>> ELSE @]
        ELSE IF index = Len(entry.child) THEN [st EXCEPT !.cursor = past]
        ELSE [st EXCEPT !.cursor = [past EXCEPT !.current_page = <<entry.child>>,
                                                !.point_index = index]]

CursorNextMapped(c, capacity) ==
    LET begun == IF c.initialized THEN c
                 ELSE [c EXCEPT !.initialized = TRUE,
                                !.frames = <<Frame(LoadSeriesRoot, c.next_timestamp)>>]
        rounds == 2 * StepsMax(LoadSeriesRoot)
        after[n \in 0 .. rounds] ==
            IF n = 0 THEN [copied |-> << >>, leaf |-> << >>, cursor |-> begun]
            ELSE CursorRound(after[n - 1], capacity)
    IN  after[rounds]

CursorStep(c, capacity) ==
    IF mapped THEN CursorNextMapped(c, capacity) ELSE CursorNextGeneric(c, capacity)

-----------------------------------------------------------------------------
(* Actions.  A query changes nothing but the reader's memory of the series *)
(* (Touch): what it answers is what the operators above say.               *)

Touch(leaf) ==
    IF mapped
    THEN /\ root' = <<LoadSeriesRoot>>
         /\ active_leaf' = IF leaf = << >> THEN active_leaf ELSE leaf
    ELSE UNCHANGED runtimeVars

Series == pages # << >>
OnlyRuntime == UNCHANGED <<pages, stored, generation, mapped, cursorVars>>

Lookup(timestamp, direction) ==
    /\ Series
    /\ Touch(LookupDirectional(timestamp, direction).leaf)
    /\ OnlyRuntime

RangeQuery(start, end, mode, capacity) ==
    /\ Series
    /\ start <= end
    /\ Touch(RangePrepared(start, end, mode, capacity).leaf)
    /\ OnlyRuntime

Aggregate(start, end) ==
    /\ Series
    /\ start <= end
    /\ Touch(AggregatePrepared(start, end).leaf)
    /\ OnlyRuntime

Borrow(timestamp) ==
    /\ Series
    /\ mapped
    /\ Touch(FindMappedPage(timestamp).leaf)
    /\ OnlyRuntime

AllPoints == FlattenSeq(pages)
ReferenceRange(start, end) == PointsBetween(AllPoints, start, end)

MakeCursor(start, end) ==
    /\ Series
    /\ cursors < MaxCursors
    /\ cursors' = cursors + 1
    /\ cursor' = CursorPrepared(start, end)
    /\ delivered' = << >>
    /\ asked' = ReferenceRange(start, end)
    /\ UNCHANGED <<pages, stored, generation, mapped, runtimeVars>>

(* resolve refuses the handle of another generation.                       *)
CursorNext(capacity) ==
    /\ cursor # NoCursor
    /\ cursor.generation = generation
    /\ ~cursor.complete
    /\ LET result == CursorStep(cursor, capacity) IN
        /\ cursor' = result.cursor
        /\ delivered' = delivered \o result.copied
        /\ Touch(result.leaf)
    /\ UNCHANGED <<pages, stored, generation, mapped, asked, cursors>>

NewPages ==
    {[i \in 1 .. Len(ts) |-> Point(ts[i], Values[ts[i]])] :
        ts \in {ts \in UNION {[1 .. n -> TimestampDomain] : n \in 1 .. RecordsMax} :
                    /\ \A i, k \in DOMAIN ts : i < k => ts[i] < ts[k]
                    /\ pages = << >> \/ Last(Last(pages)).timestamp < ts[1]}}

(* Mutant: the memory of the series survives a refresh.                    *)
FreshRuntimeKept == UNCHANGED runtimeVars

FreshRuntime == root' = << >> /\ active_leaf' = << >>

(* refresh adopts a generation with one more page and maps the file.       *)
Refresh ==
    /\ Len(pages) < MaxPages
    /\ \E page \in NewPages : pages' = Append(pages, page)
    /\ stored' = <<SeriesRoot(pages')>>
    /\ generation' = generation + 1
    /\ mapped' = TRUE
    /\ FreshRuntime
    /\ UNCHANGED cursorVars

(* The reader is closed and another one opened, with open, which maps the  *)
(* file, or with openOn, which does not.                                   *)
Reopen ==
    /\ Series
    /\ mapped' \in BOOLEAN
    /\ FreshRuntime
    /\ cursor' = NoCursor
    /\ delivered' = << >>
    /\ asked' = << >>
    /\ UNCHANGED <<pages, stored, generation, cursors>>

Init ==
    /\ pages = << >>
    /\ stored = << >>
    /\ generation = 0
    /\ mapped \in BOOLEAN
    /\ root = << >>
    /\ active_leaf = << >>
    /\ cursor = NoCursor
    /\ delivered = << >>
    /\ asked = << >>
    /\ cursors = 0

Directions == {"predecessor", "successor"}

Next ==
    \/ \E timestamp \in TimestampDomain, direction \in Directions :
            Lookup(timestamp, direction)
    \/ \E start, end \in TimestampDomain :
            \/ \E capacity \in Capacities : RangeQuery(start, end, "copy", capacity)
            \/ RangeQuery(start, end, "count", 0)
            \/ RangeQuery(start, end, "file", 0)
    \/ \E start, end \in TimestampDomain : Aggregate(start, end)
    \/ \E timestamp \in TimestampDomain : Borrow(timestamp)
    \/ \E start, end \in TimestampDomain : MakeCursor(start, end)
    \/ \E capacity \in Capacities : CursorNext(capacity)
    \/ Refresh
    \/ Reopen

Spec == Init /\ [][Next]_queryVars

-----------------------------------------------------------------------------
(* Properties.  Each compares the answer that the reader would give now,   *)
(* with what it remembers of earlier queries, with the stored points.      *)

Distance(p, timestamp) == TimestampDistance(p.timestamp, timestamp)

(* The points a mode accepts before the distance is looked at.             *)
Eligible(timestamp, mode) ==
    {p \in ToSet(AllPoints) :
        CASE mode = "exact" -> p.timestamp = timestamp
          [] mode = "predecessor" -> p.timestamp <= timestamp
          [] mode = "successor" -> p.timestamp >= timestamp
          [] mode = "nearest" -> TRUE}

ReferenceLookup(timestamp, mode, limit) ==
    LET eligible == Eligible(timestamp, mode)
        best == {p \in eligible : \A q \in eligible :
                    Distance(p, timestamp) <= Distance(q, timestamp)}
        chosen == CHOOSE p \in best : \A q \in best : p.timestamp <= q.timestamp
    IN  IF eligible = {} THEN << >>
        ELSE IF limit # << >> /\ Distance(chosen, timestamp) > limit[1] THEN << >>
        ELSE <<chosen>>

(* A lookup answers the stored point the mode selects, the earlier of two  *)
(* that are equally near, and none beyond the limit, for targets inside    *)
(* pages, between pages, between nodes and outside the series; and a page  *)
(* is lent for a timestamp exactly when it covers it.                      *)
LookupsAreExact ==
    /\ Series =>
           \A timestamp \in TimestampDomain,
              mode \in {"exact", "predecessor", "successor", "nearest"},
              limit \in {<< >>, <<0>>, <<1>>} :
               LookupPrepared(timestamp, mode, limit) =
                   ReferenceLookup(timestamp, mode, limit)
    /\ (Series /\ mapped) =>
           \A timestamp \in TimestampDomain :
               ToSet(BorrowRawPage(timestamp)) =
                   {p \in ToSet(pages) : /\ p[1].timestamp <= timestamp
                                         /\ timestamp <= Last(p).timestamp}

(* A range counts every stored point in it, also the ones that do not fit  *)
(* into the output, and copies the first of them in order, wherever the    *)
(* query before left the reader's active leaf.                             *)
RangesCrossPages ==
    Series =>
        \A start, end \in TimestampDomain, capacity \in Capacities :
            LET points == ReferenceRange(start, end)
                Copied(n) == SubSeq(points, 1, Min({n, Len(points)}))
                count == RangePrepared(start, end, "count", capacity)
                copy == RangePrepared(start, end, "copy", capacity)
                file == RangePrepared(start, end, "file", capacity)
            IN  /\ count.matches = Len(points)
                /\ copy.matches = Len(points)
                /\ copy.output = Copied(capacity)
                /\ file.output = points

ReferenceAggregate(points) ==
    LET values == [i \in DOMAIN points |-> points[i].value]
        numbers == ToSet(values) \ {NaN}
    IN  [count |-> Len(points),
         minimum |-> IF numbers = {} THEN NaN ELSE Min(numbers),
         maximum |-> IF numbers = {} THEN NaN ELSE Max(numbers),
         sum |-> SumOf(values),
         first |-> IF points = << >> THEN NaN ELSE points[1].value,
         last |-> IF points = << >> THEN NaN ELSE Last(points).value]

(* An aggregate put together from summaries of nodes, of pages and from    *)
(* single points is that of the stored points.  So is every window that    *)
(* fits into the output, and the answer is the number of windows of the    *)
(* whole range.                                                            *)
AggregatesAreExact ==
    /\ Series =>
           \A start, end \in TimestampDomain :
               AggregatePrepared(start, end).aggregate =
                   ReferenceAggregate(ReferenceRange(start, end))
    /\ Series =>
           \A start, end \in TimestampDomain, resolution \in {1, 2, 3},
              capacity \in {0} \cup Capacities :
               LET answer == AggregateWindows(start, end, resolution, capacity)
                   Window(i) == ReferenceRange(start + (i - 1) * resolution,
                                   Min({end, start + i * resolution - 1}))
               IN  start <= end =>
                   /\ answer.buckets = Cardinality({(t - start) \div resolution :
                                                       t \in start .. end})
                   /\ Len(answer.windows) = Min({capacity, answer.buckets})
                   /\ \A i \in DOMAIN answer.windows :
                           answer.windows[i] = ReferenceAggregate(Window(i))

(* A cursor delivers the points it was asked for in order, none twice and  *)
(* none left out at the boundary of a call, whatever other queries and     *)
(* cursors do in between; a complete one has delivered all.                *)
CursorDeliversItsRange ==
    cursor # NoCursor =>
        /\ IsPrefix(delivered, asked)
        /\ cursor.complete => delivered = asked

=============================================================================
