----------------------------- MODULE Traversal -----------------------------
(***************************************************************************)
(* The tree of a series as a query sees it, and the walk that every query  *)
(* makes: a stack of frames, each a node and the next entry of it, which   *)
(* goes down, merges or skips an entry, reads a page, or goes back up.     *)
(*                                                                         *)
(* TimeIndex shows that the shape of the tree depends only on its pages,   *)
(* and PageCodec that the search inside a page finds the first point at or *)
(* after a timestamp; both are used here as what they were shown to be.    *)
(***************************************************************************)
EXTENDS Integers, Sequences, SequencesExt, FiniteSets

CONSTANTS
    Capacity,           \* index.entry_capacity
    HeightMax,          \* index.height_max
    TimestampMin,       \* of an i64
    TimestampMax,
    NaN                 \* the value that statistics leave out

ASSUME TraversalAssumption ==
    /\ Capacity \in Nat \ {0, 1}
    /\ HeightMax \in Nat \ {0}
    /\ {TimestampMin, TimestampMax, NaN} \subseteq Int
    /\ TimestampMin <= TimestampMax

TimestampDomain == TimestampMin .. TimestampMax
Point(timestamp, value) == [timestamp |-> timestamp, value |-> value]

-----------------------------------------------------------------------------
(* Summaries.                                                              *)

Minimum(a, b) == IF a = NaN THEN b ELSE IF b = NaN THEN a ELSE Min({a, b})
Maximum(a, b) == IF a = NaN THEN b ELSE IF b = NaN THEN a ELSE Max({a, b})
SumOf(values) == FoldLeft(LAMBDA n, v : IF v = NaN THEN n ELSE n + v, 0, values)

(* fromPage: what the statistics of a page say of its points.              *)
FromPage(page) ==
    LET values == [i \in DOMAIN page |-> page[i].value] IN
    [timestamp_min |-> page[1].timestamp,
     timestamp_max |-> Last(page).timestamp,
     point_count |-> Len(page),
     value_min |-> FoldLeft(Minimum, NaN, values),
     value_max |-> FoldLeft(Maximum, NaN, values),
     value_sum |-> SumOf(values),
     value_first |-> page[1].value,
     value_last |-> Last(page).value]

ExtendSummary(summary, next) ==
    [summary EXCEPT !.timestamp_max = next.timestamp_max,
                    !.point_count = @ + next.point_count,
                    !.value_min = Minimum(@, next.value_min),
                    !.value_max = Maximum(@, next.value_max),
                    !.value_sum = @ + next.value_sum,
                    !.value_last = next.value_last]

Summarize(entries) ==
    LET upto[n \in 1 .. Len(entries)] ==
            IF n = 1 THEN entries[1].summary
            ELSE ExtendSummary(upto[n - 1], entries[n].summary)
    IN  upto[Len(entries)]

-----------------------------------------------------------------------------
(* The tree.  child is a page below a leaf and a node below the others.    *)

Entry(summary, child) == [summary |-> summary, child |-> child]
Node(level, entries) ==
    [level |-> level, entries |-> entries, summary |-> Summarize(entries)]

(* writeLevel.                                                             *)
NodesOf(level, entries) ==
    [i \in 1 .. (Len(entries) + Capacity - 1) \div Capacity |->
        Node(level, SubSeq(entries, (i - 1) * Capacity + 1,
                                    Min({i * Capacity, Len(entries)})))]

EntriesOf(nodes) == [i \in DOMAIN nodes |-> Entry(nodes[i].summary, nodes[i])]

(* The levels above the leaves until one has a single node.                *)
SeriesRoot(pages) ==
    LET leaves == NodesOf(0, [i \in DOMAIN pages |-> Entry(FromPage(pages[i]), pages[i])])
        nodes[level \in 0 .. HeightMax - 1] ==
            IF level = 0 THEN leaves
            ELSE IF Len(nodes[level - 1]) = 1 THEN nodes[level - 1]
            ELSE NodesOf(level, EntriesOf(nodes[level - 1]))
    IN  nodes[HeightMax - 1][1]

(* The pages of a tree whose nodes are all full.                           *)
Room[height \in 0 .. HeightMax] ==
    IF height = 0 THEN 1 ELSE Capacity * Room[height - 1]

(* The searches count what is before the timestamp.                        *)
NodeLowerBound(node, timestamp) ==
    Cardinality({i \in DOMAIN node.entries :
                    node.entries[i].summary.timestamp_max < timestamp})
PageLowerBound(page, timestamp) ==
    Cardinality({i \in DOMAIN page : page[i].timestamp < timestamp})
PointsBetween(page, start, end) ==
    SelectSeq(page, LAMBDA p : p.timestamp \in start .. end)

-----------------------------------------------------------------------------
(* The walk.  Its state is the frames, what was gathered, whether the      *)
(* query is over, and the leaf entered last (none: empty).  A query says   *)
(* from where it searches (Start), what it does on reaching an entry       *)
(* (Arrive), what the entry is to it (Classify), and what it gathers from  *)
(* a summary (Merge) or a page (Read).                                     *)

Frame(node, timestamp) == [node |-> node, next |-> NodeLowerBound(node, timestamp) + 1]

Walk(node, timestamp, gathered) ==
    [frames |-> <<Frame(node, timestamp)>>, gathered |-> gathered,
     over |-> FALSE, leaf |-> << >>]

Up(walk) == [walk EXCEPT !.frames = Front(@)]
Past(walk) == [walk EXCEPT !.frames[Len(walk.frames)].next = @ + 1]
Down(walk, node, timestamp) ==
    [walk EXCEPT !.frames = Append(@, Frame(node, timestamp)),
                 !.leaf = IF node.level = 0 THEN <<node>> ELSE @]
(* The rest of the node is given up.                                       *)
Leave(walk) ==
    [walk EXCEPT !.frames[Len(walk.frames)].next =
                        Len(Last(walk.frames).node.entries) + 1]

WalkStep(walk, Start(_), Arrive(_, _), Classify(_, _), Merge(_, _), Read(_, _)) ==
    LET frame == Last(walk.frames)
        entry == frame.node.entries[frame.next]
        past == [Past(walk) EXCEPT !.gathered = Arrive(@, entry.summary)]
        what == Classify(past.gathered, entry.summary)
    IN  IF walk.over \/ walk.frames = << >> THEN walk
        ELSE IF frame.next > Len(frame.node.entries) THEN Up(walk)
        ELSE CASE what = "skip" -> past
               [] what = "leave" -> Leave(past)
               [] what = "stop" -> [past EXCEPT !.over = TRUE]
               [] what = "merge" ->
                    [past EXCEPT !.gathered = Merge(@, entry.summary)]
               [] what = "enter" ->
                    IF frame.node.level = 0
                    THEN [past EXCEPT !.gathered = Read(@, entry.child)]
                    ELSE Down(past, entry.child, Start(past.gathered))

(* Reaching an entry does nothing of itself.                               *)
Unmoved(gathered, summary) == gathered

(* Enough steps for a walk of the whole tree: each entry is passed once    *)
(* and each node left once.                                                *)
StepsMax(node) == 3 * node.summary.point_count + 2 * HeightMax

WalkAll(node, timestamp, gathered, Start(_), Arrive(_, _), Classify(_, _),
        Merge(_, _), Read(_, _)) ==
    LET after[n \in 0 .. StepsMax(node)] ==
            IF n = 0 THEN Walk(node, timestamp, gathered)
            ELSE WalkStep(after[n - 1], Start, Arrive, Classify, Merge, Read)
    IN  after[StepsMax(node)]

=============================================================================
