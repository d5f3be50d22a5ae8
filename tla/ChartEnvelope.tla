--------------------------- MODULE ChartEnvelope ---------------------------
(***************************************************************************)
(* The chart envelope of a series (ReaderFor.envelopeInto): for each       *)
(* bucket of the request the first, the least, the greatest and the last   *)
(* point, and before each of them the reasons why a line from the sample   *)
(* before it would be wrong.  It is made in one pass over the pages that   *)
(* reach into the request, with counters instead of the points themselves. *)
(***************************************************************************)
EXTENDS Traversal

CONSTANTS
    Values,         \* the values of points, numbers and NaN
    Requests,       \* the sequences of bucket bounds that are asked for
    Gaps,           \* the values of max_gap; empty stands for null
    RecordsMax,     \* points of a page
    MaxPages        \* bound: pages of the series

VARIABLES
    pages,      \* of the series
    stored      \* its tree, empty or the root's node

chartVars == <<pages, stored>>

-----------------------------------------------------------------------------
(* The reduction (ChartReduction).  Optional values are empty or of length *)
(* one; candidates are in the order of Roles.                              *)

Roles == <<"first", "minimum", "maximum", "last">>

EmptyBucket ==
    [stored_count |-> 0, numeric_count |-> 0, samples |-> << >>,
     has_nan |-> FALSE, has_internal_time_gap |-> FALSE]
NoCandidates == [role \in DOMAIN Roles |-> << >>]

Reduction ==
    [bucket_index |-> 1, bucket |-> EmptyBucket, candidates |-> NoCandidates,
     observed |-> << >>, nan_prefix |-> 0, gap_prefix |-> 0,
     emitted |-> << >>, pending_empty |-> FALSE, pending_excluded |-> FALSE,
     output |-> << >>]

IsNan(point) == point.value = NaN

(* Mutant: of equal values the latest is the extreme.                      *)
ReplacesTie(role, candidate, point) ==
    CASE role = 1 -> candidate = << >>
      [] role = 2 -> ~IsNan(point) /\
            (candidate = << >> \/ point.value <= candidate[1].point.value)
      [] role = 3 -> ~IsNan(point) /\
            (candidate = << >> \/ point.value >= candidate[1].point.value)
      [] role = 4 -> TRUE

Replaces(role, candidate, point) ==
    CASE role = 1 -> candidate = << >>
      [] role = 2 -> ~IsNan(point) /\
            (candidate = << >> \/ point.value < candidate[1].point.value)
      [] role = 3 -> ~IsNan(point) /\
            (candidate = << >> \/ point.value > candidate[1].point.value)
      [] role = 4 -> TRUE

Observe(r, point, max_gap) ==
    LET gap == /\ r.observed # << >> /\ max_gap # << >>
               /\ point.timestamp - r.observed[1] > max_gap[1]
        candidate == [point |-> point,
                      nan_prefix |-> r.nan_prefix + IF IsNan(point) THEN 1 ELSE 0,
                      gap_prefix |-> r.gap_prefix + IF gap THEN 1 ELSE 0]
    IN  [r EXCEPT
            !.nan_prefix = candidate.nan_prefix,
            !.gap_prefix = candidate.gap_prefix,
            !.observed = <<point.timestamp>>,
            !.candidates = [role \in DOMAIN Roles |->
                                IF Replaces(role, @[role], point)
                                THEN <<candidate>> ELSE @[role]],
            !.bucket = [@ EXCEPT
                !.stored_count = @ + 1,
                !.numeric_count = @ + IF IsNan(point) THEN 0 ELSE 1,
                !.has_nan = @ \/ IsNan(point),
                !.has_internal_time_gap = @ \/ (gap /\ r.bucket.stored_count # 0)]]

(* The candidates without repetition, in order of time.                    *)
Selected(candidates) ==
    SetToSortSeq(UNION {ToSet(candidates[role]) : role \in DOMAIN Roles},
                 LAMBDA a, b : a.point.timestamp < b.point.timestamp)

RolesOf(candidates, candidate) ==
    {Roles[role] : role \in {role \in DOMAIN Roles : candidates[role] = <<candidate>>}}

(* break_before, as the set of its flags.                                  *)
Breaks(r, previous, candidate) ==
    IF previous = << >>
    THEN {"query_start"} \cup (IF IsNan(candidate.point) THEN {"nan"} ELSE {})
    ELSE (IF r.pending_empty THEN {"empty_bucket"} ELSE {})
         \cup (IF r.pending_excluded THEN {"excluded_interval"} ELSE {})
         \cup (IF candidate.gap_prefix > previous[1].gap_prefix
               THEN {"time_gap"} ELSE {})
         \cup (IF \/ IsNan(previous[1].point)
                  \/ candidate.nan_prefix > previous[1].nan_prefix
               THEN {"nan"} ELSE {})

(* Emitting a candidate clears what was pending.                           *)
Emit(r, candidate) ==
    [r EXCEPT !.bucket.samples =
                    Append(@, [point |-> candidate.point,
                               roles |-> RolesOf(r.candidates, candidate),
                               break_before |-> Breaks(r, r.emitted, candidate)]),
              !.emitted = <<candidate>>,
              !.pending_empty = FALSE,
              !.pending_excluded = FALSE]

(* Mutant: the last point before omitted time counts as the neighbour of   *)
(* the first one after it.                                                 *)
CrossOmittedKeeping(r, bounds) ==
    IF r.bucket_index <= Len(bounds)
       /\ bounds[r.bucket_index].start # bounds[r.bucket_index - 1].end + 1
    THEN [r EXCEPT !.pending_excluded = TRUE]
    ELSE r

CrossOmitted(r, bounds) ==
    IF r.bucket_index <= Len(bounds)
       /\ bounds[r.bucket_index].start # bounds[r.bucket_index - 1].end + 1
    THEN [r EXCEPT !.pending_excluded = TRUE, !.observed = << >>]
    ELSE r

FinishBucket(r, bounds) ==
    LET done == FoldLeft(Emit, r, Selected(r.candidates))
        next == [done EXCEPT
                    !.output = Append(@, done.bucket),
                    !.pending_empty = @ \/ done.bucket.samples = << >>,
                    !.bucket_index = @ + 1,
                    !.bucket = EmptyBucket,
                    !.candidates = NoCandidates]
    IN  CrossOmitted(next, bounds)

FinishBuckets(r, count, bounds) ==
    FoldLeft(LAMBDA s, i : FinishBucket(s, bounds), r, [i \in 1 .. count |-> i])

(* advanceBefore: the buckets that end before the timestamp are finished.  *)
AdvanceBefore(r, timestamp, bounds) ==
    FinishBuckets(r, Cardinality({i \in r.bucket_index .. Len(bounds) :
                                        bounds[i].end < timestamp}), bounds)

(* chartSelectPage.                                                        *)
SelectPoint(r, point, bounds, max_gap) ==
    LET s == AdvanceBefore(r, point.timestamp, bounds) IN
    IF s.bucket_index <= Len(bounds) /\ point.timestamp >= bounds[s.bucket_index].start
    THEN Observe(s, point, max_gap) ELSE s

ChartSelectPage(page, r, bounds, max_gap) ==
    FoldLeft(LAMBDA s, point : SelectPoint(s, point, bounds, max_gap), r, page)

-----------------------------------------------------------------------------
(* envelopePreparedInternal and envelopeScan.                              *)

ValidBounds(bounds) ==
    /\ \A i \in DOMAIN bounds : bounds[i].start <= bounds[i].end
    /\ \A i \in 2 .. Len(bounds) : bounds[i - 1].end < bounds[i].start

EnvelopeScan(bounds, max_gap) ==
    LET AllFinished(r) == r.bucket_index > Len(bounds)
        Start(r) == bounds[r.bucket_index].start
        Arrive(r, s) == AdvanceBefore(r, s.timestamp_min, bounds)
        Classify(r, s) ==
            IF AllFinished(r) THEN "stop"
            ELSE IF s.timestamp_max < Start(r) THEN "skip"
            ELSE "enter"
        Read(r, page) == ChartSelectPage(page, r, bounds, max_gap)
        scanned == WalkAll(stored[1], bounds[1].start, Reduction,
                           Start, Arrive, Classify, Unmoved, Read).gathered
    IN  FinishBuckets(scanned, Len(bounds) - Len(scanned.output), bounds).output

(* The output of a valid request that has room for all of its buckets.     *)
Envelope(bounds, max_gap) ==
    IF bounds = << >> THEN << >> ELSE EnvelopeScan(bounds, max_gap)

-----------------------------------------------------------------------------
(* Every series of up to MaxPages pages.                                   *)

Init == pages = << >> /\ stored = << >>

(* Pages that may follow those of the series.                              *)
NewPages ==
    LET times == {S \in SUBSET TimestampDomain :
                    /\ Cardinality(S) \in 1 .. RecordsMax
                    /\ pages = << >> \/ \A t \in S : t > Last(Last(pages)).timestamp}
        Pages(S) == LET ts == SetToSortSeq(S, <) IN
                    {[i \in DOMAIN ts |-> Point(ts[i], v[i])] : v \in [DOMAIN ts -> Values]}
    IN  UNION {Pages(S) : S \in times}

AddPage ==
    /\ Len(pages) < MaxPages
    /\ \E page \in NewPages : pages' = Append(pages, page)
    /\ stored' = <<SeriesRoot(pages')>>

Next == AddPage

Spec == Init /\ [][Next]_chartVars

-----------------------------------------------------------------------------
(* Properties.                                                             *)

AllPoints == FlattenSeq(pages)
Inside(bound) == PointsBetween(AllPoints, bound.start, bound.end)
Numbers(points) == {p \in ToSet(points) : ~IsNan(p)}
Earliest(S) == CHOOSE p \in S : \A q \in S : p.timestamp <= q.timestamp
Least(points) ==
    Earliest({p \in Numbers(points) : \A q \in Numbers(points) : p.value <= q.value})
Greatest(points) ==
    Earliest({p \in Numbers(points) : \A q \in Numbers(points) : p.value >= q.value})

RolesIn(points, p) ==
    (IF p = points[1] THEN {"first"} ELSE {})
    \cup (IF p = Last(points) THEN {"last"} ELSE {})
    \cup (IF ~IsNan(p) /\ p = Least(points) THEN {"minimum"} ELSE {})
    \cup (IF ~IsNan(p) /\ p = Greatest(points) THEN {"maximum"} ELSE {})

(* Two points are known to be neighbours if the request covers all of the  *)
(* time between them and no stored point lies there.                       *)
Covered(bounds, t) == \E i \in DOMAIN bounds : t \in bounds[i].start .. bounds[i].end
Contiguous(bounds, t, u) == \A v \in t .. u : Covered(bounds, v)
KnownGap(bounds, max_gap, p, q) ==
    /\ max_gap # << >>
    /\ q.timestamp - p.timestamp > max_gap[1]
    /\ Contiguous(bounds, p.timestamp, q.timestamp)
    /\ ~\E o \in ToSet(AllPoints) : p.timestamp < o.timestamp /\ o.timestamp < q.timestamp

BucketOf(bounds, t) ==
    CHOOSE i \in DOMAIN bounds : t \in bounds[i].start .. bounds[i].end

(* What lies between two samples that follow each other in the output.     *)
ReasonsBetween(bounds, max_gap, p, q) ==
    LET seen == {o \in ToSet(AllPoints) : /\ o.timestamp \in p.timestamp .. q.timestamp
                                          /\ Covered(bounds, o.timestamp)}
        skipped == BucketOf(bounds, p.timestamp) + 1 .. BucketOf(bounds, q.timestamp) - 1
    IN  (IF \E i \in skipped : Inside(bounds[i]) = << >> THEN {"empty_bucket"} ELSE {})
        \cup (IF ~Contiguous(bounds, p.timestamp, q.timestamp)
              THEN {"excluded_interval"} ELSE {})
        \cup (IF \E o, s \in seen : KnownGap(bounds, max_gap, o, s)
              THEN {"time_gap"} ELSE {})
        \cup (IF \E o \in seen : IsNan(o) THEN {"nan"} ELSE {})

(* Each bucket has its counts and exactly its first, least, greatest and   *)
(* last points, the earliest of equal ones, once each with all its roles   *)
(* and in order, and says whether it has a known gap inside.               *)
BucketIsExact(bounds, max_gap, points, bucket) ==
    /\ bucket.stored_count = Len(points)
    /\ bucket.numeric_count = Cardinality(Numbers(points))
    /\ bucket.has_nan = (\E p \in ToSet(points) : IsNan(p))
    /\ [k \in DOMAIN bucket.samples |-> bucket.samples[k].point]
        = SelectSeq(points, LAMBDA p : RolesIn(points, p) # {})
    /\ \A k \in DOMAIN bucket.samples :
            bucket.samples[k].roles = RolesIn(points, bucket.samples[k].point)
    /\ bucket.has_internal_time_gap =
            (\E o, s \in ToSet(points) : KnownGap(bounds, max_gap, o, s))

(* Every sample says exactly what separates it from the sample before: an  *)
(* empty bucket, omitted time, a gap between neighbours that the request   *)
(* covers, a NaN, also if none of the points concerned is itself a sample. *)
BreaksAreExact(bounds, max_gap, samples) ==
    \A k \in DOMAIN samples :
        samples[k].break_before =
            IF k = 1
            THEN {"query_start"} \cup (IF IsNan(samples[k].point) THEN {"nan"} ELSE {})
            ELSE ReasonsBetween(bounds, max_gap, samples[k - 1].point, samples[k].point)

OutputIsExact(bounds, max_gap, output) ==
    /\ Len(output) = Len(bounds)
    /\ \A i \in DOMAIN bounds :
            BucketIsExact(bounds, max_gap, Inside(bounds[i]), output[i])
    /\ BreaksAreExact(bounds, max_gap,
                      FlattenSeq([i \in DOMAIN output |-> output[i].samples]))

(* For every valid request, the one pass over pages and nodes answers the  *)
(* buckets with their samples, and the breaks between these, that the      *)
(* stored points define, however buckets, pages and nodes overlap.         *)
EnvelopesAreExact ==
    pages # << >> =>
        \A bounds \in Requests, max_gap \in Gaps :
            ValidBounds(bounds) => OutputIsExact(bounds, max_gap, Envelope(bounds, max_gap))

=============================================================================
