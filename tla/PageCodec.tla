------------------------------ MODULE PageCodec ------------------------------
(***************************************************************************)
(* The data page (page.zig): how timestamps and values are encoded, what   *)
(* the decoder accepts, and the searches a query runs inside a page.       *)
(*                                                                         *)
(* Integers keep their width: a timestamp is a signed integer of Width     *)
(* bits, a delta an unsigned one, and a varint byte carries DigitBits of   *)
(* it.  Width = 1 modulo DigitBits, as 64 = 1 modulo 7: the last byte of   *)
(* the longest varint carries one bit.  Sizes in bytes are kept because    *)
(* they decide which codec a page gets.                                    *)
(***************************************************************************)
EXTENDS Integers, Sequences, SequencesExt, FiniteSets, Bitwise

CONSTANTS
    Width, DigitBits,   \* 64 and 7 in the code
    IntSize,            \* bytes of an integer, 8 in the code
    DirectoryWord,      \* bytes of a directory entry, 4 in the code
    RestartInterval,    \* value_restart_interval
    RecordsMax,         \* records_max
    Timestamps,         \* the timestamps and the values points are made of
    Values,
    NaN                 \* the value that statistics leave out

ASSUME PageCodecAssumption ==
    /\ {Width, DigitBits, IntSize, DirectoryWord, RestartInterval, RecordsMax}
            \subseteq Nat \ {0}
    /\ Width % DigitBits = 1
    /\ Timestamps \subseteq -(2 ^ (Width - 1)) .. 2 ^ (Width - 1) - 1
    /\ Values \subseteq 0 .. 2 ^ Width - 1

VARIABLES timestamps, values    \* of the page being filled

pageVars == <<timestamps, values>>

IntMax == 2 ^ (Width - 1) - 1
DivCeil(a, b) == (a + b - 1) \div b

-----------------------------------------------------------------------------
(* Varints.                                                                *)

VarintBytesMax == DivCeil(Width, DigitBits)
VarintLength(v) == Min({n \in 1 .. VarintBytesMax : v < 2 ^ (DigitBits * n)})

WriteVarint(v) ==
    [i \in 1 .. VarintLength(v) |->
        [digit |-> (v \div 2 ^ (DigitBits * (i - 1))) % 2 ^ DigitBits,
         more |-> i < VarintLength(v)]]

NoVarint == [ok |-> FALSE, value |-> 0, cursor |-> 0]

(* readVarint: at most VarintBytesMax bytes, and one bit in the last.      *)
ReadVarint(bytes, cursor) ==
    LET ends == {n \in 1 .. VarintBytesMax :
                    /\ cursor + n - 1 <= Len(bytes)
                    /\ ~bytes[cursor + n - 1].more}
        n == Min(ends)
    IN  IF ends = {} THEN NoVarint
        ELSE IF n = VarintBytesMax /\ bytes[cursor + n - 1].digit > 1
        THEN NoVarint
        ELSE [ok |-> TRUE, cursor |-> cursor + n,
              value |-> FoldLeft(LAMBDA sum, i :
                            sum + bytes[cursor + i - 1].digit * 2 ^ (DigitBits * (i - 1)),
                            0, [i \in 1 .. n |-> i])]

-----------------------------------------------------------------------------
(* A compressed section: groups of RestartInterval items, each with its    *)
(* first item in full and the others as varints of their difference: the   *)
(* distance of two timestamps, the xor of the bits of two values.          *)

Difference(codec, item, before) ==
    IF codec = "delta_varint" THEN item - before ELSE item ^^ before
Undo(codec, before, difference) ==
    IF codec = "delta_varint" THEN before + difference ELSE before ^^ difference

GroupCount(items) == DivCeil(Len(items), RestartInterval)
GroupItems(items, g) ==
    SubSeq(items, (g - 1) * RestartInterval + 1,
                  Min({g * RestartInterval, Len(items)}))

EncodeGroup(codec, items) ==
    [anchor |-> items[1],
     count |-> Len(items),
     bytes |-> FlattenSeq([i \in 1 .. Len(items) - 1 |->
                    WriteVarint(Difference(codec, items[i + 1], items[i]))])]

EncodeGroups(codec, items) ==
    [g \in 1 .. GroupCount(items) |->
        EncodeGroup(codec, GroupItems(items, g))]

DirectorySize(groups) ==
    DivCeil(DirectoryWord * (1 + Len(groups)), IntSize) * IntSize
SizeOf(groups, n) ==
    FoldLeft(LAMBDA sum, g : sum + IntSize + Len(groups[g].bytes),
             DirectorySize(groups), [g \in 1 .. n |-> g])

(* compression_min_savings_percent is 5.                                   *)
CompressionLimit(items) == (Len(items) * IntSize * 95) \div 100

(* The item at a position of a group, counted from 1.                      *)
GroupItem(codec, group, position) ==
    LET read[k \in 1 .. position] ==
            IF k = 1 THEN [value |-> group.anchor, cursor |-> 1]
            ELSE LET varint == ReadVarint(group.bytes, read[k - 1].cursor)
                 IN  [value |-> Undo(codec, read[k - 1].value, varint.value),
                      cursor |-> varint.cursor]
    IN  read[position].value

ItemAt(codec, groups, index) ==
    GroupItem(codec, groups[(index \div RestartInterval) + 1],
              (index % RestartInterval) + 1)

-----------------------------------------------------------------------------
(* Timestamps.                                                             *)

(* Mutant: a page is taken as regular when its first and last steps agree. *)
DetectByEnds(ts) ==
    IF Len(ts) < 2 THEN "raw"
    ELSE IF ts[Len(ts)] - ts[Len(ts) - 1] = ts[2] - ts[1]
    THEN "base_step" ELSE "delta_varint"

DetectTimestampCodec(ts) ==
    IF Len(ts) < 2 THEN "raw"
    ELSE IF \A i \in 2 .. Len(ts) - 1 : ts[i + 1] - ts[i] = ts[2] - ts[1]
    THEN "base_step" ELSE "delta_varint"

(* The timestamps section, with the header fields a query reads.           *)
EncodeTimestamps(ts) ==
    LET codec == DetectTimestampCodec(ts)
        groups == EncodeGroups("delta_varint", ts)
        header == [count |-> Len(ts), min |-> ts[1], max |-> Last(ts)]
    IN  IF codec = "base_step"
        THEN header @@ [codec |-> codec, base |-> ts[1], step |-> ts[2] - ts[1]]
        ELSE IF codec = "delta_varint"
                /\ SizeOf(groups, Len(groups)) <= CompressionLimit(ts)
        THEN header @@ [codec |-> codec, groups |-> groups]
        ELSE header @@ [codec |-> "raw", ints |-> ts]

TimestampAt(page, index) ==
    CASE page.codec = "raw" -> page.ints[index + 1]
      [] page.codec = "base_step" -> page.min + page.step * index
      [] page.codec = "delta_varint" -> ItemAt(page.codec, page.groups, index)

(* validateDeltaTimestamps.                                                *)
DeltaGroupValid(group) ==
    LET read[k \in 1 .. group.count] ==
            IF k = 1 THEN [ok |-> TRUE, value |-> group.anchor, cursor |-> 1]
            ELSE LET before == read[k - 1]
                     delta == ReadVarint(group.bytes, before.cursor)
                 IN  [ok |-> /\ before.ok
                             /\ delta.ok
                             /\ delta.value \in 1 .. IntMax
                             /\ before.value + delta.value <= IntMax,
                      value |-> before.value + delta.value,
                      cursor |-> delta.cursor]
        last == read[group.count]
    IN  last.ok /\ last.cursor = Len(group.bytes) + 1

(* decode of the timestamps section.                                       *)
TimestampsValid(page) ==
    /\ page.min <= page.max
    /\ page.codec = "base_step" =>
        /\ page.base = page.min
        /\ page.step # 0
        /\ page.base + page.step * (page.count - 1) = page.max
    /\ page.codec = "raw" =>
        /\ page.ints[1] = page.min
        /\ \A i \in 1 .. page.count - 1 : page.ints[i] < page.ints[i + 1]
        /\ page.ints[page.count] = page.max
    /\ page.codec = "delta_varint" =>
        /\ page.groups[1].anchor = page.min
        /\ \A g \in DOMAIN page.groups : DeltaGroupValid(page.groups[g])
        /\ \A g \in 2 .. Len(page.groups) :
                page.groups[g].anchor
                    > GroupItem(page.codec, page.groups[g - 1], RestartInterval)
        /\ TimestampAt(page, page.count - 1) = page.max

-----------------------------------------------------------------------------
(* Searching a page.  Indices count from 0.                                *)

(* The loop that halves low .. high.                                       *)
Bisect(n, before) ==
    LET search[range \in (0 .. n) \X (0 .. n)] ==
            LET low == range[1]
                high == range[2]
                middle == low + (high - low) \div 2
            IN  IF low >= high THEN low
                ELSE IF middle \in before THEN search[<<middle + 1, high>>]
                ELSE search[<<low, middle>>]
    IN  search[<<0, n>>]

RawLowerBound(page, target) ==
    Bisect(page.count, {i \in 0 .. page.count - 1 : TimestampAt(page, i) < target})

DeltaLowerBound(page, target) ==
    LET low == Bisect(Len(page.groups),
                      {g \in 0 .. Len(page.groups) - 1 :
                            page.groups[g + 1].anchor <= target})
        found == {i \in (low - 1) * RestartInterval .. page.count - 1 :
                    TimestampAt(page, i) >= target}
    IN  IF found = {} THEN page.count ELSE Min(found)

(* Mutant: the quotient is rounded down.                                   *)
BaseStepFloor(page, target) == (target - page.min) \div page.step

BaseStepLowerBound(page, target) ==
    LET distance == target - page.min
    IN  (distance \div page.step) + IF distance % page.step # 0 THEN 1 ELSE 0

LowerBound(page, target) ==
    IF target <= page.min THEN 0
    ELSE IF target > page.max THEN page.count
    ELSE CASE page.codec = "base_step" -> BaseStepLowerBound(page, target)
           [] page.codec = "raw" -> RawLowerBound(page, target)
           [] page.codec = "delta_varint" -> DeltaLowerBound(page, target)

Holds(page, index, target) ==
    index < page.count /\ TimestampAt(page, index) = target

CountRange(page, start, end) ==
    LET low == LowerBound(page, start)
        high == LowerBound(page, end)
    IN  IF end < start \/ low = page.count THEN 0
        ELSE IF start = end THEN (IF Holds(page, low, start) THEN 1 ELSE 0)
        ELSE high - low + IF Holds(page, high, end) THEN 1 ELSE 0

(* rangeOutput: the number of points in the range, and the indices of the  *)
(* points copied to an output of the given capacity.                       *)
RangeOutput(page, raw_values, start, end, capacity) ==
    LET low == LowerBound(page, start)
        remaining == page.count - low
        high == RawLowerBound(page, end)
        raw_count == high - low + IF Holds(page, high, end) THEN 1 ELSE 0
        scanned == {i \in low .. page.count - 1 : TimestampAt(page, i) <= end}
        Copied(count) ==
            [count |-> count,
             copied |-> [i \in 1 .. Min({count, capacity}) |-> low + i - 1]]
    IN  IF end < start THEN Copied(0)
        ELSE IF capacity = 0 THEN Copied(CountRange(page, start, end))
        ELSE IF low = page.count THEN Copied(0)
        ELSE IF start = end
        THEN Copied(IF TimestampAt(page, low) = start THEN 1 ELSE 0)
        ELSE IF page.codec = "raw" /\ raw_values THEN Copied(raw_count)
        ELSE IF end >= page.max /\ remaining > capacity THEN Copied(remaining)
        ELSE Copied(Cardinality(scanned))

-----------------------------------------------------------------------------
(* Values.  Statistics are gathered while compressing; when compression    *)
(* gives up, the rest of the values is added by the fallback.              *)

NoStatistics == [min |-> NaN, max |-> NaN, sum |-> 0]
AddStatistic(s, v) ==
    IF v = NaN THEN s
    ELSE [min |-> IF s.min = NaN THEN v ELSE Min({s.min, v}),
          max |-> IF s.max = NaN THEN v ELSE Max({s.max, v}),
          sum |-> s.sum + v]

(* Mutant: the limit is looked at before the group is counted as observed. *)
ObservedBefore(vs, g) == (g - 1) * RestartInterval

(* observed after group g of the values.                                   *)
Observed(vs, g) == Min({g * RestartInterval, Len(vs)})

(* encodeCompressedValues: it gives up before it starts, or after the      *)
(* group that exceeds the limit.  added values are in the statistics by    *)
(* then; the fallback adds those after the observed ones.  The section     *)
(* cannot run out of page: a group begins within the limit of 95 per cent  *)
(* and takes at most 1278 bytes, which 4088 points leave free.             *)
CompressValues(vs) ==
    LET groups == EncodeGroups("xor_varint", vs)
        limit == CompressionLimit(vs)
        exceeding == {g \in DOMAIN groups : SizeOf(groups, g) > limit}
    IN  IF DirectorySize(groups) > limit
        THEN [ok |-> FALSE, added |-> 0, observed |-> 0]
        ELSE IF exceeding = {}
        THEN [ok |-> TRUE, added |-> Len(vs), observed |-> Len(vs)]
        ELSE LET g == Min(exceeding)
             IN  [ok |-> FALSE, added |-> Min({g * RestartInterval, Len(vs)}),
                  observed |-> Observed(vs, g)]

EncodeValues(vs) ==
    LET attempt == CompressValues(vs)
        gathered == FoldLeft(AddStatistic, NoStatistics, SubSeq(vs, 1, attempt.added))
    IN  [first |-> vs[1], last |-> Last(vs),
         statistics |-> FoldLeft(AddStatistic, gathered,
                                 SubSeq(vs, attempt.observed + 1, Len(vs)))] @@
        (IF attempt.ok
         THEN [codec |-> "xor_varint", groups |-> EncodeGroups("xor_varint", vs)]
         ELSE [codec |-> "raw", bits |-> vs])

ValueAt(section, index) ==
    IF section.codec = "raw" THEN section.bits[index + 1]
    ELSE ItemAt(section.codec, section.groups, index)

(* decode recomputes the statistics from the decoded values.               *)
ValuesValid(section, count) ==
    LET decoded == [i \in 1 .. count |-> ValueAt(section, i - 1)]
    IN  /\ decoded[1] = section.first
        /\ decoded[count] = section.last
        /\ FoldLeft(AddStatistic, NoStatistics, decoded) = section.statistics

-----------------------------------------------------------------------------
(* Every page of at most RecordsMax points in order of time.               *)

Init == timestamps = << >> /\ values = << >>

AddPoint(t, v) ==
    /\ Len(timestamps) < RecordsMax
    /\ timestamps # << >> => t > Last(timestamps)
    /\ timestamps' = Append(timestamps, t)
    /\ values' = Append(values, v)

Next == \E t \in Timestamps, v \in Values : AddPoint(t, v)

Spec == Init /\ [][Next]_pageVars

-----------------------------------------------------------------------------
(* Properties.                                                             *)

Encoded == EncodeTimestamps(timestamps)

(* No two neighbours of one group of a delta page are further apart than a *)
(* signed integer can say.                                                 *)
DeltasFitSigned ==
    Encoded.codec = "delta_varint" =>
        \A i \in 1 .. Len(timestamps) - 1 :
            i % RestartInterval # 0 =>
                timestamps[i + 1] - timestamps[i] <= IntMax

(* A page whose deltas fit is accepted by the decoder, and the cursor      *)
(* reads at every index the timestamp that was written there, across       *)
(* restarts and at both ends of the integer range.  Its values are read    *)
(* back bit by bit and its statistics are those of its values, wherever    *)
(* the attempt to compress them gave up.                                   *)
PagesRoundTrip ==
    /\ (timestamps # << >> /\ DeltasFitSigned) =>
           /\ TimestampsValid(Encoded)
           /\ \A i \in DOMAIN timestamps : TimestampAt(Encoded, i - 1) = timestamps[i]
    /\ values # << >> =>
           LET section == EncodeValues(values) IN
           /\ ValuesValid(section, Len(values))
           /\ \A i \in DOMAIN values : ValueAt(section, i - 1) = values[i]

(* Every page the writer accepts, strict order being its only condition,   *)
(* is accepted by the decoder.                                             *)
EveryPageDecodes == timestamps # << >> => TimestampsValid(Encoded)

(* A range query counts exactly the points in the range, whether it counts *)
(* only or copies, and copies a prefix of them in order.                   *)
RangesAreExact ==
    (timestamps # << >> /\ DeltasFitSigned) =>
        \A start, end \in Timestamps, capacity \in {0, 1, 2, RecordsMax},
           raw_values \in BOOLEAN :
            LET inside == SelectSeq([i \in DOMAIN timestamps |-> i - 1],
                            LAMBDA i : timestamps[i + 1] \in start .. end)
                output == RangeOutput(Encoded, raw_values, start, end, capacity)
            IN  /\ output.count = Len(inside)
                /\ output.copied = SubSeq(inside, 1, Min({capacity, Len(inside)}))

=============================================================================
