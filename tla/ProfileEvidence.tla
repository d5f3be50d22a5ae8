--------------------------- MODULE ProfileEvidence ---------------------------
(***************************************************************************)
(* scripts/check-profile.py: which results an internal performance profile *)
(* must hold, computed from its metadata alone, and when a file of them is *)
(* accepted.  A file is its metadata and the bag of its workload keys; the *)
(* validity of the fields of one row is a flag of the file.                *)
(***************************************************************************)
EXTENDS Integers, Sequences, SequencesExt, FiniteSets, Bags

RECORDS_PER_BLOCK == (64 * 1024 - 128) \div 16

Smaller(a, b) == IF a < b THEN a ELSE b
Codecs == <<"raw", "compressed">>
Timestamps == <<"dense", "sparse", "irregular">>
Values == <<"constant", "smooth", "spiky", "random">>
Cardinalities == <<1, 4, 8, 64, 256>>
AllocationNames ==
    <<"append-after-create", "warm-query", "prepared-query", "persistent-cursor",
      "borrow-raw-page", "aggregate-summary", "aggregate-windows", "unchanged-refresh">>

(* workload_key: group, name, codec, timestamp and value pattern, series   *)
(* count, batch size, width, and the damaged tail of a recovery.           *)
Key(group, name, codec, timestamp, value, series, batch, width, tail) ==
    <<group, name, codec, timestamp, value, series, batch, width, tail>>
Plain(group, name, codec, series, batch, width) ==
    Key(group, name, codec, "none", "none", series, batch, width, 0)

(* The pairs of a sequence of sequences, in order.                         *)
Pairs(s, t) == FlattenSeq([i \in DOMAIN s |-> [j \in DOMAIN t |-> <<s[i], t[j]>>]])

(* The keys of one repetition, by phase.  Widths are clamped to the number *)
(* of points, so that a key may occur more than once.                      *)
PatternKeys(group, name, codec, batch) ==
    LET patterns == Pairs(Timestamps, Values) IN
    [i \in DOMAIN patterns |->
        Key(group, name, codec, patterns[i][1], patterns[i][2],
            IF group = "append" THEN 1 ELSE 0, batch, 0, 0)]

AppendPhase(points, quick) ==
    LET batches == Pairs(Codecs, <<1, 16, 64, 256, 1000, RECORDS_PER_BLOCK, 4096, 65536>>) IN
    [i \in DOMAIN batches |->
        Key("append", "batch", batches[i][1], "dense", "smooth", 1, batches[i][2], 0, 0)]
        \o PatternKeys("append", "pattern", "compressed",
                       IF quick THEN points ELSE Smaller(points, 500000))
        \o [i \in DOMAIN Cardinalities |->
                Plain("append", "series-cardinality", "raw", Cardinalities[i], 1, 0)]

StoragePhase ==
    FlattenSeq([i \in DOMAIN Codecs |-> PatternKeys("storage", "encoding", Codecs[i], 0)])

QueryPhase(points) ==
    LET shapes == << <<"dense", "smooth">>, <<"dense", "random">>,
                     <<"sparse", "spiky">>, <<"irregular", "smooth">> >>
        widths == <<1, 10, 100, 1000, 10000, 100000>>
        Of(name, group, c, s, width) == Key(group, name, c, s[1], s[2], 0, 0, width, 0)
        Shape(s, c) ==
            <<Of("first-touch", "query-profile", c, s, 100),
              Of("range-count-only", "query", c, s, 100),
              Of("full-scan-count", "query", c, s, points)>>
                \o [i \in DOMAIN widths |->
                        Of("range", "query", c, s, Smaller(widths[i], points))]
    IN  FlattenSeq([i \in DOMAIN Pairs(shapes, Codecs) |->
                        Shape(Pairs(shapes, Codecs)[i][1], Pairs(shapes, Codecs)[i][2])])

ReadApiPhase ==
    LET capacities == Pairs(Codecs, <<16, 128, 1024, 4096>>)
        names == Pairs(Codecs, <<"range-into-count-only", "text-full-range">>)
    IN  [i \in DOMAIN capacities |->
            Plain("query", "cursor-full-range", capacities[i][1], 0, capacities[i][2], 0)]
        \o [i \in DOMAIN names |-> Plain("query", names[i][2], names[i][1], 0, 0, 0)]
        \o <<Plain("query", "borrow-raw-page", "raw", 0, 0, 0)>>

LookupPhase ==
    LET pairs == Pairs(Cardinalities, <<"series-lookup-point", "prepared-series-point">>) IN
    [i \in DOMAIN pairs |-> Plain("query", pairs[i][2], "raw", pairs[i][1], 0, 1)]

AggregatePhase(points) ==
    LET pairs == Pairs(Codecs, <<100, 10000, points>>) IN
    [i \in DOMAIN pairs |-> Plain("aggregate", "summary-tree", pairs[i][1], 0, 0,
                                  Smaller(pairs[i][2], points))]
        \o [i \in DOMAIN Codecs |->
                Plain("aggregate", "resolution-windows", Codecs[i], 0, 0, points \div 10)]

CheckpointPhase(quick) ==
    LET batch == IF quick THEN 256 ELSE 4096 IN
    <<Plain("checkpoint", "fsync", "raw", 0, batch, 0)>>
        \o [i \in DOMAIN Codecs |->
                Plain("checkpoint", "unsynced", Codecs[i], 0, batch, 0)]

ControlPhase ==
    LET many == <<"reader-open-many-series", "appender-open-many-series",
                  "checkpoint-one-of-many-series">>
        refreshes == <<"refresh-unchanged", "refresh-changed">>
        tails == <<64 * 1024, 1024 * 1024, 16 * 1024 * 1024>>
    IN  <<Plain("control-plane", "reader-open", "compressed", 0, 0, 0)>>
        \o [i \in DOMAIN many |-> Plain("control-plane", many[i], "raw", 1024, 0, 0)]
        \o [i \in DOMAIN refreshes |-> Plain("control-plane", refreshes[i], "none", 0, 0, 0)]
        \o [i \in DOMAIN Codecs |-> Plain("control-plane", "verify", Codecs[i], 0, 0, 0)]
        \o [i \in DOMAIN tails |-> Key("control-plane", "recover-trailing-data", "none",
                                       "none", "none", 0, 0, 0, tails[i])]

AllocationPhase ==
    [i \in DOMAIN AllocationNames |-> Plain("allocation", AllocationNames[i], "raw", 0, 0, 0)]
ConcurrencyPhase ==
    LET readers == <<1, 2, 4, 8, 16, 32>> IN
    [i \in DOMAIN readers |->
        Plain("concurrency", "parallel-readers", "raw", readers[i], 0, 100)]

OneRepetition(points, quick) ==
    AppendPhase(points, quick) \o StoragePhase \o QueryPhase(points) \o ReadApiPhase
        \o LookupPhase \o AggregatePhase(points) \o CheckpointPhase(quick)
        \o ControlPhase \o AllocationPhase \o ConcurrencyPhase

Times(bag, n) == [k \in DOMAIN bag |-> n * bag[k]]

expected_workloads(metadata) ==
    Times(ToBag(OneRepetition(metadata.points, metadata.quick)), metadata.repetitions)

(* The groups and names that a row may have, from one fixed metadata.      *)
Families == {<<key[1], key[2]>> : key \in ToSet(OneRepetition(1000000, FALSE))}

(* Mutant: the workloads are known ones, how often each is there is not    *)
(* looked at.                                                              *)
ValidateKnown(file) == file.rows_valid /\ BagCardinality(file.workloads) > 0

(* validate: the rows are well formed, the metadata is, and the bag of the *)
(* workloads is exactly the expected one.  The optional fields only,       *)
(* expected_results and expected_workloads are absent, as in the files of  *)
(* the harness for a whole matrix, and its engine_format is 7.             *)
validate_profile(file) ==
    /\ file.rows_valid
    /\ BagCardinality(file.workloads) > 0
    /\ \A key \in DOMAIN file.workloads : <<key[1], key[2]>> \in Families
    /\ file.metadata.points >= 10000 /\ file.metadata.repetitions >= 1
    /\ file.metadata.quick => file.metadata.points = 100000
    /\ file.workloads = expected_workloads(file.metadata)

=============================================================================
