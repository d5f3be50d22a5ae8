---------------------------- MODULE BenchMatrix ----------------------------
(***************************************************************************)
(* The matrix of the competitive benchmark (bench/competitive/bench.py):   *)
(* which invocations it makes, which results they must emit, and which     *)
(* results the charts, the report and the release check look for when the  *)
(* hours of measuring are over.  A workload's label is the tuple of its    *)
(* varying parts.                                                          *)
(*                                                                         *)
(* The module walks through the matrix without faults; Benchmarks has the  *)
(* faults, on a matrix of a few invocations.                               *)
(***************************************************************************)
EXTENDS Integers, Sequences, SequencesExt, FiniteSets

VARIABLES
    position,       \* invocations made
    results         \* identities of the results so far

matrixVars == <<position, results>>

RUNS == 5
ENGINES == <<"chronotail", "nanots", "sqlite">>

-----------------------------------------------------------------------------
(* Invocations.                                                            *)

Identity(workload, engine, run) == <<workload, engine, run>>

(* A concurrent invocation emits the writer's result and the readers'.     *)
invocation(command, engine, run, label) ==
    IF command = "concurrent"
    THEN {Identity(label \o <<"writer">>, engine, run),
          Identity(label \o <<"readers">>, engine, run)}
    ELSE {Identity(label, engine, run)}

(* Mutant: the rotation drops the engines before the offset.               *)
OrderTruncated(run) == SubSeq(ENGINES, 1 + ((run - 1) % Len(ENGINES)), Len(ENGINES))

(* Each repetition begins with another engine.                             *)
Order(run) ==
    LET offset == (run - 1) % Len(ENGINES) IN
    SubSeq(ENGINES, offset + 1, Len(ENGINES)) \o SubSeq(ENGINES, 1, offset)

Each(command, run, label) ==
    [e \in 1 .. Len(Order(run)) |-> invocation(command, Order(run)[e], run, label)]
Only(command, run, label) == <<invocation(command, "chronotail", run, label)>>

AppendLabels ==
    << <<"append", "A">>, <<"append", "B">>, <<"append", "C">>, <<"append", "8-series">> >>

RangeLabel(width, codec) == <<"range", width, codec>>
AggregateLabel(width, codec) == <<"aggregate", width, codec>>
PointLabel(codec) == <<"point-lookup", codec>>
ConcurrentLabel(readers) == <<"concurrent", readers>>
BatchLabel == <<"append", "batch-4096">>

Concurrent(run, readers) ==
    FlattenSeq([i \in 1 .. Len(readers) |->
        Each("concurrent", run, ConcurrentLabel(readers[i]))])

RawAndCompressed(command, run, raw, compressed) ==
    Each(command, run, raw) \o Only(command, run, compressed)

Storage(run, pattern) ==
    Only("append", run, <<"storage", pattern, "raw">>)
        \o Only("append", run, <<"storage", pattern, "compressed">>)
        \o <<invocation("append", "nanots", run, <<"storage", pattern>>),
             invocation("append", "sqlite", run, <<"storage", pattern>>)>>

Frozen(run) ==
    FlattenSeq([i \in 1 .. Len(AppendLabels) |-> Each("append", run, AppendLabels[i])])
        \o Each("query", run, PointLabel("raw"))
        \o RawAndCompressed("query", run, RangeLabel("100", "raw"),
                            RangeLabel("100", "compressed"))
        \o Concurrent(run, <<"1", "8", "32">>)
        \o Storage(run, "smooth") \o Storage(run, "random")

Expanded(run) ==
    LET ranges == <<"10", "1000", "10000">>
        aggregates == <<"100", "10000", "full">>
    IN  Each("append", run, BatchLabel)
        \o Only("query", run, PointLabel("compressed"))
        \o FlattenSeq([i \in 1 .. 3 |-> RawAndCompressed("query", run,
               RangeLabel(ranges[i], "raw"), RangeLabel(ranges[i], "compressed"))])
        \o FlattenSeq([i \in 1 .. 3 |-> RawAndCompressed("aggregate", run,
               AggregateLabel(aggregates[i], "raw"),
               AggregateLabel(aggregates[i], "compressed"))])
        \o Concurrent(run, <<"2", "4", "16">>)
        \o Storage(run, "constant") \o Storage(run, "spiky")

(* The original suite of a repetition runs before what was added to it.    *)
Historical == Len(Frozen(1))

matrix == FlattenSeq([run \in 1 .. RUNS |-> Frozen(run) \o Expanded(run)])

GroupsOf(identities) == {<<identity[1], identity[2]>> : identity \in identities}
expected_groups == GroupsOf(UNION ToSet(matrix))

-----------------------------------------------------------------------------
(* What is looked up by name in the reduced results, where a missing group *)
(* raises KeyError.                                                        *)

ReaderCounts == {"1", "2", "4", "8", "16", "32"}
Patterns == {"constant", "smooth", "spiky", "random"}
OfEveryEngine(workloads) == workloads \X ToSet(ENGINES)
StorageGroups ==
    UNION {{<< <<"storage", p, "raw">>, "chronotail">>,
            << <<"storage", p, "compressed">>, "chronotail">>,
            << <<"storage", p>>, "nanots">>, << <<"storage", p>>, "sqlite">>} :
                p \in Patterns}
ConcurrentWorkloads ==
    {ConcurrentLabel(n) \o <<kind>> : n \in ReaderCounts, kind \in {"writer", "readers"}}
RangeWidths == {"10", "100", "1000", "10000"}
AggregateWidths == {"100", "10000", "full"}

overview_chart ==
    OfEveryEngine({BatchLabel, PointLabel("raw"), RangeLabel("100", "raw"),
                   AggregateLabel("100", "raw"), <<"concurrent", "32", "readers">>})
        \cup {<< <<"storage", "smooth", "compressed">>, "chronotail">>}

(* The tables of the report pass over a group that is missing; the ratios, *)
(* the losses, the concurrency and the storage sections do not.            *)
render_report ==
    OfEveryEngine({PointLabel("raw"), BatchLabel}
                    \cup {RangeLabel(w, "raw") : w \in RangeWidths}
                    \cup {AggregateLabel(w, "raw") : w \in AggregateWidths}
                    \cup ConcurrentWorkloads)
        \cup StorageGroups

render_charts ==
    overview_chart
        \cup OfEveryEngine(ToSet(AppendLabels) \cup {BatchLabel, PointLabel("raw")}
                    \cup {RangeLabel(w, "raw") : w \in RangeWidths}
                    \cup {AggregateLabel(w, "raw") : w \in AggregateWidths}
                    \cup ConcurrentWorkloads)
        \cup ({PointLabel("compressed")}
                    \cup {RangeLabel(w, "compressed") : w \in RangeWidths}
                    \cup {AggregateLabel(w, "compressed") : w \in AggregateWidths})
                \X {"chronotail"}
        \cup StorageGroups

(* check_current_benchmark: the counts a release must have.                *)
CountsForRelease(identities) ==
    /\ Cardinality(identities) = 495
    /\ Cardinality(GroupsOf(identities)) = 99
    /\ \A group \in GroupsOf(identities) :
            Cardinality({r \in 1 .. RUNS :
                            Identity(group[1], group[2], r) \in identities}) = 5

-----------------------------------------------------------------------------
MatrixInit == position = 0 /\ results = {}

MakeInvocation ==
    /\ position < Len(matrix)
    /\ position' = position + 1
    /\ results' = results \cup matrix[position + 1]

-----------------------------------------------------------------------------
(* Properties.                                                             *)

(* When the matrix is done, everything that the charts and the report look *)
(* up was measured, in every repetition, and the release check finds the   *)
(* counts it demands; and the historical groups, 45 of them, come first.   *)
CompleteMatrixIsReportable ==
    /\ position = Historical => Cardinality(GroupsOf(results)) = 45
    /\ position = Len(matrix) =>
        /\ CountsForRelease(results)
        /\ render_charts \cup render_report \subseteq GroupsOf(results)
        /\ GroupsOf(results) = expected_groups

=============================================================================
