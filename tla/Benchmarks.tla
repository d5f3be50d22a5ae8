----------------------------- MODULE Benchmarks -----------------------------
(***************************************************************************)
(* bench/competitive/bench.py as a process that is started, dies, and is   *)
(* started again to resume a run or to report on one; and the release      *)
(* check (scripts/check-release.py) that reads what it leaves.             *)
(*                                                                         *)
(* A process may die at any step, also while it rewrites a file, which is  *)
(* then Damaged, or Truncated where a beginning of it is told apart.  The  *)
(* rows of a run are appended line by line and are not damaged by the      *)
(* death of the process that appends.  One process runs at a time.  The    *)
(* content of a derived file is what it was derived from.                  *)
(***************************************************************************)
EXTENDS Integers, Sequences, SequencesExt, FiniteSets

CONSTANTS
    Calls,          \* the matrix: per invocation the identities it emits, in order
    Timed,          \* identities whose operations are those done within a time
    Directories,    \* names of run directories
    MaxSource,      \* bound: versions of the sources
    MaxStarts,      \* bound: processes started
    MaxDeaths       \* bound: processes that die

Identities == UNION {{Calls[i][k] : k \in DOMAIN Calls[i]} : i \in DOMAIN Calls}

(* Every invocation emits something, and no identity is of two of them.    *)
ASSUME BenchmarksAssumption ==
    /\ Calls \in Seq(Seq(Identities) \ {<< >>})
    /\ \A i, j \in DOMAIN Calls : \A k \in DOMAIN Calls[i], l \in DOMAIN Calls[j] :
            Calls[i][k] = Calls[j][l] => i = j /\ k = l
    /\ Timed \subseteq Identities
    /\ Directories \cap {"none", "nothing", "damaged", "cut"} = {}
    /\ MaxSource \in Nat /\ MaxStarts \in Nat /\ MaxDeaths \in Nat

VARIABLES
    source,         \* version of the sources that the fingerprint covers
    runs,           \* directory -> its files, or NoRun
    root,           \* the root report, the assets and LATEST
    process,        \* the running process, or Idle
    starts, deaths,
    refusal,        \* ghost: why the last process ended with an error
    torn,           \* ghost: directories whose process died within an invocation
    edited          \* ghost: directories measured by a build that was edited under

benchVars == <<source, runs, root, process, starts, deaths, refusal, torn, edited>>

NoRun == [made |-> FALSE]
Idle == [phase |-> "idle"]
Nothing == [of |-> "nothing"]
Damaged == [of |-> "damaged"]
(* A beginning of a report that has the name of the run in it.             *)
Truncated(text) == [of |-> "cut", whole |-> text]
NoRefusal == [reason |-> "none"]

Rows(d) == runs[d].raw
IdentitiesOf(raw) == {raw[i].identity : i \in DOMAIN raw}

-----------------------------------------------------------------------------
(* Contents of the derived files.                                          *)

Reduced(d) == [of |-> d, rows |-> Rows(d)]
Rendered(d) == [of |-> d, rows |-> Rows(d), fingerprint |-> runs[d].environment.fingerprint]
Checksums(d) ==
    [of |-> d, raw |-> Rows(d), log |-> runs[d].log, environment |-> runs[d].environment,
     summary |-> runs[d].summary, charts |-> runs[d].charts, report |-> runs[d].report]

(* Mutant: the rows are not compared with the matrix.                      *)
ValidateCounting(d) == Rows(d) # << >>

(* validate_results: every identity of the matrix once, and every row      *)
(* counted something.                                                      *)
validate_results(d) ==
    /\ Len(Rows(d)) = Cardinality(IdentitiesOf(Rows(d)))
    /\ IdentitiesOf(Rows(d)) = Identities
    /\ \A i \in DOMAIN Rows(d) : Rows(d)[i].positive

-----------------------------------------------------------------------------
(* Processes.                                                              *)

BenchInit ==
    /\ source = 1
    /\ runs = [d \in Directories |-> NoRun]
    /\ root = [report |-> Nothing, assets |-> Nothing, latest |-> "none"]
    /\ process = Idle
    /\ starts = 0 /\ deaths = 0
    /\ refusal = NoRefusal /\ torn = {} /\ edited = {}

EditSource ==
    /\ source < MaxSource
    /\ source' = source + 1
    /\ edited' = IF process.phase = "fingerprint" THEN edited \cup {process.dir}
                 ELSE edited
    /\ UNCHANGED <<runs, root, process, starts, deaths, refusal, torn>>

Start(phase, d, resume, publish) ==
    /\ process = Idle /\ starts < MaxStarts
    /\ starts' = starts + 1
    /\ process' = [phase |-> phase, dir |-> d, resume |-> resume, publish |-> publish,
                   built |-> 0, fingerprint |-> 0, at |-> 1, complete |-> {},
                   emitted |-> << >>, zero |-> {}]
    /\ refusal' = NoRefusal
    /\ UNCHANGED <<source, runs, root, deaths, torn, edited>>

(* run, run --resume, and report, each with or without --publish.          *)
StartRun(d, publish) == ~runs[d].made /\ Start("build", d, FALSE, publish)
StartResume(d, publish) == runs[d].made /\ Start("build", d, TRUE, publish)
StartReport(d, publish) == runs[d].made /\ Start("validate", d, FALSE, publish)

Continue(phase) == process' = [process EXCEPT !.phase = phase]
Refuse(reason) == process' = Idle /\ refusal' = [reason |-> reason, dir |-> process.dir]

(* The process dies between two steps.                                     *)
Die ==
    /\ process # Idle /\ deaths < MaxDeaths
    /\ process' = Idle
    /\ deaths' = deaths + 1
    /\ torn' = IF process.phase = "emit" /\ Len(process.emitted) < Len(Calls[process.at])
               THEN torn \cup {process.dir} ELSE torn
    /\ UNCHANGED <<source, runs, root, starts, refusal, edited>>

(* Rewriting a file: done, or dead in the middle of it.                    *)
Rewritten(content) ==
    {[content |-> content, dead |-> FALSE]}
        \cup (IF deaths < MaxDeaths THEN {[content |-> Damaged, dead |-> TRUE]} ELSE {})
ContinueUnless(dead, phase) ==
    /\ deaths' = IF dead THEN deaths + 1 ELSE deaths
    /\ IF dead \/ phase = "idle" THEN process' = Idle ELSE Continue(phase)

(* The sources as they are now are fetched and built; the fingerprint is   *)
(* taken afterwards.                                                       *)
FetchAndBuild ==
    /\ process.phase = "build"
    /\ \/ process' = [process EXCEPT !.phase = "fingerprint", !.built = source]
          /\ UNCHANGED refusal
       \/ Refuse("build failed")
    /\ UNCHANGED <<source, runs, root, starts, deaths, torn, edited>>

NewRun(environment) ==
    [made |-> TRUE, environment |-> environment, raw |-> << >>, log |-> 0,
     summary |-> Nothing, charts |-> Nothing, report |-> Nothing, sums |-> Nothing]

(* matrix.json is written before environment.json, so a process that dies  *)
(* while it writes either leaves a run without a usable environment.       *)
OpenNew ==
    /\ process.phase = "fingerprint" /\ ~process.resume
    /\ \E written \in Rewritten([of |-> process.dir, fingerprint |-> source, completed |-> 0]) :
        /\ runs' = [runs EXCEPT ![process.dir] = NewRun(written.content)]
        /\ deaths' = IF written.dead THEN deaths + 1 ELSE deaths
        /\ process' = IF written.dead THEN Idle
                      ELSE [process EXCEPT !.phase = "matrix", !.fingerprint = source]
    /\ UNCHANGED <<source, root, starts, refusal, torn, edited>>

(* Mutant: any run can be resumed.                                         *)
MayResumeAny(d) == runs[d].environment # Damaged

MayResume(d) ==
    /\ runs[d].environment # Damaged
    /\ runs[d].environment.fingerprint = source

AlreadyComplete(d) == IdentitiesOf(Rows(d))

OpenResume ==
    LET d == process.dir IN
    /\ process.phase = "fingerprint" /\ process.resume
    /\ IF ~MayResume(d) THEN Refuse("not resumable")
       ELSE IF Len(Rows(d)) # Cardinality(IdentitiesOf(Rows(d)))
       THEN Refuse("duplicates")
       ELSE /\ process' = [process EXCEPT !.phase = "matrix", !.fingerprint = source,
                                          !.complete = AlreadyComplete(d)]
            /\ UNCHANGED refusal
    /\ UNCHANGED <<source, runs, root, starts, deaths, torn, edited>>

-----------------------------------------------------------------------------
(* run_matrix: the loop over the invocations.                              *)

Call == Calls[process.at]
InMatrix == process.phase = "matrix" /\ process.at <= Len(Calls)
Present == ToSet(Call) \cap process.complete
Logged == runs' = [runs EXCEPT ![process.dir].log = starts]

(* Mutant: an invocation is skipped when some of its results are there.    *)
SkippedWhenStarted == Present # {}

Skipped == Present = ToSet(Call)

SkipCompleted ==
    /\ InMatrix /\ Skipped
    /\ process' = [process EXCEPT !.at = @ + 1]
    /\ Logged
    /\ UNCHANGED <<source, root, starts, deaths, refusal, torn, edited>>

RefusePartial ==
    /\ InMatrix /\ ~Skipped /\ Present # {}
    /\ Refuse("partial")
    /\ UNCHANGED <<source, runs, root, starts, deaths, torn, edited>>

(* Mutant: the first row of an invocation is printed again at its end.     *)
RunnerRepeating(call) == {[rows |-> Append(call, Head(call)), zero |-> {}]}

(* competitive.cpp prints each row of an invocation once; a thread that    *)
(* gets nothing done within the time of the workload has counted zero.     *)
Runner(call) == {[rows |-> call, zero |-> z] : z \in SUBSET (ToSet(call) \cap Timed)}

(* The runner fails, or what it printed is taken when it is of the         *)
(* identities that were asked for.                                         *)
RunInvocation ==
    /\ InMatrix /\ Present = {}
    /\ Logged
    /\ \/ Refuse("runner")
       \/ \E printed \in Runner(Call) :
            /\ ToSet(printed.rows) = ToSet(Call)
            /\ process' = [process EXCEPT !.phase = "emit", !.emitted = printed.rows,
                                          !.zero = printed.zero]
            /\ UNCHANGED refusal
    /\ UNCHANGED <<source, root, starts, deaths, torn, edited>>

WriteRow ==
    LET identity == Head(process.emitted)
        row == [identity |-> identity, built |-> process.built,
                fingerprint |-> process.fingerprint,
                positive |-> identity \notin process.zero]
        last == Len(process.emitted) = 1
    IN  /\ process.phase = "emit"
        /\ runs' = [runs EXCEPT ![process.dir].raw = Append(@, row)]
        /\ process' = [process EXCEPT !.complete = @ \cup {identity},
                                      !.emitted = Tail(@),
                                      !.phase = IF last THEN "matrix" ELSE "emit",
                                      !.at = IF last THEN @ + 1 ELSE @]
        /\ UNCHANGED <<source, root, starts, deaths, refusal, torn, edited>>

FinishMatrix ==
    /\ process.phase = "matrix" /\ process.at > Len(Calls)
    /\ IF validate_results(process.dir) THEN Continue("environment") /\ UNCHANGED refusal
       ELSE Refuse("matrix does not validate")
    /\ UNCHANGED <<source, runs, root, starts, deaths, torn, edited>>

WriteEnvironment ==
    LET d == process.dir IN
    /\ process.phase = "environment"
    /\ \E written \in Rewritten([runs[d].environment EXCEPT !.completed = starts]) :
        /\ runs' = [runs EXCEPT ![d].environment = written.content]
        /\ ContinueUnless(written.dead, "validate")
    /\ UNCHANGED <<source, root, starts, refusal, torn, edited>>

-----------------------------------------------------------------------------
(* report: each file from the rows, then the checksums, then publication.  *)

ValidateForReport ==
    /\ process.phase = "validate"
    /\ IF validate_results(process.dir) THEN Continue("summary") /\ UNCHANGED refusal
       ELSE Refuse("incomplete")
    /\ UNCHANGED <<source, runs, root, starts, deaths, torn, edited>>

WriteSummary ==
    LET d == process.dir IN
    /\ process.phase = "summary"
    /\ \E written \in Rewritten(Reduced(d)) :
        /\ runs' = [runs EXCEPT ![d].summary = written.content]
        /\ ContinueUnless(written.dead, "charts")
    /\ UNCHANGED <<source, root, starts, refusal, torn, edited>>

RenderCharts ==
    LET d == process.dir IN
    /\ process.phase = "charts"
    /\ \E written \in Rewritten(Reduced(d)) :
        /\ runs' = [runs EXCEPT ![d].charts = written.content]
        /\ ContinueUnless(written.dead, "report")
    /\ UNCHANGED <<source, root, starts, refusal, torn, edited>>

(* render_report reads environment.json.                                   *)
WriteReport ==
    LET d == process.dir IN
    /\ process.phase = "report"
    /\ IF runs[d].environment = Damaged
       THEN Refuse("environment") /\ UNCHANGED <<runs, deaths>>
       ELSE \E written \in Rewritten(Rendered(d)) :
            /\ runs' = [runs EXCEPT ![d].report = written.content]
            /\ ContinueUnless(written.dead, "checksums")
            /\ UNCHANGED refusal
    /\ UNCHANGED <<source, root, starts, torn, edited>>

WriteChecksums ==
    LET d == process.dir IN
    /\ process.phase = "checksums"
    /\ \E written \in Rewritten(Checksums(d)) :
        /\ runs' = [runs EXCEPT ![d].sums = written.content]
        /\ ContinueUnless(written.dead, IF process.publish THEN "root report" ELSE "idle")
    /\ UNCHANGED <<source, root, starts, refusal, torn, edited>>

(* Dead in the middle of the root report, after the name of the run.       *)
CutShort(text) ==
    IF deaths < MaxDeaths THEN {[content |-> Truncated(text), dead |-> TRUE]} ELSE {}

PublishReport ==
    LET text == Rendered(process.dir) IN
    /\ process.phase = "root report"
    /\ \E written \in Rewritten(text) \cup CutShort(text) :
        /\ root' = [root EXCEPT !.report = written.content]
        /\ ContinueUnless(written.dead, "assets")
    /\ UNCHANGED <<source, runs, starts, refusal, torn, edited>>

PublishAssets ==
    /\ process.phase = "assets"
    /\ \E written \in Rewritten(runs[process.dir].charts) :
        /\ root' = [root EXCEPT !.assets = written.content]
        /\ ContinueUnless(written.dead, "latest")
    /\ UNCHANGED <<source, runs, starts, refusal, torn, edited>>

PublishLatest ==
    /\ process.phase = "latest"
    /\ \E dead \in (IF deaths < MaxDeaths THEN BOOLEAN ELSE {FALSE}) :
        /\ root' = [root EXCEPT !.latest = IF dead THEN "none" ELSE process.dir]
        /\ process' = Idle
        /\ deaths' = IF dead THEN deaths + 1 ELSE deaths
    /\ UNCHANGED <<source, runs, starts, refusal, torn, edited>>

ReportNext ==
    \/ ValidateForReport \/ WriteSummary \/ RenderCharts \/ WriteReport \/ WriteChecksums
    \/ PublishReport \/ PublishAssets \/ PublishLatest

BenchNext ==
    \/ EditSource
    \/ Die
    \/ \E d \in Directories, publish \in BOOLEAN :
            StartRun(d, publish) \/ StartResume(d, publish) \/ StartReport(d, publish)
    \/ FetchAndBuild \/ OpenNew \/ OpenResume
    \/ SkipCompleted \/ RefusePartial \/ RunInvocation \/ WriteRow \/ FinishMatrix
    \/ WriteEnvironment
    \/ ReportNext

BenchSpec == BenchInit /\ [][BenchNext]_benchVars

-----------------------------------------------------------------------------
(* The release check.                                                      *)

(* Mutant: the root report is taken on trust.                              *)
RootReportTrusted(d) == TRUE

(* The name of the published run is in the root report, of which nothing   *)
(* else is looked at.                                                      *)
RootReportNames(d) ==
    \/ root.report.of = d
    \/ root.report.of = "cut" /\ root.report.whole.of = d

check_checksums(d) == runs[d].sums = Checksums(d)

EachOnce(raw) ==
    IdentitiesOf(raw) = Identities /\ Len(raw) = Cardinality(Identities)
Counted(raw) == \A i \in DOMAIN raw : raw[i].positive

check_current_benchmark ==
    LET d == root.latest IN
    /\ d # "none"
    /\ EachOnce(Rows(d))
    /\ runs[d].summary \notin {Nothing, Damaged}
    /\ IdentitiesOf(runs[d].summary.rows) = Identities
    /\ runs[d].environment # Damaged
    /\ check_checksums(d)
    /\ RootReportNames(d)

-----------------------------------------------------------------------------
(* Properties.                                                             *)

(* LATEST names a run only after its exact matrix validated, with no row   *)
(* that counted nothing, and what happens to the run later takes no result *)
(* away from it.  When the release check passes, the summary, the charts   *)
(* and the archived report are derived from the rows that the published    *)
(* run has now, whichever processes died on the way; and so is the root    *)
(* report, of which the end may be missing: the check looks for the name   *)
(* of the run only.                                                        *)
ReleaseIsOfItsRows ==
    /\ root.latest # "none" =>
            EachOnce(Rows(root.latest)) /\ Counted(Rows(root.latest))
    /\ check_current_benchmark =>
            LET d == root.latest IN
            /\ runs[d].summary = Reduced(d) /\ runs[d].charts = Reduced(d)
            /\ runs[d].report = Rendered(d)
            /\ root.report \in {Rendered(d), Truncated(Rendered(d))}

(* All rows of a run were measured under the fingerprint that the run      *)
(* records, and by the sources it identifies, unless these were edited     *)
(* between a build and its fingerprint.                                    *)
RowsMatchFingerprint ==
    \A d \in Directories : \A i \in DOMAIN (IF runs[d].made THEN Rows(d) ELSE << >>) :
        /\ Rows(d)[i].fingerprint = Rows(d)[1].fingerprint
        /\ runs[d].environment # Damaged =>
                Rows(d)[i].fingerprint = runs[d].environment.fingerprint
        /\ d \notin edited => Rows(d)[i].built = Rows(d)[i].fingerprint

(* The rows that are there never hold one twice.  A matrix that was gone   *)
(* through to its end has each of its results once, so that it is refused  *)
(* only for a row that counted nothing.  A resume is refused for a part of *)
(* an invocation only after a process died between the rows of one.        *)
RefusalsAreExplained ==
    /\ refusal.reason # "duplicates"
    /\ refusal.reason = "matrix does not validate" =>
            EachOnce(Rows(refusal.dir)) /\ ~Counted(Rows(refusal.dir))
    /\ refusal.reason = "partial" => refusal.dir \in torn

=============================================================================
