# A TLA+ model of chronotail

Chronotail is an embedded time-series store: one file, one writer process, any
number of reader processes; the writer locks out other writers, readers take no
lock. This directory holds a model
of its engine (`src/internal/*.zig`, paths below are relative to the root of
the repository), of its Python client and the handles of the C interface below
it, and of the scripts that keep evidence (benchmarks, releases, merges,
toolchains, profiles, compatibility); the TLC configurations that check them,
and TLAPS proofs of central safety properties. `PROJECT.json` lists components, runs, mutants,
hazards, findings, theorems, and, for each definition that models code, the
lines it stands for.

## 1. The system

### Components

| component | state | operations | code |
|---|---|---|---|
| file | control region (format header, 4 root slots), append-only objects (data pages, index nodes, manifests) | pwrite, pread, sync, size | `format.zig`, used by `engine.zig` |
| recovery election | none | `collectRoots`, `rootHasValidPredecessor`, `loadManifestForRoot`, `loadSnapshot` | `engine.zig` 306–457 |
| writer | `write_offset`, `committed_size`, `generation`, `previous_root_identity`, `dirty`, `poisoned`, the series | `createOn`, `openOn`, `prepareSeries`, `appendBatch`, `checkpointWithDurability`, `close`, `abort` | `engine.zig` 588–1156 |
| series of a writer | buffer of one page, pages written and not published, published root, cached right spine, last timestamp | `flushSeries`, `writePage`, `writeFullPages`, `createSeries`, `markDirty` | `engine.zig` 500–586, 979–1140 |
| time index | per series a tree of nodes, append-only, right spine rewritten | `append`, `appendWithSpine`, `appendedSpineDepth` | `index.zig` |
| data page | timestamps (raw, base and step, delta varints in restart groups), values (raw, xor varints), statistics | `encode`, `decode`, `lowerBound`, `rangeInto`, `countRange` | `page.zig` |
| manifest | names, ids, roots and summaries of the series of a generation | `encodeKnownIterator`, `decode` | `manifest.zig` |
| reader | snapshot (root, catalog, mapping), `observed_file_size`, per series the root and the leaf entered last | `open`, `refresh`, `close`, queries | `engine.zig` 1202–2700 |
| queries | cursor frames and place | lookup, range, cursor, aggregate, windows, borrowed page, chart envelope | `engine.zig` |
| verification | none | `verifyPath` | `engine.zig` 2758–2892 |
| C interface | handles with a state and a token, cursor states | `ct_*` | `c_api.zig` |
| Python client | per-series buffers and prepared append handles; `_iteration_epoch`, generators, prepared series | `Writer`, `Reader`, `iter_range`, `SeriesHandle` | `clients/python/src/chronotail/__init__.py` |
| Go client | locks | `Writer`, `Reader`, `Cursor` | `clients/go/` |
| version 6 reader | none | migration of old files | `v6_reader.zig` |
| competitive benchmark | per run `raw.jsonl`, `environment.json`, manifest, derived files; `LATEST`, root report, assets | run, `--resume`, `--report`, `--publish` | `bench/competitive/bench.py` |
| release check | none | `check_current_benchmark`, `check_checksums` | `scripts/check-release.py` |
| merge script | pull request as viewed, review file | `validate`, `main` | `scripts/merge-pr.py` |
| toolchain installer | `.tools/<tool>-<version>`, receipts, links | `install` | `scripts/setup-dev.py` |
| profile scripts | profile files, worktrees | `validate_profile`, paired run | `scripts/check-profile.py`, `scripts/profile-pair.py` |
| compatibility gate | receipt, log directory | `run_gate` | `scripts/check-old-abi.py` |
| documentation checker, wheel builder, metadata recorder, batch benchmark | none | one pass each | `scripts/`, `bench/python_batch.py` |
| command line, simulator, probes | | | `cli.zig`, `sim/`, `bench/engine.zig`, `tools/` |

### How they interact

The writer appends objects beyond the end of the file, then a manifest that
refers to them, then writes one of four root slots, chosen by the generation
modulo four. A root names its manifest and the identity (hash) of its
predecessor. A *disk* checkpoint syncs before and after the root; a *memory*
checkpoint does not sync. Whoever opens or refreshes the file reads its size,
the control region and the manifests of the candidates, and elects the newest
root whose predecessor is in place and whose manifest decodes. Readers and
writer share nothing but the file. Any error inside a checkpoint or a batch
poisons the writer, which can then only be closed.

The Python client calls the C interface. Its writer hands over full buffers and,
in `checkpoint` and `close`, whatever is left; its reader counts refreshes that
changed the snapshot, and its generators and prepared series compare that count
before they use a native cursor or handle. A C cursor keeps the address and the
token of its reader and compares both.

The scripts meet in files: `bench.py` leaves runs and the name of the published
one, which `check-release.py` reads; `profile-pair.py` calls `check-profile.py`
on each file; `merge-pr.py` meets authors, checks and reviewers on a server;
`setup-dev.py` and `check-old-abi.py` meet other instances of themselves.

### What is hard, and what makes it correct

- A process may die, and a call may fail, between any two system calls of a
  checkpoint: *recovery elects exactly the newest complete generation*
  (`ElectionIsHead`), *the writer's memory agrees with the file*
  (`WriterAgreesWithFile`), *nothing published is overwritten*
  (`PublishedStaysReadable`).
- A power loss keeps any mixture of unsynced writes: *what a disk checkpoint
  acknowledged survives* (`AcknowledgedSurvives`), *what was synced stays
  readable* (`SyncedSurvives`).
- A reader's scan interleaves with root writes: *its snapshot is one published
  generation* (`SnapshotIsPublished`), *stays readable* (`SnapshotIsReadable`),
  *never goes back* (`ReadersNeverGoBack`), *misses nothing that was published*
  (`PublishedIsVisibleToQuickScans`), *and catches up*
  (`RefreshCatchesUp`).
- Batches meet buffers, pages, failures and sessions: *what is published is
  whole batches in order* (`AcceptedBatchesAreKept`,
  `PublishedIsWholeBatches`), *under stable ids* (`IdsIdentifySeries`), *and no
  checkpoint is refused for its manifest* (`ManifestIsNeverRefused`).
- The right spine of a tree is rewritten in the array it is read from, at places
  that were predicted: *every generation is a tree of its pages in order*
  (`TreesHoldTheirPages`), *and pages are refused exactly when a full tree of the
  height limit has no room for them* (`RefusedExactlyWhenFull`).
- Queries start from what earlier queries left behind, cursors outlive calls,
  arithmetic reaches both ends of the integer range (section 3).
- A native call of the Python writer fails in the middle of a method, and
  leaves points in its buffers: *a checkpoint or close that returns has
  published every call that returned before, in order*
  (`AcknowledgedIsPublished`).
- A generator is suspended while its reader is refreshed, closed and opened
  again, perhaps at the same address: *it yields its own snapshot or stops*
  (`IteratorsYieldTheirSnapshot`, `NoPointAfterChange`,
  `CursorStaysWithItsReader`), *frees its cursor once* (`CursorsAreReleased`),
  *and a prepared series is never looked up in another snapshot*
  (`PreparedLookupsAreCurrent`).
- A benchmark takes hours and is killed and resumed: *rows are of one
  fingerprint* (`RowsMatchFingerprint`), *what is published is complete and what
  the release check accepts was derived from it* (`ReleaseIsOfItsRows`), *and
  nothing is refused at the end for its matrix, only for a row that counted
  nothing* (`RefusalsAreExplained`, `CompleteMatrixIsReportable`).
- A pull request changes between two looks (`MergedIsReviewedAndGreen`);
  installers overlap and die (`LinkedToolIsVerified`); commands of a paired
  profile fail and its revisions differ (`ComparisonIsFair`); gates share an
  output path and archives change under them (`PassedReceiptIsTrue`).

## 2. The modules

| module | models | state and actions |
|---|---|---|
| `Recovery` | the election, as operators on a file image | no state |
| `Publication` | the file, its writer, crashes, failed calls, power loss | one action per system call of a checkpoint |
| `Snapshots` | lock-free readers on top of `Publication` | `BeginOpen`, `BeginRefresh`, `ReadSlot` (one slot), `FinishOpen`, `FinishRefresh`, `CloseReader` |
| `SnapshotStore` | the abstract promise: a log of atomic snapshots, a durable prefix, readers with views | `Publish`, `Acknowledge`, `Look`, `Leave`, `Lose` |
| `SeriesWriter` | series, buffers, dirty list, manifest sizes; a checkpoint is one step | one action per public call, and its failing outcomes |
| `TimeIndex` | the tree of one series and the cached spine | checkpoints of 1 to `MaxBatch` pages, refused or failed ones, reopening |
| `PageCodec` | one data page: codecs, decoder, searches | `AddPoint` enumerates every page |
| `Traversal` | the tree as a query sees it and the walk all queries share | no state |
| `Queries` | lookup, range, aggregate, windows, borrowed page, cursors of one reader | one action per query: what it leaves in the reader's memory |
| `ChartEnvelope` | the one-pass chart reduction | `AddPage` enumerates every series |
| `PythonWriter` | `Writer` and the native writer it owns | one action per method; each native call of a method may be the one that fails |
| `NativeReaders` | reader handles and cursor states of `c_api.zig`, with an allocator that reuses addresses | `OpenHandle`, `RefreshHandle`, `CloseHandle`, `CreateCursor`, `AdvanceCursor`, `DestroyCursor`; `Publish` by a writer |
| `PythonReader` | `Reader`, generators, prepared series, optional symbols; on top of `NativeReaders` | one action per method; `NextPoint` runs a generator to its next yield |
| `BenchMatrix` | the matrix of `bench.py`: invocations, expected results, what charts, report and release check look up | `MakeInvocation` walks through it |
| `Benchmarks` | `bench.py` as a process that dies and is started again; the release check | one action per file written; `Die`, `EditSource` |
| `MergePullRequest` | `merge-pr.py` and the server | two views, two validations, the merge; `Push`, `BaseMoves`, `CheckReports`, `WriteReview`, ... |
| `Toolchains` | `install` of `setup-dev.py` | one action per step that other installers see |
| `ProfileEvidence` | `check-profile.py`: expected workloads, validation | no state |
| `ProfilePair` | `profile-pair.py` on top of `ProfileEvidence` | one action per command |
| `OldAbiGate` | `run_gate` of `check-old-abi.py` | one action per stage; `ReplaceArchive`, `KillGate` |
| `PublicationProofs` | theorems about `Publication` | |
| `StoreProofs` | theorems about `Snapshots`, and that it implements `SnapshotStore` | |
| `SeriesWriterProofs` | theorems about `SeriesWriter` | |
| `TimeIndexProofs` | theorems about `TimeIndex` | |
| `QueriesProofs` | theorems about `Queries` | |
| `PythonClientProofs` | theorems about `PythonWriter`, `PythonReader` and `NativeReaders` | |
| `ToolsProofs` | theorems about `Benchmarks`, `MergePullRequest`, `Toolchains`, `ProfilePair` and `OldAbiGate` | |
| `SharedLemmas` | induction and recursion over intervals of numbers, sequences end to end, for the modules above | |
| `MC*` | constants and seeded initial states for TLC | |

`Snapshots` extends `Publication`, which extends `Recovery`; `Queries` and
`ChartEnvelope` extend `Traversal`. The layers meet where one takes another's
result as given: `Publication` abstracts the pages of a write to one object,
`SeriesWriter` a checkpoint to one step (it happens, or fails with or without
the new root in the file, which are the outcomes `Publication` shows), and
`Traversal` the shape of a tree and the search in a page, which `TimeIndex` and
`PageCodec` check. `NativeReaders` takes a generation as the points of one
series; that a refresh finds a whole generation is what `Snapshots` checks, that
a cursor finds its points what `Queries` checks. `PythonWriter` takes a native
batch as accepted, refused, or failed and poisoning, which are the outcomes of
`SeriesWriter`.

Parts that do not interact are checked in one run by an MC module that chooses
one of them at the start and leaves the variables of the others alone:
`MCSeriesWriter` (a writer of series or the index of one), `MCQueries`
(queries or charts), `MCPythonClient` (a
Python writer, Python readers or a C program) and `MCTools` (one script).

### Abstractions

- The file is measured in units: unit 0 is the control region, each later unit
  one object. An identity is a number no two objects share, so checksums are
  exact. An object write that fails leaves junk behind the end it had.
- A catalog is the set of pointers to every object a generation refers to.
  Generations only add to it; which nodes of a tree are replaced is the subject
  of `TimeIndex`.
- `history`, `acknowledged` and `synced` in `Publication`, `batches`,
  `accepted` and `published` in `SeriesWriter`, `delivered` and `asked` in
  `Queries` are history variables: no action's guard reads them except through
  the bounds. So are `kept`, `acknowledged` and `complained` in `PythonWriter`,
  `asked`, `yielded` and `snapshot` of a generator and `file`, `generation` and
  `delivered` of a cursor where the code has no such field, `refusal`, `torn`
  and `edited` in `Benchmarks`, `green` and `cleared` in `MergePullRequest`,
  `overlapped` in `Toolchains`, `order` in `ProfilePair`.
- A failed clean `sync` (`engine.zig` 845) changes nothing in the program and
  is not an action; what the kernel does with the pages is outside the source.
- Sums of floating-point values are sums of integers; NaN is one value.
- `active_page` and the verification cache are left out of `Queries`: both
  compare offset, size, kind and identity of a pointer before they answer, so
  with exact checksums they return the page the pointer names.
- One thread uses the objects of the Python client, as its documentation
  requires; a method is one step, a generator runs from yield to yield.
- The methods of `PythonWriter` are operators on a record; a native call that
  fails raises out of the method and leaves what the method had done so far.
- In the scripts, equal hashes are equal contents, a derived file is what it was
  derived from, and a file that was being rewritten when its process died is
  `Damaged`; a root report of which a beginning was written that has the name of
  its run in it is told apart (`Truncated`), because the release check looks for that
  name alone. Of the fields of a row of a benchmark there is whether they count
  something (`positive`). Rows of a benchmark are appended line by line and flushed; a death
  between two rows of one invocation is modelled, half a line is not.
- The commands that scripts call (git, gh, cmake, zig, pip, compilers, the
  network) are external: they succeed, fail, or fail half-way where that matters.
- Errors for damaged files below the elected manifest are not part of the
  query modules: their trees are those the writer wrote.

## 3. The runs

Passing runs; every property has a mutant in `PROJECT.json` that breaks it.

| run | question | answer |
|---|---|---|
| `process_faults` | failed calls and process deaths, from an empty file | `ElectionIsHead`, `WriterOwnsTail`, `WriterAgreesWithFile`, `PublishedStaysReadable` hold |
| `power_loss` | power loss at any instant, every slot in use, up to two unsynced roots | the acknowledged generation survives, what was synced stays readable, stale roots never return |
| `readers` | a scan interleaved slot by slot with root writes of a writer that fails, dies and returns | one published generation that stays readable, never back, nothing missed while at most `SlotCount - 2` root writes overlap the scan |
| `store` | does the file, with its writer and a reader, implement the abstract log? | yes (`ImplementsSnapshotStore`), with creation, disk checkpoints, slots that wrap and a power loss |
| `refresh` | does a polling reader catch up? | yes (`RefreshCatchesUp`), with memory checkpoints, slots that wrap and a writer that fails or dies: the fast path of `refresh` hides nothing for good |
| `series_writer` | batches, buffers, pages, ids, manifest sizes over three sessions; in-place rewriting of the spine up to a full tree | published points are whole batches in order, ids are stable, no manifest is refused; every published tree lists its pages, the height limit is exact |
| `pages` | every page of up to seven of eleven timestamps, ends of the range included; values whose compression gives up | round trip where deltas fit (see findings), searches and ranges exact, values stored and counted once (`PagesRoundTrip`, `RangesAreExact`) |
| `queries` | every query after any history of queries; a cursor interleaved with queries, refreshes, reopened readers; every chart of up to three buckets of every small series | answers equal a definition over the stored points; a cursor delivers its range once, in order, with an end (`LookupsAreExact`, `RangesCrossPages`, `AggregatesAreExact`, `CursorDeliversItsRange`); samples and breaks equal their definitions (`EnvelopesAreExact`) |
| `python_client` | buffered appends with refused and failing batches; generators, prepared series and C cursors across refreshes, closes and reused addresses | what a call acknowledged is published; nothing speaks of another snapshot than its own; cursors are freed once |
| `tools` | each script with its process killed, its commands failing and the world changing under it | the properties of the last two points of section 1 |

Violations (`expect: violation`): `durable_generation_lost` and
`page_undecodable` (`EveryPageDecodes`) each state what a document says and find the code doing
otherwise; section 5.

### Bounds, and why they are enough

- `process_faults`: three slots and four generations wrap the slots, so that a
  slot is reused while others are torn or stale; two failures allow a failure
  during recovery from a failure. The code has four slots; every comparison in
  the election is relative, and the proofs hold for any number.
- `power_loss` and `readers` start from a file with four generations, a state
  `Spec` reaches, so that all four slots are in use from the start; `power_loss`
  publishes two more generations, before and after the loss, `readers` three,
  which overwrite all slots but one. `MemoryBudget` bounds the unsynced root
  publications: two is the largest number for which the promise holds, three
  is the first finding.
- `store` uses two slots, three generations and one power loss: seven units hold
  the control region and, for each generation, objects and a manifest, so that the
  third root overwrites the first one's slot. No call fails and no writer dies:
  theorem `FileImplementsStore` has the refinement with any number of failures
  and without power loss, this run with power loss and without failures.
- `refresh` has the same three generations under memory checkpoints, where
  nothing orders root and objects for a reader, and one failed call or death of
  the writer, who may return; no power loss.
- `series_writer`: pages of two points, at most two pages to a write, batches of one to seven
  points: every path of `appendBatch` with every fill of the buffer, also twice
  in one batch. The manifest has room for two of three names, so prepared
  series compete with published ones.
- the index in `series_writer`: nodes of two entries and three levels, full with eight pages;
  up to five new pages at once, so that one checkpoint adds more than one level.
- `pages`: integers of five bits in varints of two-bit digits (64 = 1 modulo 7,
  5 = 1 modulo 2: the last byte carries one bit in both); restart groups of
  three, so a page has up to three groups and a last group of one. The three
  codecs of timestamps all occur, and compressing values succeeds, gives up at
  the directory and after the group that exceeds the limit. Timestamps and
  values are encoded apart, so pages vary in one or in the other.
- `queries`: five pages (three for charts) in nodes of two
  entries give trees of one to three levels with a half-empty right edge;
  timestamps reach both ends of their domain, values repeat and are NaN. A
  range has room for two points of pages of one to three, so that calls end
  inside pages, at their ends and across several.
- `python_client`: `BatchSize` two with lists of two, three and five points
  fills buffers inside, at the end of and several times in one call; one list
  is out of order and is refused by the native writer. Any of the first two
  native calls of a method fails, the second being the one after a successful
  flush; five calls fail, retry, checkpoint and close. On the reader's side two
  files, one of which is published to twice, two handles opened in all at two
  addresses, caller's buffers of one and three points for up to two points of a
  range, so that a range takes two calls or ends with the first; a library
  exports all optional symbols or stops in the middle of a group.
- `tools`: the matrix of `bench.py` is the code's own, 5 runs of 3 engines; the
  faults are checked on a matrix of one single and one concurrent invocation, of
  whose two rows either or both may count nothing,
  three processes, two deaths, two versions of the sources: a resumed run may
  be resumed again and published after that. Two heads and two bases, so that
  each may move once, at any step of the script; three statuses per check. Two installers that
  start three times in all, four archives of which two have one version and one
  is not what was asked for. Two or three repetitions of a pair, with equal or
  different harnesses and contracts. Two gates on one output path, four kinds
  of bundle, one replacement of an archive.

### Fairness

Only `refresh` assumes fairness: weak fairness of a reader's own steps
(`PollingSpec`). It says that the application keeps calling `refresh`, and that
a refresh, which is a bounded number of reads and takes no lock, ends. Nothing
is assumed of the writer. `RefreshCatchesUp` says that a reader that stays open
ends up, for good, with the newest generation; the run is bounded by
`MaxGeneration`, so the writer stops eventually in every behaviour.

Deadlock is not checked: the bounds end every behaviour, and a file whose
control region is torn or that has no valid root cannot be opened by any
program; clients are closed and scripts end.

## 4. The proofs

Proved by TLAPS for every value of the constants that satisfies the assumption
in the last column. The types (`TypeOK`, `SnapshotsTypeOK`) are proved and no
run repeats them; the other statements, except the invariants `SeriesInv` and
`QueryInv` and `AdvancesReadTheirReader`, are also checked by the runs of
section 3. TLC cannot evaluate `QueryInv`, which speaks of any tree.

| module | theorem | statement | supposes |
|---|---|---|---|
| `PublicationProofs` | `TypeCorrect` | `Spec => []TypeOK` | |
| | `TailOwned` | `Spec => []WriterOwnsTail` | |
| | `PublishedReadable` | `Spec => []PublishedStaysReadable` | |
| | `RecoveryIsExact` | `Spec => []ElectionIsHead` | `Sheltered` |
| | `WriterContinuesHead` | `Spec => []WriterAgreesWithFile` | `Sheltered` |
| | `AcknowledgedIsKept` | `Spec => []AcknowledgedSurvives` | `Sheltered` |
| | `SyncedIsKept` | `Spec => SyncedSurvives` | `Sheltered` |
| `StoreProofs` | `SnapshotsTypeCorrect` | `SnapshotsSpec => []SnapshotsTypeOK` | |
| | `NeverBack` | `SnapshotsSpec => ReadersNeverGoBack` | |
| | `SnapshotReadable` | `SnapshotsSpec => []SnapshotIsReadable` | |
| | `SnapshotPublished` | `SnapshotsSpec => []SnapshotIsPublished` | `Powered` |
| | `QuickScansSeePublished` | `SnapshotsSpec => PublishedIsVisibleToQuickScans` | `Powered` |
| | `FileImplementsStore` | `SnapshotsSpec => ImplementsSnapshotStore` | `Powered` |
| `SeriesWriterProofs` | `SeriesInvHolds` | `Spec => []SeriesInv` | |
| | `AcceptedBatchesAreKeptHolds` | `Spec => []AcceptedBatchesAreKept` | |
| | `PublishedIsWholeBatchesHolds` | `Spec => []PublishedIsWholeBatches` | |
| | `IdsIdentifySeriesHolds` | `Spec => []IdsIdentifySeries` | |
| | `ManifestIsNeverRefusedHolds` | `Spec => []ManifestIsNeverRefused` | |
| `TimeIndexProofs` | `TreesHoldTheirPagesHolds` | `IndexSpec => []TreesHoldTheirPages` | |
| | `RefusedExactlyWhenFullHolds` | `IndexSpec => []RefusedExactlyWhenFull` | |
| `QueriesProofs` | `QueryInvHolds` | `Spec => []QueryInv` | |
| | `LookupsAreExactHolds` | `Spec => []LookupsAreExact` | |
| `PythonClientProofs` | `AcknowledgedIsPublishedHolds` | `PythonWriterSpec => []AcknowledgedIsPublished` | |
| | `PreparedIsCurrent` | `PythonReaderSpec => []PreparedLookupsAreCurrent` | |
| | `CursorsReleased` | `PythonReaderSpec => []CursorsAreReleased` | |
| | `YieldsOnlyWhileCurrent` | `PythonReaderSpec => NoPointAfterChange` | |
| | `GeneratorsYieldTheirRange` | `PythonReaderSpec => []IteratorsYieldTheirSnapshot` | |
| | `CursorReadsItsReader` | `NativeSpec => AdvancesReadTheirReader` | |
| | `CursorDeliversItsReader` | `NativeSpec => []CursorStaysWithItsReader` | |
| `ToolsProofs` | `RowsAreOfOneBuild` | `BenchSpec => []RowsMatchFingerprint` | |
| | `ReleaseIsDerived` | `BenchSpec => []ReleaseIsOfItsRows` | |
| | `RefusalsHaveReasons` | `BenchSpec => []RefusalsAreExplained` | |
| | `MergesOnlyReviewedAndGreen` | `MergeSpec => []MergedIsReviewedAndGreen` | |
| | `LinkedToolVerified` | `ToolSpec => []LinkedToolIsVerified` | |
| | `ComparisonIsFairHolds` | `PairSpec => []ComparisonIsFair` | |
| | `PassedReceiptTrue` | `GateSpec => []PassedReceiptIsTrue` | `MaxReplacements <= 1` |

### Assumptions

Every module names what it assumes of its constants: the bounds are natural
numbers, there is a slot and a control region, model values that stand for
"nothing" are not names of things. TLC evaluates these in the runs. Four say a
little more: `MergeAssumption`, that the required check is counted once;
`NativeReadersAssumption`, that the null pointer is no address of a handle, that
every file has a first generation, and that the points of a series are in strict
order of time, as the writer keeps them; `QueriesAssumption`, that the height limit has
room for all pages, which is what `RefusedExactlyWhenFull` says of the writer;
`BenchmarksAssumption`, that an invocation
emits something and no identity is of two of them. The last is a property of the
code's own matrix, which `tools` walks through with `BenchMatrix`.

What single theorems suppose in addition is what the code needs:

- `Sheltered`: no failing reads of manifests when a writer opens
  (`~ReadFaults`, section 5), at least three slots (the code has four), and,
  where the machine may lose power at all, at most `SlotCount - 2` roots
  published beyond the last synced one. With one more the statement is false:
  `durable_generation_lost`. The number of failures, deaths, power losses,
  generations and objects is free.
- `Powered`: the same without power loss. A lost generation may leave its root
  in a slot; a scan during which the writer overwrites all other slots could
  take it up. With power loss the refinement is checked by `store`.
- `MaxReplacements <= 1`: a second replacement could put the pinned archive back
  before it is hashed again (section 5).

### The arguments

**Published bytes stay** (`PublicationProofs`, `SnapshotReadable`). A step could
overwrite what a manifest not yet published, or a session not yet finished,
refers to, and publish it afterwards. The inductive invariant is
`Grounded == Typed /\ OwnsTail /\ EverythingResolves`:

- `Typed`: types, and what a session looks like while it is closed;
- `OwnsTail`: a writer that may still write appends at the very end of the
  file. It needs that every failing call poisons the writer;
- `EverythingResolves`: whatever a manifest in the file, the session or the
  history refers to lies below the end of the file and is authentic, and
  between the manifest write and the root write the manifest is the last object.

A write goes to `write_offset = size`, so it touches nothing that anything
refers to (`WriteKeepsResolved`); the other actions do not change objects. The
election answers the root of some slot whose manifest decodes
(`ElectionAnswersASlot`), so what a writer or a reader adopts resolves as well.
The last conjunct is claimed only while no power was lost: a power loss may
leave a manifest without its pages (section 5).

**Recovery is exact** (`PublicationProofs`). Which root the election accepts depends
on all slots, and after a power loss each holds any of the writes since the
last sync. The invariant `Lineage` therefore speaks of all of these
(`Written(s)`), not of what the slots hold now. While the file can be opened:

- `SlotsHoldRoots`: every root that a slot may come to hold belongs there by its
  generation, and is older, by its identity, than the next to be written;
- `Chained`: published generations are numbered without gaps, each names the
  identity of the one before, and extents and identities grow;
- `RecentInPlace`: the generations that recovery may need, the newest two, or
  all from the synced one on where power may be lost, are in their slots and
  their manifests load. `SlotsDiffer` gives that generations less than
  `SlotCount` apart do not share a slot, `WithinReach` that they are;
- `StrangersBlocked`: a root that a power loss cut off from the history is not
  elected: it is not newer than what is synced, or its manifest is gone, or no
  root that may be in the file is its predecessor. It is what needs fresh
  identities: the writer reuses generation numbers, never identities;
- `Anchored`: in every image of the file that a power loss can leave, the synced
  root is acceptable, because its slot and its predecessor's are certain, or
  because it is the oldest root left;
- `WriterFollows`: an unpoisoned session continues the newest generation.

A file before its first sync may also be `Dead`, or `Blank` where its control
region was never completed. A step that publishes extends the chain
(`WriteRoot`), one that tears a slot takes the oldest generation; a power loss is
the long case: the elected root is in the history (it is not a stranger) and not
older than the synced one (it is anchored), so the history is cut there and
everything behind it becomes a stranger. The existence of a newest accepted
root rests on the minimum of a set of naturals, from `WellFoundedInduction`.

**Readers and the abstract store** (`StoreProofs`).
`ReadersNeverGoBack` follows from the guard of `refresh` and the fact that
`FinishRefresh` changes one reader in one of two ways (`FinishRefreshOutcome`).
For the rest, the slots that a scan has collected were read at different times.
Of the file the invariant (`Ledger`) says that every root in a slot is
published and the newest two are in place; of each reader (`InOrder`) that every
root it has collected is published, that the size it looked at covers all
that was published when its scan began, and that, as long as the writer
began at most `SlotCount - 2` roots meanwhile, the newest root of that time
and its predecessor are among those collected (`ScanSees`). An accepted root is
then an entry of the history, and the refinement goes step by step: `WriteRoot` is
`Publish`, the last sync of a disk checkpoint `Acknowledge`, the end of a scan
`Look`, `CloseReader` `Leave`; every other step leaves log, durable prefix,
contents and views as they are.

**Loops.** No prover here instantiates an induction theorem with a property, for
a property is an operator. A set of numbers is not: `Induction` (`SharedLemmas`)
says that a set which holds 0 and with every number below *n* the next one holds
all up to *n*, from the least number outside it. A proof defines the set of the
rounds after which something is true. What a loop computes is a recursive
function of the model, and `Recursion` gives its values round by round. So the
models write a loop as a recursive function where a theorem depends on its
result.

**The engine's writer** (`SeriesWriterProofs`). All four theorems follow from one
invariant, `SeriesInv`. Of the file it says that the manifest has distinct names
and ids and holds whole batches in strict order of time (`PublishedState`). Of a
writer that may still write (`WriterState`):

- `SeriesHold`: the rows of a series, those of its pages, published or pending,
  and then those of its buffer, are the points of its accepted batches, one
  after the other. `appendBatch` does not go by batches but by
  rounds, which fill the buffer, flush it, or write full pages past it; after
  each round the rows are those before followed by the part of the batch that the
  round took;
- `Known`: names and ids differ also among series that were never published,
  every page carries the id of its series, and a series with a page or a row
  that is not published is marked dirty;
- `ListsDirty`: the dirty list has every series so marked, once. Twice would
  count a new series twice in the manifest;
- `Counted`: the running size and count are those of the published manifest, and
  the size that `createSeries` tests is that of a manifest with every known
  series. What a checkpoint adds for the series it publishes for the first time
  is then what the encoder finds, in whatever order the dirty list has them, and
  at most the limit that `createSeries` kept.

A session that failed is poisoned and can only be closed, so nothing is claimed of
it; `Open` rebuilds all four from the manifest.

**The time index.** `TreesHoldTheirPages` reads a tree from its root down, an append
builds it from its pages up. The invariant, `IndexInv`, has the upward view: every
generation stands on a `Ladder`, one sequence of entries for each level, from its
pages to the root's entry. A step of it, a `Rung`, says that the nodes of a
level hold, end to end, the sequence below; that their levels and summaries are
right; and that all of them but the last are full, as far as numbers go. The
cached spine of a writer that was not poisoned is the `Chain` of the last nodes
of the ladder of its root, so that a spine read from the file and a cached one
are the same (`LoadRightSpine` gives the chain as well).

An append never looks at what is outside of the spine. `Trunk` splits each level into
what stays in its old nodes and what the node in the spine keeps, and `Climb` is the
invariant of the rounds of `appendWithSpine`: after a number of levels

- the new tree has its rungs up to there, and the entries of the top rung are
  those that stay, followed by those that are still to be hung up (`Rungs`);
- there are as many of those as `appendedSpineDepth` counted (`CountedOff`);
- the new nodes have not been written over a node of the old spine that is still to
  be read, and lie where the new spine will be looked for (`Buffered`). This is
  the hazard of rewriting in place: the new node of a level goes to the
  old one's place or to a later one, since the predicted depth is not less than the
  old one.

The file only grows, so rungs of earlier generations stay rungs (`RungSame`), also
after a failed checkpoint, which leaves whole nodes that nothing refers to.

That the height limit leaves no slack needs a bound in both directions. A
node at height *h* that stays outside of a spine is full, so of a level with *u*
nodes, each with room for *a* pages, the last has at least one page: more than
*a(u - 1)* pages and at most *au* (`Fills`, preserved by `FillsAbove`). At the
height limit there is one node exactly if the pages fit in `Room[HeightMax]`;
below it, a level with more than one node is followed by another. Both the
prediction and the rounds stop at the first level with one node, so the two agree
(the assertion in `index.zig` at 409).

**Lookups** (`QueriesProofs`). A lookup descends from the root that the reader
remembers, borrowing a page from the leaf entered last if that covers the
timestamp; any query and any call of a cursor may have left them there.
`QueryInv` says that they are of the series: there is a tree whose levels, from
the pages to the root, are sequences of nodes that hold the level below end to
end (`Tree`), and the remembered root, the remembered leaf and the nodes in the
frames of a cursor of this generation are nodes of it (`Remembers`, `Placed`).
Ranges, aggregates and cursors change what is remembered, so each step of their
walks is shown to stay in the tree (`WalkOk`); a refresh, which replaces
the tree, forgets root and leaf and leaves a cursor with its old generation.

What a descent finds follows from the levels. The pages below a node are an
interval of all pages, and intervals of neighbours touch (`Cuts`), so on every
level the entry that is chosen is the one whose interval holds the page that is
looked for, or none where there is no such page (`EntrySelected`). One step
down keeps that, and the levels number the steps (`PathHolds`). In the page it is a
comparison with the points around the target (`PageSearch`), and for the
nearest a comparison of the two distances.

**The Python writer.** After a native call has failed or refused a batch a buffer
may hold more than a batch, or points that come too late, and calls with other
points go on. `PythonWriterInv` says what still holds then. A writer is
`Unblocked` if its handle is usable and every series is in order from its
first appended point to its last buffered one (`Whole`). No call unblocks a writer
(`Follows`), a blocked one cannot flush all of its buffers, and so checkpoint and
close return only from an unblocked one, where

- every buffer holds less than a batch, so the counts and slices of
  `append_many` are what they look like;
- the points of the calls that returned are among `Whole`, in strict order
  (`Held`), since a call that returns has put all of its points there
  (`AppendOneTakes`, `ArrayTakes`, `ListTakes`) and a call that raises takes
  none away; and they are all of `Whole` while no call has raised.

A flush moves points from the buffers to what has been appended and keeps `Whole`;
when it is done, `Whole` is what gets published.

**The Python reader.** Python objects compare an epoch that the reader counts,
and never see the native snapshot. `PythonReaderInv` says that the epoch stands
for it: an open reader owns its handle alone (`HandlesAreOwned`); whatever was
made in epoch *e* of a reader is in the handle's snapshot as long as the reader
is open and in *e* (`TakenIn`); a closed reader is never opened again, which
matters because its address may be. A cursor exists exactly while its generator
is suspended (`CursorFollows`). `CursorReadsItsReader` is about a C program, that may keep a
cursor when it closes a reader: addresses are used again, tokens are
not (`TokensIdentify`), so a cursor that advances reads the file and the
generation it was created on.

What the cursors and the generators deliver needs no induction over data, because
the points of a range lie side by side in an ordered series: between two
positions *lo* and *hi* (`RangeHasBounds`, by least counterexample). A cursor on
its track (`OnTrack`) has delivered those from *lo* to some *k*, asks for times
after the one at *k*, and says that it is complete only if *k* = *hi*; a call
takes it from *k* to *k* + *m* in the same bounds (`CursorMoves`). `NativeDeliveryInv`
says so of every cursor of a C program. `PythonDeliveryInv` says it of the
cursor of every suspended generator, and that what the application saw, followed
by what is buffered, is what the cursor delivered (`Buffers`): a yield moves
one point from the second to the first, and a generator ends normally only with
an empty buffer and a cursor that is at *hi*.

**The benchmark.** `BenchInv` relates every run to its files, the process to the
run, and the published files to both:

- rows are of one fingerprint, that of `environment.json` unless it is damaged,
  and no identity has two rows;
- a process measures under the fingerprint and from the set of completed
  identities that the run has, and has emitted a prefix of the invocation it is
  at; all earlier invocations are complete;
- all results of an invocation are there or none, except where a process is
  emitting or died within it (`CallsAreWhole`);
- each derived file that a reporting process has passed is of the rows, and
  checksums were taken of files that agreed (`SumsAgree`), so that checksums
  that match now bring that agreement back although the summary may have been
  rewritten or damaged since;
- a run that was named by `LATEST` or the root report is `Sealed`: complete, no
  row of it counted nothing, and
  no process emits rows for it, since a complete matrix is skipped. Of a root
  report that was cut short the same is said of the text it was to have
  (`ReportAgrees`), so one that passes the check is the beginning of the right
  one;
- a matrix is refused at its end with all its rows there once (`EachOnce`), so
  that the refusal is for a row that counted nothing, and this stays so until
  the next process starts.

**The merge.** The script validates what it saw, which need not be what is there
when the server merges. `MergeInv` speaks of
every place a commit may come from: a pull request that passes its checks, on
the server (`PullWasGreen`) or in the script's second view (`FreshWasGreen`),
has a head that was green; an acceptable review file names a commit that was
cleared (`ReviewWasCleared`); what the script is about to merge was both
(`MergingIsSafe`). The server merges only if its head is that commit. Everything
others do to the pull request is one lemma (`ChangesKeepInvariant`): ghosts only
grow.

**The other scripts.** `ToolInv`: what is at a destination was locked under its
version and is never replaced, so what an installer has found out still holds
when it links (`FoundHolds`); the receipt only as long as nobody else runs.
`PairInv`: all files of a paired run carry the metadata of the first one that
was accepted (`FilesAgree`), the turns alternate with the parity of the
repetition, and of the first *m* repetitions half are odd, or one more than are
even (`Halves`), and what is compared
has the workloads that those metadata ask for (`CombinedChecked`).
`GateInv`: what a gate has extracted is the pinned bundle, or the archive is
spoilt for good and will fail its second hash (`Knows`); the gate that is at
work owns the logs, because creating their directory is exclusive.

### Only model-checked

- Liveness (`RefreshCatchesUp`): out of the prover's reach.
- The results of the page and chart algorithms and of the queries other than
  lookups (`PagesRoundTrip`, `RangesAreExact`; `RangesCrossPages`,
  `AggregatesAreExact`, `CursorDeliversItsRange`; `EnvelopesAreExact`). They are folds and loops
  over points whose bodies are operators given to a library operator
  (`FoldLeft`, `WalkAll`), and no prover here instantiates a theorem about
  those for one body; a proof by `Induction` would have to be repeated for
  every codec, every statistic and every kind of query.
- `CompleteMatrixIsReportable`: it has no parameter. The matrix is the one in the
  code, and TLC walks through all of it.
- Readers and the refinement under power loss, and everything under failing
  reads of manifests, where the statements do not hold in general.

## 5. Findings

1. `durable_generation_lost`. Three memory checkpoints after a disk checkpoint
   and a power loss can lose the acknowledged generation: its predecessor's slot
   has been overwritten, an older root is still there, and
   `rootHasValidPredecessor` (`engine.zig` 366–383) rejects it.
   `docs/durability.md` asks to "Call disk durability before acknowledging data
   that must survive power loss".
2. `page_undecodable`. The encoder writes a delta of more than `maxInt(i64)`
   within a restart group; the decoder rejects it, so an accepted page cannot be
   read. `PagesRoundTrip` has this as its one precondition
   (`DeltasFitSigned`).

More divergences show in the model and bound what the passing runs claim:

- The election checks a manifest but not the pages it names, although
  `docs/durability.md:33` speaks of "the newest complete generation whose graph
  validates". After a memory checkpoint and a power loss a generation may be
  elected whose pages never reached the disk; a clean disk checkpoint then
  acknowledges it. Hence `SyncedSurvives` speaks of what was synced.
- A scan that overlaps `SlotCount - 1` root writes or more can adopt a
  generation older than one published before it began, or fail with
  `InvalidDatabase`, although `docs/durability.md:11` calls a checkpoint
  "Visible to newly opened or refreshed readers after a successful call".
  Hence the bound in `PublishedIsVisibleToQuickScans`.
- `loadSnapshotFromCandidates` (`engine.zig` 445) treats a failed read of a
  manifest as an invalid one; a writer that opens through it continues from an
  older generation and overwrites the acknowledged one. `ReadFaults = TRUE`
  admits such reads: `ElectionIsHead`, `AcknowledgedSurvives` and
  `WriterAgreesWithFile` are claimed without them, the theorems of
  `PublicationProofs` and `StoreProofs` hold with them.
- `bench/competitive/README.md:28` says "Resume is rejected if the source, runner"
  or more differ; the fingerprint (`bench.py` 291–304) covers the commit, the
  runner's two sources and the header, not uncommitted sources of the engine,
  and is taken after the build. Hence `edited` in `RowsMatchFingerprint`.
- After a flush that failed, `append_many` of the Python client computes a
  negative `needed` (`__init__.py` 226) and slices from the end of its argument;
  points may then be both in the buffer and in the native writer. Either the
  native writer is poisoned, or it has refused what is in the buffer and goes on
  refusing it, so no checkpoint returns afterwards: `AcknowledgedIsPublished`
  holds with it.
- `check-release.py:119` looks for the name of the published run in the root
  report and for nothing else. When the published run is published once more and the
  process dies while it writes the report (`bench.py` 1012), a report without its
  end passes. Hence `Truncated` in `ReleaseIsOfItsRows`.
- A concurrent invocation whose readers finish no query in time prints zero
  operations (`competitive.cpp:771`). `bench.py` takes the row, and refuses it
  (380–386) only when the whole matrix has been measured, and whenever the run is
  resumed or reported on later; nothing measures it again. Hence `Counted` in
  `RefusalsAreExplained`.
- Two installers at once: the one that finds the other's executable between its
  two looks links it before it has a receipt. Hence `overlapped` in
  `LinkedToolIsVerified`.
- An archive that is swapped and swapped back between the two hashes of the gate
  is not noticed; `PassedReceiptIsTrue` is checked for one replacement.
- A worktree that git refuses to remove is left behind (`profile-pair.py` 83).

## 6. Not modelled

- `verifyPath`: sequential and read-only; it repeats the decoder's checks.
- The verification cache, `active_page`: see the abstractions.
- The rest of the C interface: argument validation and the calls that pass
  straight through. The Go client: wrappers with locks of their own; planned.
- Of the Python client: the search for the library, conversions of arrays,
  `aggregate` and the error texts.
- `v6_reader.zig`: reads a format that is no longer written; planned.
- Of the scripts: `check-docs.py`, a sequential parser whose behaviour is the
  characters it reads; what charts, reports and summaries look like; the fields
  of one row of a profile (a flag says whether they are valid) and the numbers in
  one of a benchmark; archive members and Mach-O headers; what `competitive.cpp`
  measures (it prints every row of an invocation once, although `bench.py` 443–446
  would also take rows printed twice); the checks of `check-release.py` that compare constant text.
- `build-wheel.py`, `metadata.py`, `python_batch.py`: each writes one file from
  its inputs in one pass.
- Byte layout, padding, magic values, BLAKE3.
- The command line, the simulator, the engine's own benchmarks and probes.
- Two writers on one file: `create` and `open` take an exclusive advisory lock
  without waiting for it (`engine.zig` 615–630), so a second one is refused;
  sessions follow each other.

## 7. Plan

Done: sections 2 to 4. Next, in this order:

1. More about the walks of `Traversal`: `QueriesProofs` has that their frames are
   nodes of the tree; with an invariant that says which pages a stack of frames has
   passed, `RangesCrossPages` and `CursorDeliversItsRange` would follow.
2. The Go client's locks around the handles of `NativeReaders`.
3. `Verification`: `verifyPath` and the verification cache.
4. `Migration`: the version 6 reader.
