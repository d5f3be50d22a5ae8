---------------------------- MODULE SeriesWriter ----------------------------
(***************************************************************************)
(* How engine.AppenderFor turns batches into published pages: the series   *)
(* it knows, their buffers, the pages written and not yet published, and   *)
(* the sizes it keeps so that a manifest is never refused.                 *)
(*                                                                         *)
(* Publication is one step here (Publication has its system calls): it     *)
(* happens, or it fails with or without the new root in the file.  A page  *)
(* is the points it holds and the series id in its header; the time index  *)
(* of a series is the sequence of its pages (TimeIndex).                   *)
(***************************************************************************)
EXTENDS Integers, Sequences, SequencesExt

CONSTANTS
    Names,
    NameLength,         \* [Names -> Nat]
    Batches,            \* the timestamp sequences an application appends
    RecordsMax,         \* page.records_max
    PageWriteBatchMax,  \* page_write_batch_max
    HeaderSize,         \* manifest.header_size
    SeriesFixedSize,    \* manifest.series_fixed_size
    ManifestSizeMax,    \* manifest.size_max
    MaxBatches,         \* bound: batches appended
    MaxSessions         \* bound: times the file is opened

ASSUME SeriesWriterAssumption ==
    /\ NameLength \in [Names -> Nat \ {0}]
    /\ Batches \subseteq Seq(Int) \ {<< >>}
    /\ {RecordsMax, PageWriteBatchMax, HeaderSize, SeriesFixedSize}
            \subseteq Nat \ {0}
    /\ ManifestSizeMax >= HeaderSize
    /\ {ManifestSizeMax, MaxBatches, MaxSessions} \subseteq Nat

VARIABLES
    manifest,       \* the published catalog, in the order of the writer
    open, poisoned, dirty,
    series,         \* WriterSeries, in the order of their creation
    dirty_series,   \* indices into series
    manifest_size, manifest_series_count,   \* of the next manifest
    catalog_manifest_size,                  \* if every series were published
    batches,        \* every batch passed to appendBatch so far
    accepted,       \* the batches of each series in this lineage
    published,      \* the same, as of the published manifest
    sessions

writerVars == <<open, poisoned, dirty, series, dirty_series, manifest_size,
                manifest_series_count, catalog_manifest_size>>
seriesVars == <<manifest, writerVars, batches, accepted, published, sessions>>

-----------------------------------------------------------------------------
(* Points, pages and series.                                               *)

Point(timestamp, batch) == [timestamp |-> timestamp, batch |-> batch]
Points(batch) ==
    [i \in DOMAIN batches[batch] |-> Point(batches[batch][i], batch)]
Page(id, points) == [series_id |-> id, points |-> points]
PagePoints(pages) == FlattenSeq([i \in DOMAIN pages |-> pages[i].points])

(* root is the pages of the published time index; empty stands for null.   *)
WriterSeries(name, id, root, last_timestamp) ==
    [name |-> name, id |-> id, root |-> root, buffer |-> << >>,
     pending_entries |-> << >>, last_timestamp |-> last_timestamp,
     dirty |-> FALSE]

NoTimestamp == << >>    \* last_timestamp is null or <<timestamp>>
LastTimestamp(pages) == <<Last(PagePoints(pages)).timestamp>>

SeriesSize(name) == SeriesFixedSize + NameLength[name]

(* What a loop adds up.                                                    *)
Total(sizes) ==
    LET sum[n \in 0 .. Len(sizes)] ==
            IF n = 0 THEN 0 ELSE sum[n - 1] + sizes[n]
    IN  sum[Len(sizes)]

(* The size of the manifest with these entries.                            *)
EntriesSize(entries) ==
    HeaderSize + Total([i \in DOMAIN entries |-> SeriesSize(entries[i].name)])

Find(name) == {i \in DOMAIN series : series[i].name = name}

-----------------------------------------------------------------------------
(* Opening.                                                                *)

ManifestSize == EntriesSize(manifest)

Open ==
    /\ ~open
    /\ sessions < MaxSessions
    /\ sessions' = sessions + 1
    /\ open' = TRUE
    /\ poisoned' = FALSE
    /\ dirty' = FALSE
    /\ series' = [i \in DOMAIN manifest |->
                    WriterSeries(manifest[i].name, manifest[i].id,
                                 manifest[i].pages,
                                 LastTimestamp(manifest[i].pages))]
    /\ dirty_series' = << >>
    /\ manifest_size' = ManifestSize
    /\ catalog_manifest_size' = ManifestSize
    /\ manifest_series_count' = Len(manifest)
    /\ accepted' = published
    /\ UNCHANGED <<manifest, batches, published>>

-----------------------------------------------------------------------------
(* createSeries.                                                           *)

(* Mutant: the number of known series is the next id.                      *)
NextIdByCount == Len(series)

NextId == IF series = << >> THEN 0 ELSE Last(series).id + 1

(* Mutant: only published series count towards the size of the manifest.   *)
FitsPublished(name) == manifest_size + SeriesSize(name) <= ManifestSizeMax

Fits(name) == catalog_manifest_size + SeriesSize(name) <= ManifestSizeMax

(* The series after getOrCreateSeries, and the size of their manifest.     *)
WithSeries(name) ==
    IF Find(name) # {} THEN series
    ELSE Append(series, WriterSeries(name, NextId, << >>, NoTimestamp))
CatalogSizeWith(name) ==
    catalog_manifest_size + IF Find(name) # {} THEN 0 ELSE SeriesSize(name)

(* A series that is prepared and never written is not published.           *)
PrepareSeries(name) ==
    /\ open /\ ~poisoned
    /\ Find(name) = {}
    /\ Fits(name)
    /\ series' = WithSeries(name)
    /\ catalog_manifest_size' = CatalogSizeWith(name)
    /\ UNCHANGED <<manifest, open, poisoned, dirty, dirty_series,
                   manifest_size, manifest_series_count, batches, accepted,
                   published, sessions>>

-----------------------------------------------------------------------------
(* appendBatch.                                                            *)

TimestampsStrictlyIncreasing(batch) ==
    \A i \in 1 .. Len(batch) - 1 : batch[i] < batch[i + 1]

(* Mutant: the first timestamp is compared with < instead of <=.           *)
FollowsOrRepeats(batch, last) == last # NoTimestamp => batch[1] >= last[1]

Follows(batch, last) == last # NoTimestamp => batch[1] > last[1]

Acceptable(name, batch) ==
    /\ open /\ ~poisoned
    /\ Len(batches) < MaxBatches
    /\ TimestampsStrictlyIncreasing(batch)
    /\ \A i \in Find(name) : Follows(batch, series[i].last_timestamp)
    /\ Find(name) = {} => Fits(name)

(* Mutant: a buffer is flushed once it holds more than a page.             *)
FlushedLate(s) ==
    IF Len(s.buffer) > RecordsMax
    THEN [s EXCEPT !.pending_entries = Append(@, Page(s.id, s.buffer)),
                   !.buffer = << >>]
    ELSE s

Flushed(s) ==
    IF Len(s.buffer) = RecordsMax
    THEN [s EXCEPT !.pending_entries = Append(@, Page(s.id, s.buffer)),
                   !.buffer = << >>]
    ELSE s

(* One round of the loop: flush a full buffer, then write full pages       *)
(* straight from the batch (writePage, writeFullPages) while the buffer is *)
(* empty, or fill the buffer.                                              *)
Round(s, consumed, points) ==
    LET target == Flushed(s)
        remaining == Len(points) - consumed
        full == IF target.buffer = << >>
                THEN Min({remaining \div RecordsMax, PageWriteBatchMax}) ELSE 0
        amount == IF full > 0 THEN full * RecordsMax
                  ELSE Min({RecordsMax - Len(target.buffer), remaining})
        PageAt(i) == Page(s.id, SubSeq(points, consumed + (i - 1) * RecordsMax + 1,
                                               consumed + i * RecordsMax))
    IN  IF remaining = 0 THEN [target |-> s, consumed |-> consumed]
        ELSE [consumed |-> consumed + amount,
              target |->
                IF full > 0
                THEN [target EXCEPT !.pending_entries =
                        @ \o [i \in 1 .. full |-> PageAt(i)]]
                ELSE [target EXCEPT !.buffer =
                        @ \o SubSeq(points, consumed + 1, consumed + amount)]]

(* The series and the points consumed after a number of rounds.            *)
AfterRounds(rounds, s, points) ==
    LET after[n \in 0 .. rounds] ==
            IF n = 0 THEN [target |-> s, consumed |-> 0]
            ELSE Round(after[n - 1].target, after[n - 1].consumed, points)
    IN  after[rounds]

MarkDirty(known, i) ==
    IF known[i].dirty THEN dirty_series ELSE Append(dirty_series, i)

Target(known, name) == CHOOSE i \in DOMAIN known : known[i].name = name

AppendBatch(name, batch) ==
    /\ Acceptable(name, batch)
    /\ batches' = Append(batches, batch)
    /\ LET known == WithSeries(name)
           i == Target(known, name)
           points == [k \in DOMAIN batch |-> Point(batch[k], Len(batches) + 1)]
           filled == AfterRounds(Len(batch), known[i], points).target
       IN  /\ series' = [known EXCEPT ![i] =
                            [filled EXCEPT !.dirty = TRUE,
                                           !.last_timestamp = <<Last(batch)>>]]
           /\ dirty_series' = MarkDirty(known, i)
    /\ catalog_manifest_size' = CatalogSizeWith(name)
    /\ dirty' = TRUE
    /\ accepted' = [accepted EXCEPT ![name] = Append(@, Len(batches) + 1)]
    /\ UNCHANGED <<manifest, open, poisoned, manifest_size,
                   manifest_series_count, published, sessions>>

(* A page write fails after some rounds.                                   *)
AppendBatchFails(name, batch) ==
    /\ Acceptable(name, batch)
    /\ batches' = Append(batches, batch)
    /\ LET known == WithSeries(name)
           i == Target(known, name)
           points == [k \in DOMAIN batch |-> Point(batch[k], Len(batches) + 1)]
           Filled(n) == AfterRounds(n, known[i], points).target
       IN  /\ \E n \in 0 .. Len(batch) - 1 :
                /\ Filled(n + 1).pending_entries # Filled(n).pending_entries
                /\ series' = [known EXCEPT ![i] = [Filled(n) EXCEPT !.dirty = TRUE]]
           /\ dirty_series' = MarkDirty(known, i)
    /\ catalog_manifest_size' = CatalogSizeWith(name)
    /\ poisoned' = TRUE
    /\ UNCHANGED <<manifest, open, dirty, manifest_size,
                   manifest_series_count, accepted, published, sessions>>

-----------------------------------------------------------------------------
(* checkpoint.                                                             *)

(* flushSeries of every dirty series.                                      *)
FlushSeries(s) ==
    IF s.dirty /\ s.buffer # << >>
    THEN [s EXCEPT !.pending_entries = Append(@, Page(s.id, s.buffer)),
                   !.buffer = << >>]
    ELSE s

(* Whether this checkpoint publishes the first pages of a series.          *)
FirstPublished(i) == series[i].root = << >>

AddedSize ==
    Total([k \in DOMAIN dirty_series |->
            IF FirstPublished(dirty_series[k])
            THEN SeriesSize(series[dirty_series[k]].name) ELSE 0])
AddedCount ==
    Total([k \in DOMAIN dirty_series |->
            IF FirstPublished(dirty_series[k]) THEN 1 ELSE 0])

(* The manifest of the next generation: the series with a published or a   *)
(* candidate root, in order.                                               *)
NextEntry(i) ==
    LET flushed == FlushSeries(series[i])
    IN  [name |-> series[i].name, id |-> series[i].id,
         pages |-> flushed.root \o flushed.pending_entries]

NextManifest ==
    LET kept[n \in 0 .. Len(series)] ==
            IF n = 0 THEN << >>
            ELSE IF NextEntry(n).pages = << >> THEN kept[n - 1]
            ELSE Append(kept[n - 1], NextEntry(n))
    IN  kept[Len(series)]

(* encodeKnownIterator refuses a manifest that is too large or that does   *)
(* not have the announced size and number of series.                       *)
EncodeAccepts(entries, size, count) ==
    /\ size <= ManifestSizeMax
    /\ Len(entries) = count
    /\ size = EntriesSize(entries)

CheckpointAccepted ==
    EncodeAccepts(NextManifest, manifest_size + AddedSize,
                  manifest_series_count + AddedCount)

Publish ==
    /\ manifest' = NextManifest
    /\ published' = accepted

Checkpoint ==
    /\ open /\ ~poisoned /\ dirty
    /\ CheckpointAccepted
    /\ Publish
    /\ series' = [i \in DOMAIN series |->
                    LET s == FlushSeries(series[i]) IN
                    IF ~s.dirty THEN s
                    ELSE [s EXCEPT !.root = @ \o s.pending_entries,
                                   !.pending_entries = << >>,
                                   !.dirty = FALSE]]
    /\ dirty_series' = << >>
    /\ dirty' = FALSE
    /\ manifest_size' = manifest_size + AddedSize
    /\ manifest_series_count' = manifest_series_count + AddedCount
    /\ UNCHANGED <<open, poisoned, catalog_manifest_size, batches, accepted,
                   sessions>>

(* A checkpoint fails before its root is written, or in the sync after it. *)
(* What it has changed in memory by then is read by nothing any more.      *)
CheckpointFails ==
    /\ open /\ ~poisoned /\ dirty
    /\ poisoned' = TRUE
    /\ \/ UNCHANGED <<manifest, published>>
       \/ CheckpointAccepted /\ Publish
    /\ UNCHANGED <<open, dirty, series, dirty_series, manifest_size,
                   manifest_series_count, catalog_manifest_size, batches,
                   accepted, sessions>>

Closed ==
    /\ open' = FALSE
    /\ poisoned' = FALSE
    /\ dirty' = FALSE
    /\ series' = << >>
    /\ dirty_series' = << >>
    /\ manifest_size' = HeaderSize
    /\ manifest_series_count' = 0
    /\ catalog_manifest_size' = HeaderSize
    /\ UNCHANGED <<batches, accepted, sessions>>

(* close publishes what is dirty.                                          *)
Close ==
    /\ open /\ ~poisoned /\ dirty
    /\ CheckpointAccepted
    /\ Publish
    /\ Closed

(* abort, close of a clean or poisoned writer, and the end of its process. *)
Abort ==
    /\ open
    /\ Closed
    /\ UNCHANGED <<manifest, published>>

-----------------------------------------------------------------------------
Init ==
    /\ manifest = << >>
    /\ open = FALSE
    /\ poisoned = FALSE
    /\ dirty = FALSE
    /\ series = << >>
    /\ dirty_series = << >>
    /\ manifest_size = HeaderSize
    /\ manifest_series_count = 0
    /\ catalog_manifest_size = HeaderSize
    /\ batches = << >>
    /\ accepted = [name \in Names |-> << >>]
    /\ published = [name \in Names |-> << >>]
    /\ sessions = 0

Next ==
    \/ Open
    \/ \E name \in Names : PrepareSeries(name)
    \/ \E name \in Names, batch \in Batches : AppendBatch(name, batch)
    \/ \E name \in Names, batch \in Batches : AppendBatchFails(name, batch)
    \/ Checkpoint
    \/ CheckpointFails
    \/ Close
    \/ Abort

Spec == Init /\ [][Next]_seriesVars

-----------------------------------------------------------------------------
(* Properties.                                                             *)

BatchPoints(list) == FlattenSeq([k \in DOMAIN list |-> Points(list[k])])

SeriesPoints(s) == PagePoints(s.root) \o PagePoints(s.pending_entries) \o s.buffer

(* Pages and buffer together hold every accepted batch of a series, point  *)
(* by point and in order, however the batches straddle the pages.          *)
AcceptedBatchesAreKept ==
    (open /\ ~poisoned) =>
        \A name \in Names :
            BatchPoints(accepted[name]) =
                IF Find(name) = {} THEN << >>
                ELSE SeriesPoints(series[Target(series, name)])

(* A published series is a sequence of whole batches, never a part of one, *)
(* in strictly increasing order of time across sessions: neither a batch   *)
(* whose append failed nor one that was aborted leaves a point behind.     *)
PublishedIsWholeBatches ==
    \A i \in DOMAIN manifest :
        LET points == PagePoints(manifest[i].pages) IN
        /\ points = BatchPoints(published[manifest[i].name])
        /\ \A k \in 1 .. Len(points) - 1 :
                points[k].timestamp < points[k + 1].timestamp

(* A series keeps one name and one id, shared with no other series, and    *)
(* its pages carry it, also when series that were prepared or written and  *)
(* never published have come and gone.                                     *)
IdsIdentifySeries ==
    /\ \A i, j \in DOMAIN manifest :
            i < j => /\ manifest[i].id < manifest[j].id
                     /\ manifest[i].name # manifest[j].name
    /\ \A i \in DOMAIN manifest : \A k \in DOMAIN manifest[i].pages :
            manifest[i].pages[k].series_id = manifest[i].id

(* A checkpoint is never refused for its manifest: the size and the number *)
(* of series the writer announces are those of the manifest, and a series  *)
(* that would make it too large was refused when it was created.           *)
ManifestIsNeverRefused == (open /\ ~poisoned /\ dirty) => CheckpointAccepted

=============================================================================
