---------------------------- MODULE PythonWriter ----------------------------
(***************************************************************************)
(* The writer of the Python client (clients/python/.../__init__.py).  It   *)
(* buffers points per series, hands them to the native writer in batches,  *)
(* and publishes with checkpoint and close.  A native call that fails      *)
(* raises out of whatever method made it, and leaves behind what the       *)
(* method had done so far.                                                 *)
(*                                                                         *)
(* The methods are operators on a record w, the writer and the native      *)
(* handle it owns.  w.raised ends a method; w.fault is the number of the   *)
(* native call, counted within one method, that meets an I/O error, 0 for  *)
(* none.  A point is its timestamp.                                        *)
(***************************************************************************)
EXTENDS Integers, Sequences, SequencesExt, FiniteSets

CONSTANTS
    Series,         \* names of series
    BatchSize,      \* Writer._batch_size
    Singles,        \* timestamps given to append
    Lists,          \* sequences of timestamps given to append_many
    MaxCalls,       \* bound: calls of the application
    MaxFault        \* bound: native calls of one method that may fail

ASSUME PythonWriterAssumption ==
    /\ BatchSize \in Nat \ {0}
    /\ Singles \subseteq Int
    /\ Lists \subseteq Seq(Int)
    /\ MaxCalls \in Nat /\ MaxFault \in Nat

VARIABLES
    writer,         \* the Writer object and its native handle
    published,      \* the points of each series in the published generation
    kept,           \* ghost: points of the calls that returned, per series
    acknowledged,   \* ghost: kept when checkpoint or close last returned
    complained,     \* ghost: some call has raised
    calls

writerVars == <<writer, published, kept, acknowledged, complained, calls>>

-----------------------------------------------------------------------------
(* The native writer (c_api.zig).  A refused batch leaves it as it was; an *)
(* I/O error poisons it.                                                   *)

Raise(w) == [w EXCEPT !.raised = TRUE]

StrictlyIncreasing(batch) ==
    \A i \in 1 .. Len(batch) - 1 : batch[i] < batch[i + 1]
InOrder(w, s, batch) ==
    /\ StrictlyIncreasing(batch)
    /\ w.appended[s] # << >> => Last(w.appended[s]) < batch[1]

Usable(w) == w.open /\ ~w.poisoned

CtAppend(w, s, batch) ==
    IF w.raised \/ (Usable(w) /\ batch = << >>) THEN w
    ELSE IF ~Usable(w) \/ ~InOrder(w, s, batch) THEN Raise(w)
    ELSE IF w.fault = 1 THEN [Raise(w) EXCEPT !.poisoned = TRUE]
    ELSE [w EXCEPT !.appended[s] = @ \o batch, !.fault = @ - 1]

-----------------------------------------------------------------------------
(* Buffers.                                                                *)

(* Mutant: the buffer is emptied although the native call failed.          *)
FlushSeriesClearing(w, s) ==
    [CtAppend(w, s, w.buffers[s]) EXCEPT !.buffers[s] = << >>]

FlushSeries(w, s) ==
    LET after == CtAppend(w, s, w.buffers[s]) IN
    IF after.raised THEN after ELSE [after EXCEPT !.buffers[s] = << >>]

(* dict.items: the series in the order their buffers were made.            *)
FlushIfAny(w, s) == IF w.buffers[s] = << >> THEN w ELSE FlushSeries(w, s)

Flush(w) ==
    LET after[n \in 0 .. Len(w.order)] ==
            IF n = 0 THEN w ELSE FlushIfAny(after[n - 1], w.order[n])
    IN  after[Len(w.order)]

(* dict.setdefault.                                                        *)
WithBuffer(w, s) ==
    IF s \in ToSet(w.order) THEN w ELSE [w EXCEPT !.order = Append(@, s)]

(* A Python slice: negative positions count from the end, and positions    *)
(* past either end are that end.                                           *)
SlicePosition(list, i) ==
    IF i < 0 THEN Max({0, Len(list) + i}) ELSE Min({i, Len(list)})
Slice(list, from, to) ==
    SubSeq(list, SlicePosition(list, from) + 1, SlicePosition(list, to))

(* Native batches of at most BatchSize points, from offset on, k of them.  *)
Batch(list, offset, i) ==
    Slice(list, offset + (i - 1) * BatchSize, offset + i * BatchSize)
AppendBatches(w, s, list, offset, k) ==
    LET after[i \in 0 .. k] ==
            IF i = 0 THEN w ELSE CtAppend(after[i - 1], s, Batch(list, offset, i))
    IN  after[k]

(* _append_buffer_batches: arrays are handed over without copying.         *)
AppendBufferBatches(w, s, list) ==
    AppendBatches(w, s, list, 0, (Len(list) + BatchSize - 1) \div BatchSize)

(* The other path of append_many fills up the buffer, appends whole        *)
(* batches past it, and buffers the rest.  After a failed flush the buffer *)
(* holds more than a batch, and needed, which is then the offset, is       *)
(* negative.                                                               *)
FillPending(w, s, list, needed) ==
    LET filled == [w EXCEPT !.buffers[s] = @ \o Slice(list, 0, needed)] IN
    IF Len(filled.buffers[s]) = BatchSize THEN FlushSeries(filled, s) ELSE filled

AppendList(w, s, list) ==
    LET pending == w.buffers[s]
        offset == IF pending = << >> THEN 0
                  ELSE Min({BatchSize - Len(pending), Len(list)})
        filled == IF pending = << >> THEN w ELSE FillPending(w, s, list, offset)
        rounds == (Len(list) - offset) \div BatchSize
        after == AppendBatches(filled, s, list, offset, rounds)
    IN  IF after.raised THEN after
        ELSE [after EXCEPT !.buffers[s] =
                @ \o Slice(list, offset + rounds * BatchSize, Len(list))]

-----------------------------------------------------------------------------
(* The methods.                                                            *)

NewWriter ==
    [open |-> TRUE, poisoned |-> FALSE, raised |-> FALSE, fault |-> 0,
     buffers |-> [s \in Series |-> << >>], order |-> << >>,
     appended |-> [s \in Series |-> << >>]]

PythonWriterInit ==
    /\ writer = NewWriter
    /\ published = [s \in Series |-> << >>]
    /\ kept = [s \in Series |-> << >>]
    /\ acknowledged = [s \in Series |-> << >>]
    /\ complained = FALSE
    /\ calls = 0

(* The writer as a method finds it, w, and as it leaves it.                *)
Called(fault) == [writer EXCEPT !.fault = fault]
Returns(w) ==
    /\ calls < MaxCalls
    /\ calls' = calls + 1
    /\ writer' = [w EXCEPT !.fault = 0, !.raised = FALSE]
    /\ complained' = (complained \/ w.raised)

Keeps(w, s, points) ==
    kept' = IF w.raised THEN kept ELSE [kept EXCEPT ![s] = @ \o points]

AppendOne(s, timestamp) == \E fault \in 0 .. 1 :
    LET buffered == [WithBuffer(Called(fault), s) EXCEPT
                        !.buffers[s] = Append(@, timestamp)]
        w == IF Len(buffered.buffers[s]) >= BatchSize
             THEN FlushSeries(buffered, s) ELSE buffered
    IN  /\ Returns(w)
        /\ Keeps(w, s, <<timestamp>>)
        /\ UNCHANGED <<published, acknowledged>>

(* direct: both arguments are writable arrays of eight-byte items.         *)
AppendMany(s, list, direct) == \E fault \in 0 .. MaxFault :
    LET found == WithBuffer(Called(fault), s)
        w == IF direct /\ found.buffers[s] = << >>
             THEN AppendBufferBatches(found, s, list)
             ELSE AppendList(found, s, list)
    IN  /\ Returns(w)
        /\ Keeps(w, s, list)
        /\ UNCHANGED <<published, acknowledged>>

(* Timestamps and values of unequal lengths: only the buffer is made.      *)
AppendUnequal(s) ==
    /\ Returns(Raise(WithBuffer(Called(0), s)))
    /\ UNCHANGED <<published, kept, acknowledged>>

(* prepare reserves memory in the native writer, or finds none.  A series  *)
(* that is only prepared is not published (SeriesWriter).                  *)
PrepareAppend ==
    LET w == Called(0) IN
    /\ (Usable(w) /\ Returns(w)) \/ Returns(Raise(w))
    /\ UNCHANGED <<published, kept, acknowledged>>

(* A native publication that fails may have replaced the root or not.      *)
Checkpoint == \E fault \in 0 .. MaxFault :
    LET w == Flush(Called(fault)) IN
    /\ \/ /\ w.raised \/ ~Usable(w)
          /\ Returns(Raise(w))
          /\ UNCHANGED <<published, acknowledged>>
       \/ /\ ~w.raised /\ Usable(w)
          /\ Returns(w)
          /\ published' = w.appended
          /\ acknowledged' = kept
       \/ /\ ~w.raised /\ Usable(w)
          /\ Returns([Raise(w) EXCEPT !.poisoned = TRUE])
          /\ published' \in {published, w.appended}
          /\ UNCHANGED acknowledged
    /\ UNCHANGED kept

(* The handle is taken and destroyed, whether or not the flush raised.     *)
TakeHandle(w) ==
    [w EXCEPT !.open = FALSE]

(* ct_close aborts a poisoned writer and publishes a healthy one.  The     *)
(* points that a failed flush left in the buffers are not among those      *)
(* published.  A second close finds no handle and does nothing.            *)
CloseWriter == \E fault \in 0 .. MaxFault :
    LET flushed == Flush(Called(fault))
        w == TakeHandle(flushed)
    IN  /\ writer.open
        /\ \/ /\ flushed.poisoned
              /\ Returns(Raise(w))
              /\ UNCHANGED <<published, acknowledged>>
           \/ /\ ~flushed.poisoned
              /\ Returns(w)
              /\ published' = flushed.appended
              /\ acknowledged' = IF w.raised THEN acknowledged ELSE kept
           \/ /\ ~flushed.poisoned
              /\ Returns(Raise(w))
              /\ published' \in {published, flushed.appended}
              /\ UNCHANGED acknowledged
        /\ UNCHANGED kept

PythonWriterNext ==
    \/ \E s \in Series, timestamp \in Singles : AppendOne(s, timestamp)
    \/ \E s \in Series, list \in Lists, direct \in BOOLEAN : AppendMany(s, list, direct)
    \/ \E s \in Series : AppendUnequal(s)
    \/ PrepareAppend
    \/ Checkpoint
    \/ CloseWriter

PythonWriterSpec == PythonWriterInit /\ [][PythonWriterNext]_writerVars

-----------------------------------------------------------------------------
(* Properties.                                                             *)

(* When checkpoint or close returns, every point of every call that        *)
(* returned before is published, in order: also when other calls raised,   *)
(* left refused points in a buffer or submitted a part of their points.    *)
(* In strict order of time, the points of a set are one sequence.          *)
(* If no call raised, nothing else is published, and no point twice,       *)
(* however calls with one point, lists and arrays alternate.               *)
AcknowledgedIsPublished ==
    /\ \A s \in Series :
            /\ StrictlyIncreasing(published[s]) /\ StrictlyIncreasing(acknowledged[s])
            /\ ToSet(acknowledged[s]) \subseteq ToSet(published[s])
    /\ ~complained => published = acknowledged

=============================================================================
