---------------------------- MODULE PythonReader ----------------------------
(***************************************************************************)
(* The reader of the Python client: its snapshot epoch, the generators     *)
(* that iter_range returns, prepared series, and the optional capabilities *)
(* of the native library.                                                  *)
(*                                                                         *)
(* One thread uses a reader, its iterators and its prepared series, so a   *)
(* method is one step; a generator runs from one yield to the next, and    *)
(* other methods run in between.                                           *)
(***************************************************************************)
EXTENDS NativeReaders

CONSTANTS
    ReaderObjects,      \* Python Reader objects
    Iterators,          \* generators; each has the native cursor of its name
    PreparedObjects,    \* SeriesHandle objects
    Libraries,          \* sets of optional symbols that libraries export
    FirstCapacity       \* capacity of the first call of Reader.range

ASSUME PythonReaderAssumption ==
    /\ Iterators \subseteq Cursors
    /\ FirstCapacity \in Nat \ {0}

VARIABLES
    exports,        \* optional symbols of the loaded library
    readers,        \* reader -> _handle and _iteration_epoch
    iterators,
    prepared

pythonReaderVars == <<nativeVars, exports, readers, iterators, prepared>>

-----------------------------------------------------------------------------
(* Capabilities: each is a set of symbols that only counts when complete.  *)

LookupSymbols == {"ct_lookup", "ct_lookup_prepared"}
CursorSymbols ==
    {"ct_cursor_state_create", "ct_cursor_state_next", "ct_cursor_state_destroy"}

(* Mutant: the capability is there when its first symbol is.               *)
HasLookupByFirst == "ct_lookup" \in exports

HasLookup == LookupSymbols \subseteq exports
HasStatefulCursor == CursorSymbols \subseteq exports

-----------------------------------------------------------------------------
NoIterator == [phase |-> "none"]
NoPrepared == [reader |-> "none"]
NullHandle == 0

PythonReaderInit ==
    /\ NativeInit
    /\ exports \in Libraries
    /\ readers = [r \in ReaderObjects |->
            [handle |-> NullHandle, opened |-> FALSE, epoch |-> 0]]
    /\ iterators = [i \in Iterators |-> NoIterator]
    /\ prepared = [p \in PreparedObjects |-> NoPrepared]

IsOpen(r) == readers[r].handle # NullHandle
Handle(r) == readers[r].handle

OpenReader(r, f, a) ==
    /\ ~readers[r].opened
    /\ CtOpenReader(f, a)
    /\ readers' = [readers EXCEPT ![r] = [handle |-> a, opened |-> TRUE, epoch |-> 0]]
    /\ UNCHANGED <<history, cursors, exports, iterators, prepared>>

(* Mutant: iterators and prepared series survive the change.               *)
ChangedEpochKept(r) == readers[r].epoch
ChangedEpoch(r) == readers[r].epoch + 1

(* A refresh that fails or changes nothing leaves everything as it is.     *)
Refresh(r) ==
    /\ IsOpen(r) /\ RefreshChanges(Handle(r))
    /\ CtRefresh(Handle(r))
    /\ readers' = [readers EXCEPT ![r].epoch = ChangedEpoch(r)]
    /\ UNCHANGED <<history, next_token, cursors, exports, iterators, prepared>>

CloseReader(r) ==
    /\ IsOpen(r)
    /\ CtClose(Handle(r))
    /\ readers' = [readers EXCEPT ![r].handle = NullHandle]
    /\ UNCHANGED <<history, next_token, cursors, exports, iterators, prepared>>

(* Reader.range starts with a fixed capacity and repeats the call with the *)
(* count that did not fit.                                                 *)
ReadRange(r, range) ==
    LET first == CtRange(Handle(r), range, FirstCapacity) IN
    IF first.too_small THEN CtRange(Handle(r), range, first.count).points
    ELSE first.points

-----------------------------------------------------------------------------
(* Prepared series.  The snapshot they were prepared in is a ghost.        *)

PrepareSeries(r, p) ==
    /\ IsOpen(r) /\ SeriesFound(Handle(r))
    /\ prepared[p] = NoPrepared
    /\ prepared' = [prepared EXCEPT ![p] =
            [reader |-> r, epoch |-> readers[r].epoch, snapshot |-> heap[Handle(r)]]]
    /\ UNCHANGED <<nativeVars, exports, readers, iterators>>

LookupOutcome(r) ==
    IF ~IsOpen(r) THEN "reader is closed"
    ELSE IF ~HasLookup THEN "not implemented"
    ELSE "ct_lookup"

(* The checks of lookup_prepared, in their order.                          *)
LookupPreparedOutcome(r, p) ==
    IF ~IsOpen(r) \/ ~IsOpen(prepared[p].reader) THEN "reader is closed"
    ELSE IF prepared[p].reader # r THEN "different reader"
    ELSE IF prepared[p].epoch # readers[r].epoch THEN "stale after refresh"
    ELSE IF ~HasLookup THEN "not implemented"
    ELSE "ct_lookup_prepared"

-----------------------------------------------------------------------------
(* Iterators.  iter_range checks at once and returns a generator, which    *)
(* creates its cursor when it is first advanced.                           *)

(* Mutant: points already buffered are yielded after a refresh.            *)
CheckIterationOpen(r, epoch) == IsOpen(r)

CheckIteration(r, epoch) == IsOpen(r) /\ epoch = readers[r].epoch

(* asked and yielded are ghosts: what Reader.range returns now, and what   *)
(* the application has seen.                                               *)
IterRange(r, i, range, batch) ==
    /\ HasStatefulCursor /\ IsOpen(r)
    /\ iterators[i] = NoIterator
    /\ iterators' = [iterators EXCEPT ![i] =
            [phase |-> "unstarted", reader |-> r, epoch |-> readers[r].epoch,
             range |-> range, batch |-> batch, buffered |-> << >>,
             asked |-> ReadRange(r, range), snapshot |-> heap[Handle(r)],
             yielded |-> << >>]]
    /\ UNCHANGED <<nativeVars, exports, readers, prepared>>

Valid(i) == CheckIteration(iterators[i].reader, iterators[i].epoch)
Running(i) == iterators[i].phase \in {"unstarted", "suspended"}

Yields(it, points) ==
    [it EXCEPT !.phase = "suspended", !.buffered = Tail(points),
               !.yielded = Append(@, Head(points))]

(* Mutant: a generator that raises leaves its cursor allocated.            *)
FinishesUnlessFailed(i, phase) ==
    /\ iterators' = [iterators EXCEPT ![i].phase = phase, ![i].buffered = << >>]
    /\ cursors' = IF phase = "failed" THEN cursors
                  ELSE [cursors EXCEPT ![i] = NoCursor]

(* The generator ends, and its finally clause destroys the cursor, if any. *)
Finishes(i, phase) ==
    /\ iterators' = [iterators EXCEPT ![i].phase = phase, ![i].buffered = << >>]
    /\ cursors' = [cursors EXCEPT ![i] = NoCursor]

(* One call of ct_cursor_state_next, and the first yield after it.  An     *)
(* empty answer that is complete ends the generator; one that is not would *)
(* only be asked for again.                                                *)
Fetch(i, cursor) ==
    LET a == Handle(iterators[i].reader) IN
    \/ Finishes(i, "failed")                        \* an I/O error
    \/ /\ CursorStatus(a, cursor) # "ok"
       /\ Finishes(i, "failed")
    \/ /\ CursorStatus(a, cursor) = "ok"
       /\ \E after \in CursorAfter(a, cursor, iterators[i].batch) :
            LET points == SubSeq(after.delivered, Len(cursor.delivered) + 1,
                                 Len(after.delivered))
            IN  IF points = << >> THEN Finishes(i, "exhausted")
                ELSE /\ iterators' = [iterators EXCEPT ![i] = Yields(@, points)]
                     /\ cursors' = [cursors EXCEPT ![i] = after]

Start(i) ==
    /\ iterators[i].phase = "unstarted"
    /\ LET a == Handle(iterators[i].reader) IN
       IF ~Valid(i) \/ ~SeriesFound(a) THEN Finishes(i, "failed")
       ELSE Fetch(i, CursorState(a, iterators[i].range))

YieldBuffered(i) ==
    /\ iterators[i].phase = "suspended"
    /\ iterators[i].buffered # << >>
    /\ IF ~Valid(i) THEN Finishes(i, "failed")
       ELSE /\ iterators' = [iterators EXCEPT ![i] = Yields(@, @.buffered)]
            /\ UNCHANGED cursors

(* A complete cursor ends the generator without another check.             *)
FetchMore(i) ==
    /\ iterators[i].phase = "suspended"
    /\ iterators[i].buffered = << >>
    /\ IF cursors[i].complete THEN Finishes(i, "exhausted")
       ELSE IF ~Valid(i) THEN Finishes(i, "failed")
       ELSE Fetch(i, cursors[i])

(* next() resumes the generator up to its next yield.                      *)
NextPoint(i) ==
    /\ Start(i) \/ YieldBuffered(i) \/ FetchMore(i)
    /\ UNCHANGED <<history, heap, next_token, exports, readers, prepared>>

CloseIterator(i) ==
    /\ Running(i)
    /\ Finishes(i, "closed")
    /\ UNCHANGED <<history, heap, next_token, exports, readers, prepared>>

PythonReaderNext ==
    \/ Publish /\ UNCHANGED <<exports, readers, iterators, prepared>>
    \/ \E r \in ReaderObjects, f \in Files, a \in Addresses : OpenReader(r, f, a)
    \/ \E r \in ReaderObjects : Refresh(r) \/ CloseReader(r)
    \/ \E r \in ReaderObjects, p \in PreparedObjects : PrepareSeries(r, p)
    \/ \E r \in ReaderObjects, i \in Iterators, range \in Ranges, batch \in BufferSizes :
            IterRange(r, i, range, batch)
    \/ \E i \in Iterators : NextPoint(i) \/ CloseIterator(i)

PythonReaderSpec == PythonReaderInit /\ [][PythonReaderNext]_pythonReaderVars

-----------------------------------------------------------------------------
(* Properties.                                                             *)

(* What a generator has yielded is the beginning of what Reader.range      *)
(* returned when iter_range was called, which is the range of that         *)
(* snapshot, and a generator that ends normally has yielded all of it:     *)
(* however the reader was refreshed, closed or opened again in between.    *)
IteratorsYieldTheirSnapshot ==
    \A i \in Iterators : iterators[i] # NoIterator =>
        LET it == iterators[i]
            snapshot == history[it.snapshot.file][it.snapshot.generation]
        IN  /\ it.asked = InRange(snapshot, it.range.start, it.range.end)
            /\ IsPrefix(it.yielded, it.asked)
            /\ it.phase = "exhausted" => it.yielded = it.asked

(* After a refresh that changed the snapshot, or a close, the generators   *)
(* made before yield no more, the points they have buffered included.      *)
NoPointAfterChange ==
    [][\A i \in Iterators :
          Running(i) /\ iterators'[i].yielded # iterators[i].yielded =>
            LET r == iterators[i].reader IN
            IsOpen(r) /\ heap[Handle(r)] = iterators[i].snapshot]_pythonReaderVars

(* A generator has a native cursor exactly while it is suspended: however  *)
(* it ends, and if its reader was closed first, the cursor is destroyed,   *)
(* and only after the last call that uses it.                              *)
CursorsAreReleased ==
    \A i \in Iterators : iterators[i] # NoIterator =>
        (cursors[i] # NoCursor) = (iterators[i].phase = "suspended")

(* A prepared lookup reaches the library only if the library exports it,   *)
(* through the handle that prepared the series and in the very snapshot in *)
(* which it did, and then the library does not refuse it as stale.         *)
PreparedLookupsAreCurrent ==
    \A r \in ReaderObjects, p \in PreparedObjects :
        (prepared[p] # NoPrepared /\ LookupPreparedOutcome(r, p) = "ct_lookup_prepared") =>
            /\ "ct_lookup_prepared" \in exports
            /\ LookupOutcome(r) = "ct_lookup" /\ "ct_lookup" \in exports
            /\ heap[Handle(r)] = prepared[p].snapshot

=============================================================================
