---------------------------- MODULE NativeReaders ----------------------------
(***************************************************************************)
(* The reader handles and the stateful cursors of the C interface          *)
(* (c_api.zig), as the Python client and C programs use them.  Handles and *)
(* cursors are addresses; the allocator may give a new handle the address  *)
(* of a closed one, which is why every handle has a token.                 *)
(*                                                                         *)
(* A file is the sequence of its published generations, each of them the   *)
(* timestamps of one series; an empty one has no such series.  How a       *)
(* generation is published is the subject of Publication, how a cursor     *)
(* finds its points that of Queries.                                       *)
(***************************************************************************)
EXTENDS Integers, Sequences, SequencesExt, FiniteSets

CONSTANTS
    Files,
    FirstHistory,       \* the generations each file starts with
    PublishedFile,      \* the file that a writer keeps publishing to
    Addresses,          \* where the allocator places handles
    Cursors,            \* where it places cursors
    Ranges,             \* the ranges asked for, [start, end]
    BufferSizes,        \* capacities of the caller's buffers
    MaxGenerations,     \* bound: generations of PublishedFile
    MaxOpens            \* bound: handles opened

(* The points of a series are in strict order of time.                     *)
Increasing(points) == \A i, j \in DOMAIN points : i < j => points[i] < points[j]

ASSUME NativeReadersAssumption ==
    /\ PublishedFile \in Files
    /\ FirstHistory \in [Files -> Seq(Seq(Nat)) \ {<< >>}]
    /\ \A f \in Files : \A g \in DOMAIN FirstHistory[f] : Increasing(FirstHistory[f][g])
    /\ 0 \notin Addresses
    /\ Ranges \subseteq [start : Int, end : Int]
    /\ BufferSizes \subseteq Nat \ {0}
    /\ MaxGenerations \in Nat /\ MaxOpens \in Nat

VARIABLES
    history,        \* file -> its published generations
    heap,           \* address -> the reader handle there, or Freed
    next_token,     \* next_handle_token
    cursors         \* cursor -> its CursorState, or NoCursor

nativeVars == <<history, heap, next_token, cursors>>

Freed == [token |-> 0]
NoCursor == [owner |-> 0]

Live(a) == heap[a] # Freed
Snapshot(a) == history[heap[a].file][heap[a].generation]

(* The points of a range lie side by side.                                 *)
InRange(points, start, end) ==
    LET inside == {i \in DOMAIN points : start <= points[i] /\ points[i] <= end} IN
    IF inside = {} THEN << >> ELSE SubSeq(points, Min(inside), Max(inside))

NativeInit ==
    /\ history = FirstHistory
    /\ heap = [a \in Addresses |-> Freed]
    /\ next_token = 1
    /\ cursors = [c \in Cursors |-> NoCursor]

(* A writer publishes one more generation with two more points.            *)
Publish ==
    LET generations == history[PublishedFile]
        points == Last(generations)
        n == IF points = << >> THEN 0 ELSE Last(points)
    IN  /\ Len(generations) < MaxGenerations
        /\ history' = [history EXCEPT ![PublishedFile] =
                Append(@, points \o <<n + 1, n + 2>>)]
        /\ UNCHANGED <<heap, next_token, cursors>>

-----------------------------------------------------------------------------
(* The functions of the interface.                                         *)

CtOpenReader(f, a) ==
    /\ next_token <= MaxOpens
    /\ ~Live(a)
    /\ heap' = [heap EXCEPT ![a] = [token |-> next_token, file |-> f,
                                    generation |-> Len(history[f])]]
    /\ next_token' = next_token + 1

RefreshChanges(a) == heap[a].generation < Len(history[heap[a].file])
CtRefresh(a) ==
    heap' = [heap EXCEPT ![a].generation = Len(history[heap[a].file])]

CtClose(a) == heap' = [heap EXCEPT ![a] = Freed]

(* ct_range copies what fits and counts what there is.                     *)
CtRange(a, range, capacity) ==
    LET found == InRange(Snapshot(a), range.start, range.end) IN
    [too_small |-> Len(found) > capacity, count |-> Len(found),
     points |-> SubSeq(found, 1, Min({capacity, Len(found)}))]

(* A new CursorState.  The file and the points delivered are ghosts.       *)
CursorState(a, range) ==
    [owner |-> a, owner_token |-> heap[a].token, generation |-> heap[a].generation,
     next |-> range.start, end |-> range.end, complete |-> range.end < range.start,
     start |-> range.start, file |-> heap[a].file, delivered |-> << >>]
SeriesFound(a) == Snapshot(a) # << >>

(* Mutant: the cursor is recognised by the address of its reader.          *)
OwnsByAddress(a, cursor) == cursor.owner = a

Owns(a, cursor) == cursor.owner = a /\ cursor.owner_token = heap[a].token

CursorStatus(a, cursor) ==
    IF ~Owns(a, cursor) THEN "wrong_handle"
    ELSE IF cursor.generation # heap[a].generation THEN "stale_series"
    ELSE "ok"

(* What is still to be delivered; how much of it a call delivers, and what *)
(* it says of completeness.  A full buffer that takes the last point may   *)
(* be reported as complete or not.                                         *)
Remaining(a, cursor) ==
    IF cursor.complete THEN << >> ELSE InRange(Snapshot(a), cursor.next, cursor.end)

CursorAfter(a, cursor, capacity) ==
    LET found == Remaining(a, cursor)
        copied == SubSeq(found, 1, Min({capacity, Len(found)}))
    IN  {[cursor EXCEPT !.delivered = @ \o copied,
                        !.next = IF copied = << >> THEN @ ELSE Last(copied) + 1,
                        !.complete = complete] :
            complete \in IF cursor.complete \/ Len(found) < capacity THEN {TRUE}
                         ELSE IF Len(found) = capacity THEN BOOLEAN
                         ELSE {FALSE}}

-----------------------------------------------------------------------------
(* A C program.  It passes handles and cursors that are allocated, but not *)
(* always those that belong together.                                      *)

OpenHandle(f, a) == CtOpenReader(f, a) /\ UNCHANGED <<history, cursors>>

RefreshHandle(a) ==
    /\ Live(a) /\ RefreshChanges(a)
    /\ CtRefresh(a)
    /\ UNCHANGED <<history, next_token, cursors>>

CloseHandle(a) ==
    /\ Live(a)
    /\ CtClose(a)
    /\ UNCHANGED <<history, next_token, cursors>>

CreateCursor(a, c, range) ==
    /\ Live(a) /\ SeriesFound(a)
    /\ cursors[c] = NoCursor
    /\ cursors' = [cursors EXCEPT ![c] = CursorState(a, range)]
    /\ UNCHANGED <<history, heap, next_token>>

AdvanceCursor(a, c, capacity) ==
    /\ Live(a) /\ cursors[c] # NoCursor
    /\ CursorStatus(a, cursors[c]) = "ok"
    /\ \E after \in CursorAfter(a, cursors[c], capacity) :
            cursors' = [cursors EXCEPT ![c] = after]
    /\ UNCHANGED <<history, heap, next_token>>

DestroyCursor(c) ==
    /\ cursors[c] # NoCursor
    /\ cursors' = [cursors EXCEPT ![c] = NoCursor]
    /\ UNCHANGED <<history, heap, next_token>>

NativeNext ==
    \/ Publish
    \/ \E f \in Files, a \in Addresses : OpenHandle(f, a)
    \/ \E a \in Addresses : RefreshHandle(a) \/ CloseHandle(a)
    \/ \E a \in Addresses, c \in Cursors, range \in Ranges : CreateCursor(a, c, range)
    \/ \E a \in Addresses, c \in Cursors, capacity \in BufferSizes :
            AdvanceCursor(a, c, capacity)
    \/ \E c \in Cursors : DestroyCursor(c)

NativeSpec == NativeInit /\ [][NativeNext]_nativeVars

-----------------------------------------------------------------------------
(* Whatever handles were closed and opened since, at whatever addresses, a *)
(* cursor delivers the range of the file and the generation of the reader  *)
(* it was created with, in order and each point once, and is complete only *)
(* when it has delivered all of it.                                        *)
CursorStaysWithItsReader ==
    \A c \in Cursors : cursors[c] # NoCursor =>
        LET cursor == cursors[c]
            asked == InRange(history[cursor.file][cursor.generation],
                             cursor.start, cursor.end)
        IN  /\ IsPrefix(cursor.delivered, asked)
            /\ cursor.complete => cursor.delivered = asked

=============================================================================
