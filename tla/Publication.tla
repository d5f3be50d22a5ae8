---------------------------- MODULE Publication ----------------------------
(***************************************************************************)
(* The writer of a chronotail file and the file it publishes to.           *)
(*                                                                         *)
(* The file is the page cache every process sees (control, slots, cells,   *)
(* size) together with what a power loss may leave of it (stable_size,     *)
(* slot_writes).  Unsynced slots sit on pages of their own, so each may    *)
(* keep its synced content, any content written since, or a torn mixture.  *)
(* An unsynced object survives or is junk, and the file keeps some length  *)
(* between the synced one and the current one.                             *)
(*                                                                         *)
(* The writer is engine.AppenderFor.  A checkpoint is one action per       *)
(* system call, because a process may die, or the call fail, between any   *)
(* two of them.                                                            *)
(***************************************************************************)
EXTENDS Recovery, Sequences

CONSTANTS
    Durabilities,   \* the checkpoint modes in use: subset of {"memory", "disk"}
    MemoryBudget,   \* bound: root publications beyond the last synced one
    MaxGeneration,  \* bound: generations published
    MaxSize,        \* bound: units of file
    MaxFailures,    \* bound: failed system calls and process crashes
    MaxPowerLosses, \* bound: power losses
    ReadFaults      \* TRUE when a manifest read may fail while opening

ASSUME PublicationAssumption ==
    /\ Durabilities \subseteq {"memory", "disk"}
    /\ MemoryBudget \in Nat
    /\ MaxGeneration \in Nat
    /\ MaxSize \in Nat \ {0}
    /\ MaxFailures \in Nat
    /\ MaxPowerLosses \in Nat
    /\ ReadFaults \in BOOLEAN

VARIABLES
    (* the file *)
    control,        \* "none", "torn" or "valid": the format header
    slots,          \* the root slots
    cells,          \* the objects, by offset
    size,           \* physical size; 0 is an empty file
    stable_size,    \* physical size at the last sync
    slot_writes,    \* each slot's synced content and every write since
    (* the writer *)
    step,           \* what the writer does next
    creating,       \* in createOn
    closing,        \* in close
    durability,     \* of the checkpoint under way
    write_offset, committed_size, generation, previous_root_identity,
    dirty, poisoned,
    catalog,        \* pointers to the objects of the published generation
    pending,        \* pointers to objects written and not published
    (* bookkeeping *)
    next_identity,  \* the identity of the next object written
    history,        \* the published generations of the file's one lineage
    acknowledged,   \* the generation of the last successful disk checkpoint
    synced,         \* the newest generation known to be on disk
    failures, power_losses

fileVars == <<control, slots, cells, size, stable_size, slot_writes>>
sessionVars == <<creating, closing, durability, write_offset, committed_size,
                 generation, previous_root_identity, dirty, poisoned, catalog,
                 pending>>
ghostVars == <<history, acknowledged, synced>>
boundVars == <<failures, power_losses>>
vars == <<fileVars, step, sessionVars, next_identity, ghostVars, boundVars>>

Offsets == ControlSize .. MaxSize - 1
Larger(a, b) == IF a >= b THEN a ELSE b
Smaller(a, b) == IF a <= b THEN a ELSE b

-----------------------------------------------------------------------------
(* Types.                                                                  *)

Pointer == [offset : Nat, identity : Nat]
RootRecord == [kind : {"root"}, generation : Nat, committed_size : Nat,
               manifest : Pointer, previous_identity : Nat]
SlotValue == {ZeroSlot, TornSlot} \cup RootRecord
Cell == {Junk} \cup [kind : {"objects"}, identity : Nat]
               \cup [kind : {"manifest"}, identity : Nat, generation : Nat,
                     catalog : SUBSET Pointer]
Steps == {"closed", "idle", "objects", "manifest", "sync_objects",
          "root", "root_torn", "sync_root"}

FileTypeOK ==
    /\ control \in {"none", "torn", "valid"}
    /\ slots \in [Slots -> SlotValue]
    /\ cells \in [Offsets -> Cell]
    /\ size \in 0 .. MaxSize
    /\ stable_size \in 0 .. MaxSize
    /\ slot_writes \in [Slots -> Seq(SlotValue)]

FlagsTypeOK == {creating, closing, dirty, poisoned} \subseteq BOOLEAN

WriterTypeOK ==
    /\ step \in Steps
    /\ durability \in {"memory", "disk"}
    /\ write_offset \in 0 .. MaxSize
    /\ committed_size \in Nat
    /\ generation \in Nat
    /\ previous_root_identity \in Nat
    /\ catalog \in SUBSET Pointer
    /\ pending \in SUBSET Pointer

Entry == [root : RootRecord, catalog : SUBSET Pointer]

BookkeepingTypeOK ==
    /\ next_identity \in Nat \ {0}
    /\ history \in Seq(Entry)
    /\ acknowledged \in Nat
    /\ synced \in Nat
    /\ failures \in Nat
    /\ power_losses \in Nat

(* Every variable has its type.                                            *)
TypeOK == FileTypeOK /\ FlagsTypeOK /\ WriterTypeOK /\ BookkeepingTypeOK

-----------------------------------------------------------------------------
(* The file.                                                               *)

(* pwriteAll of a whole object, or of a part of it before an error.        *)
WriteCell(cell) ==
    /\ write_offset < MaxSize
    /\ cells' = [cells EXCEPT ![write_offset] = cell]
    /\ size' = Larger(size, write_offset + 1)
    /\ UNCHANGED <<control, slots, stable_size, slot_writes>>

WriteSlot(s, value) ==
    /\ slots' = [slots EXCEPT ![s] = value]
    /\ slot_writes' = [slot_writes EXCEPT ![s] = Append(@, value)]
    /\ UNCHANGED <<control, cells, size, stable_size>>

Sync ==
    /\ stable_size' = size
    /\ slot_writes' = [s \in Slots |-> <<slots[s]>>]
    /\ UNCHANGED <<control, slots, cells, size>>

Elected == LoadSnapshot(slots, cells, {}, size)

-----------------------------------------------------------------------------
(* Opening.                                                                *)

NoSession ==
    /\ step' = "closed"
    /\ creating' = FALSE
    /\ closing' = FALSE
    /\ durability' = "memory"
    /\ write_offset' = 0
    /\ committed_size' = ControlSize
    /\ generation' = 0
    /\ previous_root_identity' = ZeroIdentity
    /\ dirty' = FALSE
    /\ poisoned' = FALSE
    /\ catalog' = {}
    /\ pending' = {}

(* createOn writes the control region of an empty file, then publishes     *)
(* generation 1 with an empty manifest.                                    *)
CreateControl ==
    /\ step = "closed"
    /\ size = 0
    /\ control' = "valid"
    /\ size' = ControlSize
    /\ write_offset' = ControlSize
    /\ creating' = TRUE
    /\ step' = "manifest"
    /\ UNCHANGED <<slots, cells, stable_size, slot_writes, closing, durability,
                   committed_size, generation, previous_root_identity, dirty,
                   poisoned, catalog, pending, next_identity, ghostVars,
                   boundVars>>

(* A part of the control region reaches the file; createOn returns.        *)
CreateControlFails ==
    /\ step = "closed"
    /\ size = 0
    /\ failures < MaxFailures
    /\ failures' = failures + 1
    /\ control' = "torn"
    /\ size' = ControlSize
    /\ UNCHANGED <<slots, cells, stable_size, slot_writes, step, sessionVars,
                   next_identity, ghostVars, power_losses>>

(* openOn on a non-empty file.  A manifest read that fails is treated as a *)
(* manifest that does not validate.                                        *)
Open ==
    /\ step = "closed"
    /\ size > 0
    /\ control = "valid"
    /\ \E unreadable \in IF ReadFaults
                         THEN SUBSET {c.manifest.offset : c \in CollectRoots(slots, size)}
                         ELSE {{}} :
        LET loaded == LoadSnapshot(slots, cells, unreadable, size) IN
        /\ loaded.kind # "invalid"
        /\ generation' = IF loaded.kind = "root" THEN loaded.generation ELSE 0
        /\ committed_size' = IF loaded.kind = "root"
                             THEN loaded.committed_size ELSE ControlSize
        /\ previous_root_identity' = IF loaded.kind = "root"
                                     THEN RootIdentity(loaded) ELSE ZeroIdentity
        /\ catalog' = IF loaded.kind = "root"
                      THEN cells[loaded.manifest.offset].catalog ELSE {}
    /\ write_offset' = size
    /\ step' = "idle"
    /\ UNCHANGED <<fileVars, creating, closing, durability, dirty, poisoned,
                   pending, next_identity, ghostVars, boundVars>>

-----------------------------------------------------------------------------
(* Appending.                                                              *)

PendingPointer == [offset |-> write_offset, identity |-> next_identity]

(* Mutant: the next object is written over this one.                       *)
WriteObjectsInPlace ==
    /\ WriteCell(Objects(next_identity))
    /\ pending' = pending \cup {PendingPointer}
    /\ UNCHANGED write_offset
    /\ next_identity' = next_identity + 1

WriteObjectsCell ==
    /\ WriteCell(Objects(next_identity))
    /\ pending' = pending \cup {PendingPointer}
    /\ write_offset' = write_offset + 1
    /\ next_identity' = next_identity + 1

(* A batch is buffered; the pages it fills are written at once.            *)
AppendBatch ==
    /\ step = "idle"
    /\ ~poisoned
    /\ generation < MaxGeneration
    /\ dirty' = TRUE
    /\ \/ UNCHANGED <<fileVars, pending, write_offset, next_identity>>
       \/ WriteObjectsCell
    /\ UNCHANGED <<step, creating, closing, durability, committed_size,
                   generation, previous_root_identity, poisoned, catalog,
                   ghostVars, boundVars>>

(* A page write fails in appendBatch.                                      *)
AppendBatchFails ==
    /\ step = "idle"
    /\ ~poisoned
    /\ generation < MaxGeneration
    /\ failures < MaxFailures
    /\ failures' = failures + 1
    /\ poisoned' = TRUE
    /\ UNCHANGED fileVars \/ WriteCell(Junk)
    /\ UNCHANGED <<step, creating, closing, durability, write_offset,
                   committed_size, generation, previous_root_identity, dirty,
                   catalog, pending, next_identity, ghostVars, power_losses>>

-----------------------------------------------------------------------------
(* Checkpointing.                                                          *)

WithinBudget == generation + 1 <= synced + MemoryBudget

Begin(mode) ==
    /\ step' = "objects"
    /\ durability' = mode
    /\ UNCHANGED <<fileVars, creating, write_offset, committed_size,
                   generation, previous_root_identity, dirty, poisoned,
                   catalog, pending, next_identity, ghostVars, boundVars>>

BeginCheckpoint(mode) ==
    /\ step = "idle"
    /\ ~poisoned
    /\ dirty
    /\ generation < MaxGeneration
    /\ mode = "memory" => WithinBudget
    /\ Begin(mode)
    /\ UNCHANGED closing

(* The flushed buffers and the copied index paths of every dirty series.   *)
WriteObjects ==
    /\ step = "objects"
    /\ WriteObjectsCell
    /\ step' = "manifest"
    /\ UNCHANGED <<creating, closing, durability, committed_size, generation,
                   previous_root_identity, dirty, poisoned, catalog,
                   ghostVars, boundVars>>

(* Mutant: the manifest lists only the series of this checkpoint.          *)
WriteManifestOfPending ==
    /\ step = "manifest"
    /\ WriteCell(Manifest(next_identity, generation + 1, pending))
    /\ write_offset' = write_offset + ManifestSize
    /\ next_identity' = next_identity + 1
    /\ step' = IF durability = "disk" THEN "sync_objects" ELSE "root"
    /\ UNCHANGED <<creating, closing, durability, committed_size, generation,
                   previous_root_identity, dirty, poisoned, catalog, pending,
                   ghostVars, boundVars>>

WriteManifest ==
    /\ step = "manifest"
    /\ WriteCell(Manifest(next_identity, generation + 1, catalog \cup pending))
    /\ write_offset' = write_offset + ManifestSize
    /\ next_identity' = next_identity + 1
    /\ step' = IF durability = "disk" THEN "sync_objects" ELSE "root"
    /\ UNCHANGED <<creating, closing, durability, committed_size, generation,
                   previous_root_identity, dirty, poisoned, catalog, pending,
                   ghostVars, boundVars>>

(* Mutant: the root is written without syncing what it refers to.          *)
SkipSyncObjects ==
    /\ step = "sync_objects"
    /\ step' = "root"
    /\ UNCHANGED <<fileVars, sessionVars, next_identity, ghostVars, boundVars>>

SyncObjects ==
    /\ step = "sync_objects"
    /\ Sync
    /\ step' = "root"
    /\ synced' = generation
    /\ UNCHANGED <<sessionVars, next_identity, history, acknowledged, boundVars>>

(* The root of the generation being published.  The manifest was the last  *)
(* object written.                                                         *)
NextRoot ==
    Root(generation + 1, write_offset,
         [offset |-> write_offset - ManifestSize,
          identity |-> next_identity - 1],
         previous_root_identity)

(* A root slot is 4 KiB and is not written atomically.  Its old content is *)
(* gone from here on, and with it any generation newer than the writer's.  *)
TearRoot ==
    /\ step = "root"
    /\ WriteSlot(RootSlot(generation + 1), TornSlot)
    /\ history' = SubSeq(history, 1, Smaller(generation, Len(history)))
    /\ step' = "root_torn"
    /\ UNCHANGED <<sessionVars, next_identity, acknowledged, synced, boundVars>>

(* The writer's memory follows the file once the checkpoint succeeds.      *)
(* Mutant: the next root names the root before this one.                   *)
AdoptWithoutIdentity ==
    IF closing THEN NoSession
    ELSE /\ step' = "idle"
         /\ creating' = FALSE
         /\ generation' = generation + 1
         /\ committed_size' = write_offset
         /\ catalog' = catalog \cup pending
         /\ pending' = {}
         /\ dirty' = FALSE
         /\ UNCHANGED <<closing, durability, write_offset, poisoned,
                        previous_root_identity>>

Adopt ==
    IF closing THEN NoSession
    ELSE /\ step' = "idle"
         /\ creating' = FALSE
         /\ generation' = generation + 1
         /\ committed_size' = write_offset
         /\ previous_root_identity' = RootIdentity(NextRoot)
         /\ catalog' = catalog \cup pending
         /\ pending' = {}
         /\ dirty' = FALSE
         /\ UNCHANGED <<closing, durability, write_offset, poisoned>>

WriteRoot ==
    /\ step = "root_torn"
    /\ WriteSlot(RootSlot(generation + 1), NextRoot)
    /\ history' = Append(history, [root |-> NextRoot,
                                   catalog |-> catalog \cup pending])
    /\ \/ durability = "memory" /\ Adopt
       \/ durability = "disk" /\ step' = "sync_root" /\ UNCHANGED sessionVars
    /\ UNCHANGED <<next_identity, acknowledged, synced, boundVars>>

(* Mutant: the checkpoint is acknowledged before its root is on disk.      *)
SkipSyncRoot ==
    /\ step = "sync_root"
    /\ Adopt
    /\ acknowledged' = RootIdentity(NextRoot)
    /\ synced' = generation + 1
    /\ UNCHANGED <<fileVars, next_identity, history, boundVars>>

SyncRoot ==
    /\ step = "sync_root"
    /\ Sync
    /\ Adopt
    /\ acknowledged' = RootIdentity(NextRoot)
    /\ synced' = generation + 1
    /\ UNCHANGED <<next_identity, history, boundVars>>

(* A disk checkpoint with nothing to publish only syncs.  It makes earlier *)
(* memory checkpoints durable.                                             *)
SyncClean ==
    /\ step = "idle"
    /\ ~poisoned
    /\ ~dirty
    /\ "disk" \in Durabilities
    /\ Sync
    /\ acknowledged' = previous_root_identity
    /\ synced' = generation
    /\ UNCHANGED <<step, sessionVars, next_identity, history, boundVars>>

(* The writer after an error inside createOn, close or a checkpoint.       *)
(* Mutant: the writer stays usable.                                        *)
ReturnErrorUnpoisoned ==
    IF creating \/ closing THEN NoSession
    ELSE step' = "idle" /\ UNCHANGED sessionVars

ReturnError ==
    IF creating \/ closing THEN NoSession
    ELSE /\ step' = "idle"
         /\ poisoned' = TRUE
         /\ UNCHANGED <<creating, closing, durability, write_offset,
                        committed_size, generation, previous_root_identity,
                        dirty, catalog, pending>>

(* A write or a sync fails there.                                          *)
CallFails ==
    /\ step \notin {"closed", "idle"}
    /\ failures < MaxFailures
    /\ failures' = failures + 1
    /\ UNCHANGED fileVars \/ (step \in {"objects", "manifest"} /\ WriteCell(Junk))
    /\ ReturnError
    /\ UNCHANGED <<next_identity, ghostVars, power_losses>>

-----------------------------------------------------------------------------
(* Leaving.                                                                *)

(* close publishes what is unpublished as a memory checkpoint.             *)
CloseDirty ==
    /\ step = "idle"
    /\ dirty
    /\ ~poisoned
    /\ "memory" \in Durabilities
    /\ generation < MaxGeneration
    /\ WithinBudget
    /\ closing' = TRUE
    /\ Begin("memory")

(* close with nothing to publish or on a poisoned writer, and abort.       *)
Leave ==
    /\ step = "idle"
    /\ NoSession
    /\ UNCHANGED <<fileVars, next_identity, ghostVars, boundVars>>

(* The writer's process dies.  The page cache keeps every completed write. *)
Crash ==
    /\ step # "closed"
    /\ failures < MaxFailures
    /\ failures' = failures + 1
    /\ NoSession
    /\ UNCHANGED <<fileVars, next_identity, ghostVars, power_losses>>

(* The control regions, slots, lengths and objects a power loss may leave. *)
LongestSlotHistory ==
    CHOOSE n \in {Len(slot_writes[s]) : s \in Slots} :
        \A s \in Slots : Len(slot_writes[s]) <= n
SlotsLeft ==
    {[s \in Slots |-> slot_writes[s][kept[s]]] :
        kept \in {k \in [Slots -> 1 .. LongestSlotHistory] :
                    \A s \in Slots : k[s] \in DOMAIN slot_writes[s]}}
ControlLeft(length) ==
    IF length = 0 THEN {"none"}
    ELSE IF stable_size = 0 THEN {"torn", control}
    ELSE {control}
CellsLeft(length) ==
    {[o \in Offsets |-> IF o \in lost \/ o >= length THEN Junk ELSE cells[o]] :
        lost \in SUBSET (Larger(stable_size, ControlSize) .. length - 1)}

(* The machine loses power.  What recovery elects on the image that is     *)
(* left is from then on the newest published generation.                   *)
PowerLoss ==
    /\ power_losses < MaxPowerLosses
    /\ size > 0
    /\ power_losses' = power_losses + 1
    /\ NoSession
    /\ \E length \in stable_size .. size, left \in SlotsLeft :
       \E region \in ControlLeft(length), objects \in CellsLeft(length) :
        LET elected == IF region = "valid"
                       THEN LoadSnapshot(left, objects, {}, length)
                       ELSE InvalidDatabase
            survivors == {g \in DOMAIN history : history[g].root = elected}
        IN  /\ length = 0 => RootSlotsEmpty(left)
            /\ control' = region
            /\ slots' = left
            /\ cells' = objects
            /\ size' = length
            /\ stable_size' = length
            /\ slot_writes' = [s \in Slots |-> <<left[s]>>]
            /\ synced' = IF survivors = {} THEN 0
                         ELSE CHOOSE g \in survivors : TRUE
            /\ history' = SubSeq(history, 1, synced')
    /\ UNCHANGED <<next_identity, acknowledged, failures>>

-----------------------------------------------------------------------------
Init ==
    /\ control = "none"
    /\ slots = [s \in Slots |-> ZeroSlot]
    /\ cells = [o \in Offsets |-> Junk]
    /\ size = 0
    /\ stable_size = 0
    /\ slot_writes = [s \in Slots |-> <<ZeroSlot>>]
    /\ step = "closed"
    /\ creating = FALSE
    /\ closing = FALSE
    /\ durability = "memory"
    /\ write_offset = 0
    /\ committed_size = ControlSize
    /\ generation = 0
    /\ previous_root_identity = ZeroIdentity
    /\ dirty = FALSE
    /\ poisoned = FALSE
    /\ catalog = {}
    /\ pending = {}
    /\ next_identity = 1
    /\ history = << >>
    /\ acknowledged = ZeroIdentity
    /\ synced = 0
    /\ failures = 0
    /\ power_losses = 0

WriterNext ==
    \/ CreateControl
    \/ CreateControlFails
    \/ Open
    \/ AppendBatch
    \/ AppendBatchFails
    \/ \E mode \in Durabilities : BeginCheckpoint(mode)
    \/ WriteObjects
    \/ WriteManifest
    \/ SyncObjects
    \/ TearRoot
    \/ WriteRoot
    \/ SyncRoot
    \/ SyncClean
    \/ CallFails
    \/ CloseDirty
    \/ Leave
    \/ Crash

Next == WriterNext \/ PowerLoss

Spec == Init /\ [][Next]_vars

-----------------------------------------------------------------------------
(* Properties.                                                             *)

Readable(entry) ==
    /\ LoadManifestForRoot(cells, {}, entry.root)
    /\ \A p \in entry.catalog : Authentic(cells, p)

(* Recovery is exact: at every instant, whatever calls failed and wherever *)
(* processes died, opening the file would load the newest generation whose *)
(* root was completely written.  Stale roots that a power loss left in the *)
(* slots never come back once a new generation has been published over     *)
(* them.                                                                   *)
ElectionIsHead ==
    control = "valid" =>
        IF history = << >> THEN Elected.kind \in {"empty", "invalid"}
        ELSE Elected = history[Len(history)].root

(* Every generation ever published can still be read in full: no writer,   *)
(* after any failure or restart, reuses bytes that a published generation  *)
(* refers to.                                                              *)
HistoryReadable == \A g \in DOMAIN history : Readable(history[g])

(* The same where the machine never loses power.                           *)
PublishedStaysReadable == power_losses = 0 => HistoryReadable

(* A generation acknowledged by a disk checkpoint is never lost.           *)
AcknowledgedSurvives ==
    acknowledged # ZeroIdentity =>
        \E g \in DOMAIN history : RootIdentity(history[g].root) = acknowledged

(* What was synced survives a power loss: the generations up to the last   *)
(* synced one and, once a disk checkpoint has synced its objects, the one  *)
(* it publishes.  No root outlives the objects it names, and no power loss *)
(* makes one of these generations unreadable.                              *)
Synced(g) ==
    \/ g <= synced
    \/ durability = "disk" /\ step \in {"root", "root_torn", "sync_root"}
SyncedSurvives ==
    [][PowerLoss =>
        \A g \in DOMAIN history' :
            Synced(g) /\ Readable(history[g]) => Readable(history[g])']_vars

(* The writer appends at the very end of the file for as long as it may    *)
(* write at all: a call that failed after extending the file poisons it.   *)
WriterOwnsTail == (step # "closed" /\ ~poisoned) => write_offset = size

(* While the writer is idle and unpoisoned, its memory agrees with what    *)
(* recovery would load, so the next root extends the newest one.           *)
WriterAgreesWithFile ==
    (step = "idle" /\ ~poisoned /\ ~ReadFaults) =>
        IF history = << >> THEN generation = 0
        ELSE /\ generation = Len(history)
             /\ committed_size = history[generation].root.committed_size
             /\ previous_root_identity = RootIdentity(history[generation].root)
             /\ catalog = history[generation].catalog

-----------------------------------------------------------------------------
(* Why published bytes stay: the strengthening of PublishedStaysReadable   *)
(* that every step preserves while the machine does not lose power.        *)

Owned(p) == p.offset < size /\ Authentic(cells, p)

ManifestsResolve ==
    \A o \in Offsets :
        cells[o].kind = "manifest" => \A p \in cells[o].catalog : Owned(p)

SessionResolves == \A p \in catalog \cup pending : Owned(p)

Kept(entry) ==
    /\ Readable(entry)
    /\ entry.root.manifest.offset < size
    /\ \A p \in entry.catalog : p.offset < size

HistoryResolves == \A g \in DOMAIN history : Kept(history[g])

ManifestReady ==
    step \in {"sync_objects", "root", "root_torn", "sync_root"} =>
        /\ write_offset > ControlSize
        /\ cells[write_offset - 1] =
                Manifest(next_identity - 1, generation + 1, catalog \cup pending)

Resolved ==
    ManifestsResolve /\ SessionResolves /\ HistoryResolves /\ ManifestReady

(* Whatever the file, the writer or the history refers to is in the file   *)
(* and below its end, where no write goes.                                 *)
EverythingResolves == power_losses = 0 => Resolved

=============================================================================
