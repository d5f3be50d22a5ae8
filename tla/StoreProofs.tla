---------------------------- MODULE StoreProofs ----------------------------
(***************************************************************************)
(* What the writer and any number of lock-free readers promise together    *)
(* while the machine keeps its power: every snapshot is one published      *)
(* generation, a scan that is quick enough sees all that was published     *)
(* before it began, and file, writer and readers implement SnapshotStore.  *)
(***************************************************************************)
EXTENDS Snapshots, PublicationProofs

USE DEF ControlSize, ManifestSize, ZeroIdentity

-----------------------------------------------------------------------------
(* Types.                                                                  *)

ReadersTyped == reader \in [Readers -> ReaderState]

LEMMA NothingSeenTyped == NothingSeen \in [Slots -> SlotValue] /\ 0 \in 0 .. SlotCount
BY SlotCountAssumption DEF NothingSeen, SlotValue

LEMMA ClosedReaderTyped == ClosedReader \in ReaderState
BY NothingSeenTyped DEF ClosedReader, ReaderState

LEMMA AdoptedTyped ==
    ASSUME NEW state \in ReaderState, NEW root \in RootRecord,
           cells[root.manifest.offset].catalog \in SUBSET Pointer
    PROVE  Adopted(state, root) \in ReaderState
<1>1. /\ root.generation \in Nat
      /\ RootIdentity(root) \in Nat
      /\ root.committed_size \in Nat
  BY DEF RootRecord, RootIdentity, Pointer
<1> QED
  BY <1>1, NothingSeenTyped DEF Adopted, ReaderState

(* One reader moves to another typed state.                                *)
LEMMA OneReaderTyped ==
    ASSUME ReadersTyped, NEW r \in Readers, NEW state \in ReaderState,
           reader' = [reader EXCEPT ![r] = state]
    PROVE  ReadersTyped'
BY DEF ReadersTyped

(* What a finished open makes of a reader: one that holds nothing new, or  *)
(* one that holds the catalog of a manifest in the file.                   *)
LEMMA FinishOpenOutcome ==
    ASSUME Typed, ReadersTyped, NEW r \in Readers, FinishOpen(r)
    PROVE  \E state \in ReaderState :
            /\ reader' = [reader EXCEPT ![r] = state]
            /\ \/ state.catalog \in {{}, reader[r].catalog}
               \/ \E o \in Offsets : /\ cells[o].kind = "manifest"
                                     /\ state.catalog = cells[o].catalog
<1> DEFINE state == reader[r]
           loaded == LoadSnapshot(state.seen, cells, {}, state.physical_size)
           opened == [state EXCEPT !.phase = "open",
                                   !.observed_file_size = state.physical_size,
                                   !.seen = NothingSeen, !.next_slot = 0]
           next == IF loaded.kind = "invalid"
                   THEN [ClosedReader EXCEPT !.error = "InvalidDatabase"]
                   ELSE IF loaded.kind = "root" THEN Adopted(state, loaded)
                   ELSE opened
<1>1. reader' = [reader EXCEPT ![r] = next]
  BY DEF FinishOpen
<1>2. state \in ReaderState
  BY DEF ReadersTyped
<1>3. CASE loaded.kind = "invalid"
  <2>1. next = [ClosedReader EXCEPT !.error = "InvalidDatabase"]
    BY <1>3
  <2> HIDE DEF next
  <2>2. next \in ReaderState
    BY <2>1, NothingSeenTyped DEF ClosedReader, ReaderState
  <2>3. next.catalog = {}
    BY <2>1 DEF ClosedReader
  <2> QED
    BY <1>1, <2>2, <2>3
<1>4. CASE loaded.kind = "root"
  <2>1. /\ loaded \in RootRecord
        /\ loaded.manifest.offset \in Offsets
        /\ cells[loaded.manifest.offset].kind = "manifest"
        /\ cells[loaded.manifest.offset].catalog \in SUBSET Pointer
    BY <1>2, <1>4, LoadedRootTyped DEF ReaderState
  <2>2. next = Adopted(state, loaded)
    BY <1>4
  <2> HIDE DEF loaded, next
  <2>3. next \in ReaderState /\ next.catalog = cells[loaded.manifest.offset].catalog
    BY ZenonT(60), <1>2, <2>1, <2>2, AdoptedTyped DEF Adopted, ReaderState
  <2> QED
    BY <1>1, <2>1, <2>3
<1>5. CASE loaded.kind \notin {"invalid", "root"}
  <2>1. next = opened
    BY <1>5
  <2>2. opened \in ReaderState /\ opened.catalog = state.catalog
    BY <1>2, NothingSeenTyped DEF ReaderState
  <2> HIDE DEF next, opened
  <2> QED
    BY <1>1, <2>1, <2>2
<1> QED
  BY <1>3, <1>4, <1>5

(* What a finished refresh makes of a reader: the state it had, up to the  *)
(* scan's own fields and the observed size, or a newer root.               *)
LEMMA FinishRefreshOutcome ==
    ASSUME Typed, ReadersTyped, NEW r \in Readers, FinishRefresh(r)
    PROVE  \E state \in ReaderState :
            /\ reader' = [reader EXCEPT ![r] = state]
            /\ \/ /\ state.generation = reader[r].generation
                  /\ state.catalog = reader[r].catalog
               \/ /\ state.generation > reader[r].generation
                  /\ \E o \in Offsets : /\ cells[o].kind = "manifest"
                                        /\ state.catalog = cells[o].catalog
<1> DEFINE state == reader[r]
           kept == [state EXCEPT !.phase = "open", !.seen = NothingSeen, !.next_slot = 0]
           seenSize == [kept EXCEPT !.observed_file_size = state.physical_size]
           candidates == CollectRoots(state.seen, state.physical_size)
           loaded == LoadSnapshotFromCandidates(cells, {}, candidates)
           next == IF \A c \in candidates : NotNewer(state, c) THEN kept
                   ELSE IF loaded.kind = "invalid" THEN kept
                   ELSE IF NotNewer(state, loaded) THEN seenSize
                   ELSE Adopted(state, loaded)
<1>1. reader' = [reader EXCEPT ![r] = next]
  BY DEF FinishRefresh
<1>2. state \in ReaderState
  BY DEF ReadersTyped
<1>3. /\ kept \in ReaderState /\ kept.generation = state.generation
      /\ kept.catalog = state.catalog
  BY <1>2, NothingSeenTyped DEF ReaderState
<1>4. /\ seenSize \in ReaderState /\ seenSize.generation = state.generation
      /\ seenSize.catalog = state.catalog
  BY <1>2, NothingSeenTyped DEF ReaderState
<1>5. CASE /\ ~ \A c \in candidates : NotNewer(state, c)
           /\ loaded.kind # "invalid"
           /\ ~NotNewer(state, loaded)
  <2>1. state.seen \in [Slots -> SlotValue]
    BY <1>2 DEF ReaderState
  <2>2. loaded = LoadSnapshot(state.seen, cells, {}, state.physical_size)
    BY <1>5 DEF LoadSnapshot
  <2>3. loaded.kind = "root"
    BY <1>5, LoopAnswersACandidate, CandidateIsASlot
  <2>4. /\ loaded \in RootRecord
        /\ loaded.manifest.offset \in Offsets
        /\ cells[loaded.manifest.offset].kind = "manifest"
        /\ cells[loaded.manifest.offset].catalog \in SUBSET Pointer
    BY <2>1, <2>2, <2>3, LoadedRootTyped
  <2> HIDE DEF loaded, state
  <2>5. Adopted(state, loaded) \in ReaderState
    BY <1>2, <2>4, AdoptedTyped
  <2>6. /\ Adopted(state, loaded).generation = loaded.generation
        /\ Adopted(state, loaded).catalog = cells[loaded.manifest.offset].catalog
    BY <1>2 DEF Adopted, ReaderState
  <2>7. loaded.generation > state.generation
    BY <1>2, <1>5, <2>4 DEF NotNewer, RootRecord, ReaderState
  <2>8. next = Adopted(state, loaded)
    BY <1>5
  <2> QED
    BY <1>1, <2>4, <2>5, <2>6, <2>7, <2>8 DEF state
<1>6. CASE next = kept
  BY <1>1, <1>3, <1>6
<1>7. CASE next = seenSize
  BY <1>1, <1>4, <1>7
<1> QED
  BY <1>5, <1>6, <1>7

LEMMA ReadSlotTyped ==
    ASSUME Typed, ReadersTyped, NEW r \in Readers, ReadSlot(r)
    PROVE  ReadersTyped'
<1> DEFINE s == reader[r].next_slot
           next == [reader[r] EXCEPT !.seen[s] = slots[s], !.next_slot = s + 1]
<1>1. reader' = [reader EXCEPT ![r] = next]
  BY DEF ReadSlot, ReadersTyped
<1>2. reader[r] \in ReaderState /\ s \in Slots
  BY SMTT(40), SlotCountAssumption DEF ReadersTyped, ReaderState, ReadSlot, Slots
<1>3. next \in ReaderState
  <2> DEFINE seen == [reader[r].seen EXCEPT ![s] = slots[s]]
  <2>1. next = [reader[r] EXCEPT !.seen = seen, !.next_slot = s + 1]
    BY <1>2 DEF ReaderState
  <2>2. seen \in [Slots -> SlotValue]
    BY <1>2 DEF ReaderState, Typed, FileTypeOK
  <2>3. s + 1 \in 0 .. SlotCount
    BY <1>2, SlotCountAssumption DEF Slots
  <2> HIDE DEF seen, next
  <2> QED
    BY <1>2, <2>1, <2>2, <2>3 DEF ReaderState
<1> HIDE DEF next
<1> QED
  BY <1>1, <1>3, OneReaderTyped

(* A reader's step other than finishing keeps its generation and catalog.  *)
LEMMA BeginScanOutcome ==
    ASSUME Typed, ReadersTyped, NEW r \in Readers,
           NEW phase \in {"opening", "refreshing"}, BeginScan(r, phase)
    PROVE  ReadersTyped' /\ \A q \in Readers : /\ reader'[q].generation = reader[q].generation
                                               /\ reader'[q].catalog = reader[q].catalog
<1> DEFINE next == [reader[r] EXCEPT !.phase = phase, !.physical_size = size,
                          !.next_slot = 0, !.seen = NothingSeen,
                          !.floor = Len(history), !.error = "none"]
<1>1. reader' = [reader EXCEPT ![r] = next]
  BY DEF BeginScan
<1>2. reader[r] \in ReaderState /\ Len(history) \in Nat /\ size \in Nat
  BY DEF ReadersTyped, Typed, FileTypeOK, BookkeepingTypeOK
<1>3. /\ next \in ReaderState
      /\ next.generation = reader[r].generation
      /\ next.catalog = reader[r].catalog
  BY <1>2, NothingSeenTyped DEF ReaderState
<1> HIDE DEF next
<1> QED
  BY <1>1, <1>3, OneReaderTyped DEF ReadersTyped

(* What the composed system does to the writer's variables.                *)
LEMMA WriterStep == [SnapshotsNext]_snapshotVars => [Next]_vars
BY DEF SnapshotsNext, snapshotVars, Next, BeginOpen, BeginRefresh, ReadSlot,
       FinishOpen, FinishRefresh, CloseReader

LEMMA NextReadersTyped ==
    ASSUME Typed, ReadersTyped, [SnapshotsNext]_snapshotVars
    PROVE  ReadersTyped'
<1>1. CASE UNCHANGED reader
  BY <1>1 DEF ReadersTyped
<1>2. CASE PowerLoss /\ reader' = [r \in Readers |-> ClosedReader]
  BY <1>2, ClosedReaderTyped DEF ReadersTyped
<1>3. ASSUME NEW r \in Readers, BeginOpen(r) \/ BeginRefresh(r)
      PROVE  ReadersTyped'
  BY <1>3, BeginScanOutcome DEF BeginOpen, BeginRefresh
<1>4. ASSUME NEW r \in Readers, ReadSlot(r)
      PROVE  ReadersTyped'
  BY <1>4, ReadSlotTyped
<1>5. ASSUME NEW r \in Readers, FinishOpen(r)
      PROVE  ReadersTyped'
  BY <1>5, FinishOpenOutcome, OneReaderTyped
<1>6. ASSUME NEW r \in Readers, FinishRefresh(r)
      PROVE  ReadersTyped'
  BY <1>6, FinishRefreshOutcome, OneReaderTyped
<1>7. ASSUME NEW r \in Readers, CloseReader(r)
      PROVE  ReadersTyped'
  BY <1>7, ClosedReaderTyped, OneReaderTyped DEF CloseReader
<1> QED
  BY <1>1, <1>2, <1>3, <1>4, <1>5, <1>6, <1>7 DEF SnapshotsNext, snapshotVars

AllTyped == Typed /\ FlagsTypeOK /\ ReadersTyped

LEMMA InitAllTyped == SnapshotsInit => AllTyped
BY InitTyped, ClosedReaderTyped
   DEF SnapshotsInit, AllTyped, Init, FlagsTypeOK, ReadersTyped

LEMMA NextAllTyped == AllTyped /\ [SnapshotsNext]_snapshotVars => AllTyped'
BY WriterStep, NextTyped, FlagsTyped, NextReadersTyped DEF AllTyped

(* The variables of the writer and of every reader keep their types.       *)
THEOREM SnapshotsTypeCorrect == SnapshotsSpec => []SnapshotsTypeOK
<1>1. AllTyped => SnapshotsTypeOK
  BY DEF AllTyped, SnapshotsTypeOK, TypeOK, Typed, ReadersTyped
<1> QED
  BY <1>1, InitAllTyped, NextAllTyped, PTL DEF SnapshotsSpec

-----------------------------------------------------------------------------
(* A snapshot only moves forward.                                          *)

(* No step of the system takes a reader that keeps its snapshot back to an *)
(* older generation, whatever the slots it scanned had become meanwhile.   *)
THEOREM NeverBack == SnapshotsSpec => ReadersNeverGoBack
<1> DEFINE Forward == \A r \in Readers :
                        HasSnapshot(r) /\ HasSnapshot(r)' =>
                            reader[r].generation <= reader'[r].generation
<1>1. ASSUME AllTyped, [SnapshotsNext]_snapshotVars, NEW q \in Readers,
             HasSnapshot(q), HasSnapshot(q)'
      PROVE  reader[q].generation <= reader'[q].generation
  <2>1. reader[q] \in ReaderState /\ reader[q].generation \in Nat
    BY <1>1 DEF AllTyped, ReadersTyped, ReaderState
  <2>2. CASE UNCHANGED reader
    BY <2>1, <2>2
  <2>3. CASE PowerLoss /\ reader' = [r \in Readers |-> ClosedReader]
    BY <1>1, <2>3 DEF HasSnapshot, ClosedReader
  <2>4. ASSUME NEW r \in Readers, BeginOpen(r) \/ BeginRefresh(r)
        PROVE  reader[q].generation <= reader'[q].generation
    BY <1>1, <2>1, <2>4, BeginScanOutcome DEF BeginOpen, BeginRefresh, AllTyped
  <2>5. ASSUME NEW r \in Readers, ReadSlot(r)
        PROVE  reader[q].generation <= reader'[q].generation
    BY <1>1, <2>1, <2>5 DEF ReadSlot, AllTyped, ReadersTyped, ReaderState
  <2>6. ASSUME NEW r \in Readers, FinishOpen(r)
        PROVE  reader[q].generation <= reader'[q].generation
    <3>1. q # r
      BY <1>1, <2>6 DEF FinishOpen, HasSnapshot
    <3> QED
      BY <1>1, <2>1, <2>6, <3>1 DEF FinishOpen, AllTyped, ReadersTyped
  <2>7. ASSUME NEW r \in Readers, FinishRefresh(r)
        PROVE  reader[q].generation <= reader'[q].generation
    BY <1>1, <2>1, <2>7, FinishRefreshOutcome DEF AllTyped, ReadersTyped, ReaderState
  <2>8. ASSUME NEW r \in Readers, CloseReader(r)
        PROVE  reader[q].generation <= reader'[q].generation
    <3>1. q # r
      BY <1>1, <2>8 DEF CloseReader, HasSnapshot, ClosedReader, AllTyped, ReadersTyped
    <3> QED
      BY <1>1, <2>1, <2>8, <3>1 DEF CloseReader, AllTyped, ReadersTyped
  <2> QED
    BY <1>1, <2>2, <2>3, <2>4, <2>5, <2>6, <2>7, <2>8 DEF SnapshotsNext, snapshotVars
<1>2. AllTyped /\ [SnapshotsNext]_snapshotVars => [Forward]_snapshotVars
  BY <1>1
<1> QED
  BY <1>2, InitAllTyped, NextAllTyped, PTL DEF SnapshotsSpec, ReadersNeverGoBack

-----------------------------------------------------------------------------
(* A snapshot stays readable.                                              *)

(* The writer leaves every object below the end of the file in place.      *)
LEMMA WriterKeepsOwned ==
    ASSUME Typed, OwnsTail, [WriterNext]_vars, NEW p, Owned(p)
    PROVE  Owned(p)'
<1>1. CASE UNCHANGED <<cells, size>>
  BY <1>1 DEF Owned
<1>2. ASSUME NEW c, WriteCell(c), step # "closed", ~poisoned
      PROVE  Owned(p)'
  BY <1>2, WriteKeepsOwned DEF OwnsTail, WriterOwnsTail
<1>3. CASE size = 0
  BY <1>3 DEF Owned, Authentic, Typed, FileTypeOK, Offsets
<1>4. \/ UNCHANGED <<cells, size>>
      \/ size = 0
      \/ step # "closed" /\ ~poisoned /\ \E c : WriteCell(c)
  BY DEF WriterNext, vars, fileVars, CreateControl, CreateControlFails, Open,
        AppendBatch, AppendBatchFails, BeginCheckpoint, Begin, WriteObjects,
        WriteObjectsCell, WriteManifest, SyncObjects, Sync, TearRoot,
        WriteSlot, WriteRoot, SyncRoot, SyncClean, CallFails, CloseDirty,
        Leave, Crash, OwnsTail, ActiveUnpoisoned
<1> QED
  BY <1>1, <1>2, <1>3, <1>4

SnapshotsOwned ==
    power_losses = 0 => \A r \in Readers : \A p \in reader[r].catalog : Owned(p)

LEMMA NextSnapshotsOwned ==
    ASSUME Grounded, AllTyped, SnapshotsOwned, [SnapshotsNext]_snapshotVars
    PROVE  SnapshotsOwned'
<1> SUFFICES ASSUME power_losses' = 0,
                    NEW q \in Readers, NEW p \in reader'[q].catalog
             PROVE  Owned(p)'
  BY DEF SnapshotsOwned
<1> USE DEF AllTyped
<1>1. CASE PowerLoss
  BY <1>1 DEF PowerLoss, Grounded, Typed, BookkeepingTypeOK
<1>2. CASE ~PowerLoss
  <2>1. [WriterNext]_vars
    BY <1>2, WriterStep DEF Next
  <2>2. power_losses = 0 /\ Resolved
    BY <2>1, WriterKeepsPower DEF Grounded, EverythingResolves
  <2>3. SUFFICES Owned(p)
    BY <2>1, WriterKeepsOwned DEF Grounded
  <2>4. CASE reader'[q].catalog = reader[q].catalog
    BY <2>2, <2>4 DEF SnapshotsOwned
  <2>5. CASE reader'[q].catalog = {}
    BY <2>5
  <2>6. CASE \E o \in Offsets : /\ cells[o].kind = "manifest"
                                /\ reader'[q].catalog = cells[o].catalog
    BY <2>2, <2>6 DEF Resolved, ManifestsResolve
  <2>7. ASSUME NEW r \in Readers, BeginOpen(r) \/ BeginRefresh(r)
        PROVE  reader'[q].catalog = reader[q].catalog
    BY <2>7, BeginScanOutcome DEF BeginOpen, BeginRefresh
  <2>8. ASSUME NEW r \in Readers, ReadSlot(r)
        PROVE  reader'[q].catalog = reader[q].catalog
    BY <2>8 DEF ReadSlot, ReadersTyped, ReaderState
  <2>9. ASSUME NEW r \in Readers, FinishOpen(r)
        PROVE  \/ reader'[q].catalog = reader[q].catalog
               \/ reader'[q].catalog = {}
               \/ \E o \in Offsets : /\ cells[o].kind = "manifest"
                                      /\ reader'[q].catalog = cells[o].catalog
    BY <2>9, FinishOpenOutcome DEF ReadersTyped
  <2>10. ASSUME NEW r \in Readers, FinishRefresh(r)
         PROVE  \/ reader'[q].catalog = reader[q].catalog
                \/ \E o \in Offsets : /\ cells[o].kind = "manifest"
                                       /\ reader'[q].catalog = cells[o].catalog
    BY <2>10, FinishRefreshOutcome DEF ReadersTyped
  <2>11. ASSUME NEW r \in Readers, CloseReader(r)
         PROVE  \/ reader'[q].catalog = reader[q].catalog
                \/ reader'[q].catalog = {}
    BY <2>11 DEF CloseReader, ClosedReader, ReadersTyped
  <2> QED
    BY <1>2, <2>4, <2>5, <2>6, <2>7, <2>8, <2>9, <2>10, <2>11
       DEF SnapshotsNext, snapshotVars
<1> QED
  BY <1>1, <1>2

(* While the machine keeps its power, every object of every snapshot a     *)
(* reader holds is in place, without a lock between reader and writer: the *)
(* memory map a reader took stays valid whatever the writer does next.     *)
THEOREM SnapshotReadable == SnapshotsSpec => []SnapshotIsReadable
<1> DEFINE I == Grounded /\ AllTyped /\ SnapshotsOwned
<1>1. SnapshotsInit => I
  BY InitGrounded, InitAllTyped DEF SnapshotsInit, SnapshotsOwned, ClosedReader
<1>2. I /\ [SnapshotsNext]_snapshotVars => I'
  BY WriterStep, NextGrounded, NextAllTyped, NextSnapshotsOwned
<1>3. I => SnapshotIsReadable
  BY DEF SnapshotsOwned, Owned, SnapshotIsReadable
<1> QED
  BY <1>1, <1>2, <1>3, PTL DEF SnapshotsSpec

-----------------------------------------------------------------------------
(* What the theorems of this module suppose.  After a power loss a root of *)
(* a lost generation may stay in a slot until it is overwritten; a scan    *)
(* during which the writer overwrites every other slot could take it up.   *)
Powered ==
    /\ ~ReadFaults
    /\ SlotCount >= 3
    /\ MaxPowerLosses = 0

LEMMA PoweredIsSheltered == Powered => Sheltered
BY DEF Powered, Sheltered

-----------------------------------------------------------------------------
(* The file.                                                               *)

Sound == Followed /\ Grounded /\ power_losses = 0

NextEntry == [root |-> NextRoot, catalog |-> catalog \cup pending]

(* A root is torn or written where the next generation belongs.            *)
Tears ==
    /\ step = "root" /\ Len(history) = generation
    /\ slots' = [slots EXCEPT ![RootSlot(Len(history) + 1)] = TornSlot]
    /\ UNCHANGED <<history, cells, size>>

Publishes ==
    /\ step = "root_torn" /\ Len(history) = generation
    /\ slots' = [slots EXCEPT ![RootSlot(Len(history) + 1)] = NextRoot]
    /\ history' = Append(history, NextEntry)
    /\ UNCHANGED <<cells, size>>

LEMMA NoPowerLoss == ASSUME Powered, Sound PROVE ~PowerLoss
BY DEF Powered, Sound, PowerLoss

LEMMA SessionIsLive ==
    ASSUME Sound, step # "closed"
    PROVE  control = "valid" /\ Live
BY ActiveIsLive DEF Sound, Followed

LEMMA FileStep ==
    ASSUME Powered, Sound, [Next]_vars
    PROVE  /\ \A o \in Offsets : o < size => cells'[o] = cells[o]
           /\ size <= size'
           /\ control = "valid" => control' = "valid"
           /\ UNCHANGED <<slots, history>> \/ Tears \/ Publishes
           /\ power_losses' = 0
<1> USE DEF Sound, Followed
<1>1. [WriterNext]_vars
  BY NoPowerLoss DEF Next
<1>2. power_losses' = 0
  BY <1>1, WriterKeepsPower
<1>3. size \in Nat /\ size' \in Nat
  BY NextTyped DEF Typed, FileTypeOK
<1>4. CASE TearRoot
  <2>1. step = "root" /\ ~poisoned /\ generation \in Nat
    BY <1>4 DEF TearRoot, OwnsTail, ActiveUnpoisoned, Typed, WriterTypeOK
  <2>2. Len(history) = generation
    BY <2>1, SessionIsLive DEF Live, WriterFollows
  <2>3. history' = history
    <3>1. Smaller(generation, Len(history)) = Len(history)
      BY <2>1, <2>2 DEF Smaller
    <3>2. history \in Seq(Entry)
      BY DEF Typed, BookkeepingTypeOK
    <3> QED
      BY <1>4, <3>1, <3>2 DEF TearRoot
  <2>4. Tears
    BY <1>4, <2>1, <2>2, <2>3 DEF TearRoot, WriteSlot, Tears
  <2> QED
    BY <1>2, <1>3, <1>4, <2>4 DEF Tears, TearRoot, WriteSlot
<1>5. CASE WriteRoot
  <2>1. step = "root_torn" /\ ~poisoned
    BY <1>5 DEF WriteRoot, OwnsTail, ActiveUnpoisoned
  <2>2. Len(history) = generation
    BY <2>1, SessionIsLive DEF Live, WriterFollows
  <2>3. Publishes
    BY <1>5, <2>1, <2>2 DEF WriteRoot, WriteSlot, Publishes, NextEntry
  <2> QED
    BY <1>2, <1>3, <1>5, <2>3 DEF Publishes, WriteRoot, WriteSlot
<1>6. CASE UNCHANGED <<cells, size, slots, history, control>>
  BY <1>2, <1>3, <1>6
<1>7. CASE /\ size = 0 /\ size' = 1
           /\ UNCHANGED <<cells, slots, history>>
  <2>1. control # "valid"
    BY <1>7 DEF Lineage, Extent
  <2> QED
    BY <1>2, <1>7, <2>1 DEF Offsets
<1>8. ASSUME NEW c, WriteCell(c), step # "closed", write_offset = size, history' = history
      PROVE  /\ \A o \in Offsets : o < size => cells'[o] = cells[o]
             /\ size <= size'
             /\ UNCHANGED <<control, slots, history>>
  <2>1. size' = size + 1 /\ \A o \in Offsets : o < size => cells'[o] = cells[o]
    BY <1>8, WriteAtEnd
  <2> QED
    BY <1>3, <1>8, <2>1 DEF WriteCell
<1>9. \/ TearRoot \/ WriteRoot
      \/ UNCHANGED <<cells, size, slots, history, control>>
      \/ size = 0 /\ size' = 1 /\ UNCHANGED <<cells, slots, history>>
      \/ \E c : WriteCell(c) /\ step # "closed" /\ write_offset = size /\ history' = history
  BY <1>1 DEF WriterNext, vars, fileVars, ghostVars, CreateControl, CreateControlFails, Open,
        AppendBatch, AppendBatchFails, BeginCheckpoint, Begin, WriteObjects,
        WriteObjectsCell, WriteManifest, SyncObjects, Sync, SyncRoot, SyncClean,
        CallFails, CloseDirty, Leave, Crash, OwnsTail, WriterOwnsTail, ActiveUnpoisoned
<1> QED
  BY <1>2, <1>4, <1>5, <1>6, <1>7, <1>8, <1>9

(* Generations are only added.                                             *)
LEMMA HistoryGrows ==
    ASSUME Powered, Sound, [Next]_vars
    PROVE  /\ Len(history) \in Nat /\ DOMAIN history = 1 .. Len(history)
           /\ Len(history') \in Nat /\ DOMAIN history' = 1 .. Len(history')
           /\ \/ Len(history') = Len(history)
              \/ Len(history') = Len(history) + 1 /\ Publishes /\ history'[Len(history) + 1] = NextEntry
           /\ Len(history) <= Len(history')
           /\ \A g \in DOMAIN history : g \in DOMAIN history' /\ history'[g] = history[g]
<1>1. /\ history \in Seq(Entry) /\ Len(history) \in Nat /\ DOMAIN history = 1 .. Len(history)
  BY DEF Sound, Followed, Typed, BookkeepingTypeOK
<1>2. CASE history' = history
  BY <1>1, <1>2
<1>3. CASE Publishes
  <2>1. history' = Append(history, NextEntry)
    BY <1>3 DEF Publishes
  <2>2. PICK h, n, e : /\ h \in Seq(Entry) /\ h = history
                       /\ n \in Nat /\ n = Len(history) /\ e = NextEntry
    BY <1>1
  <2>3. /\ Len(Append(h, e)) = n + 1 /\ DOMAIN Append(h, e) = 1 .. n + 1
        /\ Append(h, e)[n + 1] = e
        /\ \A g \in 1 .. n : Append(h, e)[g] = h[g]
    BY <2>2
  <2>4. 1 .. n \subseteq 1 .. n + 1 /\ n + 1 \in Nat /\ n <= n + 1
    BY <2>2
  <2> QED
    BY <1>1, <1>3, <2>1, <2>2, <2>3, <2>4
<1> QED
  BY <1>2, <1>3, FileStep DEF Tears

LEMMA RecordedStays ==
    ASSUME Powered, Sound, [Next]_vars, NEW r, Recorded(r)
    PROVE  Recorded(r)'
BY HistoryGrows DEF Recorded

-----------------------------------------------------------------------------
(* The slots hold the newest generations.                                  *)

SlotsPublished ==
    \A s \in Slots : slots[s].kind = "root" =>
        Recorded(slots[s]) /\ RootSlot(slots[s].generation) = s

InPlace ==
    \A g \in DOMAIN history :
        NewestBegun < g + SlotCount => slots[RootSlot(g)] = history[g].root

LEMMA SlotTypes ==
    ASSUME Sound
    PROVE  /\ slots \in [Slots -> SlotValue]
           /\ SlotCount \in Nat
           /\ Len(history) \in Nat /\ DOMAIN history = 1 .. Len(history)
           /\ NewestBegun \in {Len(history), Len(history) + 1}
           /\ RootSlot(Len(history) + 1) \in Slots
           /\ \A g \in DOMAIN history : RootSlot(g) \in Slots /\ g \in Nat /\ g >= 1
<1>1. Typed
  BY DEF Sound, Followed
<1>2. NewestBegun \in {Len(history), Len(history) + 1}
  BY <1>1, HistoryFacts DEF NewestBegun
<1> QED
  BY <1>1, <1>2, HistoryFacts, RootSlotTyped, SlotCountAssumption DEF Typed, FileTypeOK

LEMMA NextRootFacts ==
    ASSUME Sound, Publishes
    PROVE  /\ NextRoot \in RootRecord /\ NextRoot.kind = "root"
           /\ NextRoot.generation = Len(history) + 1
           /\ NextRoot # TornSlot
<1>1. NextRoot \in RootRecord
  BY NextRootType DEF Sound, Followed, Publishes
<1> QED
  BY <1>1 DEF RootRecord, NextRoot, Root, Publishes, TornSlot

LEMMA SlotsStayPublished ==
    ASSUME Powered, Sound, SlotsPublished, [Next]_vars
    PROVE  SlotsPublished'
<1> DEFINE t == RootSlot(Len(history) + 1)
<1>1. CASE UNCHANGED <<slots, history>>
  BY <1>1 DEF SlotsPublished, Recorded
<1>2. CASE Tears
  BY <1>2, SlotTypes DEF Tears, SlotsPublished, Recorded, TornSlot
<1>3. CASE Publishes
  <2>1. ASSUME NEW s \in Slots, slots'[s].kind = "root"
        PROVE  Recorded(slots[s])' /\ RootSlot(slots'[s].generation) = s
    <3>1. CASE s = t
      <4>1. slots'[s] = NextRoot /\ history'[Len(history) + 1].root = NextRoot
            /\ Len(history) + 1 \in DOMAIN history'
        BY <1>3, <2>1, <3>1, SlotTypes, HistoryGrows DEF Publishes, NextEntry
      <4> QED
        BY <1>3, <3>1, <4>1, NextRootFacts DEF Recorded
    <3>2. CASE s # t
      <4>1. slots'[s] = slots[s]
        BY <1>3, <2>1, <3>2, SlotTypes DEF Publishes
      <4>2. Recorded(slots[s]) /\ RootSlot(slots[s].generation) = s
        BY <2>1, <4>1 DEF SlotsPublished
      <4>3. PICK r : r = slots[s]
        OBVIOUS
      <4>4. Recorded(r)'
        BY <4>2, <4>3, RecordedStays
      <4> QED
        BY <4>1, <4>2, <4>3, <4>4 DEF Recorded
    <3> QED
      BY <3>1, <3>2
  <2> QED
    BY <2>1 DEF SlotsPublished
<1> QED
  BY <1>1, <1>2, <1>3, FileStep

LEMMA NewestGrows ==
    ASSUME Powered, Sound, [Next]_vars
    PROVE  NewestBegun <= NewestBegun' /\ NewestBegun' \in Nat
<1>1. CASE UNCHANGED <<slots, history>>
  BY <1>1, SlotTypes DEF NewestBegun
<1>2. CASE Tears
  <2>1. slots'[RootSlot(Len(history) + 1)] = TornSlot /\ history' = history
    BY <1>2, SlotTypes DEF Tears
  <2>2. NewestBegun' = Len(history) + 1
    BY <2>1, SlotTypes DEF NewestBegun
  <2> QED
    BY <2>2, SlotTypes
<1>3. CASE Publishes
  <2>1. Len(history') = Len(history) + 1
    BY <1>3, SlotTypes, HistoryGrows DEF Publishes, Sound, Followed, Typed, BookkeepingTypeOK
  <2>2. NewestBegun' \in {Len(history) + 1, Len(history) + 2}
    <3>1. PICK n \in Nat : n = Len(history') /\ n = Len(history) + 1
      BY <2>1, SlotTypes
    <3>2. NewestBegun' \in {n, n + 1}
      BY <3>1 DEF NewestBegun
    <3> QED
      BY <3>1, <3>2, SlotTypes
  <2> QED
    BY <2>2, SlotTypes
<1> QED
  BY <1>1, <1>2, <1>3, FileStep

LEMMA StaysInPlace ==
    ASSUME Powered, Sound, InPlace, [Next]_vars
    PROVE  InPlace'
<1> DEFINE n == Len(history)
<1>1. SUFFICES ASSUME NEW g \in DOMAIN history', NewestBegun' < g + SlotCount
               PROVE  slots'[RootSlot(g)] = history'[g].root
  BY DEF InPlace
<1>2. CASE g \in DOMAIN history
  <2>1. NewestBegun < g + SlotCount /\ history'[g] = history[g]
    BY <1>1, <1>2, NewestGrows, HistoryGrows, SlotTypes
  <2>2. slots[RootSlot(g)] = history[g].root
    BY <1>2, <2>1 DEF InPlace
  <2>3. CASE slots' = slots
    BY <2>1, <2>2, <2>3
  <2>4. CASE Tears \/ Publishes
    <3>1. n + 1 <= NewestBegun'
      <4>1. CASE Tears
        <5>1. slots'[RootSlot(n + 1)] = TornSlot /\ history' = history
          BY <4>1, SlotTypes DEF Tears
        <5> QED
          BY <5>1, SlotTypes DEF NewestBegun
      <4>2. CASE Publishes
        <5>1. PICK m \in Nat : m = Len(history') /\ m = n + 1
          BY <4>2, HistoryGrows DEF Publishes, Sound, Followed, Typed, BookkeepingTypeOK
        <5>2. NewestBegun' \in {m, m + 1}
          BY <5>1 DEF NewestBegun
        <5> QED
          BY <5>1, <5>2
      <4> QED
        BY <2>4, <4>1, <4>2
    <3>2. g \in Nat /\ g >= 1 /\ g < n + 1 /\ n + 1 < g + SlotCount /\ n + 1 \in Nat
      BY <1>1, <1>2, <3>1, SlotTypes, NewestGrows
    <3>3. RootSlot(g) # RootSlot(n + 1)
      BY <3>2, SlotsDiffer
    <3>4. slots'[RootSlot(g)] = slots[RootSlot(g)]
      BY <1>2, <2>4, <3>3, SlotTypes DEF Tears, Publishes
    <3> QED
      BY <2>1, <2>2, <3>4
  <2> QED
    BY <2>3, <2>4, FileStep
<1>3. CASE g \notin DOMAIN history
  <2>1. g = n + 1 /\ Publishes /\ history'[g] = NextEntry
    BY <1>1, <1>3, HistoryGrows
  <2> QED
    BY <2>1, SlotTypes DEF Publishes, NextEntry
<1> QED
  BY <1>2, <1>3

-----------------------------------------------------------------------------
(* The history agrees with the objects.                                    *)

CatalogsMatch ==
    \A g \in DOMAIN history :
        cells[history[g].root.manifest.offset].catalog = history[g].catalog

IdentitiesPositive == \A g \in DOMAIN history : RootIdentity(history[g].root) >= 1

LEMMA HistoryOnFile ==
    ASSUME Sound, NEW g \in DOMAIN history
    PROVE  /\ LoadManifestForRoot(cells, {}, history[g].root)
           /\ history[g].root.manifest.offset \in Offsets
           /\ history[g].root.manifest.offset < size
           /\ Live
<1>1. Kept(history[g])
  BY DEF Sound, Grounded, EverythingResolves, Resolved, HistoryResolves
<1>2. Live
  <2>1. history # << >>
    OBVIOUS
  <2> QED
    BY <2>1 DEF Sound, Followed, Lineage, Dead, Blank, Unpublished
<1> QED
  BY <1>1, <1>2 DEF Kept, Readable, LoadManifestForRoot, Sound, Followed, Typed, FileTypeOK

LEMMA CatalogsStayMatched ==
    ASSUME Powered, Sound, CatalogsMatch, [Next]_vars
    PROVE  CatalogsMatch'
<1>1. SUFFICES ASSUME NEW g \in DOMAIN history'
               PROVE  cells'[history'[g].root.manifest.offset].catalog = history'[g].catalog
  BY DEF CatalogsMatch
<1>2. CASE g \in DOMAIN history
  <2>1. history'[g] = history[g]
    BY <1>2, HistoryGrows
  <2>2. cells'[history[g].root.manifest.offset] = cells[history[g].root.manifest.offset]
    BY <1>2, HistoryOnFile, FileStep
  <2> QED
    BY <1>2, <2>1, <2>2 DEF CatalogsMatch
<1>3. CASE g \notin DOMAIN history
  <2>1. Publishes /\ history'[g] = NextEntry
    BY <1>1, <1>3, HistoryGrows
  <2>2. cells' = cells /\ step = "root_torn"
    BY <2>1 DEF Publishes
  <2>3. cells[write_offset - 1] = Manifest(next_identity - 1, generation + 1, catalog \cup pending)
    BY <2>2, SessionIsLive DEF Live, ManifestReady
  <2>4. /\ NextEntry.root.manifest.offset = write_offset - 1
        /\ NextEntry.catalog = catalog \cup pending
    BY DEF NextEntry, NextRoot, Root
  <2> QED
    BY <2>1, <2>2, <2>3, <2>4 DEF Manifest
<1> QED
  BY <1>2, <1>3

LEMMA IdentitiesStayPositive ==
    ASSUME Powered, Sound, IdentitiesPositive, [Next]_vars
    PROVE  IdentitiesPositive'
<1>1. SUFFICES ASSUME NEW g \in DOMAIN history'
               PROVE  RootIdentity(history'[g].root) >= 1
  BY DEF IdentitiesPositive
<1>2. CASE g \in DOMAIN history
  BY <1>2, HistoryGrows DEF IdentitiesPositive
<1>3. CASE g \notin DOMAIN history
  <2>1. step = "root_torn" /\ history'[g].root = NextRoot
    BY <1>1, <1>3, HistoryGrows DEF NextEntry, Publishes
  <2>2. Fresh >= 1 /\ Fresh = next_identity - 1
    BY <2>1, SessionIsLive DEF Live, OnFile, Fresh
  <2> QED
    BY <2>1, <2>2 DEF RootIdentity, NextRoot, Root
<1> QED
  BY <1>2, <1>3

Ledger == Sound /\ SlotsPublished /\ InPlace /\ CatalogsMatch /\ IdentitiesPositive

LEMMA NextLedger == ASSUME Powered, Ledger, [Next]_vars PROVE Ledger'
<1> USE DEF Ledger
<1>1. Sound'
  BY PoweredIsSheltered, NextTyped, NextTail, NextFollows, NextGrounded, FileStep
     DEF Sound, Followed
<1> QED
  BY <1>1, SlotsStayPublished, StaysInPlace, CatalogsStayMatched, IdentitiesStayPositive

LEMMA InitLedger == Init => Ledger
<1> SUFFICES ASSUME Init PROVE Ledger
  OBVIOUS
<1>1. Sound
  BY InitTyped, InitFollows, InitGrounded
     DEF Init, Sound, Followed, OwnsTail, WriterOwnsTail, ActiveUnpoisoned
<1>2. DOMAIN history = {} /\ \A s \in Slots : slots[s] = ZeroSlot
  BY DEF Init
<1> QED
  BY <1>1, <1>2 DEF Ledger, SlotsPublished, InPlace, CatalogsMatch, IdentitiesPositive, ZeroSlot

-----------------------------------------------------------------------------
(* The readers.                                                            *)

(* Every root a reader has seen in a slot is a published one.              *)
SeenPublished(state) ==
    \A s \in Slots : state.seen[s].kind = "root" => Recorded(state.seen[s])

(* It holds a published generation, or nothing.                            *)
Holds(state) ==
    IF state.generation = 0 THEN state.catalog = {}
    ELSE /\ state.generation \in DOMAIN history
         /\ state.identity = RootIdentity(history[state.generation].root)
         /\ state.committed_size = history[state.generation].root.committed_size
         /\ state.catalog = history[state.generation].catalog

Unopened(state) == state.phase \in {"closed", "opening"} => state.generation = 0

Scans(state) == state.phase \in {"opening", "refreshing"}

(* The size it looked at covers what was published when it began.          *)
ScanBegan(state) ==
    Scans(state) =>
        /\ state.error = "none"
        /\ state.floor <= Len(history)
        /\ \A g \in 1 .. state.floor : history[g].root.committed_size <= state.physical_size

(* As long as the writer has not come round to their slots, the newest     *)
(* root at the beginning of the scan and its predecessor are seen.         *)
ScanSees(state) ==
    (Scans(state) /\ NewestBegun <= state.floor + SlotCount - 2) =>
        \A g \in DOMAIN history :
            (g <= state.floor /\ state.floor <= g + 1 /\ RootSlot(g) < state.next_slot)
                => state.seen[RootSlot(g)] = history[g].root

InOrder(state) ==
    /\ SeenPublished(state)
    /\ Holds(state)
    /\ Unopened(state)
    /\ ScanBegan(state)
    /\ ScanSees(state)

LEMMA StateTypes ==
    ASSUME NEW state \in ReaderState
    PROVE  /\ state.generation \in Nat /\ state.physical_size \in Nat
           /\ state.floor \in Nat /\ state.next_slot \in 0 .. SlotCount
           /\ state.seen \in [Slots -> SlotValue]
           /\ state.phase \in {"closed", "opening", "open", "refreshing"}
BY DEF ReaderState

(* The writer's steps leave a reader in order.                             *)
LEMMA WriterLeavesInOrder ==
    ASSUME Powered, Ledger, [Next]_vars, NEW state \in ReaderState, InOrder(state)
    PROVE  InOrder(state)'
<1> USE DEF Ledger, InOrder
<1>1. SeenPublished(state)'
  BY RecordedStays DEF SeenPublished
<1>2. Holds(state)'
  BY HistoryGrows DEF Holds
<1>3. Unopened(state)'
  BY DEF Unopened
<1>4. ScanBegan(state)'
  <2>1. SUFFICES ASSUME Scans(state)
                 PROVE  /\ state.error = "none"
                        /\ state.floor <= Len(history')
                        /\ \A g \in 1 .. state.floor :
                                history'[g].root.committed_size <= state.physical_size
    BY DEF ScanBegan, Scans
  <2>2. state.floor <= Len(history') /\ \A g \in 1 .. state.floor : g \in DOMAIN history
    BY <2>1, HistoryGrows, StateTypes DEF ScanBegan
  <2> QED
    BY <2>1, <2>2, HistoryGrows DEF ScanBegan
<1>5. ScanSees(state)'
  <2>1. SUFFICES ASSUME Scans(state), NewestBegun' <= state.floor + SlotCount - 2,
                        NEW g \in DOMAIN history', g <= state.floor, state.floor <= g + 1,
                        RootSlot(g) < state.next_slot
                 PROVE  state.seen[RootSlot(g)] = history'[g].root
    BY DEF ScanSees, Scans
  <2>2. NewestBegun <= state.floor + SlotCount - 2
    BY <2>1, NewestGrows, SlotTypes, StateTypes
  <2>3. g \in DOMAIN history /\ history'[g] = history[g]
    BY <2>1, HistoryGrows, StateTypes DEF ScanBegan
  <2> QED
    BY <2>1, <2>2, <2>3 DEF ScanSees
<1> QED
  BY <1>1, <1>2, <1>3, <1>4, <1>5

LEMMA ClosedInOrder == InOrder(ClosedReader)
BY DEF InOrder, SeenPublished, Holds, Unopened, ScanBegan, ScanSees, Scans,
       ClosedReader, NothingSeen, ZeroSlot

(* A reader that is not scanning has its snapshot and nothing else.        *)
LEMMA SettledInOrder ==
    ASSUME NEW state \in ReaderState, Holds(state), state.phase = "open", state.seen = NothingSeen
    PROVE  InOrder(state)
BY DEF InOrder, SeenPublished, Unopened, ScanBegan, ScanSees, Scans, NothingSeen, ZeroSlot

Moves(r, state) == reader' = [reader EXCEPT ![r] = state] /\ UNCHANGED vars

LEMMA BeginInOrder ==
    ASSUME Ledger, ReadersTyped, NEW r \in Readers, InOrder(reader[r]),
           BeginOpen(r) \/ BeginRefresh(r)
    PROVE  \E state \in ReaderState :
            /\ Moves(r, state) /\ InOrder(state)
            /\ state.generation = reader[r].generation /\ state.catalog = reader[r].catalog
            /\ Scans(state)
<1> USE DEF Ledger
<1>1. PICK phase \in {"opening", "refreshing"} :
        /\ BeginScan(r, phase) /\ UNCHANGED vars
        /\ phase = "opening" => reader[r].phase = "closed"
  BY DEF BeginOpen, BeginRefresh
<1> DEFINE state == [reader[r] EXCEPT !.phase = phase, !.physical_size = size,
                          !.next_slot = 0, !.seen = NothingSeen,
                          !.floor = Len(history), !.error = "none"]
<1>2. Moves(r, state)
  BY <1>1 DEF Moves, BeginScan
<1>3. reader[r] \in ReaderState /\ Len(history) \in Nat /\ size \in Nat
  BY DEF ReadersTyped, Sound, Followed, Typed, FileTypeOK, BookkeepingTypeOK
<1>4. /\ state \in ReaderState
      /\ state.generation = reader[r].generation /\ state.catalog = reader[r].catalog
      /\ state.identity = reader[r].identity /\ state.committed_size = reader[r].committed_size
      /\ state.phase = phase /\ state.physical_size = size /\ state.next_slot = 0
      /\ state.seen = NothingSeen /\ state.floor = Len(history) /\ state.error = "none"
  BY <1>3, NothingSeenTyped DEF ReaderState
<1> HIDE DEF state
<1>5. SeenPublished(state)
  BY <1>4 DEF SeenPublished, NothingSeen, ZeroSlot
<1>6. Holds(state)
  BY <1>4 DEF InOrder, Holds
<1>7. Unopened(state)
  BY <1>1, <1>4 DEF InOrder, Unopened
<1>8. ScanBegan(state)
  <2>1. \A g \in 1 .. Len(history) : history[g].root.committed_size <= size
    <3>1. SUFFICES ASSUME NEW g \in 1 .. Len(history)
                   PROVE  history[g].root.committed_size <= size
      OBVIOUS
    <3>2. g \in DOMAIN history
      BY SlotTypes
    <3> QED
      BY <3>2, HistoryOnFile DEF Live, OnFile, Chained
  <2> QED
    BY <1>3, <1>4, <2>1 DEF ScanBegan
<1>9. ScanSees(state)
  <2>1. \A g \in DOMAIN history : ~(RootSlot(g) < 0)
    BY SlotTypes DEF Slots
  <2> QED
    BY <1>4, <2>1 DEF ScanSees
<1> QED
  BY <1>1, <1>2, <1>4, <1>5, <1>6, <1>7, <1>8, <1>9 DEF InOrder, Scans

LEMMA ReadInOrder ==
    ASSUME Ledger, ReadersTyped, NEW r \in Readers, InOrder(reader[r]), ReadSlot(r)
    PROVE  \E state \in ReaderState :
            /\ Moves(r, state) /\ InOrder(state)
            /\ state.generation = reader[r].generation /\ state.catalog = reader[r].catalog
            /\ Scans(state)
<1> USE DEF Ledger
<1> DEFINE s == reader[r].next_slot
           seen == [reader[r].seen EXCEPT ![s] = slots[s]]
           state == [reader[r] EXCEPT !.seen = seen, !.next_slot = s + 1]
<1>1. reader[r] \in ReaderState /\ s \in Slots /\ Scans(reader[r])
  BY SlotCountAssumption DEF ReadersTyped, ReaderState, ReadSlot, Slots, Scanning, Scans
<1>2. Moves(r, state)
  BY <1>1 DEF ReadSlot, ReadersTyped, ReaderState, Moves
<1>3. seen \in [Slots -> SlotValue] /\ s + 1 \in 0 .. SlotCount
  BY SMTT(40), <1>1, SlotTypes, SlotCountAssumption DEF ReaderState, Slots
<1>4. seen[s] = slots[s] /\ \A t \in Slots : t # s => seen[t] = reader[r].seen[t]
  BY <1>1 DEF ReaderState
<1> HIDE DEF seen
<1>5. /\ state \in ReaderState
      /\ state.generation = reader[r].generation /\ state.catalog = reader[r].catalog
      /\ state.identity = reader[r].identity /\ state.committed_size = reader[r].committed_size
      /\ state.phase = reader[r].phase /\ state.physical_size = reader[r].physical_size
      /\ state.floor = reader[r].floor /\ state.error = reader[r].error
      /\ state.seen = seen /\ state.next_slot = s + 1
  BY <1>1, <1>3 DEF ReaderState
<1> HIDE DEF state
<1>6. SeenPublished(state)
  <2>1. SUFFICES ASSUME NEW t \in Slots, seen[t].kind = "root" PROVE Recorded(seen[t])
    BY <1>5 DEF SeenPublished
  <2>2. CASE t = s
    BY <1>4, <2>1, <2>2 DEF SlotsPublished
  <2>3. CASE t # s
    BY <1>4, <2>1, <2>3 DEF InOrder, SeenPublished
  <2> QED
    BY <2>2, <2>3
<1>7. Holds(state) /\ Unopened(state) /\ ScanBegan(state)
  BY <1>5 DEF InOrder, Holds, Unopened, ScanBegan, Scans
<1>8. ScanSees(state)
  <2>1. SUFFICES ASSUME NewestBegun <= reader[r].floor + SlotCount - 2,
                        NEW g \in DOMAIN history, g <= reader[r].floor,
                        reader[r].floor <= g + 1, RootSlot(g) < s + 1
                 PROVE  seen[RootSlot(g)] = history[g].root
    BY <1>5 DEF ScanSees
  <2>2. CASE RootSlot(g) = s
    <3>1. NewestBegun < g + SlotCount
      BY <1>1, <2>1, SlotTypes, StateTypes
    <3> QED
      BY <1>4, <2>2, <3>1 DEF InPlace
  <2>3. CASE RootSlot(g) # s
    <3>1. RootSlot(g) \in Slots /\ RootSlot(g) < s
      BY <1>1, <2>1, <2>3, SlotTypes DEF Slots
    <3> QED
      BY <1>1, <1>4, <2>1, <2>3, <3>1 DEF InOrder, ScanSees
  <2> QED
    BY <2>2, <2>3
<1> QED
  BY <1>1, <1>2, <1>5, <1>6, <1>7, <1>8 DEF InOrder, Scans

(* What a reader loads is published.                                       *)
LEMMA LoadedIsPublished ==
    ASSUME Ledger, NEW state \in ReaderState, SeenPublished(state), NEW loaded,
           loaded = LoadSnapshot(state.seen, cells, {}, state.physical_size),
           loaded.kind = "root"
    PROVE  /\ loaded \in RootRecord /\ loaded.generation \in DOMAIN history
           /\ loaded = history[loaded.generation].root
           /\ Adopted(state, loaded) \in ReaderState
           /\ Adopted(state, loaded).generation = loaded.generation
           /\ Adopted(state, loaded).catalog = history[loaded.generation].catalog
           /\ Adopted(state, loaded).error = state.error
           /\ Adopted(state, loaded).phase = "open"
           /\ loaded.generation # 0
           /\ InOrder(Adopted(state, loaded))
<1> USE DEF Ledger
<1>1. \E s \in Slots : loaded = state.seen[s]
  BY ElectionAnswersASlot
<1>2. Recorded(loaded)
  BY <1>1 DEF SeenPublished
<1>3. PICK g \in DOMAIN history : g = loaded.generation /\ loaded = history[g].root
  BY <1>2 DEF Recorded
<1>4. /\ loaded \in RootRecord
      /\ cells[loaded.manifest.offset].catalog \in SUBSET Pointer
  BY StateTypes, LoadedRootTyped DEF Sound, Followed
<1>5. cells[loaded.manifest.offset].catalog = history[g].catalog
  BY <1>3 DEF CatalogsMatch
<1>6. g # 0
  BY SlotTypes
<1>7. Adopted(state, loaded) \in ReaderState
  BY <1>4, AdoptedTyped
<1>8. /\ Adopted(state, loaded).generation = g
      /\ Adopted(state, loaded).identity = RootIdentity(history[g].root)
      /\ Adopted(state, loaded).committed_size = history[g].root.committed_size
      /\ Adopted(state, loaded).catalog = history[g].catalog
      /\ Adopted(state, loaded).error = state.error
      /\ Adopted(state, loaded).phase = "open"
      /\ Adopted(state, loaded).seen = NothingSeen
  <2> HIDE DEF NothingSeen
  <2> QED
    BY <1>3, <1>5 DEF Adopted, ReaderState
<1>9. Holds(Adopted(state, loaded))
  <2>1. PICK a : a = Adopted(state, loaded)
    OBVIOUS
  <2>2. Holds(a)
    BY <1>6, <1>8, <2>1 DEF Holds
  <2> QED
    BY <2>1, <2>2
<1>10. InOrder(Adopted(state, loaded))
  BY <1>7, <1>8, <1>9, SettledInOrder
<1> QED
  BY <1>3, <1>4, <1>6, <1>7, <1>8, <1>10

(* A scan during which the writer does not come round finds the root that  *)
(* was newest when it began, and loads it or a newer one.                  *)
LEMMA QuickScanFinds ==
    ASSUME Powered, Ledger, NEW state \in ReaderState, InOrder(state), Scans(state),
           state.next_slot = SlotCount, state.floor > 0,
           NewestBegun <= state.floor + SlotCount - 2,
           NEW loaded, loaded = LoadSnapshot(state.seen, cells, {}, state.physical_size)
    PROVE  /\ loaded.kind = "root" /\ loaded.generation >= state.floor
           /\ \E c \in CollectRoots(state.seen, state.physical_size) :
                c.generation = state.floor
<1> USE DEF Ledger
<1> DEFINE candidates == CollectRoots(state.seen, state.physical_size)
           f == state.floor
<1>1. /\ f \in DOMAIN history /\ f \in Nat /\ f >= 1
      /\ state.physical_size \in Nat /\ state.seen \in [Slots -> SlotValue]
      /\ \A g \in 1 .. f : history[g].root.committed_size <= state.physical_size
  BY StateTypes, SlotTypes DEF InOrder, ScanBegan
<1>2. Live /\ Typed /\ Chained
  BY <1>1, HistoryOnFile DEF Sound, Followed, Live, OnFile
<1>3. \A c \in candidates : c.kind = "root" /\ Recorded(c) /\ c.generation \in DOMAIN history
  <2>1. \A c \in candidates : \E s \in Slots : c = state.seen[s] /\ c.kind = "root"
    BY CandidateIsASlot
  <2> QED
    BY <2>1 DEF InOrder, SeenPublished, Recorded
<1>4. ASSUME NEW g \in DOMAIN history, g <= f, f <= g + 1
      PROVE  history[g].root \in candidates
  <2>1. RootSlot(g) < state.next_slot
    BY SlotTypes DEF Slots
  <2>2. state.seen[RootSlot(g)] = history[g].root
    BY <1>4, <2>1 DEF InOrder, ScanSees
  <2>3. g \in 1 .. f
    BY <1>1, <1>4, SlotTypes
  <2>4. history[g].root.committed_size <= state.physical_size
    BY <1>1, <2>3
  <2> QED
    BY <1>1, <1>2, <2>2, <2>4, RecordedIsCandidate
<1>5. history[f].root \in candidates /\ history[f].root.generation = f
  BY <1>1, <1>2, <1>4 DEF Chained
<1>6. RootHasValidPredecessor(candidates, history[f].root)
  <2>1. CASE f = 1
    BY <1>1, <1>2, <1>5, <2>1 DEF Chained, RootHasValidPredecessor
  <2>2. CASE f # 1
    <3>1. PICK g \in DOMAIN history : g = f - 1
      BY <1>1, <2>2, SlotTypes
    <3>2. history[g].root \in candidates /\ history[g].root.generation = g
      BY <1>1, <1>2, <1>4, <3>1 DEF Chained
    <3>3. \A c \in candidates : c.generation = g => c = history[g].root
      BY <1>3 DEF Recorded
    <3>4. history[f].root.previous_identity = RootIdentity(history[g].root)
      BY <1>1, <1>2, <2>2, <3>1 DEF Chained
    <3> HIDE DEF candidates, f
    <3> QED
      BY <1>5, <2>2, <3>1, <3>2, <3>3, <3>4 DEF RootHasValidPredecessor
  <2> QED
    BY <2>1, <2>2
<1>7. Accepted(cells, candidates, history[f].root)
  BY <1>1, <1>5, <1>6, HistoryOnFile DEF Accepted
<1>8. \A d : Accepted(cells, candidates, d) => d.generation <= Len(history)
  BY <1>3, SlotTypes DEF Accepted
<1>9. loaded # InvalidDatabase /\ loaded # EmptyDatabase
  BY <1>1, <1>7, <1>8, SlotTypes, SomeIsElected
<1>10. loaded.kind = "root" /\ f <= loaded.generation
  BY <1>5, <1>7, <1>9, ElectedIsNewest
<1>11. loaded \in candidates
  BY <1>9, ElectedIsNewest DEF Accepted
<1>12. loaded.generation >= f
  BY <1>1, <1>3, <1>10, <1>11, SlotTypes
<1> QED
  BY <1>5, <1>10, <1>12

(* A reader that finishes an open or a refresh keeps what it has, or takes *)
(* up a published generation that is no older.                             *)
TakesUp(r, state) ==
    /\ state.generation \in DOMAIN history
    /\ state.generation >= reader[r].generation
    /\ state.catalog = history[state.generation].catalog

KeepsSnapshot(r, state) ==
    state.generation = reader[r].generation /\ state.catalog = reader[r].catalog

(* The outcome does not miss what was published before the scan began.     *)
SeesFloor(r, state) ==
    (reader[r].floor > 0 /\ NewestBegun <= reader[r].floor + SlotCount - 2) =>
        state.error # "InvalidDatabase" /\ state.generation >= reader[r].floor

LEMMA FinishOpenInOrder ==
    ASSUME Powered, Ledger, ReadersTyped, NEW r \in Readers, InOrder(reader[r]), FinishOpen(r)
    PROVE  \E state \in ReaderState :
            /\ Moves(r, state) /\ InOrder(state)
            /\ KeepsSnapshot(r, state) \/ TakesUp(r, state)
            /\ SeesFloor(r, state)
<1> USE DEF Ledger
<1> DEFINE old == reader[r]
           loaded == LoadSnapshot(old.seen, cells, {}, old.physical_size)
           opened == [old EXCEPT !.phase = "open",
                                 !.observed_file_size = old.physical_size,
                                 !.seen = NothingSeen, !.next_slot = 0]
           refused == [ClosedReader EXCEPT !.error = "InvalidDatabase"]
           next == IF loaded.kind = "invalid" THEN refused
                   ELSE IF loaded.kind = "root" THEN Adopted(old, loaded)
                   ELSE opened
<1>1. Moves(r, next) /\ old.phase = "opening" /\ old.next_slot = SlotCount
  BY DEF FinishOpen, Moves
<1>2. /\ old \in ReaderState /\ old.generation = 0 /\ old.catalog = {}
      /\ old.error = "none" /\ Scans(old) /\ old.floor \in Nat
  BY <1>1, StateTypes DEF ReadersTyped, InOrder, Unopened, Holds, ScanBegan, Scans
<1>3. PICK l : l = loaded
  OBVIOUS
<1>4. (old.floor > 0 /\ NewestBegun <= old.floor + SlotCount - 2) =>
            l.kind = "root" /\ l.generation >= old.floor
  BY <1>1, <1>2, <1>3, QuickScanFinds
<1>5. CASE l.kind = "root"
  <2>1. /\ l.generation \in DOMAIN history
        /\ Adopted(old, l) \in ReaderState
        /\ Adopted(old, l).generation = l.generation
        /\ Adopted(old, l).catalog = history[l.generation].catalog
        /\ Adopted(old, l).error = old.error
        /\ InOrder(Adopted(old, l))
    BY <1>2, <1>3, <1>5, LoadedIsPublished DEF InOrder
  <2>2. PICK a \in ReaderState : a = Adopted(old, l)
    BY <2>1
  <2>3. Moves(r, a)
    BY <1>1, <1>3, <1>5, <2>2
  <2>4. TakesUp(r, a)
    BY <1>2, <2>1, <2>2, StateTypes DEF TakesUp
  <2>5. SeesFloor(r, a)
    BY <1>2, <1>4, <2>1, <2>2 DEF SeesFloor
  <2> QED
    BY <2>1, <2>2, <2>3, <2>4, <2>5
<1>6. CASE l.kind = "invalid"
  <2>1. /\ refused \in ReaderState /\ refused.generation = 0 /\ refused.catalog = {}
        /\ refused.phase = "closed" /\ refused.seen = NothingSeen
    BY ClosedReaderTyped, NothingSeenTyped DEF ClosedReader, ReaderState
  <2>2. PICK a \in ReaderState : a = refused
    BY <2>1
  <2>3. InOrder(a)
    BY <2>1, <2>2 DEF InOrder, SeenPublished, Holds, Unopened, ScanBegan, ScanSees, Scans,
                      NothingSeen, ZeroSlot
  <2>4. Moves(r, a) /\ KeepsSnapshot(r, a) /\ SeesFloor(r, a)
    BY <1>1, <1>2, <1>3, <1>4, <1>6, <2>1, <2>2 DEF KeepsSnapshot, SeesFloor
  <2> QED
    BY <2>3, <2>4
<1>7. CASE l.kind \notin {"root", "invalid"}
  <2>1. /\ opened \in ReaderState /\ opened.generation = 0 /\ opened.catalog = {}
        /\ opened.phase = "open" /\ opened.seen = NothingSeen
    BY <1>2, NothingSeenTyped DEF ReaderState
  <2>2. PICK a \in ReaderState : a = opened
    BY <2>1
  <2>3. InOrder(a)
    BY <2>1, <2>2, SettledInOrder DEF Holds
  <2>4. Moves(r, a) /\ KeepsSnapshot(r, a) /\ SeesFloor(r, a)
    BY <1>1, <1>2, <1>3, <1>4, <1>7, <2>1, <2>2 DEF KeepsSnapshot, SeesFloor
  <2> QED
    BY <2>3, <2>4
<1> QED
  BY <1>5, <1>6, <1>7

LEMMA FinishRefreshInOrder ==
    ASSUME Powered, Ledger, ReadersTyped, NEW r \in Readers, InOrder(reader[r]), FinishRefresh(r)
    PROVE  \E state \in ReaderState :
            /\ Moves(r, state) /\ InOrder(state)
            /\ KeepsSnapshot(r, state) \/ TakesUp(r, state)
            /\ SeesFloor(r, state)
<1> USE DEF Ledger
<1> DEFINE old == reader[r]
           kept == [old EXCEPT !.phase = "open", !.seen = NothingSeen, !.next_slot = 0]
           seenSize == [kept EXCEPT !.observed_file_size = old.physical_size]
           candidates == CollectRoots(old.seen, old.physical_size)
           loaded == LoadSnapshotFromCandidates(cells, {}, candidates)
           next == IF \A c \in candidates : NotNewer(old, c) THEN kept
                   ELSE IF loaded.kind = "invalid" THEN kept
                   ELSE IF NotNewer(old, loaded) THEN seenSize
                   ELSE Adopted(old, loaded)
<1>1. Moves(r, next) /\ old.phase = "refreshing" /\ old.next_slot = SlotCount
  BY DEF FinishRefresh, Moves
<1>2. /\ old \in ReaderState /\ old.generation \in Nat /\ old.error = "none"
      /\ Scans(old) /\ old.floor \in Nat /\ Holds(old)
  BY <1>1, StateTypes DEF ReadersTyped, InOrder, ScanBegan, Scans
<1>3. ASSUME NEW a \in ReaderState, a = kept \/ a = seenSize
      PROVE  /\ a.generation = old.generation /\ a.catalog = old.catalog /\ a.error = "none"
             /\ InOrder(a) /\ KeepsSnapshot(r, a)
  <2>1. /\ a.generation = old.generation /\ a.catalog = old.catalog /\ a.error = "none"
        /\ a.identity = old.identity /\ a.committed_size = old.committed_size
        /\ a.phase = "open" /\ a.seen = NothingSeen
    BY ZenonT(60), <1>2, <1>3 DEF ReaderState
  <2>2. Holds(a)
    BY <1>2, <2>1 DEF Holds
  <2> QED
    BY <2>1, <2>2, SettledInOrder DEF KeepsSnapshot
<1>4. kept \in ReaderState /\ seenSize \in ReaderState
  BY <1>2, NothingSeenTyped DEF ReaderState
<1>5. PICK l : l = LoadSnapshot(old.seen, cells, {}, old.physical_size)
  OBVIOUS
<1>6. candidates # {} => loaded = l
  BY <1>5 DEF LoadSnapshot
<1>7. (old.floor > 0 /\ NewestBegun <= old.floor + SlotCount - 2) =>
            /\ l.kind = "root" /\ l.generation >= old.floor
            /\ \E c \in candidates : c.generation = old.floor
  BY <1>1, <1>2, <1>5, QuickScanFinds
<1>8. CASE \A c \in candidates : NotNewer(old, c)
  <2>1. PICK a \in ReaderState : a = kept
    BY <1>4
  <2>2. Moves(r, a) /\ InOrder(a) /\ KeepsSnapshot(r, a)
    BY <1>1, <1>3, <1>8, <2>1
  <2>3. SeesFloor(r, a)
    BY <1>2, <1>3, <1>7, <1>8, <2>1 DEF SeesFloor, NotNewer
  <2> QED
    BY <2>2, <2>3
<1>9. CASE ~ \A c \in candidates : NotNewer(old, c)
  <2>1. loaded = l
    BY <1>6, <1>9
  <2>2. CASE l.kind = "invalid"
    <3>1. PICK a \in ReaderState : a = kept
      BY <1>4
    <3>2. Moves(r, a) /\ InOrder(a) /\ KeepsSnapshot(r, a)
      BY <1>1, <1>3, <1>9, <2>1, <2>2, <3>1
    <3>3. SeesFloor(r, a)
      BY <1>7, <2>2 DEF SeesFloor
    <3> QED
      BY <3>2, <3>3
  <2>3. CASE l.kind # "invalid" /\ NotNewer(old, l)
    <3>1. PICK a \in ReaderState : a = seenSize
      BY <1>4
    <3>2. Moves(r, a) /\ InOrder(a) /\ KeepsSnapshot(r, a)
      BY <1>1, <1>3, <1>9, <2>1, <2>3, <3>1
    <3>3. SeesFloor(r, a)
      <4>1. l.kind = "root" => l.generation \in Nat
        BY <1>2, <1>5, LoadedIsPublished DEF InOrder, RootRecord
      <4> QED
        BY <1>2, <1>3, <1>7, <2>3, <3>1, <4>1 DEF SeesFloor, NotNewer
    <3> QED
      BY <3>2, <3>3
  <2>4. CASE l.kind # "invalid" /\ ~NotNewer(old, l)
    <3>1. l.kind = "root"
      BY <1>9, <2>1, <2>4, LoopAnswersACandidate, CandidateIsASlot
    <3>2. /\ l \in RootRecord /\ l.generation \in DOMAIN history
          /\ Adopted(old, l) \in ReaderState
          /\ Adopted(old, l).generation = l.generation
          /\ Adopted(old, l).catalog = history[l.generation].catalog
          /\ Adopted(old, l).error = old.error
          /\ InOrder(Adopted(old, l))
      BY <1>2, <1>5, <3>1, LoadedIsPublished DEF InOrder
    <3>3. PICK a \in ReaderState : a = Adopted(old, l)
      BY <3>2
    <3>4. Moves(r, a)
      BY <1>1, <1>9, <2>1, <2>4, <3>3
    <3>5. TakesUp(r, a)
      BY <1>2, <2>4, <3>2, <3>3 DEF TakesUp, NotNewer, RootRecord
    <3>6. SeesFloor(r, a)
      BY <1>2, <1>7, <3>2, <3>3 DEF SeesFloor
    <3> QED
      BY <3>2, <3>3, <3>4, <3>5, <3>6
  <2> QED
    BY <2>2, <2>3, <2>4
<1> QED
  BY <1>8, <1>9

-----------------------------------------------------------------------------
(* The whole system.                                                       *)

ReadersInOrder == \A r \in Readers : InOrder(reader[r])

Ordered == Ledger /\ AllTyped /\ ReadersInOrder

(* One reader moves, and the file does not change.                         *)
ReaderMoves(r, state) ==
    /\ Moves(r, state) /\ InOrder(state)
    /\ \/ KeepsSnapshot(r, state) /\ Scans(state)
       \/ (KeepsSnapshot(r, state) \/ TakesUp(r, state)) /\ SeesFloor(r, state)
       \/ state = ClosedReader

LEMMA SystemStep ==
    ASSUME Powered, Ordered, [SnapshotsNext]_snapshotVars
    PROVE  \/ [Next]_vars /\ UNCHANGED reader
           \/ \E r \in Readers, state \in ReaderState : ReaderMoves(r, state)
<1> USE DEF Ordered, AllTyped, ReadersInOrder
<1>1. CASE (WriterNext /\ UNCHANGED reader) \/ UNCHANGED snapshotVars
  BY <1>1 DEF snapshotVars, Next
<1>2. ~PowerLoss
  BY NoPowerLoss DEF Ledger
<1>3. ASSUME NEW r \in Readers, BeginOpen(r) \/ BeginRefresh(r)
      PROVE  \E state \in ReaderState : ReaderMoves(r, state)
  BY <1>3, BeginInOrder DEF ReaderMoves, KeepsSnapshot
<1>4. ASSUME NEW r \in Readers, ReadSlot(r)
      PROVE  \E state \in ReaderState : ReaderMoves(r, state)
  BY <1>4, ReadInOrder DEF ReaderMoves, KeepsSnapshot
<1>5. ASSUME NEW r \in Readers, FinishOpen(r)
      PROVE  \E state \in ReaderState : ReaderMoves(r, state)
  BY <1>5, FinishOpenInOrder DEF ReaderMoves
<1>6. ASSUME NEW r \in Readers, FinishRefresh(r)
      PROVE  \E state \in ReaderState : ReaderMoves(r, state)
  BY <1>6, FinishRefreshInOrder DEF ReaderMoves
<1>7. ASSUME NEW r \in Readers, CloseReader(r)
      PROVE  \E state \in ReaderState : ReaderMoves(r, state)
  BY <1>7, ClosedInOrder, ClosedReaderTyped DEF CloseReader, ReaderMoves, Moves
<1> QED
  BY <1>1, <1>2, <1>3, <1>4, <1>5, <1>6, <1>7 DEF SnapshotsNext

LEMMA SameFileInOrder ==
    ASSUME UNCHANGED vars, NEW state, InOrder(state)
    PROVE  InOrder(state)'
<1>1. UNCHANGED <<history, slots>>
  BY DEF vars, fileVars, ghostVars
<1>2. NewestBegun' = NewestBegun
  BY <1>1 DEF NewestBegun
<1> QED
  BY <1>1, <1>2 DEF InOrder, SeenPublished, Recorded, Holds, Unopened, ScanBegan, ScanSees, Scans

LEMMA ReaderTakes ==
    ASSUME NEW q, NEW state, reader'[q] = state, InOrder(state)'
    PROVE  InOrder(reader[q])'
BY DEF InOrder, SeenPublished, Recorded, Holds, Unopened, ScanBegan, ScanSees, Scans

LEMMA NextOrdered == ASSUME Powered, Ordered, [SnapshotsNext]_snapshotVars PROVE Ordered'
<1>1. Ledger' /\ AllTyped'
  BY WriterStep, NextLedger, NextAllTyped DEF Ordered
<1>2. ASSUME NEW q \in Readers PROVE InOrder(reader[q])'
  <2>1. PICK old \in ReaderState : old = reader[q] /\ InOrder(old)
    BY DEF Ordered, ReadersInOrder, AllTyped, ReadersTyped
  <2>2. InOrder(old)'
    BY <2>1, WriterStep, WriterLeavesInOrder DEF Ordered
  <2>3. CASE reader'[q] = old
    BY <2>2, <2>3, ReaderTakes
  <2>4. CASE \E state \in ReaderState : reader'[q] = state /\ UNCHANGED vars /\ InOrder(state)
    BY <2>4, SameFileInOrder, ReaderTakes
  <2>5. reader \in [Readers -> ReaderState]
    BY DEF Ordered, AllTyped, ReadersTyped
  <2>6. \A r \in Readers, state \in ReaderState : ReaderMoves(r, state) =>
            \/ reader'[q] = old
            \/ reader'[q] = state /\ UNCHANGED vars /\ InOrder(state)
    BY <2>1, <2>5 DEF ReaderMoves, Moves
  <2> QED
    BY <2>1, <2>3, <2>4, <2>6, SystemStep
<1> QED
  BY <1>1, <1>2 DEF Ordered, ReadersInOrder

LEMMA InitOrdered == SnapshotsInit => Ordered
BY InitLedger, InitAllTyped, ClosedInOrder
   DEF SnapshotsInit, Ordered, ReadersInOrder

-----------------------------------------------------------------------------
(* Each snapshot that a reader holds is one published generation of the    *)
(* file: root, extent and catalog belong together, although the slots were *)
(* read one after the other while the writer went on publishing.  With at  *)
(* least three root slots, on a machine that keeps its power.              *)
THEOREM SnapshotPublished == ASSUME Powered PROVE SnapshotsSpec => []SnapshotIsPublished
<1>1. Ordered => SnapshotIsPublished
  <2>1. SUFFICES ASSUME Ordered, NEW r \in Readers, HasSnapshot(r)
                 PROVE  /\ reader[r].generation \in DOMAIN history
                        /\ reader[r].identity = RootIdentity(history[reader[r].generation].root)
                        /\ reader[r].committed_size =
                                history[reader[r].generation].root.committed_size
                        /\ reader[r].catalog = history[reader[r].generation].catalog
    BY DEF SnapshotIsPublished
  <2>2. reader[r].generation # 0 /\ Holds(reader[r])
    BY <2>1 DEF HasSnapshot, Ordered, ReadersInOrder, InOrder
  <2> QED
    BY <2>2 DEF Holds
<1> QED
  BY <1>1, InitOrdered, NextOrdered, PTL DEF SnapshotsSpec

(* No open and no refresh misses a generation that was published before it *)
(* began, if the writer begins at most SlotCount - 2 roots meanwhile.      *)
THEOREM QuickScansSeePublished ==
    ASSUME Powered PROVE SnapshotsSpec => PublishedIsVisibleToQuickScans
<1> DEFINE Visible ==
            \A r \in Readers :
                Completes(r) /\ reader[r].floor > 0
                             /\ NewestBegun <= reader[r].floor + SlotCount - 2
                    => ~Misses(r)
<1>1. ASSUME Ordered, [SnapshotsNext]_snapshotVars, NEW q \in Readers, Completes(q),
             reader[q].floor > 0, NewestBegun <= reader[q].floor + SlotCount - 2
      PROVE  ~Misses(q)
  <2>1. /\ reader \in [Readers -> ReaderState] /\ reader[q] \in ReaderState
        /\ reader[q].floor \in Nat
    BY <1>1, StateTypes DEF Ordered, AllTyped, ReadersTyped
  <2>2. ~UNCHANGED reader
    BY <1>1 DEF Completes, Scanning
  <2>3. PICK r \in Readers, state \in ReaderState : ReaderMoves(r, state)
    BY <1>1, <2>2, SystemStep
  <2>4. reader' = [reader EXCEPT ![r] = state]
    BY <2>3 DEF ReaderMoves, Moves
  <2>5. q = r /\ reader'[q] = state
    BY <1>1, <2>1, <2>4 DEF Completes, Scanning
  <2>6. ~Scans(state)
    BY <1>1, <2>5 DEF Completes, Scanning, Scans
  <2>7. CASE SeesFloor(r, state)
    <3>1. state.generation \in Nat
      BY StateTypes
    <3> QED
      BY <1>1, <2>1, <2>5, <2>7, <3>1 DEF SeesFloor, Misses
  <2>8. CASE state = ClosedReader
    BY <2>5, <2>8 DEF Misses, ClosedReader
  <2> QED
    BY <2>3, <2>6, <2>7, <2>8 DEF ReaderMoves
<1>2. Ordered /\ [SnapshotsNext]_snapshotVars => [Visible]_snapshotVars
  BY <1>1
<1> QED
  BY <1>2, InitOrdered, NextOrdered, PTL DEF SnapshotsSpec, PublishedIsVisibleToQuickScans

-----------------------------------------------------------------------------
(* The file implements SnapshotStore.                                      *)

Log == [g \in DOMAIN history |-> history[g].catalog]
Durable ==
    IF AcknowledgedGenerations = {} THEN 0
    ELSE CHOOSE g \in AcknowledgedGenerations : TRUE
View == [r \in Readers |-> reader[r].generation]
Content == [r \in Readers |-> reader[r].catalog]

LEMMA EntryCatalog == ASSUME NEW e \in Entry PROVE e.catalog \in SUBSET Pointer
BY DEF Entry

LEMMA LogFacts ==
    ASSUME history \in Seq(Entry)
    PROVE  /\ Log \in Seq(SUBSET Pointer) /\ Len(Log) = Len(history)
           /\ DOMAIN Log = DOMAIN history
           /\ DOMAIN history = 1 .. Len(history) /\ Len(history) \in Nat
           /\ \A g \in DOMAIN history : Log[g] = history[g].catalog
<1>1. PICK h \in Seq(Entry), n \in Nat : h = history /\ n = Len(h) /\ DOMAIN h = 1 .. n
  OBVIOUS
<1>2. \A g \in 1 .. n : h[g].catalog \in SUBSET Pointer
  BY <1>1, EntryCatalog
<1>3. [g \in 1 .. n |-> h[g].catalog] \in [1 .. n -> SUBSET Pointer]
  BY <1>2
<1>4. [g \in 1 .. n |-> h[g].catalog] \in Seq(SUBSET Pointer)
  BY <1>1, <1>3
<1>5. Len([g \in 1 .. n |-> h[g].catalog]) = n
  BY <1>1, <1>3
<1> QED
  BY <1>1, <1>4, <1>5 DEF Log

(* A completely written root is one step of the log.                       *)
LEMMA PublishesStep ==
    ASSUME Powered, Ordered, [Next]_vars, UNCHANGED <<reader, acknowledged>>, Publishes
    PROVE  Store!Publish
<1> USE DEF Ordered, Ledger
<1>1. history \in Seq(Entry) /\ history' \in Seq(Entry) /\ Sound
  BY NextTyped DEF Sound, Followed, Typed, BookkeepingTypeOK
<1>2. PICK n \in Nat : /\ n = Len(history) /\ Len(history') = n + 1
                       /\ DOMAIN history = 1 .. n /\ DOMAIN history' = 1 .. n + 1
                       /\ history'[n + 1] = NextEntry
                       /\ \A g \in 1 .. n : history'[g] = history[g]
  <2>1. history' = Append(history, NextEntry)
    BY DEF Publishes
  <2>2. Len(history') = Len(history) + 1
    BY <1>1, <2>1
  <2> QED
    BY <1>1, <2>2, HistoryGrows
<1>3. /\ Len(Log) = n /\ Log \in Seq(SUBSET Pointer) /\ \A g \in 1 .. n : Log[g] = history[g].catalog
  BY <1>1, <1>2, LogFacts
<1>4. /\ Len(Log') = n + 1 /\ Log' \in Seq(SUBSET Pointer)
      /\ \A g \in 1 .. n + 1 : Log'[g] = history'[g].catalog
  <2>1. Log' = [g \in DOMAIN history' |-> history'[g].catalog]
    BY DEF Log
  <2>2. PICK h \in Seq(Entry) : h = history'
    BY <1>1
  <2>3. \A g \in 1 .. n + 1 : h[g].catalog \in SUBSET Pointer
    BY <1>2, <2>2, EntryCatalog
  <2>4. [g \in 1 .. n + 1 |-> h[g].catalog] \in [1 .. n + 1 -> SUBSET Pointer]
    BY <2>3
  <2> QED
    BY <1>2, <2>1, <2>2, <2>4
<1>5. SubSeq(Log', 1, Len(Log)) = Log
  <2>1. PICK a \in Seq(SUBSET Pointer), b \in Seq(SUBSET Pointer) : a = Log /\ b = Log'
    BY <1>3, <1>4
  <2>2. \A g \in 1 .. n : b[g] = a[g]
    BY <1>2, <1>3, <1>4, <2>1
  <2>3. Len(SubSeq(b, 1, n)) = n /\ \A g \in 1 .. n : SubSeq(b, 1, n)[g] = b[g]
    BY <1>4, <2>1
  <2>4. SubSeq(b, 1, n) \in Seq(SUBSET Pointer)
    BY <1>4, <2>1
  <2>5. SubSeq(b, 1, n) = a
    BY <1>3, <2>1, <2>2, <2>3, <2>4
  <2> QED
    BY <1>3, <2>1, <2>5
<1>6. Log'[Len(Log')] = catalog \cup pending
  BY <1>2, <1>4 DEF NextEntry
<1>7. Log'[Len(Log')] \in SUBSET Pointer
  BY <1>4
<1>8. Len(Log) > 0 => Log[Len(Log)] \subseteq Log'[Len(Log')]
  <2>1. step = "root_torn" /\ ~poisoned /\ n = generation
    BY <1>1, <1>2 DEF Publishes, Sound, Followed, OwnsTail, ActiveUnpoisoned
  <2>2. n > 0 => catalog = history[n].catalog
    BY <1>2, <2>1, SessionIsLive DEF Live, WriterFollows
  <2> QED
    BY <1>2, <1>3, <1>6, <2>2
<1>9. AcknowledgedGenerations' = AcknowledgedGenerations
  <2>1. step = "root_torn" /\ Live /\ Lineage
    BY <1>1, SessionIsLive DEF Publishes, Sound, Followed
  <2>2. PICK i : i = RootIdentity(NextRoot) /\ i = Fresh /\ i >= 1
    BY <2>1 DEF Live, OnFile, Fresh, RootIdentity, NextRoot, Root
  <2>3. \A g \in 1 .. n : RootIdentity(history[g].root) # i
    <3>1. \A g \in 1 .. n : RootIdentity(history[g].root) \in Nat /\ RootIdentity(history[g].root) < i
      BY <1>1, <1>2, <2>1, <2>2, HistoryFacts DEF Sound, Followed, Live, OnFile, Chained
    <3> QED
      BY <3>1
  <2>4. acknowledged # i
    <3>1. acknowledged # 0 => \E g \in 1 .. n : RootIdentity(history[g].root) = acknowledged
      BY <1>1, <1>2, <2>1, SlotTypes DEF Lineage, AcknowledgedIsSynced, Sound, Followed,
                              Typed, BookkeepingTypeOK
    <3> QED
      BY <2>2, <2>3, <3>1
  <2>5. RootIdentity(history'[n + 1].root) = i
    <3>1. history'[n + 1].root = NextRoot
      BY <1>2 DEF NextEntry
    <3> QED
      BY <2>2, <3>1
  <2> QED
    BY <1>2, <2>4, <2>5 DEF AcknowledgedGenerations
<1>10. Durable' = Durable /\ View' = View /\ Content' = Content
  BY <1>9 DEF Durable, View, Content
<1> QED
  BY <1>3, <1>4, <1>5, <1>7, <1>8, <1>10
     DEF Store!Publish, Log, Durable, View, Content


(* A disk checkpoint makes everything published durable.                   *)
LEMMA AcknowledgeStep ==
    ASSUME Powered, Ordered, UNCHANGED reader, SyncRoot \/ SyncClean
    PROVE  Store!Acknowledge
<1> USE DEF Ordered, Ledger
<1>1. Sound /\ Typed /\ history \in Seq(Entry) /\ history' = history
  BY DEF SyncRoot, SyncClean, Sound, Followed, Typed, BookkeepingTypeOK
<1>2. step # "closed" /\ ~poisoned
  BY <1>1 DEF SyncRoot, SyncClean, Sound, Followed, OwnsTail, ActiveUnpoisoned
<1>3. PICK n \in Nat : n = Len(history) /\ DOMAIN history = 1 .. n
  BY <1>1
<1>4. n # 0 => acknowledged' = RootIdentity(history[n].root)
  <2>1. CASE SyncRoot
    <3>1. /\ step = "sync_root" /\ Len(history) = generation + 1
          /\ history[generation + 1] = [root |-> NextRoot, catalog |-> catalog \cup pending]
      BY <1>1, <1>2, <2>1, SessionIsLive DEF SyncRoot, Live, WriterFollows
    <3>2. history[n].root = NextRoot
      BY <1>3, <3>1
    <3> QED
      BY <2>1, <3>2 DEF SyncRoot
  <2>2. CASE SyncClean
    BY <1>1, <1>2, <1>3, <2>2, SessionIsLive DEF SyncClean, Live, WriterFollows
  <2> QED
    BY <2>1, <2>2
<1>5. Durable' = n
  <2>1. CASE n = 0
    <3>1. AcknowledgedGenerations' = {}
      BY <1>1, <1>3, <2>1 DEF AcknowledgedGenerations
    <3> QED
      BY <2>1, <3>1 DEF Durable
  <2>2. CASE n # 0
    <3>1. n \in DOMAIN history
      BY <1>3, <2>2
    <3>2. \A f \in 1 .. n - 1 : RootIdentity(history[f].root) < RootIdentity(history[n].root)
      BY <1>1, <3>1, HistoryOnFile DEF Live, OnFile, Chained
    <3>3. \A g \in 1 .. n : g # n => g \in 1 .. n - 1
      BY <1>3
    <3>4. \A g \in 1 .. n : RootIdentity(history[g].root) = RootIdentity(history[n].root) => g = n
      BY <1>1, <1>3, <3>1, <3>2, <3>3, HistoryFacts
    <3>5. AcknowledgedGenerations' = {n}
      BY <1>1, <1>3, <1>4, <2>2, <3>1, <3>4 DEF AcknowledgedGenerations
    <3>6. (CHOOSE g \in {n} : TRUE) = n
      OBVIOUS
    <3> QED
      BY <3>5, <3>6 DEF Durable
  <2> QED
    BY <2>1, <2>2
<1>6. Len(Log) = n
  BY <1>1, <1>3, LogFacts
<1>7. Log' = Log /\ View' = View /\ Content' = Content
  BY <1>1 DEF Log, View, Content
<1> QED
  BY <1>5, <1>6, <1>7 DEF Store!Acknowledge, Log, Durable, View, Content

(* What a reader does shows as one look at the log, or not at all.         *)
LEMMA ReaderStep ==
    ASSUME Powered, Ordered, NEW r \in Readers, NEW state \in ReaderState, ReaderMoves(r, state)
    PROVE  Store!Look(r) \/ Store!Leave(r) \/ UNCHANGED <<Log, Durable, View, Content>>
<1> USE DEF Ordered, Ledger
<1>1. /\ reader' = [reader EXCEPT ![r] = state] /\ UNCHANGED <<history, acknowledged>>
      /\ history \in Seq(Entry)
  BY DEF ReaderMoves, Moves, vars, ghostVars, Sound, Followed, Typed, BookkeepingTypeOK
<1>2. Log' = Log /\ Durable' = Durable
  BY <1>1 DEF Log, Durable, AcknowledgedGenerations
<1>3. reader \in [Readers -> ReaderState]
  BY DEF AllTyped, ReadersTyped
<1>4. /\ View' = [View EXCEPT ![r] = state.generation]
      /\ Content' = [Content EXCEPT ![r] = state.catalog]
      /\ View'[r] = state.generation /\ View[r] = reader[r].generation
      /\ Content[r] = reader[r].catalog
  BY <1>1, <1>3 DEF View, Content
<1>5. CASE KeepsSnapshot(r, state)
  <2>1. View' = View /\ Content' = Content
    BY <1>1, <1>3, <1>5 DEF KeepsSnapshot, View, Content
  <2> QED
    BY <1>2, <2>1
<1>6. CASE TakesUp(r, state)
  <2>1. /\ View'[r] \in 1 .. Len(Log) /\ View'[r] >= View[r]
        /\ state.catalog = Log[View'[r]]
    BY <1>1, <1>4, <1>6, LogFacts DEF TakesUp
  <2>2. View' = [View EXCEPT ![r] = View'[r]] /\ Content' = [Content EXCEPT ![r] = Log[View'[r]]]
    BY <1>4, <2>1
  <2> QED
    BY <1>2, <2>1, <2>2 DEF Store!Look, Log, Durable, View, Content
<1>7. CASE state = ClosedReader
  <2>1. state.generation = 0 /\ state.catalog = {}
    BY <1>7 DEF ClosedReader
  <2>2. View' = [View EXCEPT ![r] = 0] /\ Content' = [Content EXCEPT ![r] = {}]
    BY <1>4, <2>1
  <2> QED
    BY <1>2, <2>2 DEF Store!Leave, Log, Durable, View, Content
<1> QED
  BY <1>5, <1>6, <1>7 DEF ReaderMoves

(* Every step of the writer is a publication, an acknowledgement, or       *)
(* invisible.                                                              *)
LEMMA WriterStepShows ==
    ASSUME Powered, Ordered, [Next]_vars, UNCHANGED reader
    PROVE  Store!Publish \/ Store!Acknowledge \/ UNCHANGED <<Log, Durable, View, Content>>
<1> USE DEF Ordered, Ledger
<1>1. CASE SyncRoot \/ SyncClean
  BY <1>1, AcknowledgeStep
<1>2. CASE ~(SyncRoot \/ SyncClean)
  <2>1. [WriterNext]_vars
    BY NoPowerLoss DEF Next
  <2>2. acknowledged' = acknowledged
    BY <1>2, <2>1 DEF WriterNext, vars, ghostVars, CreateControl, CreateControlFails, Open,
        AppendBatch, AppendBatchFails, BeginCheckpoint, Begin, WriteObjects,
        WriteManifest, SyncObjects, TearRoot, WriteRoot, CallFails, CloseDirty, Leave, Crash
  <2>3. CASE Publishes
    BY <2>2, <2>3, PublishesStep
  <2>4. CASE history' = history
    BY <2>2, <2>4 DEF Log, Durable, View, Content, AcknowledgedGenerations
  <2> QED
    BY <2>3, <2>4, FileStep DEF Tears
<1> QED
  BY <1>1, <1>2

LEMMA InitShows == SnapshotsInit => Store!Init
<1> SUFFICES ASSUME SnapshotsInit PROVE Store!Init
  OBVIOUS
<1>1. history = << >> /\ reader = [r \in Readers |-> ClosedReader]
  BY DEF SnapshotsInit, Init
<1>2. Log = << >>
  BY <1>1 DEF Log
<1>3. AcknowledgedGenerations = {}
  BY <1>1 DEF AcknowledgedGenerations
<1>4. Durable = 0
  BY <1>3 DEF Durable
<1>5. View = [r \in Readers |-> 0] /\ Content = [r \in Readers |-> {}]
  BY <1>1 DEF View, Content, ClosedReader
<1> QED
  BY <1>2, <1>4, <1>5 DEF Store!Init, Log, Durable, View, Content

(* The file implements SnapshotStore: creation, checkpoints, failing calls *)
(* and crashes of the writer, and readers that scan the slots without a    *)
(* lock, together show nothing but a log of snapshots that grows and       *)
(* readers that look at it.                                                *)
THEOREM FileImplementsStore == ASSUME Powered PROVE SnapshotsSpec => ImplementsSnapshotStore
<1>1. Ordered /\ [SnapshotsNext]_snapshotVars => [Store!Next]_(Store!storeVars)
  <2>1. SUFFICES ASSUME Ordered, [SnapshotsNext]_snapshotVars
                 PROVE  Store!Next \/ UNCHANGED <<Log, Durable, View, Content>>
    BY DEF Store!storeVars, Log, Durable, View, Content
  <2>2. CASE [Next]_vars /\ UNCHANGED reader
    BY <2>1, <2>2, WriterStepShows DEF Store!Next
  <2>3. CASE \E r \in Readers, state \in ReaderState : ReaderMoves(r, state)
    BY <2>1, <2>3, ReaderStep DEF Store!Next
  <2> QED
    BY <2>1, <2>2, <2>3, SystemStep
<1> QED
  BY <1>1, InitOrdered, InitShows, NextOrdered, PTL
     DEF SnapshotsSpec, ImplementsSnapshotStore, Store!Spec

=============================================================================
