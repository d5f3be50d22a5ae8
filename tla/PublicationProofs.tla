------------------------- MODULE PublicationProofs -------------------------
(***************************************************************************)
(* What holds of Publication for every number of slots, every bound and    *)
(* every set of checkpoint modes.  First the types, and that what was      *)
(* published stays readable.  Then that recovery is exact, from three      *)
(* slots on: what an open would load is the newest published generation,   *)
(* the writer works from it, and no acknowledged generation is lost,       *)
(* whatever calls fail, wherever processes die, and, as long as no more    *)
(* than SlotCount - 2 roots are published beyond the last synced one,      *)
(* however often the machine loses power.                                  *)
(***************************************************************************)
EXTENDS Publication, SharedLemmas, SequenceTheorems, TLAPS

USE DEF ControlSize, ManifestSize, ZeroIdentity

-----------------------------------------------------------------------------
(* The election.                                                           *)

(* The election loop answers with a candidate whose manifest validates, or *)
(* with InvalidDatabase.                                                   *)
LEMMA LoopAnswersACandidate ==
    ASSUME NEW ce, NEW unreadable, NEW candidates,
           NEW loaded, loaded = LoadSnapshotFromCandidates(ce, unreadable, candidates),
           loaded.kind # "invalid"
    PROVE  loaded \in candidates /\ LoadManifestForRoot(ce, unreadable, loaded)
<1> DEFINE accepted == {c \in candidates :
                            /\ RootHasValidPredecessor(candidates, c)
                            /\ LoadManifestForRoot(ce, unreadable, c)}
           newest == {c \in accepted :
                            \A d \in accepted : d.generation <= c.generation}
<1>1. loaded = IF newest = {} THEN InvalidDatabase ELSE CHOOSE c \in newest : TRUE
  BY DEF LoadSnapshotFromCandidates
<1>2. loaded \in newest
  BY <1>1 DEF InvalidDatabase
<1> QED
  BY <1>2

LEMMA CandidateIsASlot ==
    ASSUME NEW sl, NEW n, NEW c \in CollectRoots(sl, n)
    PROVE  c.kind = "root" /\ \E s \in Slots : c = sl[s]
BY DEF CollectRoots, Decodes

(* Recovery answers with a root that some slot holds and whose manifest    *)
(* validates, or with one of the two markers.                              *)
LEMMA ElectionAnswersASlot ==
    ASSUME NEW sl, NEW ce, NEW unreadable, NEW n,
           NEW loaded, loaded = LoadSnapshot(sl, ce, unreadable, n),
           loaded.kind \notin {"empty", "invalid"}
    PROVE  /\ \E s \in Slots : loaded = sl[s]
           /\ LoadManifestForRoot(ce, unreadable, loaded)
<1>1. loaded = LoadSnapshotFromCandidates(ce, unreadable, CollectRoots(sl, n))
  BY DEF LoadSnapshot, EmptyDatabase
<1> QED
  BY <1>1, LoopAnswersACandidate, CandidateIsASlot

-----------------------------------------------------------------------------
(* Types.                                                                  *)

(* A writer that has a file open appends after the control region.         *)
Session == step # "closed" => write_offset >= ControlSize

Typed == FileTypeOK /\ WriterTypeOK /\ BookkeepingTypeOK /\ Session

(* What an election loads is a typed root with a typed catalog.            *)
LEMMA LoadedRootTyped ==
    ASSUME Typed, NEW sl \in [Slots -> SlotValue], NEW unreadable, NEW n,
           NEW loaded, loaded = LoadSnapshot(sl, cells, unreadable, n), loaded.kind = "root"
    PROVE  /\ loaded \in RootRecord
           /\ loaded.manifest.offset \in Offsets
           /\ cells[loaded.manifest.offset].kind = "manifest"
           /\ cells[loaded.manifest.offset].catalog \in SUBSET Pointer
<1>1. /\ \E s \in Slots : loaded = sl[s]
      /\ LoadManifestForRoot(cells, unreadable, loaded)
  BY ElectionAnswersASlot
<1>2. loaded \in RootRecord
  BY <1>1 DEF SlotValue, ZeroSlot, TornSlot
<1>3. loaded.manifest.offset \in Offsets
      /\ cells[loaded.manifest.offset].kind = "manifest"
  BY <1>1 DEF Typed, FileTypeOK, LoadManifestForRoot
<1>4. cells[loaded.manifest.offset] \in Cell
  BY <1>3 DEF Typed, FileTypeOK
<1> QED
  BY <1>2, <1>3, <1>4 DEF Cell, Junk

LEMMA CellTypes ==
    /\ Junk \in Cell
    /\ \A i \in Nat : Objects(i) \in Cell
    /\ \A i, g \in Nat : \A c \in SUBSET Pointer : Manifest(i, g, c) \in Cell
BY DEF Cell, Junk, Objects, Manifest

LEMMA NextRootType ==
    ASSUME Typed, step # "closed"
    PROVE  NextRoot \in RootRecord /\ NextRoot \in SlotValue
BY DEF Typed, FileTypeOK, WriterTypeOK, BookkeepingTypeOK, Session, NextRoot, Root, RootRecord, SlotValue, Pointer

LEMMA FlagsTyped == FlagsTypeOK /\ [Next]_vars => FlagsTypeOK'
BY DEF FlagsTypeOK, vars, sessionVars, Next, WriterNext, CreateControl,
       CreateControlFails, Open, AppendBatch, AppendBatchFails, BeginCheckpoint,
       Begin, WriteObjects, WriteManifest, SyncObjects, TearRoot, WriteRoot,
       Adopt, SyncRoot, SyncClean, CallFails, ReturnError, CloseDirty, Leave,
       Crash, PowerLoss, NoSession

LEMMA NoSessionTyped ==
    NoSession => WriterTypeOK' /\ Session'
BY PublicationAssumption DEF NoSession, WriterTypeOK, Steps, Session

LEMMA SubSeqTyped ==
    ASSUME NEW S, NEW seq \in Seq(S), NEW n \in 0 .. Len(seq)
    PROVE  SubSeq(seq, 1, n) \in Seq(S)
BY SubSeqProperties

LEMMA AppendTyped ==
    ASSUME NEW S, NEW seq \in Seq(S), NEW v \in S
    PROVE  Append(seq, v) \in Seq(S)
BY AppendProperties

LEMMA WriteCellTyped ==
    ASSUME Typed, step # "closed", NEW c \in Cell, WriteCell(c)
    PROVE  FileTypeOK' /\ size' >= 1
BY PublicationAssumption
   DEF Typed, Session, FileTypeOK, WriterTypeOK, WriteCell, Larger, Offsets

LEMMA WriteSlotTyped ==
    ASSUME FileTypeOK, NEW s, NEW v \in SlotValue, WriteSlot(s, v)
    PROVE  FileTypeOK'
<1>1. slots' \in [Slots -> SlotValue]
  BY DEF FileTypeOK, WriteSlot
<1>2. \A t \in Slots : Append(slot_writes[t], v) \in Seq(SlotValue)
  BY AppendTyped DEF FileTypeOK
<1>3. slot_writes' = [slot_writes EXCEPT ![s] = Append(slot_writes[s], v)]
  BY DEF WriteSlot
<1>4. slot_writes' \in [Slots -> Seq(SlotValue)]
  BY <1>2, <1>3 DEF FileTypeOK
<1> QED
  BY <1>1, <1>4 DEF FileTypeOK, WriteSlot

LEMMA SyncTyped == FileTypeOK /\ Sync => FileTypeOK'
<1> SUFFICES ASSUME FileTypeOK, Sync PROVE FileTypeOK'
  OBVIOUS
<1>1. slot_writes' \in [Slots -> Seq(SlotValue)]
  BY DEF FileTypeOK, Sync
<1> QED
  BY <1>1 DEF FileTypeOK, Sync

LEMMA AdoptTyped ==
    ASSUME Typed, step # "closed", Adopt
    PROVE  WriterTypeOK' /\ Session'
<1>1. CASE closing
  BY <1>1, NoSessionTyped DEF Adopt
<1>2. CASE ~closing
  <2>1. RootIdentity(NextRoot) \in Nat
    BY NextRootType DEF RootIdentity, RootRecord, Pointer
  <2>2. /\ step' = "idle"
        /\ generation' = generation + 1
        /\ committed_size' = write_offset
        /\ previous_root_identity' = RootIdentity(NextRoot)
        /\ catalog' = catalog \cup pending
        /\ pending' = {}
        /\ UNCHANGED <<durability, write_offset>>
    BY <1>2 DEF Adopt
  <2> QED
    BY <2>1, <2>2 DEF Typed, WriterTypeOK, Session, Steps
<1> QED
  BY <1>1, <1>2

LEMMA InitTyped == Init => Typed
<1> SUFFICES ASSUME Init PROVE Typed
  OBVIOUS
<1> USE PublicationAssumption DEF Init
<1>1. FileTypeOK
  BY DEF FileTypeOK, SlotValue, ZeroSlot, Cell, Junk
<1>2. WriterTypeOK /\ Session
  BY DEF WriterTypeOK, Session, Steps
<1>3. BookkeepingTypeOK
  BY DEF BookkeepingTypeOK
<1> QED
  BY <1>1, <1>2, <1>3 DEF Typed

LEMMA NextTyped == Typed /\ [Next]_vars => Typed'
<1> SUFFICES ASSUME Typed, [Next]_vars PROVE Typed'
  OBVIOUS
<1> USE PublicationAssumption
<1>1. CASE CreateControl
  BY <1>1 DEF CreateControl, Typed, FileTypeOK, WriterTypeOK, BookkeepingTypeOK, Session, Steps, ghostVars, boundVars
<1>2. CASE CreateControlFails
  BY <1>2 DEF CreateControlFails, Typed, FileTypeOK, WriterTypeOK, BookkeepingTypeOK, Session, sessionVars, ghostVars
<1>3. CASE Open
  <2>1. PICK unreadable : LET loaded == LoadSnapshot(slots, cells, unreadable, size) IN
            /\ loaded.kind # "invalid"
            /\ generation' = IF loaded.kind = "root" THEN loaded.generation ELSE 0
            /\ committed_size' = IF loaded.kind = "root"
                                 THEN loaded.committed_size ELSE ControlSize
            /\ previous_root_identity' = IF loaded.kind = "root"
                                         THEN RootIdentity(loaded) ELSE ZeroIdentity
            /\ catalog' = IF loaded.kind = "root"
                          THEN cells[loaded.manifest.offset].catalog ELSE {}
    BY <1>3 DEF Open
  <2> DEFINE loaded == LoadSnapshot(slots, cells, unreadable, size)
  <2>2. CASE loaded.kind = "root"
    <3>1. /\ loaded \in RootRecord
          /\ cells[loaded.manifest.offset].catalog \in SUBSET Pointer
      BY <2>2, LoadedRootTyped DEF Typed, FileTypeOK
    <3> HIDE DEF loaded
    <3>2. /\ generation' \in Nat /\ committed_size' \in Nat
          /\ previous_root_identity' \in Nat /\ catalog' \in SUBSET Pointer
      BY <2>1, <2>2, <3>1 DEF loaded, RootRecord, Pointer, RootIdentity
    <3> QED
      BY <1>3, <3>2 DEF Open, Typed, FileTypeOK, WriterTypeOK, BookkeepingTypeOK,
            Session, Steps, fileVars, ghostVars, boundVars
  <2>3. CASE loaded.kind # "root"
    <3>1. /\ generation' \in Nat /\ committed_size' \in Nat
          /\ previous_root_identity' \in Nat /\ catalog' \in SUBSET Pointer
      BY <2>1, <2>3
    <3> QED
      BY <1>3, <3>1 DEF Open, Typed, FileTypeOK, WriterTypeOK, BookkeepingTypeOK,
            Session, Steps, fileVars, ghostVars, boundVars
  <2> QED
    BY <2>2, <2>3
<1>4. CASE AppendBatch
  BY SMTT(40), <1>4, CellTypes DEF AppendBatch, WriteObjectsCell, WriteCell, PendingPointer, Typed, FileTypeOK, WriterTypeOK, BookkeepingTypeOK,
        Session, Pointer, Larger, fileVars, ghostVars, boundVars
<1>5. CASE AppendBatchFails
  BY <1>5, CellTypes DEF AppendBatchFails, WriteCell, Typed, FileTypeOK, WriterTypeOK, BookkeepingTypeOK,
        Session, Larger, fileVars, ghostVars
<1>6. CASE \E mode \in Durabilities : BeginCheckpoint(mode)
  BY <1>6 DEF BeginCheckpoint, Begin, Typed, FileTypeOK, WriterTypeOK, BookkeepingTypeOK, Session, Steps, fileVars,
        ghostVars, boundVars
<1>7. CASE WriteObjects
  <2>1. FileTypeOK'
    BY <1>7, CellTypes, WriteCellTyped
       DEF WriteObjects, WriteObjectsCell, Typed, BookkeepingTypeOK
  <2>2. PendingPointer \in Pointer
    BY DEF PendingPointer, Pointer, Typed, WriterTypeOK, BookkeepingTypeOK
  <2>3. WriterTypeOK' /\ Session'
    BY <1>7, <2>2 DEF WriteObjects, WriteObjectsCell, WriteCell, Typed, WriterTypeOK,
          Session, Steps
  <2>4. BookkeepingTypeOK'
    BY <1>7 DEF WriteObjects, WriteObjectsCell, Typed, BookkeepingTypeOK, ghostVars, boundVars
  <2> QED
    BY <2>1, <2>3, <2>4 DEF Typed
<1>8. CASE WriteManifest
  <2>1. /\ step = "manifest"
        /\ step' \in {"sync_objects", "root"}
        /\ write_offset' = write_offset + 1
        /\ write_offset < MaxSize
        /\ next_identity' = next_identity + 1
        /\ UNCHANGED <<durability, committed_size, generation,
                       previous_root_identity, catalog, pending, ghostVars, boundVars>>
    BY <1>8 DEF WriteManifest, WriteCell
  <2>2. PICK c \in Cell : WriteCell(c)
    <3>1. Manifest(next_identity, generation + 1, catalog \cup pending) \in Cell
      BY CellTypes DEF Typed, WriterTypeOK, BookkeepingTypeOK
    <3> QED
      BY <1>8, <3>1 DEF WriteManifest
  <2>3. FileTypeOK'
    BY <2>1, <2>2, WriteCellTyped
  <2>4. WriterTypeOK' /\ Session'
    BY <2>1 DEF Typed, WriterTypeOK, Session, Steps
  <2>5. BookkeepingTypeOK'
    BY <2>1 DEF Typed, BookkeepingTypeOK, ghostVars, boundVars
  <2> QED
    BY <2>3, <2>4, <2>5 DEF Typed
<1>9. CASE SyncObjects
  BY <1>9, SyncTyped DEF SyncObjects, Typed, WriterTypeOK, BookkeepingTypeOK, Session,
        Steps, sessionVars, boundVars
<1>10. CASE TearRoot
  <2>1. FileTypeOK'
    BY <1>10, WriteSlotTyped DEF TearRoot, Typed, SlotValue
  <2>2. history' \in Seq(Entry)
    <3>1. Smaller(generation, Len(history)) \in 0 .. Len(history)
      BY DEF Typed, WriterTypeOK, BookkeepingTypeOK, Smaller
    <3> QED
      BY <1>10, <3>1, SubSeqTyped DEF TearRoot, Typed, BookkeepingTypeOK
  <2> QED
    BY <1>10, <2>1, <2>2 DEF TearRoot, Typed, WriterTypeOK, BookkeepingTypeOK, Session,
          Steps, sessionVars, boundVars
<1>11. CASE WriteRoot
  <2>1. FileTypeOK'
    BY <1>11, WriteSlotTyped, NextRootType DEF WriteRoot, Typed
  <2>2. WriterTypeOK' /\ Session'
    <3>1. CASE Adopt
      BY <1>11, <3>1, AdoptTyped DEF WriteRoot
    <3>2. CASE step' = "sync_root" /\ UNCHANGED sessionVars
      BY <1>11, <3>2 DEF Typed, WriterTypeOK, Session, Steps, sessionVars, WriteRoot
    <3> QED
      BY <1>11, <3>1, <3>2 DEF WriteRoot
  <2>3. history' \in Seq(Entry)
    <3>1. [root |-> NextRoot, catalog |-> catalog \cup pending] \in Entry
      BY <1>11, NextRootType DEF WriteRoot, Entry, Typed, WriterTypeOK
    <3> QED
      BY <1>11, <3>1, AppendTyped DEF WriteRoot, Typed, BookkeepingTypeOK
  <2> QED
    BY <1>11, <2>1, <2>2, <2>3 DEF WriteRoot, Typed, BookkeepingTypeOK, boundVars
<1>12. CASE SyncRoot
  <2>1. FileTypeOK'
    BY <1>12, SyncTyped DEF SyncRoot, Typed
  <2>2. WriterTypeOK' /\ Session'
    BY <1>12, AdoptTyped DEF SyncRoot
  <2>3. RootIdentity(NextRoot) \in Nat
    BY <1>12, NextRootType DEF SyncRoot, RootIdentity, RootRecord, Pointer
  <2>4. BookkeepingTypeOK'
    BY <1>12, <2>3 DEF SyncRoot, Typed, WriterTypeOK, BookkeepingTypeOK, boundVars
  <2> QED
    BY <2>1, <2>2, <2>4 DEF Typed
<1>13. CASE SyncClean
  BY <1>13 DEF SyncClean, Sync, Typed, FileTypeOK, WriterTypeOK, BookkeepingTypeOK, Session, sessionVars, boundVars
<1>14. CASE CallFails
  <2>1. FileTypeOK'
    <3>1. CASE UNCHANGED fileVars
      BY <3>1 DEF Typed, FileTypeOK, fileVars
    <3>2. CASE WriteCell(Junk)
      BY <1>14, <3>2, CellTypes, WriteCellTyped DEF CallFails
    <3> QED
      BY <1>14, <3>1, <3>2 DEF CallFails
  <2>2. WriterTypeOK' /\ Session'
    <3>1. CASE NoSession
      BY <3>1, NoSessionTyped
    <3>2. CASE ~(creating \/ closing)
      BY <1>14, <3>2 DEF CallFails, ReturnError, Typed, WriterTypeOK, Session, Steps
    <3> QED
      BY <1>14, <3>1, <3>2 DEF CallFails, ReturnError
  <2>3. BookkeepingTypeOK'
    BY <1>14 DEF CallFails, Typed, BookkeepingTypeOK, ghostVars
  <2> QED
    BY <2>1, <2>2, <2>3 DEF Typed
<1>15. CASE CloseDirty
  BY <1>15 DEF CloseDirty, Begin, Typed, FileTypeOK, WriterTypeOK, BookkeepingTypeOK, Session, Steps, fileVars,
        ghostVars, boundVars
<1>16. CASE Leave
  BY <1>16, NoSessionTyped DEF Leave, Typed, FileTypeOK, WriterTypeOK, BookkeepingTypeOK, fileVars, ghostVars, boundVars
<1>17. CASE Crash
  BY <1>17, NoSessionTyped DEF Crash, Typed, FileTypeOK, WriterTypeOK, BookkeepingTypeOK, fileVars, ghostVars
<1>18. CASE PowerLoss
  <2>1. PICK length \in stable_size .. size, left \in SlotsLeft :
        \E region \in ControlLeft(length), objects \in CellsLeft(length) :
            LET elected == IF region = "valid"
                           THEN LoadSnapshot(left, objects, {}, length)
                           ELSE InvalidDatabase
                survivors == {g \in DOMAIN history : history[g].root = elected}
            IN  /\ control' = region
                /\ slots' = left
                /\ cells' = objects
                /\ size' = length
                /\ stable_size' = length
                /\ slot_writes' = [s \in Slots |-> <<left[s]>>]
                /\ synced' = IF survivors = {} THEN 0
                             ELSE CHOOSE g \in survivors : TRUE
                /\ history' = SubSeq(history, 1, synced')
    BY ZenonT(60), <1>18 DEF PowerLoss
  <2>2. left \in [Slots -> SlotValue]
    BY DEF SlotsLeft, Typed, FileTypeOK
  <2>3. control' \in {"none", "torn", "valid"}
    BY <2>1 DEF ControlLeft, Typed, FileTypeOK
  <2>4. cells' \in [Offsets -> Cell]
    BY SMTT(40), <2>1, CellTypes DEF CellsLeft, Typed, FileTypeOK
  <2>5. size' \in 0 .. MaxSize /\ stable_size' \in 0 .. MaxSize
    BY <2>1 DEF Typed, FileTypeOK
  <2>6. slots' \in [Slots -> SlotValue] /\ slot_writes' \in [Slots -> Seq(SlotValue)]
    BY <2>1, <2>2
  <2>7. synced' \in 0 .. Len(history) /\ history' \in Seq(Entry)
    <3>1. PICK survivors \in SUBSET DOMAIN history :
            /\ synced' = IF survivors = {} THEN 0 ELSE CHOOSE g \in survivors : TRUE
            /\ history' = SubSeq(history, 1, synced')
      BY <2>1
    <3>2. synced' \in 0 .. Len(history)
      BY <3>1 DEF Typed, BookkeepingTypeOK
    <3> QED
      BY <3>1, <3>2, SubSeqTyped DEF Typed, BookkeepingTypeOK
  <2>8. WriterTypeOK' /\ Session'
    BY <1>18, NoSessionTyped DEF PowerLoss
  <2>9. BookkeepingTypeOK'
    BY SMTT(40), <1>18, <2>7 DEF PowerLoss, Typed, BookkeepingTypeOK
  <2> QED
    BY <2>3, <2>4, <2>5, <2>6, <2>8, <2>9 DEF Typed, FileTypeOK
<1>19. CASE UNCHANGED vars
  BY <1>19 DEF vars, fileVars, sessionVars, ghostVars, boundVars, Typed, FileTypeOK, WriterTypeOK, BookkeepingTypeOK, Session
<1> QED
  BY <1>1, <1>2, <1>3, <1>4, <1>5, <1>6, <1>7, <1>8, <1>9, <1>10, <1>11,
     <1>12, <1>13, <1>14, <1>15, <1>16, <1>17, <1>18, <1>19 DEF Next, WriterNext

(* Every variable keeps its type.                                          *)
THEOREM TypeCorrect == Spec => []TypeOK
<1>1. Init => Typed /\ FlagsTypeOK
  BY InitTyped DEF Init, FlagsTypeOK
<1>2. (Typed /\ FlagsTypeOK) /\ [Next]_vars => (Typed /\ FlagsTypeOK)'
  BY NextTyped, FlagsTyped
<1>3. Typed /\ FlagsTypeOK => TypeOK
  BY DEF Typed, TypeOK
<1> QED
  BY <1>1, <1>2, <1>3, PTL DEF Spec

-----------------------------------------------------------------------------
(* The writer owns the tail of the file.                                   *)

(* Only an idle writer is poisoned: none is at work, none is closed.       *)
ActiveUnpoisoned == step # "idle" => ~poisoned

OwnsTail == WriterOwnsTail /\ ActiveUnpoisoned

(* A write by a writer that owns the tail extends the file by one unit and *)
(* changes nothing below.                                                  *)
LEMMA WriteAtEnd ==
    ASSUME Typed, step # "closed", write_offset = size, NEW c, WriteCell(c)
    PROVE  /\ size \in Offsets
           /\ size' = size + 1
           /\ DOMAIN cells' = Offsets
           /\ cells'[size] = c
           /\ \A o \in Offsets : o < size => cells'[o] = cells[o]
           /\ \A o \in Offsets : o # size => cells'[o] = cells[o]
BY PublicationAssumption
   DEF Typed, FileTypeOK, WriterTypeOK, Session, WriteCell, Larger, Offsets

LEMMA NextTail == Typed /\ OwnsTail /\ [Next]_vars => OwnsTail'
<1> SUFFICES ASSUME Typed, OwnsTail, [Next]_vars PROVE OwnsTail'
  OBVIOUS
<1> USE DEF OwnsTail, WriterOwnsTail, ActiveUnpoisoned
<1>1. CASE CreateControl
  BY <1>1 DEF CreateControl
<1>2. CASE CreateControlFails
  BY <1>2 DEF CreateControlFails, sessionVars
<1>3. CASE Open
  BY <1>3 DEF Open, fileVars
<1>4. CASE AppendBatch
  BY <1>4, WriteAtEnd DEF AppendBatch, WriteObjectsCell, fileVars
<1>5. CASE AppendBatchFails
  BY <1>5 DEF AppendBatchFails
<1>6. CASE \E mode \in Durabilities : BeginCheckpoint(mode)
  BY <1>6 DEF BeginCheckpoint, Begin, fileVars
<1>7. CASE WriteObjects
  BY <1>7, WriteAtEnd DEF WriteObjects, WriteObjectsCell
<1>8. CASE WriteManifest
  BY <1>8, WriteAtEnd DEF WriteManifest
<1>9. CASE SyncObjects
  BY <1>9 DEF SyncObjects, Sync, sessionVars
<1>10. CASE TearRoot
  BY <1>10 DEF TearRoot, WriteSlot, sessionVars
<1>11. CASE WriteRoot
  BY <1>11 DEF WriteRoot, WriteSlot, Adopt, NoSession, sessionVars
<1>12. CASE SyncRoot
  BY <1>12 DEF SyncRoot, Sync, Adopt, NoSession
<1>13. CASE SyncClean
  BY <1>13 DEF SyncClean, Sync, sessionVars
<1>14. CASE CallFails
  BY <1>14 DEF CallFails, ReturnError, NoSession
<1>15. CASE CloseDirty
  BY <1>15 DEF CloseDirty, Begin, fileVars
<1>16. CASE Leave \/ Crash \/ PowerLoss
  BY <1>16 DEF Leave, Crash, PowerLoss, NoSession
<1>17. CASE UNCHANGED vars
  BY <1>17 DEF vars, fileVars, sessionVars
<1> QED
  BY <1>1, <1>2, <1>3, <1>4, <1>5, <1>6, <1>7, <1>8, <1>9, <1>10, <1>11,
     <1>12, <1>13, <1>14, <1>15, <1>16, <1>17 DEF Next, WriterNext

(* Until an error poisons it, the writer's next object goes exactly to the *)
(* end of the file, after any failure, crash or power loss: bytes of a     *)
(* failed call are never written over and never counted as written.        *)
THEOREM TailOwned == Spec => []WriterOwnsTail
<1>1. Init => Typed /\ OwnsTail
  BY InitTyped DEF Init, OwnsTail, WriterOwnsTail, ActiveUnpoisoned
<1>2. (Typed /\ OwnsTail) /\ [Next]_vars => (Typed /\ OwnsTail)'
  BY NextTyped, NextTail
<1>3. Typed /\ OwnsTail => WriterOwnsTail
  BY DEF OwnsTail
<1> QED
  BY <1>1, <1>2, <1>3, PTL DEF Spec

-----------------------------------------------------------------------------
(* Published generations stay readable.                                    *)

(* What resolves below the end of the file still does after a write there. *)
LEMMA WriteKeepsOwned ==
    ASSUME Typed, step # "closed", write_offset = size, NEW c, WriteCell(c),
           NEW p, Owned(p)
    PROVE  Owned(p)'
<1>1. p.offset \in Offsets /\ p.offset < size
  BY DEF Owned, Authentic, Typed, FileTypeOK
<1>2. cells'[p.offset] = cells[p.offset] /\ size' = size + 1 /\ DOMAIN cells' = Offsets
  BY <1>1, WriteAtEnd
<1> QED
  BY <1>1, <1>2 DEF Owned, Authentic, Typed, FileTypeOK, Offsets

LEMMA WriteKeepsEntry ==
    ASSUME Typed, step # "closed", write_offset = size, NEW c, WriteCell(c),
           NEW e \in Entry, Kept(e)
    PROVE  Kept(e)'
<1>1. e.root.manifest.offset \in Offsets /\ e.root.manifest.offset < size
  BY DEF Kept, Readable, LoadManifestForRoot, Typed, FileTypeOK
<1>2. cells'[e.root.manifest.offset] = cells[e.root.manifest.offset]
      /\ size' = size + 1 /\ DOMAIN cells' = Offsets
  BY <1>1, WriteAtEnd
<1>3. \A p \in e.catalog : p \in Pointer /\ Owned(p)
  BY DEF Kept, Readable, Owned, Entry
<1>4. \A p \in e.catalog : Owned(p)'
  BY <1>3, WriteKeepsOwned
<1>5. LoadManifestForRoot(cells', {}, e.root)
  BY <1>1, <1>2 DEF Kept, Readable, LoadManifestForRoot
<1> QED
  BY <1>1, <1>2, <1>4, <1>5 DEF Kept, Readable, Owned, Typed, FileTypeOK, Offsets

(* Writing an object whose own references resolve keeps the file and the   *)
(* history resolved.                                                       *)
LEMMA WriteKeepsResolved ==
    ASSUME Typed, step # "closed", write_offset = size, Resolved,
           NEW c \in Cell, WriteCell(c),
           c.kind = "manifest" => \A p \in c.catalog : Owned(p),
           history' = history
    PROVE  /\ ManifestsResolve'
           /\ HistoryResolves'
           /\ \A p \in catalog \cup pending : Owned(p)'
<1>1. ASSUME NEW o \in Offsets, cells'[o].kind = "manifest", NEW p \in cells'[o].catalog
      PROVE  Owned(p)'
  <2>1. cells'[o] \in Cell /\ p \in Pointer
    <3>1. cells'[o] \in Cell
      BY WriteCellTyped DEF FileTypeOK
    <3> QED
      BY <1>1, <3>1 DEF Cell, Junk
  <2>2. Owned(p)
    BY <1>1, WriteAtEnd DEF Resolved, ManifestsResolve
  <2> QED
    BY <2>1, <2>2, WriteKeepsOwned
<1>2. ASSUME NEW g \in DOMAIN history
      PROVE  Kept(history[g])'
  <2>1. history[g] \in Entry /\ Kept(history[g])
    BY DEF Resolved, HistoryResolves, Typed, BookkeepingTypeOK
  <2>2. PICK e \in Entry : e = history[g] /\ e = history'[g] /\ Kept(e)
    BY <2>1
  <2>3. Kept(e)'
    BY <2>2, WriteKeepsEntry
  <2> QED
    BY <2>2, <2>3 DEF Kept, Readable
<1>3. \A p \in catalog \cup pending : Owned(p)'
  BY WriteKeepsOwned DEF Resolved, SessionResolves, Typed, WriterTypeOK
<1> QED
  BY <1>1, <1>2, <1>3 DEF ManifestsResolve, HistoryResolves

(* A step that changes no object and does not shrink the file.             *)
LEMMA SameObjects ==
    ASSUME cells' = cells, size' = size, NEW p
    PROVE  Owned(p)' <=> Owned(p)
BY DEF Owned

LEMMA SameFileKeepsResolved ==
    ASSUME Resolved, cells' = cells, size' = size, history' = history
    PROVE  ManifestsResolve' /\ HistoryResolves'
<1>1. ManifestsResolve'
  BY DEF Resolved, ManifestsResolve, Owned
<1>2. HistoryResolves'
  BY DEF Resolved, HistoryResolves, Kept, Readable
<1> QED
  BY <1>1, <1>2

(* Writing the control region of an empty file.                            *)
LEMMA GrowthKeepsResolved ==
    ASSUME Typed, Resolved, size = 0, size' = 1,
           UNCHANGED <<cells, history, catalog, pending>>
    PROVE  ManifestsResolve' /\ HistoryResolves' /\ SessionResolves'
<1>1. \A p : ~Owned(p)
  BY DEF Owned, Authentic, Typed, FileTypeOK, Offsets
<1>2. \A e \in Entry : ~Kept(e)
  BY DEF Kept, Readable, LoadManifestForRoot, Typed, FileTypeOK, Offsets
<1>3. DOMAIN history = {}
  BY <1>2 DEF Resolved, HistoryResolves, Typed, BookkeepingTypeOK
<1>4. SessionResolves'
  BY <1>1 DEF Resolved, SessionResolves
<1>5. ManifestsResolve'
  BY <1>1 DEF Resolved, ManifestsResolve
<1> QED
  BY <1>3, <1>4, <1>5 DEF HistoryResolves

LEMMA NoSessionResolves == NoSession => SessionResolves' /\ ManifestReady'
BY DEF NoSession, SessionResolves, ManifestReady

LEMMA AdoptResolves ==
    ASSUME Resolved, cells' = cells, size' = size, Adopt
    PROVE  SessionResolves' /\ ManifestReady'
<1>1. CASE closing
  BY <1>1, NoSessionResolves DEF Adopt
<1>2. CASE ~closing
  <2>1. step' = "idle" /\ catalog' = catalog \cup pending /\ pending' = {}
    BY <1>2 DEF Adopt
  <2> QED
    BY <2>1, SameObjects DEF Resolved, SessionResolves, ManifestReady
<1> QED
  BY <1>1, <1>2

(* Objects written at the tail resolve from then on.                       *)
LEMMA ObjectsResolve ==
    ASSUME Typed, step # "closed", write_offset = size, Resolved,
           WriteObjectsCell, catalog' = catalog, history' = history
    PROVE  SessionResolves' /\ ManifestsResolve' /\ HistoryResolves'
<1> DEFINE c == Objects(next_identity)
<1>1. c \in Cell /\ c.kind # "manifest"
  BY CellTypes DEF Objects, Typed, BookkeepingTypeOK
<1>2. WriteCell(c) /\ pending' = pending \cup {PendingPointer}
  BY DEF WriteObjectsCell
<1>3. /\ ManifestsResolve' /\ HistoryResolves'
      /\ \A p \in catalog \cup pending : Owned(p)'
  <2> HIDE DEF c
  <2> QED
    BY <1>1, <1>2, WriteKeepsResolved
<1>4. PICK p : p = PendingPointer
  OBVIOUS
<1>5. Owned(p)'
  <2>1. /\ size \in Offsets /\ size' = size + 1
        /\ DOMAIN cells' = Offsets /\ cells'[size] = c
    BY <1>2, WriteAtEnd
  <2>2. p.offset = size /\ p.identity = next_identity
    BY <1>4 DEF PendingPointer
  <2> QED
    BY <2>1, <2>2 DEF Owned, Authentic, Objects, Offsets
<1> QED
  BY <1>2, <1>3, <1>4, <1>5 DEF SessionResolves

LEMMA NextResolved ==
    ASSUME Typed, OwnsTail, Resolved, [WriterNext]_vars
    PROVE  Resolved'
<1>1. CASE CreateControl
  <2>1. /\ UNCHANGED <<cells, history, catalog, pending>>
        /\ size = 0 /\ size' = 1 /\ step' = "manifest"
    BY <1>1 DEF CreateControl, ghostVars
  <2> QED
    BY <2>1, GrowthKeepsResolved DEF Resolved, ManifestReady
<1>2. CASE CreateControlFails
  <2>1. /\ UNCHANGED <<cells, history, catalog, pending, step>>
        /\ size = 0 /\ size' = 1 /\ step = "closed"
    BY <1>2 DEF CreateControlFails, ghostVars, sessionVars
  <2> QED
    BY <2>1, GrowthKeepsResolved DEF Resolved, ManifestReady
<1>3. CASE Open
  <2>1. UNCHANGED <<cells, size, history>> /\ step' = "idle" /\ pending' = pending
    BY <1>3 DEF Open, fileVars, ghostVars
  <2>2. \A p \in catalog' : Owned(p)
    <3>1. PICK unreadable : LET loaded == LoadSnapshot(slots, cells, unreadable, size) IN
              /\ loaded.kind # "invalid"
              /\ catalog' = IF loaded.kind = "root"
                            THEN cells[loaded.manifest.offset].catalog ELSE {}
      BY <1>3 DEF Open
    <3> DEFINE loaded == LoadSnapshot(slots, cells, unreadable, size)
    <3>2. CASE loaded.kind = "root"
      <4>1. loaded.manifest.offset \in Offsets
            /\ cells[loaded.manifest.offset].kind = "manifest"
        BY <3>2, LoadedRootTyped DEF Typed, FileTypeOK
      <4> QED
        BY <3>1, <3>2, <4>1 DEF Resolved, ManifestsResolve
    <3>3. CASE loaded.kind # "root"
      BY <3>1, <3>3
    <3> QED
      BY <3>2, <3>3
  <2>3. ManifestsResolve' /\ HistoryResolves'
    BY <2>1, SameFileKeepsResolved
  <2>4. SessionResolves' /\ ManifestReady'
    BY <2>1, <2>2, SameObjects DEF Resolved, SessionResolves, ManifestReady
  <2> QED
    BY <2>3, <2>4 DEF Resolved
<1>4. CASE AppendBatch
  <2>1. CASE UNCHANGED <<fileVars, pending, write_offset, next_identity>>
    BY <1>4, <2>1, SameFileKeepsResolved, SameObjects
       DEF AppendBatch, Resolved, SessionResolves, ManifestReady, fileVars, ghostVars
  <2>2. CASE WriteObjectsCell
    <3>1. SessionResolves' /\ ManifestsResolve' /\ HistoryResolves'
      BY <1>4, <2>2, ObjectsResolve DEF AppendBatch, ghostVars, OwnsTail, WriterOwnsTail
    <3> QED
      BY <1>4, <3>1 DEF AppendBatch, Resolved, ManifestReady
  <2> QED
    BY <1>4, <2>1, <2>2 DEF AppendBatch
<1>5. CASE AppendBatchFails
  <2>1. CASE UNCHANGED fileVars
    BY <1>5, <2>1, SameFileKeepsResolved, SameObjects
       DEF AppendBatchFails, Resolved, SessionResolves, ManifestReady, fileVars, ghostVars
  <2>2. CASE WriteCell(Junk)
    <3>1. /\ ManifestsResolve' /\ HistoryResolves'
          /\ \A p \in catalog \cup pending : Owned(p)'
      BY <1>5, <2>2, CellTypes, WriteKeepsResolved
         DEF AppendBatchFails, ghostVars, OwnsTail, WriterOwnsTail, Junk
    <3> QED
      BY <1>5, <3>1 DEF AppendBatchFails, Resolved, SessionResolves, ManifestReady
  <2> QED
    BY <1>5, <2>1, <2>2 DEF AppendBatchFails
<1>6. CASE \E mode \in Durabilities : BeginCheckpoint(mode)
  BY <1>6, SameFileKeepsResolved, SameObjects
     DEF BeginCheckpoint, Begin, Resolved, SessionResolves, ManifestReady, fileVars, ghostVars
<1>7. CASE WriteObjects
  <2>1. SessionResolves' /\ ManifestsResolve' /\ HistoryResolves'
    BY <1>7, ObjectsResolve
       DEF WriteObjects, ghostVars, OwnsTail, WriterOwnsTail, ActiveUnpoisoned
  <2> QED
    BY <1>7, <2>1 DEF WriteObjects, Resolved, ManifestReady
<1>8. CASE WriteManifest
  <2> DEFINE c == Manifest(next_identity, generation + 1, catalog \cup pending)
  <2>1. /\ step = "manifest" /\ write_offset = size
        /\ WriteCell(c)
        /\ write_offset' = write_offset + 1
        /\ next_identity' = next_identity + 1
        /\ UNCHANGED <<generation, catalog, pending, history>>
    BY <1>8 DEF WriteManifest, ghostVars, OwnsTail, WriterOwnsTail, ActiveUnpoisoned
  <2>2. c \in Cell /\ \A p \in c.catalog : Owned(p)
    BY CellTypes DEF Typed, WriterTypeOK, BookkeepingTypeOK, Manifest, Resolved, SessionResolves
  <2>3. /\ ManifestsResolve' /\ HistoryResolves'
        /\ \A p \in catalog \cup pending : Owned(p)'
    <3> HIDE DEF c
    <3> QED
      BY <2>1, <2>2, WriteKeepsResolved
  <2>4. size \in Offsets /\ cells'[size] = c
    BY <2>1, WriteAtEnd
  <2>5. ManifestReady'
    BY <2>1, <2>4 DEF ManifestReady, Offsets, Typed, WriterTypeOK, BookkeepingTypeOK
  <2> QED
    BY <2>1, <2>3, <2>5 DEF Resolved, SessionResolves
<1>9. CASE SyncObjects
  BY <1>9, SameFileKeepsResolved, SameObjects
     DEF SyncObjects, Sync, Resolved, SessionResolves, ManifestReady, sessionVars
<1>10. CASE TearRoot
  <2>1. UNCHANGED <<cells, size, catalog, pending, write_offset, generation, next_identity>>
    BY <1>10 DEF TearRoot, WriteSlot, sessionVars
  <2>2. HistoryResolves'
    <3>1. PICK n \in 0 .. Len(history) : history' = SubSeq(history, 1, n)
      BY <1>10 DEF TearRoot, Smaller, Typed, WriterTypeOK, BookkeepingTypeOK
    <3>2. \A g \in DOMAIN history' : g \in DOMAIN history /\ history'[g] = history[g]
      BY <3>1, SubSeqProperties DEF Typed, BookkeepingTypeOK
    <3> QED
      BY <2>1, <3>2 DEF Resolved, HistoryResolves, Kept, Readable
  <2>3. ManifestsResolve'
    BY <2>1 DEF Resolved, ManifestsResolve, Owned
  <2> QED
    BY <1>10, <2>1, <2>2, <2>3, SameObjects
       DEF TearRoot, Resolved, SessionResolves, ManifestReady
<1>11. CASE WriteRoot
  <2>1. UNCHANGED <<cells, size, next_identity>> /\ step = "root_torn" /\ write_offset = size
    BY <1>11 DEF WriteRoot, WriteSlot, OwnsTail, WriterOwnsTail, ActiveUnpoisoned
  <2> DEFINE e == [root |-> NextRoot, catalog |-> catalog \cup pending]
  <2>2. Kept(e)
    <3>1. /\ write_offset > 1
          /\ cells[write_offset - 1] =
                Manifest(next_identity - 1, generation + 1, catalog \cup pending)
      BY <2>1 DEF Resolved, ManifestReady
    <3>2. write_offset - 1 \in Offsets /\ write_offset \in Nat
      BY <3>1, PublicationAssumption DEF Offsets, Typed, WriterTypeOK
    <3>3. \A p \in catalog \cup pending : Owned(p) /\ p.offset \in 1 .. write_offset - 1
      BY <2>1, <3>2 DEF Resolved, SessionResolves, Owned, Authentic, Offsets, Typed, FileTypeOK
    <3>4. LoadManifestForRoot(cells, {}, NextRoot)
      BY <3>1, <3>2, <3>3 DEF LoadManifestForRoot, NextRoot, Root, Manifest, Typed, FileTypeOK
    <3> QED
      BY <2>1, <3>2, <3>3, <3>4 DEF Kept, Readable, Owned, NextRoot, Root
  <2>3. HistoryResolves'
    <3>1. history' = Append(history, e)
      BY <1>11 DEF WriteRoot
    <3>2. \A g \in DOMAIN history' :
              \/ g \in DOMAIN history /\ history'[g] = history[g]
              \/ history'[g] = e
      BY <3>1, AppendProperties DEF Typed, BookkeepingTypeOK
    <3> HIDE DEF e
    <3>3. \A g \in DOMAIN history' : Kept(history'[g])
      BY <2>2, <3>2 DEF Resolved, HistoryResolves
    <3> QED
      BY <2>1, <3>3 DEF HistoryResolves, Kept, Readable
  <2>4. ManifestsResolve'
    BY <2>1 DEF Resolved, ManifestsResolve, Owned
  <2>5. SessionResolves' /\ ManifestReady'
    <3>1. CASE Adopt
      BY <2>1, <3>1, AdoptResolves
    <3>2. CASE step' = "sync_root" /\ UNCHANGED sessionVars
      BY <2>1, <3>2, SameObjects DEF Resolved, SessionResolves, ManifestReady, sessionVars
    <3> QED
      BY <1>11, <3>1, <3>2 DEF WriteRoot
  <2> QED
    BY <2>3, <2>4, <2>5 DEF Resolved
<1>12. CASE SyncRoot
  <2>1. UNCHANGED <<cells, size, history>> /\ Adopt
    BY <1>12 DEF SyncRoot, Sync
  <2> QED
    BY <2>1, AdoptResolves, SameFileKeepsResolved DEF Resolved
<1>13. CASE SyncClean
  BY <1>13, SameFileKeepsResolved, SameObjects
     DEF SyncClean, Sync, Resolved, SessionResolves, ManifestReady, sessionVars
<1>14. CASE CallFails
  <2>1. history' = history
    BY <1>14 DEF CallFails, ghostVars
  <2>2. /\ ManifestsResolve' /\ HistoryResolves'
        /\ \A p \in catalog \cup pending : Owned(p)'
    <3>1. CASE UNCHANGED fileVars
      BY <2>1, <3>1, SameFileKeepsResolved, SameObjects DEF Resolved, SessionResolves, fileVars
    <3>2. CASE WriteCell(Junk)
      BY <1>14, <2>1, <3>2, CellTypes, WriteKeepsResolved
         DEF CallFails, OwnsTail, WriterOwnsTail, ActiveUnpoisoned, Junk
    <3> QED
      BY <1>14, <3>1, <3>2 DEF CallFails
  <2>3. SessionResolves' /\ ManifestReady'
    <3>1. CASE NoSession
      BY <3>1, NoSessionResolves
    <3>2. CASE step' = "idle" /\ UNCHANGED <<catalog, pending>>
      BY <2>2, <3>2 DEF SessionResolves, ManifestReady
    <3> QED
      BY <1>14, <3>1, <3>2 DEF CallFails, ReturnError
  <2> QED
    BY <2>2, <2>3 DEF Resolved
<1>15. CASE CloseDirty
  BY <1>15, SameFileKeepsResolved, SameObjects
     DEF CloseDirty, Begin, Resolved, SessionResolves, ManifestReady, fileVars, ghostVars
<1>16. CASE Leave \/ Crash
  <2>1. UNCHANGED <<cells, size, history>> /\ NoSession
    BY <1>16 DEF Leave, Crash, fileVars, ghostVars
  <2> QED
    BY <2>1, NoSessionResolves, SameFileKeepsResolved DEF Resolved
<1>17. CASE UNCHANGED vars
  BY <1>17, SameFileKeepsResolved, SameObjects
     DEF vars, fileVars, sessionVars, ghostVars, Resolved, SessionResolves, ManifestReady
<1> QED
  BY <1>1, <1>2, <1>3, <1>4, <1>5, <1>6, <1>7, <1>8, <1>9, <1>10, <1>11,
     <1>12, <1>13, <1>14, <1>15, <1>16, <1>17 DEF WriterNext

Grounded == Typed /\ OwnsTail /\ EverythingResolves

LEMMA InitGrounded == Init => Grounded
<1> SUFFICES ASSUME Init PROVE Grounded
  OBVIOUS
<1>1. Typed /\ OwnsTail
  BY InitTyped DEF Init, OwnsTail, WriterOwnsTail, ActiveUnpoisoned
<1>2. Resolved
  BY DEF Init, Resolved, ManifestsResolve, SessionResolves, HistoryResolves,
         ManifestReady, Junk
<1> QED
  BY <1>1, <1>2 DEF Grounded, EverythingResolves

LEMMA WriterKeepsPower == [WriterNext]_vars => power_losses' = power_losses
BY DEF WriterNext, vars, boundVars, CreateControl, CreateControlFails, Open,
       AppendBatch, AppendBatchFails, BeginCheckpoint, Begin, WriteObjects,
       WriteManifest, SyncObjects, TearRoot, WriteRoot, SyncRoot, SyncClean,
       CallFails, CloseDirty, Leave, Crash

LEMMA NextGrounded == Grounded /\ [Next]_vars => Grounded'
<1> SUFFICES ASSUME Grounded, [Next]_vars PROVE Grounded'
  OBVIOUS
<1> USE DEF Grounded
<1>1. Typed' /\ OwnsTail'
  BY NextTyped, NextTail
<1>2. EverythingResolves'
  <2>1. CASE PowerLoss
    BY <2>1 DEF PowerLoss, EverythingResolves, Typed, BookkeepingTypeOK
  <2>2. CASE [WriterNext]_vars
    BY <2>2, WriterKeepsPower, NextResolved DEF EverythingResolves
  <2> QED
    BY <2>1, <2>2 DEF Next
<1> QED
  BY <1>1, <1>2

(* Every generation ever published can still be read in full, for as long  *)
(* as the machine keeps its power: no failed call, crash, restart or later *)
(* checkpoint touches a byte a published generation refers to.             *)
THEOREM PublishedReadable == Spec => []PublishedStaysReadable
<1>1. Grounded => PublishedStaysReadable
  BY DEF Grounded, EverythingResolves, Resolved, HistoryResolves, Kept,
         PublishedStaysReadable, HistoryReadable
<1> QED
  BY <1>1, InitGrounded, NextGrounded, PTL DEF Spec

-----------------------------------------------------------------------------
(* Recovery is exact.                                                      *)

(* What the theorems about recovery suppose.  With SlotCount - 1 roots     *)
(* beyond the synced one a power loss can leave it without its predecessor *)
(* and not the oldest (DurableGenerationLost.cfg).  A manifest that cannot *)
(* be read when a writer opens makes it go back.                           *)
Sheltered ==
    /\ ~ReadFaults
    /\ SlotCount >= 3
    /\ MaxPowerLosses = 0 \/ MemoryBudget + 2 <= SlotCount

-----------------------------------------------------------------------------
(* The inductive invariant.                                                *)

(* What a power loss may leave in a slot.                                  *)
Written(s) == {slot_writes[s][i] : i \in DOMAIN slot_writes[s]}

(* A root that is not recorded is a stranger: an earlier power loss took   *)
(* its generation away and left the root.                                  *)
Recorded(r) == r.generation \in DOMAIN history /\ history[r.generation].root = r

(* Every root in the file has an identity below this one, and the next     *)
(* root to be written has not.                                             *)
Fresh == IF step \in {"sync_objects", "root", "root_torn"}
         THEN next_identity - 1 ELSE next_identity

SlotsHoldRoots ==
    \A s \in Slots :
        /\ slots[s] \in Written(s)
        /\ \A r \in Written(s) : r.kind = "root" =>
            /\ r.generation >= 1
            /\ RootSlot(r.generation) = s
            /\ RootIdentity(r) < Fresh
            /\ r.previous_identity < RootIdentity(r)

Chained ==
    \A g \in DOMAIN history :
        /\ history[g].root.generation = g
        /\ history[g].root.manifest.offset >= ControlSize
        /\ history[g].root.manifest.offset + ManifestSize = history[g].root.committed_size
        /\ history[g].root.committed_size <= size
        /\ RootIdentity(history[g].root) < Fresh
        /\ history[g].root.previous_identity =
                IF g = 1 THEN ZeroIdentity ELSE RootIdentity(history[g - 1].root)
        /\ \A f \in 1 .. g - 1 :
            /\ RootIdentity(history[f].root) < RootIdentity(history[g].root)
            /\ history[f].root.committed_size <= history[g].root.committed_size

(* The generations that recovery may need: the newest two, or, where power *)
(* may be lost, all from the synced one on.                                *)
Recent(g) == IF MaxPowerLosses = 0 THEN g + 1 >= Len(history) ELSE g >= synced

Loads(entry) ==
    /\ LoadManifestForRoot(cells, {}, entry.root)
    /\ cells[entry.root.manifest.offset].catalog = entry.catalog

RecentInPlace ==
    \A g \in DOMAIN history : Recent(g) =>
        slots[RootSlot(g)] = history[g].root /\ Loads(history[g])

(* A stranger newer than the synced generation is never elected: its       *)
(* manifest is gone, or no root in the file is its predecessor.            *)
Blocked(r) ==
    LoadManifestForRoot(cells, {}, r) =>
        \A t \in Slots : \A c \in Written(t) :
            (c.kind = "root" /\ c.generation + 1 = r.generation) =>
                RootIdentity(c) # r.previous_identity

StrangersBlocked ==
    \A s \in Slots : \A r \in Written(s) :
        (r.kind = "root" /\ ~Recorded(r)) =>
            /\ MaxPowerLosses # 0
            /\ synced >= 1
            /\ \A g \in DOMAIN history : RootIdentity(history[g].root) # RootIdentity(r)
            /\ r.generation > synced => Blocked(r)

(* Publication stays within reach of the synced generation.                *)
WithinReach ==
    MaxPowerLosses # 0 =>
        /\ Len(history) + 2 <= synced + SlotCount
        /\ (\/ step \in {"root", "root_torn"}
            \/ step \in {"objects", "manifest"} /\ durability = "memory")
               => generation + 3 <= synced + SlotCount

(* The synced generation is accepted in every image of the file: its slot  *)
(* holds it for certain, and so does its predecessor's, unless no older    *)
(* root is left at all.                                                    *)
Anchored ==
    (MaxPowerLosses # 0 /\ synced >= 1) =>
        /\ Written(RootSlot(synced)) = {history[synced].root}
        /\ history[synced].root.committed_size <= stable_size
        /\ \/ synced = 1
           \/ Written(RootSlot(synced - 1)) = {history[synced - 1].root}
           \/ \A s \in Slots : \A r \in Written(s) : r.kind = "root" => r.generation >= synced

(* An unpoisoned writer continues from the newest generation.              *)
WriterFollows ==
    (step # "closed" /\ ~poisoned) =>
        IF step = "sync_root"
        THEN /\ Len(history) = generation + 1
             /\ history[generation + 1] = [root |-> NextRoot, catalog |-> catalog \cup pending]
        ELSE /\ Len(history) = generation
             /\ IF generation = 0 THEN previous_root_identity = ZeroIdentity
                ELSE /\ committed_size = history[generation].root.committed_size
                     /\ previous_root_identity = RootIdentity(history[generation].root)
                     /\ catalog = history[generation].catalog

PointersBelow ==
    \A p \in catalog \cup pending : p.offset \in ControlSize .. write_offset - 1

(* A file that can be opened, or is open.                                  *)
OnFile ==
    /\ Fresh >= 1
    /\ SlotsHoldRoots /\ Chained /\ RecentInPlace /\ StrangersBlocked /\ Anchored

Live ==
    /\ OnFile
    /\ WithinReach /\ WriterFollows /\ ManifestReady /\ PointersBelow

Unpublished == history = << >> /\ synced = 0 /\ step = "closed"

(* Power was lost before anything was synced, and no root is acceptable.   *)
Dead ==
    /\ Unpublished
    /\ Elected.kind = "invalid"
    /\ stable_size = size
    /\ \A s \in Slots : slot_writes[s] = <<slots[s]>>

(* There is no file, or its control region was never written completely.   *)
Blank ==
    /\ Unpublished
    /\ size = 0 => \A s \in Slots : Written(s) = {ZeroSlot} /\ slots[s] = ZeroSlot

ClosedSession ==
    step = "closed" => /\ generation = 0 /\ previous_root_identity = ZeroIdentity
                       /\ catalog = {} /\ pending = {}

TailIsJunk == \A o \in Offsets : o >= size => cells[o] = Junk

AcknowledgedIsSynced ==
    /\ synced <= Len(history)
    /\ acknowledged # ZeroIdentity =>
        \E g \in 1 .. synced : RootIdentity(history[g].root) = acknowledged

Extent == stable_size <= size /\ (size = 0 <=> control = "none")

Lineage ==
    /\ ClosedSession /\ TailIsJunk /\ AcknowledgedIsSynced /\ Extent
    /\ control = "valid" => Dead \/ Live
    /\ control # "valid" => Blank

-----------------------------------------------------------------------------
(* Slots.                                                                  *)

LEMMA DivisionByCount ==
    ASSUME NEW a \in Nat
    PROVE  /\ a = SlotCount * (a \div SlotCount) + (a % SlotCount)
           /\ a \div SlotCount \in Nat
           /\ a % SlotCount \in Slots
BY SlotCountAssumption DEF Slots

LEMMA Multiples == ASSUME NEW n \in Nat, NEW q \in Int, q >= 1 PROVE n * q >= n
OBVIOUS

LEMMA RootSlotTyped == ASSUME NEW g \in Nat, g >= 1 PROVE RootSlot(g) \in Slots
<1>1. PICK x \in Nat : x = g - 1
  OBVIOUS
<1> QED
  BY <1>1, DivisionByCount DEF RootSlot

(* Generations that are less than SlotCount apart have different slots.    *)
LEMMA SlotsDiffer ==
    ASSUME NEW a \in Nat, a >= 1, NEW b \in Nat, a < b, b < a + SlotCount
    PROVE  RootSlot(a) # RootSlot(b)
<1> DEFINE p == (a - 1) \div SlotCount
           q == (b - 1) \div SlotCount
<1>1. SlotCount \in Nat /\ SlotCount > 0
  BY SlotCountAssumption
<1>2. a - 1 = SlotCount * p + RootSlot(a) /\ p \in Int /\ RootSlot(a) \in Int
  <2>1. PICK x \in Nat : x = a - 1
    OBVIOUS
  <2> QED
    BY <2>1, DivisionByCount DEF RootSlot, Slots
<1>3. b - 1 = SlotCount * q + RootSlot(b) /\ q \in Int /\ RootSlot(b) \in Int
  <2>1. PICK x \in Nat : x = b - 1
    OBVIOUS
  <2> QED
    BY <2>1, DivisionByCount DEF RootSlot, Slots
<1> HIDE DEF p, q
<1>4. SUFFICES ASSUME RootSlot(a) = RootSlot(b) PROVE FALSE
  OBVIOUS
<1>5. b - a = SlotCount * q - SlotCount * p
  BY <1>1, <1>2, <1>3, <1>4
<1>6. SlotCount * q - SlotCount * p = SlotCount * (q - p)
  BY <1>1, <1>2, <1>3
<1>7. q - p >= 1
  BY <1>1, <1>2, <1>3, <1>5, <1>6
<1>8. SlotCount * (q - p) >= SlotCount
  BY <1>1, <1>2, <1>3, <1>7, Multiples
<1> QED
  BY <1>1, <1>2, <1>3, <1>5, <1>6, <1>8

(* What the slots may hold after a write and after a sync.                 *)
LEMMA WrittenAfterWrite ==
    ASSUME FileTypeOK, NEW t \in Slots, NEW v, WriteSlot(t, v), NEW s \in Slots
    PROVE  Written(s)' = IF s = t THEN Written(s) \cup {v} ELSE Written(s)
<1>1. slot_writes[s] \in Seq(SlotValue)
  BY DEF FileTypeOK
<1>2. CASE s # t
  <2>1. slot_writes'[s] = slot_writes[s]
    BY <1>2 DEF WriteSlot, FileTypeOK
  <2> QED
    BY <1>2, <2>1 DEF Written
<1>3. CASE s = t
  <2>1. slot_writes'[s] = Append(slot_writes[s], v)
    BY <1>3 DEF WriteSlot, FileTypeOK
  <2>2. PICK q \in Seq(SlotValue) : q = slot_writes[s]
    BY <1>1
  <2>3. /\ DOMAIN Append(q, v) = 1 .. Len(q) + 1
        /\ DOMAIN q = 1 .. Len(q) /\ Len(q) \in Nat
        /\ \A i \in 1 .. Len(q) : Append(q, v)[i] = q[i]
        /\ Append(q, v)[Len(q) + 1] = v
    OBVIOUS
  <2>4. {Append(q, v)[i] : i \in 1 .. Len(q) + 1} = {q[i] : i \in 1 .. Len(q)} \cup {v}
    BY <2>3
  <2> QED
    BY SMTT(40), <1>3, <2>1, <2>2, <2>3, <2>4 DEF Written
<1> QED
  BY <1>2, <1>3

LEMMA WrittenOnce ==
    ASSUME NEW f, slot_writes' = [s \in Slots |-> <<f[s]>>], NEW s \in Slots
    PROVE  Written(s)' = {f[s]}
<1>1. slot_writes'[s] = <<f[s]>>
  OBVIOUS
<1>2. DOMAIN <<f[s]>> = {1} /\ <<f[s]>>[1] = f[s]
  OBVIOUS
<1> QED
  BY <1>1, <1>2 DEF Written

-----------------------------------------------------------------------------
(* The election.                                                           *)

LEMMA GreatestNumber ==
    ASSUME NEW T, T \subseteq Nat, T # {}, NEW b \in Nat, \A x \in T : x <= b
    PROVE  \E x \in T : \A y \in T : y <= x
<1> DEFINE D == {b - x : x \in T}
<1>1. D \subseteq Nat
  <2>1. \A x \in T : b - x \in Nat
    OBVIOUS
  <2> QED
    BY <2>1
<1>2. D # {}
  OBVIOUS
<1>3. PICK d \in D : \A e \in D : d <= e
  <2> HIDE DEF D
  <2> QED
    BY <1>1, <1>2, LeastNumber
<1>4. PICK x \in T : d = b - x
  OBVIOUS
<1>5. \A y \in T : b - x <= b - y
  BY <1>3, <1>4
<1>6. \A y \in T : y <= x
  BY <1>5
<1> QED
  BY <1>6

Accepted(ce, candidates, r) ==
    /\ r \in candidates
    /\ RootHasValidPredecessor(candidates, r)
    /\ LoadManifestForRoot(ce, {}, r)

(* The election answers with a newest accepted candidate.                  *)
LEMMA ElectedIsNewest ==
    ASSUME NEW sl, NEW ce, NEW n, NEW loaded, loaded = LoadSnapshot(sl, ce, {}, n)
    PROVE  \/ loaded = EmptyDatabase /\ CollectRoots(sl, n) = {} /\ RootSlotsEmpty(sl)
           \/ loaded = InvalidDatabase
           \/ /\ loaded.kind = "root"
              /\ \E s \in Slots : loaded = sl[s]
              /\ Accepted(ce, CollectRoots(sl, n), loaded)
              /\ \A d : Accepted(ce, CollectRoots(sl, n), d)
                            => d.generation <= loaded.generation
<1> DEFINE candidates == CollectRoots(sl, n)
           accepted == {c \in candidates :
                            /\ RootHasValidPredecessor(candidates, c)
                            /\ LoadManifestForRoot(ce, {}, c)}
           newest == {c \in accepted :
                            \A d \in accepted : d.generation <= c.generation}
<1>1. CASE candidates = {} /\ RootSlotsEmpty(sl)
  BY <1>1 DEF LoadSnapshot
<1>2. CASE ~(candidates = {} /\ RootSlotsEmpty(sl))
  <2>1. loaded = IF newest = {} THEN InvalidDatabase ELSE CHOOSE c \in newest : TRUE
    BY <1>2 DEF LoadSnapshot, LoadSnapshotFromCandidates
  <2>2. CASE newest = {}
    BY <2>1, <2>2
  <2>3. CASE newest # {}
    <3>1. loaded \in newest
      BY <2>1, <2>3
    <3>2. loaded \in candidates
      BY <3>1
    <3>3. loaded.kind = "root" /\ \E s \in Slots : loaded = sl[s]
      BY <3>2, CandidateIsASlot
    <3> QED
      BY <3>1, <3>3 DEF Accepted
  <2> QED
    BY <2>2, <2>3
<1> QED
  BY <1>1, <1>2

(* Where a candidate is accepted, one is elected.                          *)
LEMMA SomeIsElected ==
    ASSUME NEW sl \in [Slots -> SlotValue], NEW ce, NEW n, NEW b \in Nat,
           \A d : Accepted(ce, CollectRoots(sl, n), d) => d.generation <= b,
           NEW r, Accepted(ce, CollectRoots(sl, n), r),
           NEW loaded, loaded = LoadSnapshot(sl, ce, {}, n)
    PROVE  loaded # InvalidDatabase /\ loaded # EmptyDatabase
<1> DEFINE candidates == CollectRoots(sl, n)
           accepted == {c \in candidates :
                            /\ RootHasValidPredecessor(candidates, c)
                            /\ LoadManifestForRoot(ce, {}, c)}
           newest == {c \in accepted :
                            \A d \in accepted : d.generation <= c.generation}
           T == {d.generation : d \in accepted}
<1>1. \A d \in candidates : d \in RootRecord /\ d.kind = "root"
  BY CandidateIsASlot DEF SlotValue, ZeroSlot, TornSlot
<1>2. T \subseteq Nat
  BY <1>1 DEF RootRecord
<1>3. T # {}
  BY DEF Accepted
<1>4. \A x \in T : x <= b
  BY DEF Accepted
<1>5. PICK x \in T : \A y \in T : y <= x
  <2> HIDE DEF T
  <2> QED
    BY <1>2, <1>3, <1>4, GreatestNumber
<1>6. PICK c \in accepted : c.generation = x
  OBVIOUS
<1>7. c \in newest
  BY <1>5, <1>6
<1>8. loaded = CHOOSE d \in newest : TRUE
  BY <1>7 DEF LoadSnapshot, LoadSnapshotFromCandidates
<1>9. loaded \in candidates
  BY <1>7, <1>8
<1> QED
  BY <1>1, <1>9 DEF InvalidDatabase, EmptyDatabase

-----------------------------------------------------------------------------
(* Recovery of an image: of the file as it is, or as a power loss may      *)
(* leave it.                                                               *)

Image(left, objects, n) ==
    /\ left \in [Slots -> SlotValue]
    /\ \A s \in Slots : left[s] \in Written(s)
    /\ n \in stable_size .. size
    /\ \A r \in RootRecord :
        /\ LoadManifestForRoot(objects, {}, r) => LoadManifestForRoot(cells, {}, r)
        /\ LoadManifestForRoot(cells, {}, r) /\ r.manifest.offset < stable_size
                => LoadManifestForRoot(objects, {}, r)

LEMMA CandidateFacts ==
    ASSUME SlotsHoldRoots, NEW left, NEW objects, NEW n, Image(left, objects, n),
           NEW c \in CollectRoots(left, n)
    PROVE  /\ c \in RootRecord /\ c.kind = "root" /\ c.generation \in Nat /\ c.generation >= 1
           /\ RootSlot(c.generation) \in Slots
           /\ c = left[RootSlot(c.generation)]
           /\ c \in Written(RootSlot(c.generation))
<1>1. PICK s \in Slots : c = left[s] /\ c.kind = "root"
  BY CandidateIsASlot
<1>2. c \in Written(s) /\ c \in SlotValue
  BY <1>1 DEF Image
<1>3. c \in RootRecord
  BY <1>1, <1>2 DEF SlotValue, ZeroSlot, TornSlot
<1>4. c.generation >= 1 /\ RootSlot(c.generation) = s
  BY <1>1, <1>2 DEF SlotsHoldRoots
<1> QED
  BY <1>1, <1>2, <1>3, <1>4 DEF RootRecord

LEMMA HistoryFacts ==
    ASSUME Typed
    PROVE  /\ Len(history) \in Nat /\ DOMAIN history = 1 .. Len(history)
           /\ synced \in Nat
           /\ \A g \in DOMAIN history :
                /\ g \in Nat /\ g >= 1
                /\ history[g] \in Entry /\ history[g].root \in RootRecord
                /\ history[g].root.kind = "root"
                /\ history[g].root.generation \in Nat
                /\ history[g].root.committed_size \in Nat
                /\ history[g].root.previous_identity \in Nat
                /\ history[g].root.manifest.offset \in Nat
                /\ RootIdentity(history[g].root) \in Nat
                /\ history[g].catalog \in SUBSET Pointer
<1>1. /\ history \in Seq(Entry) /\ Len(history) \in Nat
      /\ DOMAIN history = 1 .. Len(history) /\ synced \in Nat
  BY DEF Typed, BookkeepingTypeOK
<1>2. ASSUME NEW g \in DOMAIN history
      PROVE  /\ g \in Nat /\ g >= 1
             /\ history[g] \in Entry
  BY <1>1
<1>3. ASSUME NEW e \in Entry
      PROVE  /\ e.root \in RootRecord /\ e.root.kind = "root"
             /\ e.root.generation \in Nat
             /\ e.root.committed_size \in Nat
             /\ e.root.previous_identity \in Nat
             /\ e.root.manifest.offset \in Nat
             /\ RootIdentity(e.root) \in Nat
             /\ e.catalog \in SUBSET Pointer
  BY DEF Entry, RootRecord, Pointer, RootIdentity
<1> QED
  BY <1>1, <1>2, <1>3

(* A recorded root in its slot is a candidate.                             *)
LEMMA RecordedIsCandidate ==
    ASSUME Typed, Chained, NEW left, NEW n \in Nat, NEW g \in DOMAIN history,
           left[RootSlot(g)] = history[g].root,
           history[g].root.committed_size <= n
    PROVE  history[g].root \in CollectRoots(left, n)
<1>1. RootSlot(g) \in Slots
  BY HistoryFacts, RootSlotTyped
<1>2. /\ history[g].root.generation = g /\ g >= 1 /\ g \in Nat
      /\ history[g].root.kind = "root"
      /\ history[g].root.manifest.offset >= 1
      /\ history[g].root.manifest.offset + 1 = history[g].root.committed_size
      /\ history[g].root.manifest.offset \in Nat
      /\ history[g].root.committed_size \in Nat
  BY HistoryFacts DEF Chained
<1>3. PICK r : r = history[g].root
  OBVIOUS
<1>4. Decodes(r) /\ r.committed_size \in 1 .. n /\ r = left[RootSlot(g)]
  BY <1>2, <1>3 DEF Decodes
<1> QED
  BY <1>1, <1>2, <1>3, <1>4 DEF CollectRoots

(* Its predecessor makes a recorded root acceptable.                       *)
LEMMA PredecessorSuffices ==
    ASSUME Typed, SlotsHoldRoots, Chained,
           NEW left, NEW objects, NEW n \in Nat, Image(left, objects, n),
           NEW g \in DOMAIN history, history[g].root.committed_size <= n,
           g # 1 => left[RootSlot(g - 1)] = history[g - 1].root
    PROVE  RootHasValidPredecessor(CollectRoots(left, n), history[g].root)
<1>1. history[g].root.generation = g
  BY DEF Chained
<1>2. CASE g = 1
  BY <1>1, <1>2 DEF Chained, RootHasValidPredecessor
<1>3. CASE g # 1
  <2>1. PICK f \in DOMAIN history : f = g - 1
    BY <1>3, HistoryFacts
  <2>2. history[f].root.committed_size <= n /\ history[f].root.generation = f
    BY SMTT(40), <2>1, HistoryFacts DEF Chained
  <2>3. history[f].root \in CollectRoots(left, n)
    BY <1>3, <2>1, <2>2, RecordedIsCandidate
  <2>4. \A c \in CollectRoots(left, n) : c.generation = f => c = history[f].root
    BY <1>3, <2>1, CandidateFacts
  <2>5. history[g].root.previous_identity = RootIdentity(history[f].root)
    BY <1>3, <2>1 DEF Chained
  <2> QED
    BY <1>1, <1>3, <2>1, <2>2, <2>3, <2>4, <2>5 DEF RootHasValidPredecessor
<1> QED
  BY <1>2, <1>3

(* The synced generation is accepted in every image.                       *)
LEMMA AnchorAccepted ==
    ASSUME Typed, Live, MaxPowerLosses # 0, synced >= 1, synced <= Len(history),
           NEW left, NEW objects, NEW n \in Nat, Image(left, objects, n)
    PROVE  Accepted(objects, CollectRoots(left, n), history[synced].root)
<1> USE DEF Live, OnFile
<1>1. PICK g \in DOMAIN history : g = synced
  BY HistoryFacts
<1>2. /\ Written(RootSlot(g)) = {history[g].root}
      /\ history[g].root.committed_size <= stable_size
      /\ \/ g = 1
         \/ Written(RootSlot(g - 1)) = {history[g - 1].root}
         \/ \A s \in Slots : \A r \in Written(s) : r.kind = "root" => r.generation >= g
  BY <1>1 DEF Anchored
<1>3. history[g].root.committed_size <= n
  BY <1>2, HistoryFacts DEF Image, Typed, FileTypeOK
<1>4. left[RootSlot(g)] = history[g].root
  BY <1>2, RootSlotTyped, HistoryFacts DEF Image
<1>5. history[g].root \in CollectRoots(left, n)
  BY <1>3, <1>4, RecordedIsCandidate
<1>6. LoadManifestForRoot(objects, {}, history[g].root)
  <2>1. LoadManifestForRoot(cells, {}, history[g].root)
    BY <1>1, HistoryFacts DEF RecentInPlace, Recent, Loads
  <2>2. history[g].root.manifest.offset < stable_size
    BY SMTT(40), <1>2, HistoryFacts DEF Chained, Typed, FileTypeOK
  <2> QED
    BY <2>1, <2>2, HistoryFacts DEF Image
<1>7. RootHasValidPredecessor(CollectRoots(left, n), history[g].root)
  <2>1. CASE g = 1
    BY <1>3, <2>1, PredecessorSuffices
  <2>2. CASE g # 1 /\ Written(RootSlot(g - 1)) = {history[g - 1].root}
    <3>1. RootSlot(g - 1) \in Slots
      BY <2>2, RootSlotTyped, HistoryFacts
    <3>2. left[RootSlot(g - 1)] = history[g - 1].root
      BY <2>2, <3>1 DEF Image
    <3> QED
      BY <1>3, <3>2, PredecessorSuffices
  <2>3. CASE g # 1 /\ \A s \in Slots : \A r \in Written(s) : r.kind = "root" => r.generation >= g
    <3>1. \A c \in CollectRoots(left, n) : c.generation \in Nat /\ g <= c.generation
      BY <2>3, CandidateFacts
    <3>2. {c \in CollectRoots(left, n) : c.generation = g - 1} = {}
      BY <3>1, HistoryFacts
    <3>3. history[g].root.generation = g
      BY DEF Chained
    <3> QED
      BY <2>3, <3>1, <3>2, <3>3 DEF RootHasValidPredecessor
  <2> QED
    BY <1>2, <2>1, <2>2, <2>3
<1> QED
  BY <1>1, <1>5, <1>6, <1>7 DEF Accepted

(* A stranger is never accepted, unless it is older than the synced one.   *)
LEMMA AcceptedIsRecorded ==
    ASSUME Typed, Live, synced <= Len(history),
           NEW left, NEW objects, NEW n \in Nat, Image(left, objects, n),
           NEW r, Accepted(objects, CollectRoots(left, n), r), ~Recorded(r)
    PROVE  MaxPowerLosses # 0 /\ synced >= 1 /\ r.generation < synced
<1> USE DEF Live, OnFile
<1>1. /\ r \in CollectRoots(left, n)
      /\ RootHasValidPredecessor(CollectRoots(left, n), r)
      /\ LoadManifestForRoot(objects, {}, r)
  BY DEF Accepted
<1>2. /\ r \in RootRecord /\ r.kind = "root" /\ r.generation \in Nat /\ r.generation >= 1
      /\ RootSlot(r.generation) \in Slots
      /\ r \in Written(RootSlot(r.generation))
  BY <1>1, CandidateFacts
<1>3. /\ MaxPowerLosses # 0 /\ synced >= 1
      /\ r.generation > synced => Blocked(r)
  BY <1>2 DEF StrangersBlocked
<1>4. r.generation # synced
  <2>1. SUFFICES ASSUME r.generation = synced PROVE FALSE
    OBVIOUS
  <2>2. r = history[synced].root
    BY <1>2, <1>3, <2>1 DEF Anchored
  <2> QED
    BY <1>3, <2>1, <2>2, HistoryFacts DEF Recorded
<1>5. ~(r.generation > synced)
  <2>1. SUFFICES ASSUME r.generation > synced PROVE FALSE
    OBVIOUS
  <2>2. LoadManifestForRoot(cells, {}, r)
    BY <1>1, <1>2 DEF Image
  <2>3. \A c \in CollectRoots(left, n) :
            c.generation = r.generation - 1 => RootIdentity(c) # r.previous_identity
    <3>1. SUFFICES ASSUME NEW c \in CollectRoots(left, n), c.generation = r.generation - 1
                   PROVE  RootIdentity(c) # r.previous_identity
      OBVIOUS
    <3>2. /\ c.kind = "root" /\ c.generation + 1 = r.generation
          /\ RootSlot(c.generation) \in Slots /\ c \in Written(RootSlot(c.generation))
      BY <1>2, <3>1, CandidateFacts
    <3> QED
      BY <1>3, <2>1, <2>2, <3>2 DEF Blocked
  <2>4. history[synced].root \in CollectRoots(left, n) /\ history[synced].root.generation = synced
    BY <1>3, AnchorAccepted, HistoryFacts DEF Accepted, Chained
  <2>5. r.generation # 1
    BY <1>2, <1>3, <2>1, HistoryFacts
  <2>6. ~(r.generation <= synced)
    BY <1>2, <2>1, HistoryFacts
  <2> QED
    BY <1>1, <2>3, <2>4, <2>5, <2>6 DEF RootHasValidPredecessor
<1> QED
  BY <1>2, <1>3, <1>4, <1>5, HistoryFacts

LEMMA AcceptedIsBounded ==
    ASSUME Typed, Live, synced <= Len(history),
           NEW left, NEW objects, NEW n \in Nat, Image(left, objects, n),
           NEW d, Accepted(objects, CollectRoots(left, n), d)
    PROVE  d.generation \in Nat /\ d.generation <= Len(history)
<1>1. d.generation \in Nat
  BY CandidateFacts DEF Accepted, Live, OnFile
<1>2. CASE Recorded(d)
  BY <1>1, <1>2, HistoryFacts DEF Recorded
<1>3. CASE ~Recorded(d)
  BY <1>1, <1>3, AcceptedIsRecorded, HistoryFacts
<1> QED
  BY <1>2, <1>3

(* Whatever image recovery meets, it loads a recorded generation, and none *)
(* older than the synced one.                                              *)
LEMMA ImageElection ==
    ASSUME Typed, Live, synced <= Len(history),
           NEW left, NEW objects, NEW n \in Nat, Image(left, objects, n),
           NEW loaded, loaded = LoadSnapshot(left, objects, {}, n)
    PROVE  /\ loaded.kind = "root" => Recorded(loaded)
           /\ (MaxPowerLosses # 0 /\ synced >= 1) =>
                    loaded.kind = "root" /\ loaded.generation >= synced
           /\ loaded.kind = "root" => Accepted(objects, CollectRoots(left, n), loaded)
           /\ loaded.kind \in {"root", "empty", "invalid"}
<1> DEFINE candidates == CollectRoots(left, n)
           A == history[synced].root
<1>1. \/ loaded \in {EmptyDatabase, InvalidDatabase}
      \/ /\ loaded.kind = "root"
         /\ Accepted(objects, candidates, loaded)
         /\ \A d : Accepted(objects, candidates, d) => d.generation <= loaded.generation
  BY ElectedIsNewest
<1>2. \A d : Accepted(objects, candidates, d) => d.generation \in Nat
  BY CandidateFacts DEF Accepted, Live, OnFile
<1>3. ASSUME MaxPowerLosses # 0, synced >= 1
      PROVE  loaded.kind = "root" /\ loaded.generation >= synced
  <2>1. Accepted(objects, candidates, A) /\ A.generation = synced
    BY <1>3, AnchorAccepted, HistoryFacts DEF Live, OnFile, Chained
  <2>2. \A d : Accepted(objects, candidates, d) => d.generation <= Len(history)
    BY AcceptedIsBounded
  <2>3. loaded # InvalidDatabase /\ loaded # EmptyDatabase
    BY <2>1, <2>2, SomeIsElected, HistoryFacts DEF Image
  <2> QED
    BY <1>1, <2>1, <2>3
<1>4. ASSUME loaded.kind = "root" PROVE Recorded(loaded)
  <2>1. Accepted(objects, candidates, loaded)
    BY <1>1, <1>4 DEF EmptyDatabase, InvalidDatabase
  <2>2. SUFFICES ASSUME ~Recorded(loaded) PROVE FALSE
    OBVIOUS
  <2>3. MaxPowerLosses # 0 /\ synced >= 1 /\ loaded.generation < synced
    BY <2>1, <2>2, AcceptedIsRecorded
  <2> QED
    BY <1>2, <1>3, <2>1, <2>3, HistoryFacts
<1>5. loaded.kind = "root" => Accepted(objects, candidates, loaded)
  BY <1>1 DEF EmptyDatabase, InvalidDatabase
<1>6. loaded.kind \in {"root", "empty", "invalid"}
  BY <1>1 DEF EmptyDatabase, InvalidDatabase
<1> QED
  BY <1>3, <1>4, <1>5, <1>6

LEMMA CurrentImage ==
    ASSUME Typed, SlotsHoldRoots, Extent
    PROVE  Image(slots, cells, size) /\ size \in Nat
<1>1. size \in Nat /\ size \in stable_size .. size
  BY DEF Typed, FileTypeOK, Extent
<1> QED
  BY <1>1 DEF Image, Typed, FileTypeOK, SlotsHoldRoots

(* The newest generation is accepted in the file as it is.                 *)
LEMMA HeadAccepted ==
    ASSUME Typed, Live, Extent, synced <= Len(history), NEW h, h = Len(history), h >= 1
    PROVE  Accepted(cells, CollectRoots(slots, size), history[h].root)
<1> USE DEF Live, OnFile
<1>1. /\ h \in DOMAIN history /\ h \in Nat
      /\ history[h].root.committed_size <= size
      /\ Image(slots, cells, size) /\ size \in Nat
  BY HistoryFacts, CurrentImage DEF Chained
<1>2. slots[RootSlot(h)] = history[h].root /\ Loads(history[h])
  BY <1>1, HistoryFacts DEF RecentInPlace, Recent
<1>3. history[h].root \in CollectRoots(slots, size)
  BY <1>1, <1>2, RecordedIsCandidate
<1>4. CASE h = 1
  BY <1>1, <1>2, <1>3, <1>4, PredecessorSuffices DEF Accepted, Loads
<1>5. CASE h # 1 /\ Recent(h - 1)
  <2>1. slots[RootSlot(h - 1)] = history[h - 1].root
    BY SMTT(40), <1>1, <1>5, HistoryFacts DEF RecentInPlace
  <2> QED
    BY <1>1, <1>2, <1>3, <2>1, PredecessorSuffices DEF Accepted, Loads
<1>6. CASE ~Recent(h - 1)
  <2>1. MaxPowerLosses # 0 /\ synced = h
    BY <1>1, <1>6, HistoryFacts DEF Recent
  <2> QED
    BY <1>1, <2>1, AnchorAccepted
<1> QED
  BY <1>4, <1>5, <1>6

LEMMA HeadElected ==
    ASSUME Typed, Live, Extent, synced <= Len(history)
    PROVE  /\ Len(history) = 0 => Elected.kind \in {"empty", "invalid"}
           /\ Len(history) # 0 => Elected = history[Len(history)].root
<1> DEFINE h == Len(history)
           candidates == CollectRoots(slots, size)
<1>1. PICK loaded : loaded = Elected
  OBVIOUS
<1>2. Image(slots, cells, size) /\ size \in Nat /\ h \in Nat
  BY CurrentImage, HistoryFacts DEF Live, OnFile
<1>3. /\ loaded.kind = "root" => Recorded(loaded)
      /\ loaded.kind \in {"root", "empty", "invalid"}
  BY <1>1, <1>2, ImageElection DEF Elected
<1>4. CASE h = 0
  BY <1>1, <1>3, <1>4, HistoryFacts DEF Recorded
<1>5. CASE h # 0
  <2>1. Accepted(cells, candidates, history[h].root) /\ history[h].root.generation = h
    <3>1. h >= 1 /\ h \in DOMAIN history
      BY <1>2, <1>5, HistoryFacts
    <3> QED
      BY <3>1, HeadAccepted DEF Live, OnFile, Chained
  <2>2. \A d : Accepted(cells, candidates, d) => d.generation <= h
    BY <1>2, AcceptedIsBounded
  <2>3. loaded # InvalidDatabase /\ loaded # EmptyDatabase
    <3>1. slots \in [Slots -> SlotValue]
      BY DEF Typed, FileTypeOK
    <3> QED
      BY <1>1, <1>2, <2>1, <2>2, <3>1, SomeIsElected DEF Elected
  <2>4. loaded.kind = "root" /\ h <= loaded.generation
    BY <1>1, <2>1, <2>3, ElectedIsNewest DEF Elected
  <2>5. Recorded(loaded)
    BY <1>3, <2>4
  <2>6. loaded.generation = h
    BY <1>2, <2>4, <2>5, HistoryFacts DEF Recorded
  <2> QED
    BY <1>1, <1>5, <2>5, <2>6 DEF Recorded
<1> QED
  BY <1>4, <1>5

-----------------------------------------------------------------------------
(* What each kind of step does to the file.                                *)

LEMMA FreshTyped == Typed => Fresh \in Nat /\ Fresh <= next_identity /\ next_identity \in Nat
BY DEF Typed, BookkeepingTypeOK, Fresh

LEMMA NextFreshTyped == Typed' => Fresh' \in Nat
<1> SUFFICES ASSUME Typed' PROVE Fresh' \in Nat
  OBVIOUS
<1>1. PICK n \in Nat \ {0} : n = next_identity'
  BY DEF Typed, BookkeepingTypeOK
<1>2. Fresh' \in {n - 1, n}
  BY <1>1, Zenon DEF Fresh
<1>3. {n - 1, n} \subseteq Nat
  OBVIOUS
<1> QED
  BY <1>2, <1>3

LEMMA SlotFacts ==
    ASSUME Typed, NEW s \in Slots, NEW r \in Written(s), r.kind = "root"
    PROVE  /\ r \in RootRecord /\ r.generation \in Nat
           /\ RootIdentity(r) \in Nat /\ r.previous_identity \in Nat
<1>1. r \in SlotValue
  BY DEF Written, Typed, FileTypeOK
<1>2. r \in RootRecord
  BY <1>1 DEF SlotValue, ZeroSlot, TornSlot
<1> QED
  BY <1>2 DEF RootRecord, RootIdentity, Pointer

(* A history that stays is chained as long as the file gets no shorter.    *)
LEMMA ChainedStays ==
    ASSUME Typed, Typed', Chained, history' = history, size <= size', Fresh <= Fresh',
           Fresh \in Nat, Fresh' \in Nat
    PROVE  Chained'
<1>1. size \in Nat /\ size' \in Nat
  BY DEF Typed, FileTypeOK
<1> SUFFICES ASSUME NEW g \in DOMAIN history
             PROVE  /\ history[g].root.generation = g
                    /\ history[g].root.manifest.offset >= ControlSize
                    /\ history[g].root.manifest.offset + ManifestSize = history[g].root.committed_size
                    /\ history[g].root.committed_size <= size'
                    /\ RootIdentity(history[g].root) < Fresh'
                    /\ history[g].root.previous_identity =
                            IF g = 1 THEN ZeroIdentity ELSE RootIdentity(history[g - 1].root)
                    /\ \A f \in 1 .. g - 1 :
                        /\ RootIdentity(history[f].root) < RootIdentity(history[g].root)
                        /\ history[f].root.committed_size <= history[g].root.committed_size
  BY DEF Chained, RootIdentity
<1>2. /\ history[g].root.committed_size \in Nat /\ history[g].root.committed_size <= size
      /\ RootIdentity(history[g].root) \in Nat /\ RootIdentity(history[g].root) < Fresh
  BY HistoryFacts DEF Chained
<1>3. history[g].root.committed_size <= size' /\ RootIdentity(history[g].root) < Fresh'
  BY <1>1, <1>2
<1> QED
  BY <1>3 DEF Chained

LEMMA AnchoredStays ==
    ASSUME Anchored, history' = history, synced' = synced, slot_writes' = slot_writes,
           stable_size' = stable_size
    PROVE  Anchored'
BY DEF Anchored, Written

(* The file stays as it is.                                                *)
LEMMA FileUnchanged ==
    ASSUME Typed, Typed', OnFile, TailIsJunk, Extent,
           UNCHANGED <<control, slots, cells, size, stable_size, slot_writes, history, synced>>,
           Fresh <= Fresh'
    PROVE  OnFile' /\ TailIsJunk' /\ Extent'
<1> USE DEF OnFile
<1>0. Fresh' >= 1
  BY FreshTyped, NextFreshTyped
<1>1. \A s \in Slots : Written(s)' = Written(s)
  BY DEF Written
<1>2. Fresh \in Nat /\ Fresh' \in Nat
  BY FreshTyped, NextFreshTyped
<1>3. SlotsHoldRoots'
  BY <1>1, <1>2, SlotFacts DEF SlotsHoldRoots
<1>4. Chained'
  <2>1. size <= size'
    BY DEF Typed, FileTypeOK
  <2> QED
    BY <1>2, <2>1, ChainedStays
<1>5. RecentInPlace'
  BY DEF RecentInPlace, Recent, Loads
<1>6. StrangersBlocked'
  BY <1>1 DEF StrangersBlocked, Blocked, Recorded
<1>7. Anchored'
  BY AnchoredStays
<1> QED
  BY <1>0, <1>3, <1>4, <1>5, <1>6, <1>7 DEF TailIsJunk, Extent

(* An object is written at the end.                                        *)
LEMMA ObjectWritten ==
    ASSUME Typed, Typed', OnFile, TailIsJunk, Extent, step # "closed", write_offset = size,
           NEW c, WriteCell(c), c.kind = "manifest" => c.identity = next_identity,
           UNCHANGED <<history, synced>>, Fresh <= Fresh'
    PROVE  OnFile' /\ TailIsJunk' /\ Extent'
<1> USE DEF OnFile
<1>0. Fresh' >= 1
  BY FreshTyped, NextFreshTyped
<1>1. /\ size \in Offsets /\ size' = size + 1
      /\ DOMAIN cells' = Offsets /\ DOMAIN cells = Offsets
      /\ cells'[size] = c
      /\ \A o \in Offsets : o # size => cells'[o] = cells[o]
      /\ UNCHANGED <<control, slots, stable_size, slot_writes>>
  BY WriteAtEnd DEF WriteCell, Typed, FileTypeOK
<1>2. \A s \in Slots : Written(s)' = Written(s)
  BY <1>1 DEF Written
<1>3. Fresh \in Nat /\ Fresh' \in Nat /\ Fresh <= next_identity /\ next_identity \in Nat
  BY FreshTyped, NextFreshTyped
<1>4. ASSUME NEW r \in RootRecord, RootIdentity(r) < next_identity
      PROVE  LoadManifestForRoot(cells', {}, r) <=> LoadManifestForRoot(cells, {}, r)
  <2>1. CASE r.manifest.offset = size
    <3>1. cells[size] = Junk
      BY <1>1 DEF TailIsJunk, Typed, FileTypeOK
    <3>2. ~LoadManifestForRoot(cells, {}, r)
      BY <2>1, <3>1 DEF LoadManifestForRoot, Junk
    <3>3. ~LoadManifestForRoot(cells', {}, r)
      BY <1>1, <1>3, <1>4, <2>1 DEF LoadManifestForRoot, RootIdentity
    <3> QED
      BY <3>2, <3>3
  <2>2. CASE r.manifest.offset # size
    BY <1>1, <2>2 DEF LoadManifestForRoot
  <2> QED
    BY <2>1, <2>2
<1>5. SlotsHoldRoots'
  BY <1>1, <1>2, <1>3, SlotFacts DEF SlotsHoldRoots
<1>6. Chained'
  <2>1. \A g \in DOMAIN history : /\ history[g].root.committed_size <= size'
                                  /\ RootIdentity(history[g].root) < Fresh'
    <3>1. size \in Nat
      BY DEF Typed, FileTypeOK
    <3> QED
      BY <1>1, <1>3, <3>1, HistoryFacts DEF Chained
  <2> QED
    BY <2>1 DEF Chained
<1>7. RecentInPlace'
  <2>1. SUFFICES ASSUME NEW g \in DOMAIN history, Recent(g)
                 PROVE  slots'[RootSlot(g)] = history[g].root /\ Loads(history[g])'
    BY DEF RecentInPlace, Recent
  <2>2. slots[RootSlot(g)] = history[g].root /\ Loads(history[g])
    BY <2>1 DEF RecentInPlace
  <2>3. RootIdentity(history[g].root) < next_identity /\ history[g].root \in RootRecord
    BY <1>3, HistoryFacts DEF Chained
  <2>4. history[g].root.manifest.offset # size
    BY SMTT(40), <1>1, HistoryFacts DEF Chained, Offsets
  <2>5. history[g].root.manifest.offset \in Offsets
    BY <1>1, <2>2 DEF Loads, LoadManifestForRoot
  <2>6. cells'[history[g].root.manifest.offset] = cells[history[g].root.manifest.offset]
    BY <1>1, <2>4, <2>5
  <2> QED
    BY <1>1, <1>4, <2>2, <2>3, <2>6 DEF Loads
<1>8. StrangersBlocked'
  <2>1. SUFFICES ASSUME NEW s \in Slots, NEW r \in Written(s), r.kind = "root", ~Recorded(r)
                 PROVE  /\ MaxPowerLosses # 0
                        /\ synced >= 1
                        /\ \A g \in DOMAIN history : RootIdentity(history[g].root) # RootIdentity(r)
                        /\ r.generation > synced => Blocked(r)'
    BY <1>2 DEF StrangersBlocked, Recorded
  <2>2. RootIdentity(r) < next_identity /\ r \in RootRecord
    BY <1>3, <2>1, SlotFacts DEF SlotsHoldRoots
  <2>3. LoadManifestForRoot(cells', {}, r) <=> LoadManifestForRoot(cells, {}, r)
    BY <1>4, <2>2
  <2> QED
    BY <1>2, <2>1, <2>3 DEF StrangersBlocked, Blocked
<1>9. Anchored'
  BY <1>1, AnchoredStays
<1>10. TailIsJunk'
  BY <1>1 DEF TailIsJunk, Offsets
<1>11. Extent'
  BY <1>1 DEF Extent, Offsets, Typed, FileTypeOK
<1> QED
  BY <1>0, <1>5, <1>6, <1>7, <1>8, <1>9, <1>10, <1>11

(* The file is synced, and with it the newest generation.                  *)
LEMMA FileSynced ==
    ASSUME Typed, Typed', OnFile, TailIsJunk, Extent, Sync,
           history' = history, synced <= Len(history), synced' = Len(history), Fresh <= Fresh'
    PROVE  OnFile' /\ TailIsJunk' /\ Extent'
<1> USE DEF OnFile
<1> DEFINE h == Len(history)
<1>1. UNCHANGED <<control, slots, cells, size>> /\ stable_size' = size
  BY DEF Sync
<1>2. \A s \in Slots : /\ slots[s] \in Written(s) /\ slots[s] \in Written(s)'
                       /\ \A r \in Written(s)' : r = slots[s] /\ r \in Written(s)
  BY WrittenOnce DEF Sync, SlotsHoldRoots
<1>3. Fresh \in Nat /\ Fresh' \in Nat /\ Fresh' >= 1
  BY FreshTyped, NextFreshTyped
<1>4. SlotsHoldRoots'
  BY <1>1, <1>2, <1>3, SlotFacts DEF SlotsHoldRoots
<1>5. Chained'
  <2>1. size <= size'
    BY <1>1 DEF Typed, FileTypeOK
  <2> QED
    BY <1>3, <2>1, ChainedStays
<1>6. \A g \in DOMAIN history : Recent(g)' => Recent(g)
  BY HistoryFacts DEF Recent
<1>7. RecentInPlace'
  BY <1>1, <1>6 DEF RecentInPlace, Loads
<1>8. StrangersBlocked'
  <2>1. SUFFICES ASSUME NEW s \in Slots, NEW r \in Written(s)', r.kind = "root", ~Recorded(r)
                 PROVE  /\ MaxPowerLosses # 0
                        /\ synced' >= 1
                        /\ \A g \in DOMAIN history : RootIdentity(history[g].root) # RootIdentity(r)
                        /\ r.generation > synced' => Blocked(r)'
    BY DEF StrangersBlocked, Recorded
  <2>2. /\ MaxPowerLosses # 0
        /\ synced >= 1
        /\ \A g \in DOMAIN history : RootIdentity(history[g].root) # RootIdentity(r)
        /\ r.generation > synced => Blocked(r)
    BY <1>2, <2>1 DEF StrangersBlocked
  <2>3. r.generation > synced' => r.generation > synced
    BY <1>2, <2>1, SlotFacts, HistoryFacts
  <2>4. Blocked(r) => Blocked(r)'
    BY <1>1, <1>2 DEF Blocked
  <2> QED
    BY <2>2, <2>3, <2>4, HistoryFacts
<1>9. Anchored'
  <2>1. SUFFICES ASSUME MaxPowerLosses # 0, h >= 1
                 PROVE  /\ Written(RootSlot(h))' = {history[h].root}
                        /\ history[h].root.committed_size <= size
                        /\ \/ h = 1
                           \/ Written(RootSlot(h - 1))' = {history[h - 1].root}
                           \/ \A s \in Slots : \A r \in Written(s)' : r.kind = "root" => r.generation >= h
    BY <1>1 DEF Anchored
  <2>2. h \in DOMAIN history /\ Recent(h) /\ h \in Nat
    BY <2>1, HistoryFacts DEF Recent
  <2>3. RootSlot(h) \in Slots /\ slots[RootSlot(h)] = history[h].root
    BY <2>2, HistoryFacts, RootSlotTyped DEF RecentInPlace
  <2>4. Written(RootSlot(h))' = {history[h].root}
    BY <1>2, <2>3
  <2>5. CASE h = 1
    BY <2>2, <2>4, <2>5 DEF Chained
  <2>6. CASE h # 1
    <3>1. PICK g \in DOMAIN history : g = h - 1
      BY <2>2, <2>6, HistoryFacts
    <3>2. RootSlot(g) \in Slots
      BY HistoryFacts, RootSlotTyped
    <3>3. CASE Recent(g)
      <4>1. slots[RootSlot(g)] = history[g].root
        BY <3>3 DEF RecentInPlace
      <4>2. Written(RootSlot(g))' = {history[g].root}
        BY <1>2, <3>2, <4>1
      <4> QED
        BY <2>2, <2>4, <3>1, <4>2 DEF Chained
    <3>4. CASE ~Recent(g)
      <4>1. synced = h
        BY <2>1, <2>2, <3>1, <3>4, HistoryFacts DEF Recent
      <4>2. \/ Written(RootSlot(g)) = {history[g].root}
            \/ \A s \in Slots : \A r \in Written(s) : r.kind = "root" => r.generation >= h
        BY <2>1, <2>6, <3>1, <4>1 DEF Anchored
      <4>3. \/ Written(RootSlot(g))' = {history[g].root}
            \/ \A s \in Slots : \A r \in Written(s)' : r.kind = "root" => r.generation >= h
        BY <1>2, <3>2, <4>2
      <4> QED
        BY <2>2, <2>4, <3>1, <4>3 DEF Chained
    <3> QED
      BY <3>3, <3>4
  <2> QED
    BY <2>5, <2>6
<1>10. TailIsJunk' /\ Extent'
  BY <1>1 DEF TailIsJunk, Extent, Typed, FileTypeOK
<1> QED
  BY <1>3, <1>4, <1>5, <1>7, <1>8, <1>9, <1>10

(* The slot of the next root holds nothing that recovery may need.         *)
LEMMA SlotIsFree ==
    ASSUME Sheltered, Typed, WithinReach, step \in {"root", "root_torn"},
           Len(history) = generation, synced <= Len(history),
           NEW t, t = RootSlot(generation + 1)
    PROVE  /\ t \in Slots
           /\ \A g \in DOMAIN history : Recent(g) => RootSlot(g) # t
           /\ (MaxPowerLosses # 0 /\ synced >= 1) => RootSlot(synced) # t
           /\ (MaxPowerLosses # 0 /\ synced >= 2) => RootSlot(synced - 1) # t
<1>1. /\ generation \in Nat /\ synced \in Nat /\ SlotCount \in Nat /\ SlotCount >= 3
      /\ DOMAIN history = 1 .. generation
      /\ MaxPowerLosses # 0 => generation + 3 <= synced + SlotCount
  BY HistoryFacts, SlotCountAssumption DEF WithinReach, Sheltered
<1>2. t \in Slots
  BY <1>1, RootSlotTyped
<1>3. \A g \in DOMAIN history : Recent(g) => g < generation + 1 /\ generation + 1 < g + SlotCount
  BY <1>1 DEF Recent
<1>4. \A g \in DOMAIN history : Recent(g) => RootSlot(g) # t
  <2>1. SUFFICES ASSUME NEW g \in DOMAIN history, Recent(g) PROVE RootSlot(g) # t
    OBVIOUS
  <2>2. g \in Nat /\ g >= 1 /\ generation + 1 \in Nat /\ g < generation + 1 /\ generation + 1 < g + SlotCount
    BY <1>1, <1>3, <2>1
  <2> QED
    BY <2>2, SlotsDiffer
<1>5. (MaxPowerLosses # 0 /\ synced >= 1) => RootSlot(synced) # t
  BY <1>1, SlotsDiffer
<1>6. (MaxPowerLosses # 0 /\ synced >= 2) => RootSlot(synced - 1) # t
  <2>1. SUFFICES ASSUME MaxPowerLosses # 0, synced >= 2 PROVE RootSlot(synced - 1) # t
    OBVIOUS
  <2>2. PICK x \in Nat : x = synced - 1 /\ x >= 1
    BY <1>1, <2>1
  <2>3. x < generation + 1 /\ generation + 1 < x + SlotCount
    BY <1>1, <2>1, <2>2
  <2> QED
    BY <1>1, <2>2, <2>3, SlotsDiffer
<1> QED
  BY <1>2, <1>4, <1>5, <1>6

(* A slot that recovery does not need is torn.                             *)
LEMMA SlotTorn ==
    ASSUME Typed, Typed', OnFile, TailIsJunk, Extent,
           NEW t \in Slots, WriteSlot(t, TornSlot),
           \A g \in DOMAIN history : Recent(g) => RootSlot(g) # t,
           (MaxPowerLosses # 0 /\ synced >= 1) => RootSlot(synced) # t,
           (MaxPowerLosses # 0 /\ synced >= 2) => RootSlot(synced - 1) # t,
           synced <= Len(history), history' = history, synced' = synced, Fresh <= Fresh'
    PROVE  OnFile' /\ TailIsJunk' /\ Extent'
<1> USE DEF OnFile
<1>1. /\ UNCHANGED <<control, cells, size, stable_size>>
      /\ slots' = [slots EXCEPT ![t] = TornSlot]
      /\ DOMAIN slots = Slots
  BY DEF WriteSlot, Typed, FileTypeOK
<1>2. \A s \in Slots : Written(s)' = IF s = t THEN Written(s) \cup {TornSlot} ELSE Written(s)
  BY WrittenAfterWrite DEF Typed
<1>3. \A s \in Slots : \A r : r.kind = "root" => (r \in Written(s)' <=> r \in Written(s))
  BY <1>2 DEF TornSlot
<1>4. Fresh \in Nat /\ Fresh' \in Nat /\ Fresh' >= 1
  BY FreshTyped, NextFreshTyped
<1>5. SlotsHoldRoots'
  <2>1. \A s \in Slots : slots'[s] \in Written(s)'
    BY <1>1, <1>2 DEF SlotsHoldRoots
  <2>2. \A s \in Slots : \A r \in Written(s)' : r.kind = "root" =>
            /\ r.generation >= 1
            /\ RootSlot(r.generation) = s
            /\ RootIdentity(r) < Fresh'
            /\ r.previous_identity < RootIdentity(r)
    BY <1>3, <1>4, SlotFacts DEF SlotsHoldRoots
  <2> QED
    BY <2>1, <2>2 DEF SlotsHoldRoots
<1>6. Chained'
  <2>1. size <= size'
    BY <1>1 DEF Typed, FileTypeOK
  <2> QED
    BY <1>1, <1>4, <2>1, ChainedStays
<1>7. RecentInPlace'
  <2>1. \A g \in DOMAIN history : Recent(g) => slots'[RootSlot(g)] = slots[RootSlot(g)]
    BY <1>1, HistoryFacts, RootSlotTyped
  <2> QED
    BY <1>1, <2>1 DEF RecentInPlace, Recent, Loads
<1>8. StrangersBlocked'
  BY <1>1, <1>3 DEF StrangersBlocked, Blocked, Recorded
<1>9. Anchored'
  <2>1. SUFFICES ASSUME MaxPowerLosses # 0, synced >= 1
                 PROVE  /\ Written(RootSlot(synced))' = {history[synced].root}
                        /\ history[synced].root.committed_size <= stable_size
                        /\ \/ synced = 1
                           \/ Written(RootSlot(synced - 1))' = {history[synced - 1].root}
                           \/ \A s \in Slots : \A r \in Written(s)' : r.kind = "root" => r.generation >= synced
    BY <1>1 DEF Anchored
  <2>2. Written(RootSlot(synced))' = Written(RootSlot(synced))
    BY <1>2, <2>1, HistoryFacts, RootSlotTyped
  <2>3. synced # 1 => Written(RootSlot(synced - 1))' = Written(RootSlot(synced - 1))
    <3>1. SUFFICES ASSUME synced # 1
                   PROVE  Written(RootSlot(synced - 1))' = Written(RootSlot(synced - 1))
      OBVIOUS
    <3>2. RootSlot(synced - 1) \in Slots /\ synced >= 2
      BY <2>1, <3>1, HistoryFacts, RootSlotTyped
    <3> QED
      BY <1>2, <2>1, <3>2
  <2> QED
    BY <1>3, <2>1, <2>2, <2>3 DEF Anchored
<1>10. TailIsJunk' /\ Extent'
  BY <1>1 DEF TailIsJunk, Extent
<1> QED
  BY <1>4, <1>5, <1>6, <1>7, <1>8, <1>9, <1>10

(* The next root is written to it.                                         *)
LEMMA RootWritten ==
    ASSUME Typed, Typed', OnFile, TailIsJunk, Extent,
           NEW t \in Slots, NEW h \in Nat, h = Len(history), t = RootSlot(h + 1),
           NEW r \in RootRecord, NEW c, WriteSlot(t, r),
           \A g \in DOMAIN history : Recent(g) => RootSlot(g) # t,
           (MaxPowerLosses # 0 /\ synced >= 1) => RootSlot(synced) # t,
           (MaxPowerLosses # 0 /\ synced >= 2) => RootSlot(synced - 1) # t,
           synced <= Len(history), synced' = synced,
           history' = Append(history, [root |-> r, catalog |-> c]),
           r.generation = h + 1,
           r.manifest.offset >= 1, r.manifest.offset + 1 = r.committed_size,
           r.committed_size = size,
           Fresh <= RootIdentity(r), RootIdentity(r) < Fresh',
           r.previous_identity = IF h = 0 THEN 0 ELSE RootIdentity(history[h].root),
           LoadManifestForRoot(cells, {}, r), cells[r.manifest.offset].catalog = c
    PROVE  OnFile' /\ TailIsJunk' /\ Extent'
<1> USE DEF OnFile
<1> DEFINE e == [root |-> r, catalog |-> c]
<1>1. /\ UNCHANGED <<control, cells, size, stable_size>>
      /\ slots' = [slots EXCEPT ![t] = r]
      /\ DOMAIN slots = Slots
  BY DEF WriteSlot, Typed, FileTypeOK
<1>2. \A s \in Slots : Written(s)' = IF s = t THEN Written(s) \cup {r} ELSE Written(s)
  BY WrittenAfterWrite DEF Typed
<1>3. /\ Fresh \in Nat /\ Fresh' \in Nat /\ Fresh' >= 1
      /\ RootIdentity(r) \in Nat /\ r.previous_identity \in Nat /\ Fresh <= Fresh'
  BY FreshTyped, NextFreshTyped DEF RootRecord, RootIdentity, Pointer
<1>4. r.kind = "root" /\ r.committed_size \in Nat /\ r.manifest.offset \in Nat
  BY DEF RootRecord, Pointer
<1>5. /\ DOMAIN history = 1 .. h /\ DOMAIN history' = 1 .. h + 1 /\ Len(history') = h + 1
      /\ \A g \in 1 .. h : history'[g] = history[g]
      /\ history'[h + 1] = e
  BY HistoryFacts DEF Typed, BookkeepingTypeOK
<1>6. r.previous_identity < RootIdentity(r)
  <2>1. CASE h = 0
    BY <1>3, <2>1
  <2>2. CASE h # 0
    BY <1>3, <1>5, <2>2, HistoryFacts DEF Chained
  <2> QED
    BY <2>1, <2>2
<1>7. SlotsHoldRoots'
  <2>1. \A s \in Slots : slots'[s] \in Written(s)'
    BY <1>1, <1>2 DEF SlotsHoldRoots
  <2>2. \A s \in Slots : \A d \in Written(s)' : d.kind = "root" =>
            /\ d.generation >= 1
            /\ RootSlot(d.generation) = s
            /\ RootIdentity(d) < Fresh'
            /\ d.previous_identity < RootIdentity(d)
    <3>1. SUFFICES ASSUME NEW s \in Slots, NEW d \in Written(s)', d.kind = "root"
                   PROVE  /\ d.generation >= 1
                          /\ RootSlot(d.generation) = s
                          /\ RootIdentity(d) < Fresh'
                          /\ d.previous_identity < RootIdentity(d)
      OBVIOUS
    <3>2. CASE d \in Written(s)
      BY <1>3, <3>1, <3>2, SlotFacts DEF SlotsHoldRoots
    <3>3. CASE d = r /\ s = t
      BY <1>6, <3>3
    <3> QED
      BY <1>2, <3>1, <3>2, <3>3
  <2> QED
    BY <2>1, <2>2 DEF SlotsHoldRoots
<1>8. Chained'
  <2>1. SUFFICES ASSUME NEW g \in 1 .. h + 1
                 PROVE  /\ history'[g].root.generation = g
                        /\ history'[g].root.manifest.offset >= 1
                        /\ history'[g].root.manifest.offset + 1 = history'[g].root.committed_size
                        /\ history'[g].root.committed_size <= size
                        /\ RootIdentity(history'[g].root) < Fresh'
                        /\ history'[g].root.previous_identity =
                                IF g = 1 THEN 0 ELSE RootIdentity(history'[g - 1].root)
                        /\ \A f \in 1 .. g - 1 :
                            /\ RootIdentity(history'[f].root) < RootIdentity(history'[g].root)
                            /\ history'[f].root.committed_size <= history'[g].root.committed_size
    BY <1>1, <1>5 DEF Chained
  <2>2. CASE g \in 1 .. h
    <3>1. history'[g] = history[g] /\ \A f \in 1 .. g - 1 : history'[f] = history[f]
      BY <1>5, <2>2
    <3>2. g # 1 => history'[g - 1] = history[g - 1]
      BY <1>5, <2>2
    <3> QED
      BY SMTT(40), <1>3, <1>5, <2>2, <3>1, <3>2, HistoryFacts DEF Chained
  <2>3. CASE g = h + 1
    <3>1. history'[g].root = r
      BY <1>5, <2>3
    <3>2. ASSUME NEW f \in 1 .. h
          PROVE  /\ history'[f] = history[f]
                 /\ RootIdentity(history[f].root) < RootIdentity(r)
                 /\ history[f].root.committed_size <= r.committed_size
      <4>1. RootIdentity(history[f].root) < Fresh /\ history[f].root.committed_size <= size
        BY <1>5 DEF Chained
      <4> QED
        BY SMTT(40), <1>3, <1>5, <4>1, HistoryFacts
    <3>3. g # 1 => history'[g - 1] = history[h]
      BY <1>5, <2>3
    <3>4. r.previous_identity = IF g = 1 THEN 0 ELSE RootIdentity(history'[g - 1].root)
      BY <2>3, <3>3
    <3> QED
      BY SMTT(40), <1>3, <1>4, <2>3, <3>1, <3>2, <3>4
  <2> QED
    BY <2>1, <2>2, <2>3
<1>9. RecentInPlace'
  <2>1. SUFFICES ASSUME NEW g \in 1 .. h + 1, Recent(g)'
                 PROVE  /\ slots'[RootSlot(g)] = history'[g].root
                        /\ LoadManifestForRoot(cells, {}, history'[g].root)
                        /\ cells[history'[g].root.manifest.offset].catalog = history'[g].catalog
    BY <1>1, <1>5 DEF RecentInPlace, Loads
  <2>2. CASE g \in 1 .. h
    <3>1. Recent(g) /\ g \in DOMAIN history
      BY <1>5, <2>1, <2>2, HistoryFacts DEF Recent
    <3>2. RootSlot(g) # t /\ RootSlot(g) \in Slots
      BY <2>2, <3>1, RootSlotTyped
    <3>3. slots[RootSlot(g)] = history[g].root /\ Loads(history[g])
      BY <3>1 DEF RecentInPlace
    <3> QED
      BY <1>1, <1>5, <2>2, <3>2, <3>3 DEF Loads
  <2>3. CASE g = h + 1
    BY <1>1, <1>5, <2>3 DEF Loads
  <2> QED
    BY <2>1, <2>2, <2>3
<1>10. StrangersBlocked'
  <2>1. SUFFICES ASSUME NEW s \in Slots, NEW d \in Written(s)', d.kind = "root", ~Recorded(d)'
                 PROVE  /\ MaxPowerLosses # 0
                        /\ synced >= 1
                        /\ \A g \in 1 .. h + 1 : RootIdentity(history'[g].root) # RootIdentity(d)
                        /\ d.generation > synced => Blocked(d)'
    BY <1>5 DEF StrangersBlocked
  <2>2. d # r
    BY <1>5, <2>1 DEF Recorded
  <2>3. d \in Written(s)
    BY <1>2, <2>1, <2>2
  <2>4. ~Recorded(d)
    BY <1>5, <2>1, HistoryFacts DEF Recorded
  <2>5. /\ MaxPowerLosses # 0
        /\ synced >= 1
        /\ \A g \in 1 .. h : RootIdentity(history[g].root) # RootIdentity(d)
        /\ d.generation > synced => Blocked(d)
    BY <1>5, <2>1, <2>3, <2>4 DEF StrangersBlocked
  <2>6. /\ RootIdentity(d) < RootIdentity(r) /\ d.previous_identity < RootIdentity(r)
        /\ RootIdentity(d) \in Nat /\ d.previous_identity \in Nat
    BY <1>3, <2>1, <2>3, SlotFacts DEF SlotsHoldRoots
  <2>7. \A g \in 1 .. h + 1 : RootIdentity(history'[g].root) # RootIdentity(d)
    BY <1>3, <1>5, <2>5, <2>6
  <2>8. Blocked(d) => Blocked(d)'
    <3>1. SUFFICES ASSUME Blocked(d), LoadManifestForRoot(cells, {}, d),
                          NEW u \in Slots, NEW b \in Written(u)', b.kind = "root",
                          b.generation + 1 = d.generation
                   PROVE  RootIdentity(b) # d.previous_identity
      BY <1>1 DEF Blocked
    <3>2. CASE b \in Written(u)
      BY <3>1, <3>2 DEF Blocked
    <3>3. CASE b = r
      BY <1>3, <2>6, <3>3
    <3> QED
      BY <1>2, <3>1, <3>2, <3>3
  <2> QED
    BY <2>5, <2>7, <2>8
<1>11. Anchored'
  <2>1. SUFFICES ASSUME MaxPowerLosses # 0, synced >= 1
                 PROVE  /\ Written(RootSlot(synced))' = {history'[synced].root}
                        /\ history'[synced].root.committed_size <= stable_size
                        /\ \/ synced = 1
                           \/ Written(RootSlot(synced - 1))' = {history'[synced - 1].root}
                           \/ \A s \in Slots : \A d \in Written(s)' : d.kind = "root" => d.generation >= synced
    BY <1>1 DEF Anchored
  <2>2. synced \in 1 .. h /\ history'[synced] = history[synced]
    BY <1>5, <2>1, HistoryFacts
  <2>3. Written(RootSlot(synced))' = Written(RootSlot(synced))
    BY <1>2, <2>1, HistoryFacts, RootSlotTyped
  <2>4. synced # 1 => /\ Written(RootSlot(synced - 1))' = Written(RootSlot(synced - 1))
                      /\ history'[synced - 1] = history[synced - 1]
    <3>1. SUFFICES ASSUME synced # 1
                   PROVE  /\ Written(RootSlot(synced - 1))' = Written(RootSlot(synced - 1))
                          /\ history'[synced - 1] = history[synced - 1]
      OBVIOUS
    <3>2. RootSlot(synced - 1) \in Slots /\ synced >= 2 /\ synced - 1 \in 1 .. h
      BY <2>1, <2>2, <3>1, HistoryFacts, RootSlotTyped
    <3> QED
      BY <1>2, <1>5, <2>1, <3>2
  <2>5. r.generation >= synced
    BY <2>2
  <2>6. (\A s \in Slots : \A d \in Written(s) : d.kind = "root" => d.generation >= synced)
            => \A s \in Slots : \A d \in Written(s)' : d.kind = "root" => d.generation >= synced
    BY <1>2, <2>5
  <2> QED
    BY <2>1, <2>2, <2>3, <2>4, <2>6 DEF Anchored
<1>12. TailIsJunk' /\ Extent'
  BY <1>1 DEF TailIsJunk, Extent
<1> QED
  BY <1>3, <1>7, <1>8, <1>9, <1>10, <1>11, <1>12

-----------------------------------------------------------------------------
(* The writer's steps.                                                     *)

OnSession == WithinReach /\ WriterFollows /\ ManifestReady /\ PointersBelow

LEMMA ActiveIsLive ==
    ASSUME Lineage, step # "closed"
    PROVE  control = "valid" /\ Live
BY DEF Lineage, Dead, Blank, Unpublished

LEMMA FreshGrows ==
    ASSUME Typed, next_identity' = next_identity,
           \/ step' \notin {"sync_objects", "root", "root_torn"}
           \/ step \in {"sync_objects", "root", "root_torn"}
    PROVE  Fresh <= Fresh'
<1>1. PICK n \in Nat : n = next_identity /\ n = next_identity'
  BY DEF Typed, BookkeepingTypeOK
<1>2. CASE step' \notin {"sync_objects", "root", "root_torn"}
  <2>1. Fresh' = n
    BY <1>1, <1>2 DEF Fresh
  <2> QED
    BY <1>1, <2>1, FreshTyped
<1>3. CASE step \in {"sync_objects", "root", "root_torn"}
  <2>1. Fresh = n - 1
    BY <1>1, <1>3 DEF Fresh
  <2>2. Fresh' \in {n - 1, n}
    BY <1>1, Zenon DEF Fresh
  <2> QED
    BY <2>1, <2>2
<1> QED
  BY <1>2, <1>3

LEMMA NoSessionFollows ==
    ASSUME NoSession, MaxPowerLosses # 0 => Len(history') + 2 <= synced' + SlotCount
    PROVE  OnSession' /\ ClosedSession'
BY DEF NoSession, OnSession, WithinReach, WriterFollows, ManifestReady, PointersBelow, ClosedSession

(* The writer takes over the generation it has published.                  *)
LEMMA AdoptFollows ==
    ASSUME Typed, step # "closed", ~poisoned, PointersBelow, Adopt,
           Len(history') = generation + 1,
           history'[generation + 1] = [root |-> NextRoot, catalog |-> catalog \cup pending],
           MaxPowerLosses # 0 => Len(history') + 2 <= synced' + SlotCount
    PROVE  OnSession' /\ ClosedSession'
<1>1. CASE closing
  BY <1>1, NoSessionFollows DEF Adopt
<1>2. CASE ~closing
  <2>1. /\ step' = "idle" /\ poisoned' = poisoned
        /\ generation' = generation + 1 /\ generation \in Nat
        /\ committed_size' = write_offset
        /\ previous_root_identity' = RootIdentity(NextRoot)
        /\ catalog' = catalog \cup pending /\ pending' = {}
        /\ write_offset' = write_offset
    BY <1>2 DEF Adopt, Typed, WriterTypeOK
  <2>2. WriterFollows'
    <3>1. committed_size' = history'[generation'].root.committed_size
      BY <2>1 DEF NextRoot, Root
    <3>2. previous_root_identity' = RootIdentity(history'[generation'].root)
      BY <2>1
    <3>3. catalog' = history'[generation'].catalog /\ Len(history') = generation'
      BY <2>1
    <3> QED
      BY <2>1, <3>1, <3>2, <3>3 DEF WriterFollows
  <2>3. WithinReach' /\ ManifestReady' /\ ClosedSession'
    BY <2>1 DEF WithinReach, ManifestReady, ClosedSession
  <2>4. PointersBelow'
    BY <2>1 DEF PointersBelow
  <2> QED
    BY <2>2, <2>3, <2>4 DEF OnSession
<1> QED
  BY <1>1, <1>2

LEMMA LiveSplit == Live <=> OnFile /\ OnSession
BY DEF Live, OnSession

LEMMA AcknowledgedKept ==
    ASSUME AcknowledgedIsSynced, UNCHANGED <<history, synced, acknowledged>>
    PROVE  AcknowledgedIsSynced'
BY DEF AcknowledgedIsSynced

(* A root that the synced generation covers is acknowledged.               *)
LEMMA AcknowledgedNow ==
    ASSUME Typed, history' = history, synced' = Len(history),
           acknowledged' = IF synced' = 0 THEN 0 ELSE RootIdentity(history[synced'].root)
    PROVE  AcknowledgedIsSynced'
<1>1. PICK n \in Nat : n = Len(history) /\ n = synced'
  BY HistoryFacts
<1>2. CASE n = 0
  BY <1>1, <1>2 DEF AcknowledgedIsSynced
<1>3. CASE n # 0
  <2>1. n \in 1 .. n
    BY <1>3
  <2>2. RootIdentity(history'[n].root) = acknowledged'
    BY <1>1, <1>3
  <2> QED
    BY <1>1, <2>1, <2>2 DEF AcknowledgedIsSynced
<1> QED
  BY <1>2, <1>3

LEMMA BeginFollows ==
    ASSUME Sheltered, Typed, Typed', OwnsTail, Lineage, step = "idle", ~poisoned,
           NEW mode, Begin(mode), mode = "memory" => WithinBudget,
           MaxPowerLosses \in Nat
    PROVE  OnFile' /\ TailIsJunk' /\ Extent' /\ OnSession' /\ ClosedSession' /\ control' = "valid"
           /\ AcknowledgedIsSynced'
<1>1. /\ UNCHANGED <<control, slots, cells, size, stable_size, slot_writes>>
      /\ UNCHANGED <<history, synced, acknowledged, next_identity, poisoned>>
      /\ UNCHANGED <<generation, committed_size, previous_root_identity, catalog, pending, write_offset>>
      /\ step' = "objects" /\ durability' = mode
  BY DEF Begin, fileVars, ghostVars
<1>2. control = "valid" /\ OnFile /\ OnSession
  BY ActiveIsLive, LiveSplit
<1>3. OnFile' /\ TailIsJunk' /\ Extent'
  <2>1. Fresh <= Fresh'
    BY <1>1, FreshGrows
  <2> QED
    BY <1>1, <1>2, <2>1, FileUnchanged DEF Lineage
<1>4. WithinReach'
  <2>1. mode = "memory" /\ MaxPowerLosses # 0 => generation + 3 <= synced + SlotCount
    BY SlotCountAssumption, PublicationAssumption, HistoryFacts DEF WithinBudget, Sheltered, Typed, WriterTypeOK
  <2> QED
    BY <1>1, <1>2, <2>1 DEF WithinReach, OnSession
<1>5. WriterFollows' /\ ManifestReady' /\ PointersBelow' /\ ClosedSession'
  BY <1>1, <1>2 DEF WriterFollows, ManifestReady, PointersBelow, ClosedSession, OnSession
<1> QED
  BY <1>1, <1>2, <1>3, <1>4, <1>5, AcknowledgedKept DEF OnSession, Lineage

LEMMA StaysLive ==
    ASSUME OnFile', OnSession', ClosedSession', TailIsJunk', AcknowledgedIsSynced', Extent',
           control' = "valid"
    PROVE  Lineage'
BY DEF Lineage, Live, OnSession

Standing == Sheltered /\ Typed /\ Typed' /\ OwnsTail /\ Lineage

LEMMA CreateFollows == Standing /\ CreateControl => Lineage'
<1> SUFFICES ASSUME Standing, CreateControl PROVE Lineage'
  OBVIOUS
<1> USE DEF Standing
<1>1. /\ step = "closed" /\ size = 0 /\ size' = 1 /\ control' = "valid"
      /\ write_offset' = 1 /\ step' = "manifest"
      /\ UNCHANGED <<slots, cells, stable_size, slot_writes, history, synced, acknowledged,
                     next_identity, generation, previous_root_identity, catalog, pending>>
  BY DEF CreateControl, ghostVars
<1>2. Blank /\ control = "none"
  BY <1>1 DEF Lineage, Extent
<1>3. /\ Len(history) = 0 /\ DOMAIN history = {} /\ synced = 0
      /\ \A s \in Slots : Written(s)' = {ZeroSlot} /\ slots'[s] = ZeroSlot
  <2>1. history = << >> /\ synced = 0
    BY <1>2 DEF Blank, Unpublished
  <2>2. Len(history) = 0 /\ DOMAIN history = {}
    BY <2>1
  <2>3. \A s \in Slots : Written(s) = {ZeroSlot} /\ slots[s] = ZeroSlot
    BY <1>1, <1>2 DEF Blank
  <2>4. \A s \in Slots : Written(s)' = Written(s)
    BY <1>1 DEF Written
  <2> QED
    BY <1>1, <2>1, <2>2, <2>3, <2>4
<1>4. Fresh' >= 1
  BY <1>1 DEF Fresh, Typed, BookkeepingTypeOK
<1>5. OnFile'
  <2>1. SlotsHoldRoots' /\ StrangersBlocked'
    BY <1>3 DEF SlotsHoldRoots, StrangersBlocked, ZeroSlot
  <2>2. Chained' /\ RecentInPlace' /\ Anchored'
    BY <1>1, <1>3 DEF Chained, RecentInPlace, Anchored
  <2> QED
    BY <1>4, <2>1, <2>2 DEF OnFile
<1>6. OnSession' /\ ClosedSession'
  <2>1. generation = 0 /\ previous_root_identity = 0 /\ catalog = {} /\ pending = {}
    BY <1>1 DEF Lineage, ClosedSession
  <2>2. WithinReach'
    BY <1>1, <1>3, <2>1, SlotCountAssumption DEF WithinReach, Sheltered
  <2> QED
    BY <1>1, <1>3, <2>1, <2>2
       DEF OnSession, WriterFollows, ManifestReady, PointersBelow, ClosedSession
<1>7. TailIsJunk' /\ Extent' /\ AcknowledgedIsSynced'
  BY <1>1 DEF Lineage, TailIsJunk, Extent, AcknowledgedIsSynced, Offsets, Typed, FileTypeOK
<1> QED
  BY <1>1, <1>5, <1>6, <1>7, StaysLive

LEMMA CreateFailureFollows == Standing /\ CreateControlFails => Lineage'
<1> SUFFICES ASSUME Standing, CreateControlFails PROVE Lineage'
  OBVIOUS
<1> USE DEF Standing
<1>1. /\ step = "closed" /\ size = 0 /\ size' = 1 /\ control' = "torn"
      /\ UNCHANGED <<step, slots, cells, stable_size, slot_writes, history, synced, acknowledged,
                     generation, previous_root_identity, catalog, pending>>
  BY DEF CreateControlFails, ghostVars, sessionVars
<1>2. Blank /\ control = "none"
  BY <1>1 DEF Lineage, Extent
<1>3. Blank' /\ ClosedSession'
  BY <1>1, <1>2 DEF Blank, Unpublished, ClosedSession, Lineage
<1>4. TailIsJunk' /\ Extent' /\ AcknowledgedIsSynced'
  BY <1>1 DEF Lineage, TailIsJunk, Extent, AcknowledgedIsSynced, Offsets, Typed, FileTypeOK
<1> QED
  BY <1>1, <1>3, <1>4 DEF Lineage

LEMMA OpenFollows == Standing /\ Open => Lineage'
<1> SUFFICES ASSUME Standing, Open PROVE Lineage'
  OBVIOUS
<1> USE DEF Standing
<1> DEFINE h == Len(history)
<1>1. /\ step = "closed" /\ control = "valid" /\ step' = "idle" /\ write_offset' = size
      /\ UNCHANGED <<control, slots, cells, size, stable_size, slot_writes>>
      /\ UNCHANGED <<history, synced, acknowledged, next_identity, pending, poisoned, durability>>
  BY DEF Open, fileVars, ghostVars
<1>2. PICK loaded :
        /\ loaded = Elected
        /\ loaded.kind # "invalid"
        /\ generation' = IF loaded.kind = "root" THEN loaded.generation ELSE 0
        /\ committed_size' = IF loaded.kind = "root" THEN loaded.committed_size ELSE 1
        /\ previous_root_identity' = IF loaded.kind = "root" THEN RootIdentity(loaded) ELSE 0
        /\ catalog' = IF loaded.kind = "root" THEN cells[loaded.manifest.offset].catalog ELSE {}
  BY DEF Open, Elected, Sheltered
<1>3. Live /\ Extent /\ synced <= h
  BY <1>1, <1>2 DEF Lineage, Dead, AcknowledgedIsSynced
<1>4. /\ h = 0 => loaded.kind \in {"empty", "invalid"}
      /\ h # 0 => loaded = history[h].root
  BY <1>2, <1>3, HeadElected
<1>5. Fresh <= Fresh'
  BY <1>1, FreshGrows
<1>6. OnFile' /\ TailIsJunk' /\ Extent'
  BY <1>1, <1>3, <1>5, LiveSplit, FileUnchanged DEF Lineage
<1>7. pending' = {} /\ OnFile
  BY <1>1, <1>3, LiveSplit DEF Lineage, ClosedSession
<1>8. WithinReach' /\ ManifestReady' /\ ClosedSession'
  BY <1>1, <1>3 DEF Live, WithinReach, ManifestReady, ClosedSession
<1>9. WriterFollows' /\ PointersBelow'
  <2>1. CASE h = 0
    BY <1>1, <1>2, <1>4, <1>7, <2>1 DEF WriterFollows, PointersBelow
  <2>2. CASE h # 0
    <3>1. /\ h \in DOMAIN history /\ h \in Nat /\ Recent(h)
          /\ history[h].root.kind = "root" /\ history[h].root.generation = h
          /\ history[h].root.committed_size <= size /\ history[h].root.committed_size \in Nat
      BY <1>3, <1>7, <2>2, HistoryFacts DEF OnFile, Chained, Recent
    <3>2. Loads(history[h])
      BY <1>7, <3>1 DEF OnFile, RecentInPlace
    <3>3. /\ generation' = h
          /\ committed_size' = history[h].root.committed_size
          /\ previous_root_identity' = RootIdentity(history[h].root)
          /\ catalog' = history[h].catalog
      BY <1>2, <1>4, <2>2, <3>1, <3>2 DEF Loads
    <3>4. WriterFollows'
      BY <1>1, <2>2, <3>3 DEF WriterFollows
    <3>5. \A p \in catalog' : p.offset \in 1 .. history[h].root.committed_size - 1
      BY <3>2, <3>3 DEF Loads, LoadManifestForRoot
    <3>6. PointersBelow'
      <4>1. \A p \in catalog' : p.offset \in 1 .. size - 1
        BY SMTT(40), <3>1, <3>5 DEF Typed, FileTypeOK
      <4> QED
        BY <1>1, <1>7, <4>1 DEF PointersBelow
    <3> QED
      BY <3>4, <3>6
  <2> QED
    BY <2>1, <2>2
<1> QED
  BY <1>1, <1>6, <1>8, <1>9, StaysLive, AcknowledgedKept DEF OnSession, Lineage

LEMMA AppendFollows == Standing /\ AppendBatch => Lineage'
<1> SUFFICES ASSUME Standing, AppendBatch PROVE Lineage'
  OBVIOUS
<1> USE DEF Standing
<1>1. /\ step = "idle" /\ ~poisoned /\ write_offset = size
      /\ UNCHANGED <<step, durability, committed_size, generation, previous_root_identity,
                     poisoned, catalog, history, synced, acknowledged>>
  BY DEF AppendBatch, ghostVars, OwnsTail, WriterOwnsTail
<1>2. control = "valid" /\ OnFile /\ OnSession /\ TailIsJunk /\ Extent
  BY <1>1, ActiveIsLive, LiveSplit DEF Lineage
<1>3. WithinReach' /\ WriterFollows' /\ ManifestReady' /\ ClosedSession'
  BY <1>1, <1>2 DEF OnSession, WithinReach, WriterFollows, ManifestReady, ClosedSession
<1>4. CASE UNCHANGED <<fileVars, pending, write_offset, next_identity>>
  <2>1. Fresh <= Fresh'
    BY <1>1, <1>4, FreshGrows
  <2>2. OnFile' /\ TailIsJunk' /\ Extent' /\ control' = control
    BY <1>1, <1>2, <1>4, <2>1, FileUnchanged DEF fileVars
  <2>3. PointersBelow'
    BY <1>1, <1>2, <1>4 DEF OnSession, PointersBelow
  <2> QED
    BY <1>1, <1>2, <1>3, <2>2, <2>3, StaysLive, AcknowledgedKept DEF OnSession, Lineage
<1>5. CASE WriteObjectsCell
  <2>1. /\ WriteCell(Objects(next_identity)) /\ next_identity' = next_identity + 1
        /\ pending' = pending \cup {PendingPointer} /\ write_offset' = write_offset + 1
        /\ control' = control
    BY <1>5 DEF WriteObjectsCell, WriteCell
  <2>2. Fresh <= Fresh'
    BY <1>1, <2>1 DEF Fresh, Typed, BookkeepingTypeOK
  <2>3. Objects(next_identity).kind # "manifest"
    BY DEF Objects
  <2>4. OnFile' /\ TailIsJunk' /\ Extent'
    BY <1>1, <1>2, <2>1, <2>2, <2>3, ObjectWritten
  <2>5. PointersBelow'
    BY <1>1, <1>2, <2>1 DEF OnSession, PointersBelow, PendingPointer, Typed, WriterTypeOK, Session
  <2> QED
    BY <1>1, <1>2, <1>3, <2>1, <2>4, <2>5, StaysLive, AcknowledgedKept DEF OnSession, Lineage
<1> QED
  BY <1>4, <1>5 DEF AppendBatch

(* A failed call leaves the file as it was, or a part of an object at its  *)
(* end, and no session that writes.                                        *)
LEMMA FailureFollows == Standing /\ (AppendBatchFails \/ CallFails) => Lineage'
<1> SUFFICES ASSUME Standing, AppendBatchFails \/ CallFails PROVE Lineage'
  OBVIOUS
<1> USE DEF Standing
<1>1. /\ step # "closed" /\ write_offset = size
      /\ UNCHANGED <<next_identity, history, synced, acknowledged>>
      /\ UNCHANGED fileVars \/ WriteCell(Junk)
  BY DEF AppendBatchFails, CallFails, ghostVars, OwnsTail, WriterOwnsTail, ActiveUnpoisoned
<1>2. control = "valid" /\ OnFile /\ OnSession /\ TailIsJunk /\ Extent
  BY <1>1, ActiveIsLive, LiveSplit DEF Lineage
<1>3. \/ NoSession
      \/ /\ step' = "idle" /\ poisoned' = TRUE
         /\ UNCHANGED <<catalog, pending, write_offset>>
  BY DEF AppendBatchFails, CallFails, ReturnError
<1>4. Fresh <= Fresh'
  BY <1>1, <1>3, FreshGrows DEF NoSession
<1>5. OnFile' /\ TailIsJunk' /\ Extent' /\ control' = control
  <2>1. CASE UNCHANGED fileVars
    BY <1>1, <1>2, <1>4, <2>1, FileUnchanged DEF fileVars
  <2>2. CASE WriteCell(Junk)
    <3>1. Junk.kind # "manifest"
      BY DEF Junk
    <3> QED
      BY <1>1, <1>2, <1>4, <2>2, <3>1, ObjectWritten DEF WriteCell
  <2> QED
    BY <1>1, <2>1, <2>2
<1>6. OnSession' /\ ClosedSession'
  <2>1. MaxPowerLosses # 0 => Len(history') + 2 <= synced' + SlotCount
    BY <1>1, <1>2 DEF OnSession, WithinReach
  <2>2. CASE NoSession
    BY <2>1, <2>2, NoSessionFollows
  <2>3. CASE step' = "idle" /\ poisoned' = TRUE /\ UNCHANGED <<catalog, pending, write_offset>>
    BY <1>2, <2>1, <2>3
       DEF OnSession, WithinReach, WriterFollows, ManifestReady, PointersBelow, ClosedSession
  <2> QED
    BY <1>3, <2>2, <2>3
<1> QED
  BY <1>1, <1>2, <1>5, <1>6, StaysLive, AcknowledgedKept DEF Lineage

LEMMA BeginCheckpointFollows ==
    Standing /\ (CloseDirty \/ \E mode \in Durabilities : BeginCheckpoint(mode)) => Lineage'
<1> SUFFICES ASSUME Standing,
                    CloseDirty \/ \E mode \in Durabilities : BeginCheckpoint(mode)
             PROVE  Lineage'
  OBVIOUS
<1> USE DEF Standing
<1>1. PICK mode : /\ step = "idle" /\ ~poisoned
                  /\ Begin(mode)
                  /\ mode = "memory" => WithinBudget
  BY DEF CloseDirty, BeginCheckpoint
<1> QED
  BY <1>1, BeginFollows, StaysLive, PublicationAssumption

LEMMA WriteObjectsFollows == Standing /\ WriteObjects => Lineage'
<1> SUFFICES ASSUME Standing, WriteObjects PROVE Lineage'
  OBVIOUS
<1> USE DEF Standing
<1>1. /\ step = "objects" /\ step' = "manifest" /\ ~poisoned /\ write_offset = size
      /\ UNCHANGED <<durability, committed_size, generation, previous_root_identity,
                     poisoned, catalog, history, synced, acknowledged>>
      /\ WriteCell(Objects(next_identity)) /\ next_identity' = next_identity + 1
      /\ pending' = pending \cup {PendingPointer} /\ write_offset' = write_offset + 1
      /\ control' = control
  BY DEF WriteObjects, WriteObjectsCell, WriteCell, ghostVars, OwnsTail, WriterOwnsTail, ActiveUnpoisoned
<1>2. control = "valid" /\ OnFile /\ OnSession /\ TailIsJunk /\ Extent
  BY <1>1, ActiveIsLive, LiveSplit DEF Lineage
<1>3. WithinReach' /\ WriterFollows' /\ ManifestReady' /\ ClosedSession'
  BY <1>1, <1>2 DEF OnSession, WithinReach, WriterFollows, ManifestReady, ClosedSession
<1>4. Fresh <= Fresh'
  BY <1>1 DEF Fresh, Typed, BookkeepingTypeOK
<1>5. Objects(next_identity).kind # "manifest"
  BY DEF Objects
<1>6. OnFile' /\ TailIsJunk' /\ Extent'
  BY <1>1, <1>2, <1>4, <1>5, ObjectWritten
<1>7. PointersBelow'
  BY <1>1, <1>2 DEF OnSession, PointersBelow, PendingPointer, Typed, WriterTypeOK, Session
<1> QED
  BY <1>1, <1>2, <1>3, <1>6, <1>7, StaysLive, AcknowledgedKept DEF OnSession, Lineage

LEMMA WriteManifestFollows == Standing /\ WriteManifest => Lineage'
<1> SUFFICES ASSUME Standing, WriteManifest PROVE Lineage'
  OBVIOUS
<1> USE DEF Standing
<1> DEFINE c == Manifest(next_identity, generation + 1, catalog \cup pending)
<1>1. /\ step = "manifest" /\ ~poisoned /\ write_offset = size
      /\ step' = IF durability = "disk" THEN "sync_objects" ELSE "root"
      /\ UNCHANGED <<durability, committed_size, generation, previous_root_identity,
                     poisoned, catalog, pending, history, synced, acknowledged>>
      /\ WriteCell(c) /\ next_identity' = next_identity + 1
      /\ write_offset' = write_offset + 1
      /\ control' = control
  BY DEF WriteManifest, WriteCell, ghostVars, OwnsTail, WriterOwnsTail, ActiveUnpoisoned
<1>2. control = "valid" /\ OnFile /\ OnSession /\ TailIsJunk /\ Extent
  BY <1>1, ActiveIsLive, LiveSplit DEF Lineage
<1>3. WithinReach' /\ WriterFollows' /\ ClosedSession'
  <2>1. durability \in {"memory", "disk"}
    BY DEF Typed, WriterTypeOK
  <2> QED
    BY <1>1, <1>2, <2>1 DEF OnSession, WithinReach, WriterFollows, ClosedSession
<1>4. Fresh <= Fresh'
  <2>1. PICK n \in Nat : n = next_identity
    BY DEF Typed, BookkeepingTypeOK
  <2>2. Fresh = n
    BY <1>1, <2>1 DEF Fresh
  <2>3. PICK m \in Nat : m = next_identity' /\ m = n + 1
    BY <1>1, <2>1
  <2>4. Fresh' \in {m - 1, m}
    BY <2>3, Zenon DEF Fresh
  <2> QED
    BY <2>2, <2>3, <2>4
<1>5. OnFile' /\ TailIsJunk' /\ Extent'
  <2>1. c.kind = "manifest" => c.identity = next_identity
    BY DEF Manifest
  <2> HIDE DEF c
  <2> QED
    BY <1>1, <1>2, <1>4, <2>1, ObjectWritten
<1>6. ManifestReady'
  <2>1. size \in Offsets /\ cells'[size] = c
    <3> HIDE DEF c
    <3> QED
      BY <1>1, WriteAtEnd
  <2> QED
    BY <1>1, <2>1 DEF ManifestReady, Offsets, Typed, WriterTypeOK, BookkeepingTypeOK
<1>7. PointersBelow'
  BY <1>1, <1>2 DEF OnSession, PointersBelow, Typed, WriterTypeOK
<1> QED
  BY <1>1, <1>2, <1>3, <1>5, <1>6, <1>7, StaysLive, AcknowledgedKept DEF OnSession, Lineage

LEMMA SyncObjectsFollows == Standing /\ SyncObjects => Lineage'
<1> SUFFICES ASSUME Standing, SyncObjects PROVE Lineage'
  OBVIOUS
<1> USE DEF Standing
<1>1. /\ step = "sync_objects" /\ step' = "root" /\ ~poisoned /\ Sync
      /\ synced' = generation
      /\ UNCHANGED <<durability, committed_size, generation, previous_root_identity, write_offset,
                     poisoned, catalog, pending, history, acknowledged, next_identity, control, cells>>
  BY DEF SyncObjects, Sync, sessionVars, OwnsTail, ActiveUnpoisoned
<1>2. control = "valid" /\ OnFile /\ OnSession /\ TailIsJunk /\ Extent
  BY <1>1, ActiveIsLive, LiveSplit DEF Lineage
<1>3. Len(history) = generation /\ synced <= Len(history) /\ generation \in Nat
  BY <1>1, <1>2 DEF OnSession, WriterFollows, Lineage, AcknowledgedIsSynced, Typed, WriterTypeOK
<1>4. WithinReach'
  BY <1>1, <1>3, SlotCountAssumption DEF WithinReach, Sheltered
<1>5. WriterFollows' /\ ManifestReady' /\ PointersBelow' /\ ClosedSession'
  BY <1>1, <1>2 DEF OnSession, WriterFollows, ManifestReady, PointersBelow, ClosedSession
<1>6. Fresh <= Fresh'
  BY <1>1, FreshGrows
<1>7. OnFile' /\ TailIsJunk' /\ Extent'
  BY <1>1, <1>2, <1>3, <1>6, FileSynced
<1>8. AcknowledgedIsSynced'
  BY <1>1, <1>3, HistoryFacts DEF AcknowledgedIsSynced, Lineage
<1> QED
  BY <1>1, <1>2, <1>4, <1>5, <1>7, <1>8, StaysLive DEF OnSession

LEMMA TearRootFollows == Standing /\ TearRoot => Lineage'
<1> SUFFICES ASSUME Standing, TearRoot PROVE Lineage'
  OBVIOUS
<1> USE DEF Standing
<1> DEFINE t == RootSlot(generation + 1)
<1>1. /\ step = "root" /\ step' = "root_torn" /\ ~poisoned /\ WriteSlot(t, TornSlot)
      /\ history' = SubSeq(history, 1, Smaller(generation, Len(history)))
      /\ UNCHANGED <<durability, committed_size, generation, previous_root_identity, write_offset,
                     poisoned, catalog, pending, synced, acknowledged, next_identity, control, cells>>
  BY DEF TearRoot, WriteSlot, sessionVars, OwnsTail, ActiveUnpoisoned
<1>2. control = "valid" /\ OnFile /\ OnSession /\ TailIsJunk /\ Extent
  BY <1>1, ActiveIsLive, LiveSplit DEF Lineage
<1>3. Len(history) = generation /\ synced <= Len(history) /\ generation \in Nat
  BY <1>1, <1>2 DEF OnSession, WriterFollows, Lineage, AcknowledgedIsSynced, Typed, WriterTypeOK
<1>4. history' = history
  <2>1. Smaller(generation, Len(history)) = Len(history)
    BY <1>3 DEF Smaller
  <2>2. history \in Seq(Entry)
    BY DEF Typed, BookkeepingTypeOK
  <2> QED
    BY <1>1, <2>1, <2>2
<1>5. OnSession' /\ ClosedSession'
  BY <1>1, <1>2, <1>4
     DEF OnSession, WithinReach, WriterFollows, ManifestReady, PointersBelow, ClosedSession
<1>6. Fresh <= Fresh'
  BY <1>1, FreshGrows
<1>7. /\ t \in Slots
      /\ \A g \in DOMAIN history : Recent(g) => RootSlot(g) # t
      /\ (MaxPowerLosses # 0 /\ synced >= 1) => RootSlot(synced) # t
      /\ (MaxPowerLosses # 0 /\ synced >= 2) => RootSlot(synced - 1) # t
  BY <1>1, <1>2, <1>3, SlotIsFree DEF OnSession
<1> HIDE DEF t
<1>8. OnFile' /\ TailIsJunk' /\ Extent'
  BY <1>1, <1>2, <1>3, <1>4, <1>6, <1>7, SlotTorn
<1> QED
  BY <1>1, <1>2, <1>4, <1>5, <1>8, StaysLive, AcknowledgedKept DEF Lineage

LEMMA WriteRootFollows == Standing /\ WriteRoot => Lineage'
<1> SUFFICES ASSUME Standing, WriteRoot PROVE Lineage'
  OBVIOUS
<1> USE DEF Standing
<1> DEFINE t == RootSlot(generation + 1)
           c == catalog \cup pending
<1>1. /\ step = "root_torn" /\ ~poisoned /\ write_offset = size /\ WriteSlot(t, NextRoot)
      /\ history' = Append(history, [root |-> NextRoot, catalog |-> c])
      /\ UNCHANGED <<synced, acknowledged, next_identity, control, cells, size>>
      /\ \/ Adopt
         \/ step' = "sync_root" /\ UNCHANGED sessionVars
  BY DEF WriteRoot, WriteSlot, OwnsTail, WriterOwnsTail, ActiveUnpoisoned
<1>2. control = "valid" /\ OnFile /\ OnSession /\ TailIsJunk /\ Extent
  BY <1>1, ActiveIsLive, LiveSplit DEF Lineage
<1>3. Len(history) = generation /\ synced <= Len(history) /\ generation \in Nat
  BY <1>1, <1>2 DEF OnSession, WriterFollows, Lineage, AcknowledgedIsSynced, Typed, WriterTypeOK
<1>4. /\ t \in Slots
      /\ \A g \in DOMAIN history : Recent(g) => RootSlot(g) # t
      /\ (MaxPowerLosses # 0 /\ synced >= 1) => RootSlot(synced) # t
      /\ (MaxPowerLosses # 0 /\ synced >= 2) => RootSlot(synced - 1) # t
  BY <1>1, <1>2, <1>3, SlotIsFree DEF OnSession
<1>5. /\ NextRoot.generation = generation + 1
      /\ NextRoot.committed_size = size
      /\ NextRoot.manifest.offset = size - 1 /\ size - 1 \in Offsets /\ size \in Nat
      /\ RootIdentity(NextRoot) = next_identity - 1 /\ next_identity \in Nat
      /\ NextRoot.previous_identity = previous_root_identity
      /\ NextRoot \in RootRecord
  <2>1. write_offset > 1 /\ size \in 0 .. MaxSize /\ next_identity \in Nat
    BY <1>1, <1>2 DEF OnSession, ManifestReady, Typed, FileTypeOK, BookkeepingTypeOK
  <2>2. NextRoot \in RootRecord
    BY <1>1, NextRootType
  <2> QED
    BY <1>1, <2>1, <2>2, PublicationAssumption DEF NextRoot, Root, RootIdentity, Offsets
<1>6. LoadManifestForRoot(cells, {}, NextRoot) /\ cells[NextRoot.manifest.offset].catalog = c
  <2>1. cells[size - 1] = Manifest(next_identity - 1, generation + 1, c)
    BY <1>1, <1>2 DEF OnSession, ManifestReady
  <2>2. \A p \in c : p.offset \in 1 .. size - 1
    BY <1>1, <1>2 DEF OnSession, PointersBelow
  <2>3. DOMAIN cells = Offsets
    BY DEF Typed, FileTypeOK
  <2> HIDE DEF c
  <2> QED
    BY <1>5, <2>1, <2>2, <2>3 DEF LoadManifestForRoot, Manifest, RootIdentity
<1>7. previous_root_identity = IF generation = 0 THEN 0
                               ELSE RootIdentity(history[generation].root)
  BY <1>1, <1>2 DEF OnSession, WriterFollows
<1>8. Fresh <= RootIdentity(NextRoot) /\ RootIdentity(NextRoot) < Fresh'
  <2>1. Fresh = next_identity - 1
    BY <1>1 DEF Fresh
  <2>2. step' \notin {"sync_objects", "root", "root_torn"}
    BY <1>1 DEF Adopt, NoSession
  <2>3. Fresh' = next_identity
    BY <1>1, <2>2 DEF Fresh
  <2> QED
    BY <1>5, <2>1, <2>3
<1>9. OnFile' /\ TailIsJunk' /\ Extent'
  <2>1. NextRoot.manifest.offset >= 1 /\ NextRoot.manifest.offset + 1 = NextRoot.committed_size
    BY <1>5 DEF Offsets
  <2>2. PICK r \in RootRecord : r = NextRoot
    BY <1>5
  <2>3. PICK h \in Nat : h = generation
    BY <1>3
  <2> HIDE DEF c, t
  <2>4. t = RootSlot(h + 1)
    BY <2>3 DEF t
  <2> QED
    BY <1>1, <1>2, <1>3, <1>4, <1>5, <1>6, <1>7, <1>8, <2>1, <2>2, <2>3, <2>4, RootWritten
<1>10. /\ Len(history') = generation + 1
       /\ history'[generation + 1] = [root |-> NextRoot, catalog |-> c]
       /\ \A g \in 1 .. Len(history) : history'[g] = history[g]
  BY <1>1, <1>3, HistoryFacts DEF Typed, BookkeepingTypeOK
<1>11. MaxPowerLosses # 0 => Len(history') + 2 <= synced' + SlotCount
  BY <1>1, <1>2, <1>3, <1>10, HistoryFacts, SlotCountAssumption DEF OnSession, WithinReach
<1>12. OnSession' /\ ClosedSession'
  <2>1. CASE Adopt
    BY <1>1, <1>2, <1>10, <1>11, <2>1, AdoptFollows DEF OnSession
  <2>2. CASE step' = "sync_root" /\ UNCHANGED sessionVars
    <3>1. NextRoot' = NextRoot
      BY <1>1, <2>2 DEF NextRoot, sessionVars
    <3>2. WriterFollows'
      BY <1>1, <1>10, <2>2, <3>1 DEF WriterFollows, sessionVars
    <3>3. WithinReach' /\ ClosedSession'
      BY <1>11, <2>2 DEF WithinReach, ClosedSession
    <3>4. ManifestReady' /\ PointersBelow'
      BY <1>1, <1>2, <2>2 DEF OnSession, ManifestReady, PointersBelow, sessionVars
    <3> QED
      BY <3>2, <3>3, <3>4 DEF OnSession
  <2> QED
    BY <1>1, <2>1, <2>2
<1>13. AcknowledgedIsSynced'
  BY <1>1, <1>3, <1>10, HistoryFacts DEF AcknowledgedIsSynced, Lineage
<1> QED
  BY <1>1, <1>2, <1>9, <1>12, <1>13, StaysLive

LEMMA SyncRootFollows == Standing /\ SyncRoot => Lineage'
<1> SUFFICES ASSUME Standing, SyncRoot PROVE Lineage'
  OBVIOUS
<1> USE DEF Standing
<1>1. /\ step = "sync_root" /\ ~poisoned /\ Sync /\ Adopt
      /\ synced' = generation + 1 /\ acknowledged' = RootIdentity(NextRoot)
      /\ UNCHANGED <<history, next_identity, control, cells>>
  BY DEF SyncRoot, Sync, OwnsTail, ActiveUnpoisoned
<1>2. control = "valid" /\ OnFile /\ OnSession /\ TailIsJunk /\ Extent
  BY <1>1, ActiveIsLive, LiveSplit DEF Lineage
<1>3. /\ Len(history) = generation + 1 /\ synced <= Len(history) /\ generation \in Nat
      /\ history[generation + 1] = [root |-> NextRoot, catalog |-> catalog \cup pending]
  BY <1>1, <1>2 DEF OnSession, WriterFollows, Lineage, AcknowledgedIsSynced, Typed, WriterTypeOK
<1>4. Fresh <= Fresh'
  <2>1. step' \notin {"sync_objects", "root", "root_torn"}
    BY <1>1 DEF Adopt, NoSession
  <2> QED
    BY <1>1, <2>1, FreshGrows
<1>5. OnFile' /\ TailIsJunk' /\ Extent'
  BY <1>1, <1>2, <1>3, <1>4, FileSynced
<1>6. OnSession' /\ ClosedSession'
  <2>1. Len(history') + 2 <= synced' + SlotCount
    BY <1>1, <1>3, SlotCountAssumption DEF Sheltered
  <2> QED
    BY <1>1, <1>2, <1>3, <2>1, AdoptFollows DEF OnSession
<1>7. AcknowledgedIsSynced'
  <2>1. synced' # 0 /\ RootIdentity(history[synced'].root) = acknowledged'
    BY <1>1, <1>3
  <2> QED
    BY <1>1, <1>3, <2>1, AcknowledgedNow
<1> QED
  BY <1>1, <1>2, <1>5, <1>6, <1>7, StaysLive

LEMMA SyncCleanFollows == Standing /\ SyncClean => Lineage'
<1> SUFFICES ASSUME Standing, SyncClean PROVE Lineage'
  OBVIOUS
<1> USE DEF Standing
<1>1. /\ step = "idle" /\ ~poisoned /\ Sync /\ step' = step
      /\ synced' = generation /\ acknowledged' = previous_root_identity
      /\ UNCHANGED <<history, next_identity, control, cells>>
      /\ UNCHANGED <<durability, committed_size, generation, previous_root_identity, write_offset,
                     poisoned, catalog, pending>>
  BY DEF SyncClean, Sync, sessionVars
<1>2. control = "valid" /\ OnFile /\ OnSession /\ TailIsJunk /\ Extent
  BY <1>1, ActiveIsLive, LiveSplit DEF Lineage
<1>3. /\ Len(history) = generation /\ synced <= Len(history) /\ generation \in Nat
      /\ previous_root_identity = IF generation = 0 THEN 0
                                  ELSE RootIdentity(history[generation].root)
  BY <1>1, <1>2 DEF OnSession, WriterFollows, Lineage, AcknowledgedIsSynced, Typed, WriterTypeOK
<1>4. Fresh <= Fresh'
  BY <1>1, FreshGrows
<1>5. OnFile' /\ TailIsJunk' /\ Extent'
  BY <1>1, <1>2, <1>3, <1>4, FileSynced
<1>6. WithinReach'
  BY <1>1, <1>3, SlotCountAssumption DEF WithinReach, Sheltered
<1>7. WriterFollows' /\ ManifestReady' /\ PointersBelow' /\ ClosedSession'
  BY <1>1, <1>2 DEF OnSession, WriterFollows, ManifestReady, PointersBelow, ClosedSession
<1>8. AcknowledgedIsSynced'
  BY <1>1, <1>3, AcknowledgedNow
<1> QED
  BY <1>1, <1>2, <1>5, <1>6, <1>7, <1>8, StaysLive DEF OnSession

(* close, abort or a crash leaves the file to the next open.               *)
LEMMA LeaveFollows == Standing /\ (Leave \/ Crash) => Lineage'
<1> SUFFICES ASSUME Standing, Leave \/ Crash PROVE Lineage'
  OBVIOUS
<1> USE DEF Standing
<1>1. /\ step # "closed" /\ NoSession
      /\ UNCHANGED <<control, slots, cells, size, stable_size, slot_writes>>
      /\ UNCHANGED <<history, synced, acknowledged, next_identity>>
  BY DEF Leave, Crash, fileVars, ghostVars
<1>2. control = "valid" /\ OnFile /\ OnSession /\ TailIsJunk /\ Extent
  BY <1>1, ActiveIsLive, LiveSplit DEF Lineage
<1>3. Fresh <= Fresh'
  BY <1>1, FreshGrows DEF NoSession
<1>4. OnFile' /\ TailIsJunk' /\ Extent'
  BY <1>1, <1>2, <1>3, FileUnchanged
<1>5. OnSession' /\ ClosedSession'
  BY <1>1, <1>2, NoSessionFollows DEF OnSession, WithinReach
<1> QED
  BY <1>1, <1>2, <1>4, <1>5, StaysLive, AcknowledgedKept DEF Lineage

-----------------------------------------------------------------------------
(* A power loss.                                                           *)

Outage(length, left, region, objects) ==
    /\ length \in Nat /\ length \in stable_size .. size
    /\ left \in [Slots -> SlotValue] /\ \A s \in Slots : left[s] \in Written(s)
    /\ region \in ControlLeft(length)
    /\ objects \in [Offsets -> Cell]
    /\ \A o \in Offsets : /\ objects[o] \in {Junk, cells[o]}
                          /\ o < stable_size => objects[o] = cells[o]
                          /\ o >= length => objects[o] = Junk
    /\ length = 0 => RootSlotsEmpty(left)

(* What it leaves, and what is recovered from that.                        *)
Leaves(length, left, region, objects, elected) ==
    /\ elected = IF region = "valid" THEN LoadSnapshot(left, objects, {}, length)
                 ELSE InvalidDatabase
    /\ control' = region /\ slots' = left /\ cells' = objects
    /\ size' = length /\ stable_size' = length
    /\ slot_writes' = [s \in Slots |-> <<left[s]>>]
    /\ synced' = LET survivors == {g \in DOMAIN history : history[g].root = elected}
                 IN  IF survivors = {} THEN 0 ELSE CHOOSE g \in survivors : TRUE
    /\ history' = SubSeq(history, 1, synced')

LEMMA SlotsLeftWritten ==
    ASSUME Typed, NEW left \in SlotsLeft
    PROVE  left \in [Slots -> SlotValue] /\ \A s \in Slots : left[s] \in Written(s)
<1>1. PICK kept : /\ left = [s \in Slots |-> slot_writes[s][kept[s]]]
                  /\ \A s \in Slots : kept[s] \in DOMAIN slot_writes[s]
  BY DEF SlotsLeft
<1>2. \A s \in Slots : left[s] \in Written(s)
  BY <1>1 DEF Written
<1>3. \A s \in Slots : slot_writes[s][kept[s]] \in SlotValue
  BY <1>1 DEF Typed, FileTypeOK
<1> QED
  BY <1>1, <1>2, <1>3

LEMMA PowerLossLeaves ==
    ASSUME Typed, PowerLoss
    PROVE  \E length, left, region, objects, elected :
                /\ Outage(length, left, region, objects)
                /\ Leaves(length, left, region, objects, elected)
<1>1. PICK length \in stable_size .. size, left \in SlotsLeft :
       \E region \in ControlLeft(length), objects \in CellsLeft(length) :
        /\ length = 0 => RootSlotsEmpty(left)
        /\ Leaves(length, left, region, objects,
                  IF region = "valid" THEN LoadSnapshot(left, objects, {}, length)
                  ELSE InvalidDatabase)
  BY ZenonT(60) DEF PowerLoss, Leaves
<1>2. PICK region \in ControlLeft(length), objects \in CellsLeft(length) :
        /\ length = 0 => RootSlotsEmpty(left)
        /\ \E elected : Leaves(length, left, region, objects, elected)
  BY <1>1
<1>3. PICK lost \in SUBSET (Larger(stable_size, 1) .. length - 1) :
        objects = [o \in Offsets |-> IF o \in lost \/ o >= length THEN Junk ELSE cells[o]]
  BY <1>2 DEF CellsLeft
<1>4. length \in Nat /\ stable_size \in Nat /\ stable_size <= length
  BY DEF Typed, FileTypeOK
<1>5. \A o \in Offsets : /\ objects[o] \in {Junk, cells[o]}
                         /\ o < stable_size => objects[o] = cells[o]
                         /\ o >= length => objects[o] = Junk
  <2>1. \A o \in lost : o >= stable_size
    BY <1>3, <1>4 DEF Larger
  <2> QED
    BY <1>3, <1>4, <2>1 DEF Offsets
<1>6. objects \in [Offsets -> Cell]
  <2>1. \A o \in Offsets : cells[o] \in Cell /\ Junk \in Cell
    BY CellTypes DEF Typed, FileTypeOK
  <2> QED
    BY <1>3, <2>1
<1>7. Outage(length, left, region, objects)
  BY <1>2, <1>4, <1>5, <1>6, SlotsLeftWritten DEF Outage
<1> QED
  BY <1>2, <1>7

LEMMA OutageImage ==
    ASSUME Typed, NEW length, NEW left, NEW region, NEW objects,
           Outage(length, left, region, objects)
    PROVE  Image(left, objects, length) /\ length \in Nat
<1>1. DOMAIN cells = Offsets
  BY DEF Typed, FileTypeOK
<1>2. ASSUME NEW r \in RootRecord, LoadManifestForRoot(objects, {}, r)
      PROVE  LoadManifestForRoot(cells, {}, r)
  <2>1. objects[r.manifest.offset] = cells[r.manifest.offset]
    BY <1>2 DEF Outage, LoadManifestForRoot, Junk
  <2> QED
    BY <1>1, <1>2, <2>1 DEF Outage, LoadManifestForRoot
<1>3. ASSUME NEW r \in RootRecord, LoadManifestForRoot(cells, {}, r),
             r.manifest.offset < stable_size
      PROVE  LoadManifestForRoot(objects, {}, r)
  <2>1. objects[r.manifest.offset] = cells[r.manifest.offset]
    BY <1>1, <1>3 DEF Outage, LoadManifestForRoot
  <2> QED
    BY <1>1, <1>3, <2>1 DEF Outage, LoadManifestForRoot
<1> QED
  BY <1>2, <1>3 DEF Outage, Image

LEMMA EmptyPrefix == ASSUME Typed PROVE SubSeq(history, 1, 0) = << >>
<1>1. history \in Seq(Entry)
  BY DEF Typed, BookkeepingTypeOK
<1> QED
  BY <1>1, SubSeqProperties

(* Where nothing recorded is recovered, the history starts again.          *)
LEMMA NothingSurvives ==
    ASSUME Typed, NEW length, NEW left, NEW region, NEW objects, NEW elected,
           Leaves(length, left, region, objects, elected), elected.kind # "root"
    PROVE  synced' = 0 /\ history' = << >>
<1>1. {g \in DOMAIN history : history[g].root = elected} = {}
  BY HistoryFacts
<1>2. synced' = 0
  BY <1>1 DEF Leaves
<1> QED
  BY <1>2, EmptyPrefix DEF Leaves

(* A generation that was synced is on a file that was synced.              *)
LEMMA SyncedIsStable ==
    ASSUME Typed, Lineage, MaxPowerLosses # 0, synced >= 1
    PROVE  control = "valid" /\ Live /\ stable_size >= 1
<1>1. control = "valid" /\ Live
  BY DEF Lineage, Dead, Blank, Unpublished
<1>2. PICK g \in DOMAIN history : g = synced
  BY HistoryFacts DEF Lineage, AcknowledgedIsSynced
<1>3. /\ history[g].root.committed_size <= stable_size
      /\ history[g].root.committed_size >= 1
  BY <1>1, <1>2, HistoryFacts DEF Live, OnFile, Anchored, Chained
<1> QED
  BY <1>1, <1>3, HistoryFacts DEF Typed, FileTypeOK

LEMMA NothingAcknowledged ==
    ASSUME AcknowledgedIsSynced, synced = 0, history' = << >>, synced' = 0,
           acknowledged' = acknowledged
    PROVE  AcknowledgedIsSynced'
BY DEF AcknowledgedIsSynced

(* The control region was torn or never written.                           *)
LEMMA BlankAfterPowerLoss ==
    ASSUME Standing, MaxPowerLosses # 0, NoSession, acknowledged' = acknowledged,
           NEW length, NEW left, NEW region, NEW objects, NEW elected,
           Outage(length, left, region, objects),
           Leaves(length, left, region, objects, elected), region # "valid"
    PROVE  Blank' /\ AcknowledgedIsSynced'
<1>1. elected = InvalidDatabase
  BY DEF Leaves
<1>2. synced' = 0 /\ history' = << >>
  BY <1>1, NothingSurvives DEF Standing, InvalidDatabase
<1>3. synced = 0
  <2>1. SUFFICES ASSUME synced # 0 PROVE FALSE
    OBVIOUS
  <2>2. control = "valid" /\ stable_size >= 1
    BY <2>1, SyncedIsStable, HistoryFacts DEF Standing
  <2>3. length # 0 /\ stable_size # 0
    BY <2>2 DEF Outage, Standing, Typed, FileTypeOK
  <2> QED
    BY <2>2, <2>3 DEF Outage, ControlLeft
<1>4. AcknowledgedIsSynced'
  BY <1>2, <1>3, NothingAcknowledged DEF Standing, Lineage
<1>5. length = 0 => \A s \in Slots : Written(s)' = {ZeroSlot} /\ left[s] = ZeroSlot
  BY WrittenOnce DEF Outage, Leaves, RootSlotsEmpty
<1>6. size' = length /\ slots' = left
  BY DEF Leaves
<1> QED
  BY <1>2, <1>4, <1>5, <1>6 DEF Blank, Unpublished, NoSession

(* Nothing was published, and nothing can be recovered.                    *)
LEMMA DeadAfterPowerLoss ==
    ASSUME Standing, Dead, NoSession, acknowledged' = acknowledged,
           NEW length, NEW left, NEW region, NEW objects, NEW elected,
           Outage(length, left, region, objects),
           Leaves(length, left, region, objects, elected), region = "valid"
    PROVE  Dead' /\ AcknowledgedIsSynced'
<1> USE DEF Standing
<1>1. length = size
  BY DEF Dead, Outage, Typed, FileTypeOK
<1>2. left = slots
  <2>1. \A s \in Slots : Written(s) = {slots[s]}
    <3>1. SUFFICES ASSUME NEW s \in Slots PROVE Written(s) = {slots[s]}
      OBVIOUS
    <3>2. slot_writes[s] = <<slots[s]>>
      BY DEF Dead
    <3> QED
      BY <3>2 DEF Written
  <2>2. \A s \in Slots : left[s] = slots[s]
    BY <2>1 DEF Outage
  <2> QED
    BY <2>2 DEF Outage, Typed, FileTypeOK
<1>3. objects = cells
  <2>1. \A o \in Offsets : o < size => objects[o] = cells[o]
    BY DEF Outage, Dead
  <2>2. \A o \in Offsets : o >= size => objects[o] = cells[o]
    BY <1>1 DEF Outage, Lineage, TailIsJunk
  <2>3. \A o \in Offsets : objects[o] = cells[o]
    BY <2>1, <2>2 DEF Offsets, Typed, FileTypeOK
  <2> QED
    BY <2>3 DEF Outage, Typed, FileTypeOK
<1>4. elected = Elected /\ elected.kind = "invalid"
  BY <1>1, <1>2, <1>3 DEF Leaves, Elected, Dead
<1>5. synced' = 0 /\ history' = << >>
  BY <1>4, NothingSurvives
<1>6. AcknowledgedIsSynced'
  BY <1>5, NothingAcknowledged DEF Dead, Unpublished, Lineage
<1>7. Elected' = Elected
  BY <1>1, <1>2, <1>3 DEF Elected, Leaves
<1> QED
  BY <1>4, <1>5, <1>6, <1>7 DEF Dead, Unpublished, NoSession, Leaves

(* Slots that were never written, or not before the loss.                  *)
LEMMA EmptyAfterPowerLoss ==
    ASSUME Standing, NoSession, next_identity' = next_identity,
           synced' = 0, history' = << >>,
           \A s \in Slots : Written(s)' = {ZeroSlot} /\ slots'[s] = ZeroSlot
    PROVE  OnFile' /\ OnSession'
<1>1. Len(history') = 0 /\ DOMAIN history' = {}
  OBVIOUS
<1>2. Fresh' >= 1
  BY DEF Fresh, Standing, Typed, BookkeepingTypeOK, NoSession
<1>3. SlotsHoldRoots' /\ StrangersBlocked'
  BY DEF SlotsHoldRoots, StrangersBlocked, ZeroSlot
<1>4. Chained' /\ RecentInPlace' /\ Anchored'
  BY <1>1 DEF Chained, RecentInPlace, Anchored
<1>5. OnSession'
  BY <1>1, NoSessionFollows, SlotCountAssumption DEF Standing, Sheltered
<1> QED
  BY <1>2, <1>3, <1>4, <1>5 DEF OnFile

(* A root in the image that has the identity of a recorded one is it.      *)
LEMMA IdentityIsRoot ==
    ASSUME Typed, Live, NEW s \in Slots, NEW c \in Written(s), c.kind = "root",
           NEW g \in DOMAIN history, c.generation = g,
           RootIdentity(c) = RootIdentity(history[g].root)
    PROVE  c = history[g].root
<1>1. Recorded(c)
  BY DEF Live, OnFile, StrangersBlocked
<1> QED
  BY <1>1 DEF Recorded

(* The recovered generation.                                               *)
LEMMA Survivor ==
    ASSUME Typed, Live, synced <= Len(history), MaxPowerLosses # 0,
           NEW length, NEW left, NEW region, NEW objects, NEW elected,
           Outage(length, left, region, objects),
           Leaves(length, left, region, objects, elected),
           region = "valid", elected.kind = "root"
    PROVE  \E e \in DOMAIN history :
                /\ elected = history[e].root /\ e >= synced
                /\ synced' = e
                /\ DOMAIN history' = 1 .. e /\ Len(history') = e
                /\ \A g \in 1 .. e : history'[g] = history[g]
                /\ Accepted(objects, CollectRoots(left, length), elected)
                /\ \A d : Accepted(objects, CollectRoots(left, length), d) => d.generation <= e
<1>1. Image(left, objects, length) /\ length \in Nat
  BY OutageImage
<1>2. elected = LoadSnapshot(left, objects, {}, length)
  BY DEF Leaves
<1>3. /\ Recorded(elected)
      /\ synced >= 1 => elected.generation >= synced
      /\ Accepted(objects, CollectRoots(left, length), elected)
  BY <1>1, <1>2, ImageElection
<1>4. PICK e \in DOMAIN history : e = elected.generation /\ elected = history[e].root
  BY <1>3 DEF Recorded
<1>5. {g \in DOMAIN history : history[g].root = elected} = {e}
  <2>1. \A g \in DOMAIN history : history[g].root = elected => g = e
    BY <1>4 DEF Live, OnFile, Chained
  <2> QED
    BY <1>4, <2>1
<1>6. synced' = e
  BY <1>5 DEF Leaves
<1>7. e \in Nat /\ e >= 1 /\ e >= synced /\ e <= Len(history)
  BY <1>3, <1>4, HistoryFacts
<1>8. history' = SubSeq(history, 1, e) /\ history \in Seq(Entry)
  BY <1>6 DEF Leaves, Typed, BookkeepingTypeOK
<1>9. /\ DOMAIN history' = 1 .. e /\ Len(history') = e
      /\ \A g \in 1 .. e : history'[g] = history[g]
  <2>1. PICK h \in Seq(Entry) : h = history
    BY <1>8
  <2>2. /\ Len(SubSeq(h, 1, e)) = e
        /\ DOMAIN SubSeq(h, 1, e) = 1 .. e
        /\ \A g \in 1 .. e : SubSeq(h, 1, e)[g] = h[g]
    BY <1>7, <2>1
  <2> QED
    BY <1>8, <2>1, <2>2
<1>10. \A d : Accepted(objects, CollectRoots(left, length), d) => d.generation <= e
  BY <1>2, <1>4, ElectedIsNewest DEF EmptyDatabase, InvalidDatabase
<1> QED
  BY <1>3, <1>4, <1>6, <1>7, <1>9, <1>10

LEMMA LiveAfterPowerLoss ==
    ASSUME Standing, Live, MaxPowerLosses # 0, NoSession,
           UNCHANGED <<next_identity, acknowledged>>,
           NEW length, NEW left, NEW region, NEW objects, NEW elected,
           Outage(length, left, region, objects),
           Leaves(length, left, region, objects, elected),
           region = "valid", elected.kind = "root"
    PROVE  OnFile' /\ OnSession' /\ AcknowledgedIsSynced'
<1> USE DEF Standing
<1> DEFINE candidates == CollectRoots(left, length)
<1>1. OnFile /\ synced <= Len(history)
  BY LiveSplit DEF Lineage, AcknowledgedIsSynced
<1>2. PICK e \in DOMAIN history :
        /\ elected = history[e].root /\ e >= synced
        /\ synced' = e
        /\ DOMAIN history' = 1 .. e /\ Len(history') = e
        /\ \A g \in 1 .. e : history'[g] = history[g]
        /\ Accepted(objects, candidates, elected)
        /\ \A d : Accepted(objects, candidates, d) => d.generation <= e
  BY <1>1, Survivor
<1>3. /\ Image(left, objects, length) /\ length \in Nat
      /\ slots' = left /\ cells' = objects /\ size' = length /\ stable_size' = length
  BY OutageImage DEF Leaves
<1>4. \A s \in Slots : Written(s)' = {left[s]} /\ left[s] \in Written(s)
  BY WrittenOnce DEF Leaves, Outage
<1>5. /\ e \in Nat /\ e >= 1 /\ e <= Len(history) /\ 1 .. e \subseteq DOMAIN history
      /\ history[e].root.generation = e
      /\ elected \in candidates /\ LoadManifestForRoot(objects, {}, elected)
      /\ RootHasValidPredecessor(candidates, elected)
  BY <1>1, <1>2, HistoryFacts DEF OnFile, Chained, Accepted
<1>6. left[RootSlot(e)] = elected /\ RootSlot(e) \in Slots
  BY <1>1, <1>2, <1>3, <1>5, CandidateFacts DEF OnFile
<1>7. \A g \in 1 .. e : history[g].root.committed_size <= length
  <2>1. elected.committed_size <= length
    BY <1>5 DEF CollectRoots
  <2>2. \A g \in 1 .. e : g = e \/ g \in 1 .. e - 1
    BY <1>5
  <2>3. \A g \in 1 .. e : history[g].root.committed_size <= history[e].root.committed_size
    BY <1>1, <1>5, <2>2, HistoryFacts DEF OnFile, Chained
  <2> QED
    BY SMTT(40), <1>2, <1>3, <1>5, <2>1, <2>3, HistoryFacts
<1>8. Fresh \in Nat /\ Fresh' \in Nat /\ Fresh <= Fresh' /\ Fresh' >= 1
  <2>1. Fresh <= Fresh'
    BY FreshGrows DEF NoSession
  <2> QED
    BY <1>1, <2>1, FreshTyped, NextFreshTyped DEF OnFile
<1>9. SlotsHoldRoots'
  BY <1>1, <1>3, <1>4, <1>8, SlotFacts DEF OnFile, SlotsHoldRoots
<1>10. Chained'
  <2>1. SUFFICES ASSUME NEW g \in 1 .. e
                 PROVE  /\ history'[g].root.generation = g
                        /\ history'[g].root.manifest.offset >= 1
                        /\ history'[g].root.manifest.offset + 1 = history'[g].root.committed_size
                        /\ history'[g].root.committed_size <= length
                        /\ RootIdentity(history'[g].root) < Fresh'
                        /\ history'[g].root.previous_identity =
                                IF g = 1 THEN 0 ELSE RootIdentity(history'[g - 1].root)
                        /\ \A f \in 1 .. g - 1 :
                            /\ RootIdentity(history'[f].root) < RootIdentity(history'[g].root)
                            /\ history'[f].root.committed_size <= history'[g].root.committed_size
    BY <1>2, <1>3 DEF Chained
  <2>2. history'[g] = history[g] /\ \A f \in 1 .. g - 1 : history'[f] = history[f]
    BY <1>2, <1>5
  <2>3. g # 1 => history'[g - 1] = history[g - 1]
    BY <1>2, <1>5
  <2>4. g \in DOMAIN history
    BY <1>5
  <2>5. RootIdentity(history[g].root) < Fresh'
    <3>1. RootIdentity(history[g].root) < Fresh /\ RootIdentity(history[g].root) \in Nat
      BY <1>1, <2>4, HistoryFacts DEF OnFile, Chained
    <3> QED
      BY <1>8, <3>1
  <2>6. history[g].root.committed_size <= length
    BY <1>7
  <2> QED
    BY <1>1, <2>2, <2>3, <2>4, <2>5, <2>6 DEF OnFile, Chained
<1>11. RecentInPlace'
  <2>1. SUFFICES ASSUME NEW g \in 1 .. e, g >= e
                 PROVE  /\ left[RootSlot(g)] = history'[g].root
                        /\ LoadManifestForRoot(objects, {}, history'[g].root)
                        /\ objects[history'[g].root.manifest.offset].catalog = history'[g].catalog
    BY <1>2, <1>3 DEF RecentInPlace, Recent, Loads
  <2>2. g = e /\ history'[g] = history[e]
    BY <1>2, <1>5, <2>1
  <2>3. Loads(history[e])
    BY <1>1, <1>2 DEF OnFile, RecentInPlace, Recent
  <2>4. objects[elected.manifest.offset] = cells[elected.manifest.offset]
    BY <1>5 DEF Outage, LoadManifestForRoot, Junk
  <2> QED
    BY <1>2, <1>5, <1>6, <2>2, <2>3, <2>4 DEF Loads
<1>12. StrangersBlocked'
  <2>1. SUFFICES ASSUME NEW s \in Slots, NEW r \in Written(s)', r.kind = "root", ~Recorded(r)'
                 PROVE  /\ \A g \in 1 .. e : RootIdentity(history'[g].root) # RootIdentity(r)
                        /\ r.generation > e => Blocked(r)'
    BY <1>2, <1>5 DEF StrangersBlocked
  <2>2. r \in Written(s) /\ r = left[s] /\ r \in RootRecord /\ r.generation \in Nat
    BY <1>4, <2>1, SlotFacts
  <2>3. CASE ~Recorded(r)
    <3>1. /\ \A g \in DOMAIN history : RootIdentity(history[g].root) # RootIdentity(r)
          /\ r.generation > synced => Blocked(r)
      BY <1>1, <2>1, <2>2, <2>3 DEF OnFile, StrangersBlocked
    <3>2. Blocked(r) => Blocked(r)'
      BY <1>3, <1>4, <2>2 DEF Blocked, Image
    <3>3. r.generation > e => r.generation > synced
      BY <1>2, <1>5, <2>2, HistoryFacts
    <3> QED
      BY <1>2, <1>5, <3>1, <3>2, <3>3
  <2>4. CASE Recorded(r)
    <3>1. PICK k \in DOMAIN history : k = r.generation /\ r = history[k].root
      BY <2>4 DEF Recorded
    <3>2. k > e /\ k \in Nat /\ k >= 2
      BY SMTT(40), <1>2, <1>5, <2>1, <3>1, HistoryFacts DEF Recorded
    <3>3. \A g \in 1 .. e : RootIdentity(history'[g].root) # RootIdentity(r)
      <4>1. SUFFICES ASSUME NEW g \in 1 .. e
                     PROVE  RootIdentity(history[g].root) # RootIdentity(history[k].root)
        BY <1>2, <3>1
      <4>2. g \in 1 .. k - 1 /\ g \in DOMAIN history
        BY <1>5, <3>2
      <4>3. RootIdentity(history[g].root) < RootIdentity(history[k].root)
        BY <1>1, <3>1, <4>2 DEF OnFile, Chained
      <4> QED
        BY <3>1, <4>2, <4>3, HistoryFacts
    <3>4. Blocked(r)'
      <4>1. SUFFICES ASSUME LoadManifestForRoot(objects, {}, r),
                            NEW t \in Slots, NEW c, c = left[t], c.kind = "root",
                            c.generation + 1 = k, RootIdentity(c) = r.previous_identity
                     PROVE  FALSE
        BY <1>3, <1>4, <3>1 DEF Blocked
      <4>2. PICK f \in DOMAIN history : f = k - 1
        BY SMTT(40), <3>1, <3>2, HistoryFacts
      <4>3. c \in Written(t) /\ c.generation \in Nat /\ RootSlot(c.generation) = t
        BY <1>1, <1>4, <4>1, SlotFacts DEF OnFile, SlotsHoldRoots
      <4>4. c.generation = f
        BY <3>2, <4>1, <4>2, <4>3
      <4>5. r.previous_identity = RootIdentity(history[f].root)
        <5>1. /\ k # 1
              /\ history[k].root.previous_identity =
                    IF k = 1 THEN 0 ELSE RootIdentity(history[k - 1].root)
          BY SMTT(40), <1>1, <3>1, <3>2 DEF OnFile, Chained
        <5> QED
          BY <3>1, <4>2, <5>1
      <4>6. left[RootSlot(k - 1)] = history[k - 1].root
        BY <4>1, <4>2, <4>3, <4>4, <4>5, IdentityIsRoot
      <4>7. r.committed_size <= length
        <5>1. r.manifest.offset \in Offsets /\ ~(r.manifest.offset >= length)
          BY <4>1 DEF LoadManifestForRoot, Outage, Junk
        <5>2. /\ r.manifest.offset \in Nat /\ r.committed_size \in Nat
              /\ r.manifest.offset + 1 = r.committed_size
          BY ZenonT(60), <1>1, <3>1, HistoryFacts DEF OnFile, Chained
        <5> QED
          BY <1>3, <5>1, <5>2
      <4>8. RootSlot(k) = s
        BY <1>1, <2>1, <2>2, <3>1 DEF OnFile, SlotsHoldRoots
      <4>9. Accepted(objects, candidates, r)
        BY <1>1, <1>3, <2>2, <3>1, <4>1, <4>6, <4>7, <4>8,
           RecordedIsCandidate, PredecessorSuffices DEF OnFile, Accepted
      <4>10. r.generation <= e
        BY <1>2, <4>9
      <4> QED
        BY <1>5, <3>1, <3>2, <4>10
    <3> QED
      BY <3>3, <3>4
  <2> QED
    BY <2>3, <2>4
<1>13. Anchored'
  <2>1. SUFFICES ASSUME e # 1
                 PROVE  \/ Written(RootSlot(e - 1))' = {history'[e - 1].root}
                        \/ \A s \in Slots : \A r \in Written(s)' : r.kind = "root" => r.generation >= e
    <3>1. Written(RootSlot(e))' = {history'[e].root}
      BY <1>2, <1>4, <1>5, <1>6
    <3>2. history'[e].root.committed_size <= stable_size'
      BY <1>2, <1>3, <1>5, <1>7
    <3> QED
      BY <1>2, <2>1, <3>1, <3>2 DEF Anchored
  <2>2. PICK f \in 1 .. e : f = e - 1
    BY <1>5, <2>1
  <2>3. f \in DOMAIN history /\ f \in Nat /\ RootSlot(f) \in Slots /\ history'[f] = history[f]
    BY <1>2, <1>5, <2>2, RootSlotTyped
  <2>4. CASE \E c \in candidates : c.generation = f
    <3>1. PICK c \in candidates : c.generation = f
      BY <2>4
    <3>2. RootIdentity(c) = elected.previous_identity
      BY <1>2, <1>5, <2>1, <2>2, <3>1 DEF RootHasValidPredecessor
    <3>3. elected.previous_identity = RootIdentity(history[f].root)
      BY <1>1, <1>2, <2>1, <2>2 DEF OnFile, Chained
    <3>4. c.kind = "root" /\ c = left[RootSlot(f)] /\ c \in Written(RootSlot(f))
      BY <1>1, <1>3, <3>1, CandidateFacts DEF OnFile
    <3>5. c = history[f].root
      BY <2>3, <3>1, <3>2, <3>3, <3>4, IdentityIsRoot
    <3> QED
      BY <1>4, <2>2, <2>3, <3>4, <3>5
  <2>5. CASE ~\E c \in candidates : c.generation = f
    <3>1. \A c \in candidates : e <= c.generation
      BY <1>2, <1>5, <2>1, <2>2, <2>5 DEF RootHasValidPredecessor
    <3>2. CASE synced = 0
      <4>1. SUFFICES ASSUME NEW s \in Slots, NEW r, r = left[s], r.kind = "root",
                            ~(r.generation >= e)
                     PROVE  FALSE
        BY <1>4
      <4>2. /\ r \in Written(s) /\ r.generation \in Nat /\ RootSlot(r.generation) = s
            /\ Recorded(r)
        BY <1>1, <1>4, <3>2, <4>1, SlotFacts DEF OnFile, SlotsHoldRoots, StrangersBlocked
      <4>3. PICK k \in 1 .. e : k = r.generation /\ r = history[k].root /\ k \in DOMAIN history
        BY <1>5, <4>1, <4>2, HistoryFacts DEF Recorded
      <4>4. r \in candidates
        BY <1>1, <1>3, <1>7, <4>1, <4>2, <4>3, RecordedIsCandidate DEF OnFile
      <4> QED
        BY <3>1, <4>1, <4>2, <4>4
    <3>3. CASE synced # 0
      <4>1. PICK k \in DOMAIN history : k = synced
        BY <1>1, <3>3, HistoryFacts
      <4>2. history[k].root \in candidates /\ history[k].root.generation = k
        BY <1>1, <1>3, <3>3, <4>1, AnchorAccepted, HistoryFacts DEF Accepted, OnFile, Chained
      <4>3. k = e
        BY <1>2, <1>5, <3>1, <4>1, <4>2, HistoryFacts
      <4>4. \/ Written(RootSlot(f)) = {history[f].root}
            \/ \A s \in Slots : \A r \in Written(s) : r.kind = "root" => r.generation >= e
        BY <1>1, <1>5, <2>1, <2>2, <4>1, <4>3 DEF OnFile, Anchored
      <4> QED
        BY <1>4, <2>2, <2>3, <4>4
    <3> QED
      BY <3>2, <3>3
  <2> QED
    BY <2>4, <2>5
<1>14. OnSession'
  BY <1>2, <1>5, NoSessionFollows, SlotCountAssumption DEF Sheltered
<1>15. AcknowledgedIsSynced'
  BY SMTT(40), <1>2, <1>5, HistoryFacts DEF Lineage, AcknowledgedIsSynced
<1> QED
  BY <1>8, <1>9, <1>10, <1>11, <1>12, <1>13, <1>14, <1>15 DEF OnFile

LEMMA PowerLossFollows == Standing /\ PowerLoss => Lineage'
<1> SUFFICES ASSUME Standing, PowerLoss PROVE Lineage'
  OBVIOUS
<1> USE DEF Standing
<1>1. /\ NoSession /\ size > 0 /\ MaxPowerLosses # 0
      /\ UNCHANGED <<next_identity, acknowledged>>
  BY PublicationAssumption DEF PowerLoss, Typed, BookkeepingTypeOK
<1>2. PICK length, left, region, objects, elected :
        /\ Outage(length, left, region, objects)
        /\ Leaves(length, left, region, objects, elected)
  BY PowerLossLeaves
<1>3. /\ control' = region /\ slots' = left /\ cells' = objects
      /\ size' = length /\ stable_size' = length
  BY <1>2 DEF Leaves
<1>4. ClosedSession'
  BY <1>1 DEF ClosedSession, NoSession
<1>5. TailIsJunk'
  BY <1>2, <1>3 DEF TailIsJunk, Outage
<1>6. Extent'
  <2>1. control # "none"
    BY <1>1 DEF Lineage, Extent
  <2>2. length = 0 <=> region = "none"
    BY <1>2, <2>1 DEF Outage, ControlLeft
  <2> QED
    BY <1>2, <1>3, <2>2 DEF Extent, Outage
<1>7. CASE region # "valid"
  <2>1. Blank' /\ AcknowledgedIsSynced'
    BY <1>1, <1>2, <1>7, BlankAfterPowerLoss
  <2> QED
    BY <1>3, <1>4, <1>5, <1>6, <1>7, <2>1 DEF Lineage
<1>8. CASE region = "valid"
  <2>1. control = "valid"
    BY <1>2, <1>8 DEF Outage, ControlLeft
  <2>2. CASE Dead
    <3>1. Dead' /\ AcknowledgedIsSynced'
      BY <1>1, <1>2, <1>8, <2>2, DeadAfterPowerLoss
    <3> QED
      BY <1>3, <1>4, <1>5, <1>6, <1>8, <3>1 DEF Lineage
  <2>3. CASE Live /\ elected.kind = "root"
    <3>1. OnFile' /\ OnSession' /\ AcknowledgedIsSynced'
      BY <1>1, <1>2, <1>8, <2>3, LiveAfterPowerLoss
    <3> QED
      BY <1>3, <1>4, <1>5, <1>6, <1>8, <3>1, StaysLive
  <2>4. CASE Live /\ elected.kind # "root"
    <3>1. synced' = 0 /\ history' = << >>
      BY <1>2, <2>4, NothingSurvives
    <3>2. elected = LoadSnapshot(left, objects, {}, length) /\ Image(left, objects, length) /\ length \in Nat
      BY <1>2, <1>8, OutageImage DEF Leaves
    <3>3. synced = 0
      <4>1. ~(synced >= 1)
        BY <1>1, <2>4, <3>2, ImageElection DEF Lineage, AcknowledgedIsSynced
      <4> QED
        BY <4>1, HistoryFacts
    <3>4. AcknowledgedIsSynced'
      BY <1>1, <3>1, <3>3, NothingAcknowledged DEF Lineage
    <3>5. elected = InvalidDatabase \/ (elected = EmptyDatabase /\ RootSlotsEmpty(left))
      BY <2>4, <3>2, ElectedIsNewest
    <3>6. CASE elected = InvalidDatabase
      <4>1. Elected' = elected
        BY <1>3, <3>2 DEF Elected
      <4>2. Dead'
        BY <1>1, <1>2, <1>3, <3>1, <3>6, <4>1 DEF Dead, Unpublished, NoSession, Leaves, InvalidDatabase
      <4> QED
        BY <1>3, <1>4, <1>5, <1>6, <1>8, <3>4, <4>2 DEF Lineage
    <3>7. CASE RootSlotsEmpty(left)
      <4>1. \A s \in Slots : Written(s)' = {ZeroSlot} /\ slots'[s] = ZeroSlot
        BY <1>2, <1>3, <3>7, WrittenOnce DEF Leaves, RootSlotsEmpty
      <4>2. OnFile' /\ OnSession'
        BY <1>1, <3>1, <4>1, EmptyAfterPowerLoss
      <4> QED
        BY <1>3, <1>4, <1>5, <1>6, <1>8, <3>4, <4>2, StaysLive
    <3> QED
      BY <3>5, <3>6, <3>7
  <2> QED
    BY <2>1, <2>2, <2>3, <2>4 DEF Lineage
<1> QED
  BY <1>7, <1>8

-----------------------------------------------------------------------------
(* Every step.                                                             *)

LEMMA StutterFollows == Lineage /\ UNCHANGED vars => Lineage'
<1> SUFFICES ASSUME Lineage, UNCHANGED vars PROVE Lineage'
  OBVIOUS
<1>1. /\ UNCHANGED <<control, slots, cells, size, stable_size, slot_writes>>
      /\ UNCHANGED <<history, synced, acknowledged, next_identity, step, durability>>
      /\ UNCHANGED <<write_offset, committed_size, generation, previous_root_identity,
                     poisoned, catalog, pending>>
  BY DEF vars, fileVars, sessionVars, ghostVars
<1>2. ClosedSession' /\ TailIsJunk' /\ AcknowledgedIsSynced' /\ Extent'
  BY <1>1 DEF Lineage, ClosedSession, TailIsJunk, AcknowledgedIsSynced, Extent
<1>3. Fresh' = Fresh /\ NextRoot' = NextRoot /\ \A s \in Slots : Written(s)' = Written(s)
  BY <1>1 DEF Fresh, NextRoot, Written
<1>4. Live => Live'
  <2>1. OnFile => SlotsHoldRoots' /\ Chained' /\ RecentInPlace' /\ Fresh' >= 1
    BY <1>1, <1>3 DEF OnFile, SlotsHoldRoots, Chained, RecentInPlace, Recent, Loads
  <2>2. OnFile => StrangersBlocked' /\ Anchored'
    BY <1>1, <1>3 DEF OnFile, StrangersBlocked, Blocked, Recorded, Anchored, Written
  <2>3. OnSession => OnSession'
    BY <1>1, <1>3 DEF OnSession, WithinReach, WriterFollows, ManifestReady, PointersBelow
  <2> QED
    BY <2>1, <2>2, <2>3, LiveSplit DEF Live, OnFile, OnSession
<1>5. Dead => Dead'
  BY <1>1 DEF Dead, Unpublished, Elected
<1>6. Blank => Blank'
  BY <1>1, <1>3 DEF Blank, Unpublished
<1> QED
  BY <1>1, <1>2, <1>4, <1>5, <1>6 DEF Lineage

LEMMA NextFollows ==
    ASSUME Sheltered, Typed, Typed', OwnsTail, Lineage, [Next]_vars
    PROVE  Lineage'
<1>1. Standing
  BY DEF Standing
<1>2. CASE WriterNext
  BY <1>1, <1>2, CreateFollows, CreateFailureFollows, OpenFollows, AppendFollows,
     FailureFollows, BeginCheckpointFollows, WriteObjectsFollows, WriteManifestFollows,
     SyncObjectsFollows, TearRootFollows, WriteRootFollows, SyncRootFollows,
     SyncCleanFollows, LeaveFollows DEF WriterNext
<1>3. CASE PowerLoss
  BY <1>1, <1>3, PowerLossFollows
<1>4. CASE UNCHANGED vars
  BY <1>4, StutterFollows
<1> QED
  BY <1>2, <1>3, <1>4 DEF Next

LEMMA InitFollows == Init => Lineage
<1> SUFFICES ASSUME Init PROVE Lineage
  OBVIOUS
<1>1. \A s \in Slots : Written(s) = {ZeroSlot} /\ slots[s] = ZeroSlot
  <2>1. SUFFICES ASSUME NEW s \in Slots PROVE Written(s) = {ZeroSlot} /\ slots[s] = ZeroSlot
    OBVIOUS
  <2>2. slot_writes[s] = <<ZeroSlot>> /\ slots[s] = ZeroSlot
    BY DEF Init
  <2> QED
    BY <2>2 DEF Written
<1>2. Blank
  BY <1>1 DEF Init, Blank, Unpublished
<1>3. ClosedSession /\ TailIsJunk /\ AcknowledgedIsSynced /\ Extent
  BY DEF Init, ClosedSession, TailIsJunk, AcknowledgedIsSynced, Extent
<1> QED
  BY <1>2, <1>3 DEF Init, Lineage

Followed == Typed /\ OwnsTail /\ Lineage

LEMMA LineageHolds == ASSUME Sheltered PROVE Spec => []Followed
<1>1. Init => Followed
  BY InitTyped, InitFollows DEF Init, Followed, OwnsTail, WriterOwnsTail, ActiveUnpoisoned
<1>2. Followed /\ [Next]_vars => Followed'
  BY NextTyped, NextTail, NextFollows DEF Followed
<1> QED
  BY <1>1, <1>2, PTL DEF Spec

-----------------------------------------------------------------------------
(* Recovery is exact.  In a file with at least three root slots, whichever *)
(* writes and syncs fail and wherever the writer's process dies, opening   *)
(* the file loads the newest generation whose root was completely written; *)
(* where the machine may lose power too, this holds as long as at most     *)
(* SlotCount - 2 roots are published beyond the last synced one.           *)
THEOREM RecoveryIsExact == ASSUME Sheltered PROVE Spec => []ElectionIsHead
<1>1. Followed => ElectionIsHead
  <2>1. SUFFICES ASSUME Followed, control = "valid"
                 PROVE  IF history = << >> THEN Elected.kind \in {"empty", "invalid"}
                        ELSE Elected = history[Len(history)].root
    BY DEF ElectionIsHead
  <2>2. CASE Dead
    BY <2>2 DEF Dead, Unpublished
  <2>3. CASE Live
    <3>1. /\ Len(history) = 0 => Elected.kind \in {"empty", "invalid"}
          /\ Len(history) # 0 => Elected = history[Len(history)].root
      BY <2>1, <2>3, HeadElected DEF Followed, Lineage, AcknowledgedIsSynced
    <3>2. history = << >> <=> Len(history) = 0
      BY <2>1, EmptySeq DEF Followed, Typed, BookkeepingTypeOK
    <3> QED
      BY <3>1, <3>2
  <2> QED
    BY <2>1, <2>2, <2>3 DEF Followed, Lineage
<1> QED
  BY <1>1, LineageHolds, PTL

(* An idle, unpoisoned writer continues from what recovery would load: its *)
(* generation, extent, catalog and the identity its next root will name    *)
(* are those of the newest published root.                                 *)
THEOREM WriterContinuesHead == ASSUME Sheltered PROVE Spec => []WriterAgreesWithFile
<1>1. Followed => WriterAgreesWithFile
  <2>1. SUFFICES ASSUME Followed, step = "idle", ~poisoned
                 PROVE  IF history = << >> THEN generation = 0
                        ELSE /\ generation = Len(history)
                             /\ committed_size = history[generation].root.committed_size
                             /\ previous_root_identity = RootIdentity(history[generation].root)
                             /\ catalog = history[generation].catalog
    BY DEF WriterAgreesWithFile
  <2>2. WriterFollows
    BY <2>1, ActiveIsLive DEF Followed, Live
  <2>3. history = << >> <=> Len(history) = 0
    BY <2>1, EmptySeq DEF Followed, Typed, BookkeepingTypeOK
  <2> QED
    BY <2>1, <2>2, <2>3 DEF WriterFollows
<1> QED
  BY <1>1, LineageHolds, PTL

(* A generation that a disk checkpoint has acknowledged is never lost: not *)
(* to failed calls, nor crashes, nor, within the same reach, power losses. *)
THEOREM AcknowledgedIsKept == ASSUME Sheltered PROVE Spec => []AcknowledgedSurvives
<1>1. Followed => AcknowledgedSurvives
  <2>1. SUFFICES ASSUME Followed, acknowledged # ZeroIdentity
                 PROVE  \E g \in DOMAIN history : RootIdentity(history[g].root) = acknowledged
    BY DEF AcknowledgedSurvives
  <2>2. PICK g \in 1 .. synced : RootIdentity(history[g].root) = acknowledged
    BY <2>1 DEF Followed, Lineage, AcknowledgedIsSynced
  <2>3. g \in DOMAIN history
    BY <2>1, HistoryFacts DEF Followed, Lineage, AcknowledgedIsSynced
  <2> QED
    BY <2>2, <2>3
<1> QED
  BY <1>1, LineageHolds, PTL

-----------------------------------------------------------------------------
(* What was synced stays readable.                                         *)

(* A catalog lies below the end of its generation, and a root of a disk    *)
(* checkpoint is written to a file that is synced to its end.              *)
CatalogsBelow ==
    \A g \in DOMAIN history : \A p \in history[g].catalog :
        p.offset < history[g].root.committed_size

RootAfterSync ==
    (durability = "disk" /\ step \in {"root", "root_torn", "sync_root"}) => stable_size = size

LEMMA PrefixEntries ==
    ASSUME Typed, NEW n \in 0 .. Len(history), history' = SubSeq(history, 1, n)
    PROVE  \A g \in DOMAIN history' : g \in DOMAIN history /\ history'[g] = history[g]
<1>1. PICK h \in Seq(Entry) : h = history
  BY DEF Typed, BookkeepingTypeOK
<1>2. \A g \in DOMAIN SubSeq(h, 1, n) : g \in DOMAIN h /\ SubSeq(h, 1, n)[g] = h[g]
  BY <1>1, SubSeqProperties
<1> QED
  BY <1>1, <1>2

LEMMA PowerLossPrefix ==
    ASSUME Typed, PowerLoss
    PROVE  \A g \in DOMAIN history' : g \in DOMAIN history /\ history'[g] = history[g]
<1>1. PICK length, left, region, objects, elected :
        Leaves(length, left, region, objects, elected)
  BY PowerLossLeaves
<1>2. synced' = 0 \/ synced' \in DOMAIN history
  BY <1>1 DEF Leaves
<1>3. synced' \in 0 .. Len(history)
  BY <1>2, HistoryFacts
<1>4. PICK n \in 0 .. Len(history) : n = synced'
  BY <1>3
<1>5. history' = SubSeq(history, 1, n)
  BY <1>1, <1>4 DEF Leaves
<1> QED
  BY <1>5, PrefixEntries

LEMMA CatalogsStayBelow ==
    ASSUME Followed, CatalogsBelow, [Next]_vars
    PROVE  CatalogsBelow'
<1> USE DEF Followed
<1>1. CASE history' = history
  BY <1>1 DEF CatalogsBelow
<1>2. CASE \A g \in DOMAIN history' : g \in DOMAIN history /\ history'[g] = history[g]
  BY <1>2 DEF CatalogsBelow
<1>3. CASE TearRoot
  <2>1. Smaller(generation, Len(history)) \in 0 .. Len(history)
    BY HistoryFacts DEF Smaller, Typed, WriterTypeOK
  <2> QED
    BY <1>2, <1>3, <2>1, PrefixEntries DEF TearRoot
<1>4. CASE PowerLoss
  BY <1>2, <1>4, PowerLossPrefix
<1>5. CASE WriteRoot
  <2>1. step = "root_torn" /\ write_offset \in Nat
    BY <1>5 DEF WriteRoot, Typed, WriterTypeOK
  <2>2. \A p \in catalog \cup pending : p.offset < NextRoot.committed_size
    BY <2>1, ActiveIsLive DEF Live, PointersBelow, NextRoot, Root
  <2> DEFINE e == [root |-> NextRoot, catalog |-> catalog \cup pending]
  <2>3. history' = Append(history, e)
    BY <1>5 DEF WriteRoot
  <2>4. \A g \in DOMAIN history' : \/ g \in DOMAIN history /\ history'[g] = history[g]
                                   \/ history'[g] = e
    BY <2>3, AppendProperties DEF Typed, BookkeepingTypeOK
  <2>5. \A p \in e.catalog : p.offset < e.root.committed_size
    BY <2>2
  <2> HIDE DEF e
  <2> QED
    BY <2>4, <2>5 DEF CatalogsBelow
<1>6. \/ history' = history \/ TearRoot \/ WriteRoot \/ PowerLoss
  BY DEF Next, WriterNext, vars, ghostVars, CreateControl, CreateControlFails, Open,
         AppendBatch, AppendBatchFails, BeginCheckpoint, Begin, WriteObjects,
         WriteManifest, SyncObjects, SyncRoot, SyncClean, CallFails, CloseDirty,
         Leave, Crash
<1> QED
  BY <1>1, <1>3, <1>4, <1>5, <1>6

LEMMA RootStaysAfterSync ==
    ASSUME Followed, RootAfterSync, [Next]_vars
    PROVE  RootAfterSync'
<1>1. CASE SyncObjects
  BY <1>1 DEF SyncObjects, Sync, RootAfterSync
<1>2. CASE TearRoot
  BY <1>2 DEF TearRoot, WriteSlot, sessionVars, RootAfterSync
<1>3. CASE WriteRoot
  BY <1>3 DEF WriteRoot, WriteSlot, Adopt, NoSession, sessionVars, RootAfterSync
<1>4. CASE WriteManifest
  BY <1>4 DEF WriteManifest, RootAfterSync
<1>5. CASE UNCHANGED vars
  BY <1>5 DEF vars, fileVars, sessionVars, RootAfterSync
<1>6. CASE step' \in {"closed", "idle", "objects", "manifest"}
  BY <1>6 DEF RootAfterSync
<1>7. \/ SyncObjects \/ TearRoot \/ WriteRoot \/ WriteManifest \/ UNCHANGED vars
      \/ step' \in {"closed", "idle", "objects", "manifest"}
  BY DEF Next, WriterNext, CreateControl, CreateControlFails, Open,
         AppendBatch, AppendBatchFails, BeginCheckpoint, Begin, WriteObjects,
         SyncRoot, Adopt, SyncClean, CallFails, ReturnError, CloseDirty,
         Leave, Crash, NoSession, PowerLoss
<1> QED
  BY <1>1, <1>2, <1>3, <1>4, <1>5, <1>6, <1>7

(* Below the synced end a power loss changes nothing.                      *)
LEMMA StableIsKept ==
    ASSUME Followed, NEW length, NEW left, NEW region, NEW objects,
           Outage(length, left, region, objects), cells' = objects,
           NEW o \in Offsets, o < stable_size \/ stable_size = size
    PROVE  cells'[o] = cells[o]
<1>1. CASE o < stable_size
  BY <1>1 DEF Outage
<1>2. CASE stable_size = size
  <2>1. length = size /\ size \in Nat
    BY <1>2 DEF Outage, Followed, Typed, FileTypeOK
  <2>2. CASE o >= size
    BY <2>1, <2>2 DEF Outage, Followed, Lineage, TailIsJunk
  <2>3. CASE o < size
    BY <1>2, <2>3 DEF Outage
  <2> QED
    BY <2>1, <2>2, <2>3 DEF Offsets
<1> QED
  BY <1>1, <1>2

LEMMA SyncedIsBelow ==
    ASSUME Followed, MaxPowerLosses # 0, NEW g \in DOMAIN history, g <= synced
    PROVE  history[g].root.committed_size <= stable_size
<1> USE DEF Followed
<1>1. synced >= 1 /\ synced \in DOMAIN history
  BY HistoryFacts DEF Lineage, AcknowledgedIsSynced
<1>2. Live
  BY <1>1, SyncedIsStable
<1>3. history[synced].root.committed_size <= stable_size
  BY <1>1, <1>2 DEF Live, OnFile, Anchored
<1>4. history[g].root.committed_size <= history[synced].root.committed_size
  <2>1. g = synced \/ g \in 1 .. synced - 1
    BY HistoryFacts
  <2> QED
    BY <1>1, <1>2, <2>1, HistoryFacts DEF Live, OnFile, Chained
<1> QED
  BY <1>1, <1>3, <1>4, HistoryFacts DEF Typed, FileTypeOK

LEMMA SyncedStaysReadable ==
    ASSUME Followed, CatalogsBelow, RootAfterSync, PowerLoss,
           NEW g \in DOMAIN history', Synced(g), Readable(history[g])
    PROVE  Readable(history[g])'
<1> USE DEF Followed
<1>1. g \in DOMAIN history /\ history'[g] = history[g]
  BY PowerLossPrefix
<1>2. PICK length, left, region, objects, elected :
        /\ Outage(length, left, region, objects)
        /\ Leaves(length, left, region, objects, elected)
  BY PowerLossLeaves
<1>3. cells' = objects /\ DOMAIN cells' = Offsets /\ DOMAIN cells = Offsets
  BY <1>2 DEF Leaves, Outage, Typed, FileTypeOK
<1>4. MaxPowerLosses # 0
  BY PublicationAssumption DEF PowerLoss, Typed, BookkeepingTypeOK
<1>5. CASE g <= synced
  <2>1. history[g].root.committed_size <= stable_size
    BY <1>1, <1>4, <1>5, SyncedIsBelow
  <2>2. Live
    BY <1>1, HistoryFacts DEF Lineage, Dead, Blank, Unpublished
  <2>3. history[g].root.manifest.offset < stable_size /\ stable_size \in Nat
    BY SMTT(40), <1>1, <2>1, <2>2, HistoryFacts DEF Live, OnFile, Chained, Typed, FileTypeOK
  <2>4. cells'[history[g].root.manifest.offset] = cells[history[g].root.manifest.offset]
    BY <1>2, <1>3, <2>3, StableIsKept DEF Readable, LoadManifestForRoot
  <2>5. \A p \in history[g].catalog : cells'[p.offset] = cells[p.offset] /\ p.offset \in Offsets
    <3>1. SUFFICES ASSUME NEW p \in history[g].catalog
                   PROVE  cells'[p.offset] = cells[p.offset] /\ p.offset \in Offsets
      OBVIOUS
    <3>2. p.offset \in Offsets
      BY <1>3 DEF Readable, Authentic
    <3>3. p.offset < stable_size
      BY <1>1, <2>1, <2>3, <3>2, HistoryFacts DEF CatalogsBelow, Offsets
    <3> QED
      BY <1>2, <1>3, <3>2, <3>3, StableIsKept
  <2> QED
    BY <1>1, <1>3, <2>4, <2>5 DEF Readable, LoadManifestForRoot, Authentic
<1>6. CASE durability = "disk" /\ step \in {"root", "root_torn", "sync_root"}
  <2>1. stable_size = size
    BY <1>6 DEF RootAfterSync
  <2>2. \A o \in Offsets : cells'[o] = cells[o]
    BY <1>2, <1>3, <2>1, StableIsKept
  <2> QED
    BY <1>1, <1>3, <2>2 DEF Readable, LoadManifestForRoot, Authentic
<1> QED
  BY <1>5, <1>6 DEF Synced

(* No power loss makes a generation unreadable that was synced, or whose   *)
(* objects were: its manifest and every object in its catalog keep their   *)
(* bytes.                                                                  *)
THEOREM SyncedIsKept == ASSUME Sheltered PROVE Spec => SyncedSurvives
<1>1. Init => CatalogsBelow /\ RootAfterSync
  BY DEF Init, CatalogsBelow, RootAfterSync
<1>2. Followed /\ CatalogsBelow /\ RootAfterSync /\ [Next]_vars => CatalogsBelow' /\ RootAfterSync'
  BY CatalogsStayBelow, RootStaysAfterSync
<1>3. Followed /\ CatalogsBelow /\ RootAfterSync /\ [Next]_vars =>
        [PowerLoss => \A g \in DOMAIN history' :
            Synced(g) /\ Readable(history[g]) => Readable(history[g])']_vars
  BY SyncedStaysReadable
<1> QED
  BY <1>1, <1>2, <1>3, LineageHolds, PTL DEF Spec, SyncedSurvives

=============================================================================
