------------------------------ MODULE Recovery ------------------------------
(***************************************************************************)
(* The recovery rule of a chronotail file: which generation an open or a   *)
(* refresh adopts, given the control region and the objects in the file.   *)
(*                                                                         *)
(* A file is measured in units.  Unit 0 is the 64 KiB control region: the  *)
(* format header and SlotCount root slots.  Every later unit holds one     *)
(* object: the data pages and index nodes of one write, a manifest, or     *)
(* junk (a partial write, or bytes that never reached the disk).  A        *)
(* BLAKE3 identity is a number that no two objects share.                  *)
(***************************************************************************)
EXTENDS Naturals, FiniteSets

CONSTANT SlotCount      \* format.root_slot_count, 4 in the code

ASSUME SlotCountAssumption == SlotCount \in Nat \ {0}

Slots == 0 .. SlotCount - 1
ControlSize == 1
ManifestSize == 1
ZeroIdentity == 0

-----------------------------------------------------------------------------
(* Slot contents.  A slot is all zero, fails its checksum, or decodes.     *)

ZeroSlot == [kind |-> "zero"]
TornSlot == [kind |-> "torn"]
Root(generation, committed_size, manifest, previous_identity) ==
    [kind |-> "root", generation |-> generation,
     committed_size |-> committed_size, manifest |-> manifest,
     previous_identity |-> previous_identity]

(* A root hashes its manifest pointer, so each root has an identity of its *)
(* own because each manifest has one.                                      *)
RootIdentity(root) == root.manifest.identity

(* Root.decode and Pointer.validate.                                       *)
Decodes(slot) ==
    /\ slot.kind = "root"
    /\ slot.generation # 0
    /\ slot.manifest.offset >= ControlSize
    /\ slot.manifest.offset + ManifestSize <= slot.committed_size

(* Mutant: publication always overwrites the first slot.                   *)
FirstSlotOnly(generation) == 0

RootSlot(generation) == (generation - 1) % SlotCount

-----------------------------------------------------------------------------
(* Object contents.                                                        *)

Junk == [kind |-> "junk"]
Objects(identity) == [kind |-> "objects", identity |-> identity]
Manifest(identity, generation, catalog) ==
    [kind |-> "manifest", identity |-> identity,
     generation |-> generation, catalog |-> catalog]

(* An object read through a pointer is accepted when its bytes hash to the *)
(* identity in the pointer.                                                *)
Authentic(cells, pointer) ==
    /\ pointer.offset \in DOMAIN cells
    /\ cells[pointer.offset].kind = "objects"
    /\ cells[pointer.offset].identity = pointer.identity

-----------------------------------------------------------------------------
(* The election.                                                           *)

(* Mutant: a root that covers the whole file is taken to exceed it.        *)
CollectRootsShortOfEnd(slots, physical_size) ==
    {slots[s] : s \in {t \in Slots :
        /\ Decodes(slots[t])
        /\ slots[t].committed_size \in ControlSize .. physical_size - 1
        /\ slots[t].manifest.offset + ManifestSize = slots[t].committed_size}}

CollectRoots(slots, physical_size) ==
    {slots[s] : s \in {t \in Slots :
        /\ Decodes(slots[t])
        /\ slots[t].committed_size \in ControlSize .. physical_size
        /\ slots[t].manifest.offset + ManifestSize = slots[t].committed_size}}

RootSlotsEmpty(slots) == \A s \in Slots : slots[s] = ZeroSlot

(* Mutant: any root of the preceding generation counts as predecessor.     *)
RootHasSomePredecessor(candidates, root) ==
    \/ root.generation = 1
    \/ \E c \in candidates : c.generation = root.generation - 1
    \/ \A c \in candidates : root.generation <= c.generation

(* A root is accepted when the slot region holds its predecessor, or when  *)
(* it is the oldest root the region holds.                                 *)
RootHasValidPredecessor(candidates, root) ==
    IF root.generation = 1
    THEN root.previous_identity = ZeroIdentity
    ELSE LET before == {c \in candidates : c.generation = root.generation - 1}
         IN  IF before # {}
             THEN \A c \in before : root.previous_identity = RootIdentity(c)
             ELSE \A c \in candidates : root.generation <= c.generation

(* The manifest is the only object the election reads.  unreadable is the  *)
(* set of offsets whose read fails.                                        *)
LoadManifestForRoot(cells, unreadable, root) ==
    /\ root.manifest.offset \in DOMAIN cells \ unreadable
    /\ cells[root.manifest.offset].kind = "manifest"
    /\ cells[root.manifest.offset].identity = root.manifest.identity
    /\ cells[root.manifest.offset].generation = root.generation
    /\ \A p \in cells[root.manifest.offset].catalog :
            p.offset \in ControlSize .. root.committed_size - 1

EmptyDatabase == [kind |-> "empty"]
InvalidDatabase == [kind |-> "invalid"]

(* The loop drops the newest candidate until one is accepted.  The         *)
(* candidates dropped are newer than the ones that remain, and a           *)
(* predecessor is older, so dropping changes no later decision.            *)
LoadSnapshotFromCandidates(cells, unreadable, candidates) ==
    LET accepted == {c \in candidates :
                        /\ RootHasValidPredecessor(candidates, c)
                        /\ LoadManifestForRoot(cells, unreadable, c)}
        newest == {c \in accepted :
                        \A d \in accepted : d.generation <= c.generation}
    IN  IF newest = {} THEN InvalidDatabase ELSE CHOOSE c \in newest : TRUE

LoadSnapshot(slots, cells, unreadable, physical_size) ==
    LET candidates == CollectRoots(slots, physical_size)
    IN  IF candidates = {} /\ RootSlotsEmpty(slots)
        THEN EmptyDatabase
        ELSE LoadSnapshotFromCandidates(cells, unreadable, candidates)

=============================================================================
