----------------------------- MODULE Snapshots -----------------------------
(***************************************************************************)
(* Readers (engine.ReaderFor) of a file that one writer publishes to.      *)
(*                                                                         *)
(* Opening and refreshing take no lock.  They read the file size, then the *)
(* control region slot by slot (one pread of 64 KiB is not atomic against  *)
(* the writer), and then elect on what they saw, so that any number of     *)
(* writer steps may fall between two of these reads.                       *)
(***************************************************************************)
EXTENDS Publication

CONSTANT Readers

VARIABLE reader

snapshotVars == <<vars, reader>>

ReaderState ==
    [phase : {"closed", "opening", "open", "refreshing"},
     generation : Nat, identity : Nat, committed_size : Nat,
     observed_file_size : Nat, catalog : SUBSET Pointer,
     physical_size : Nat,            \* of the open or refresh under way
     next_slot : 0 .. SlotCount,
     seen : [Slots -> SlotValue],
     floor : Nat,                    \* newest generation when it began
     error : {"none", "InvalidDatabase"}]   \* of the last open

NothingSeen == [s \in Slots |-> ZeroSlot]
ClosedReader ==
    [phase |-> "closed", generation |-> 0, identity |-> ZeroIdentity,
     committed_size |-> ControlSize, observed_file_size |-> 0, catalog |-> {},
     physical_size |-> 0, next_slot |-> 0, seen |-> NothingSeen, floor |-> 0,
     error |-> "none"]

(* The writer's variables and the readers' have their types.               *)
SnapshotsTypeOK == TypeOK /\ reader \in [Readers -> ReaderState]

-----------------------------------------------------------------------------
Scanning(r) == reader[r].phase \in {"opening", "refreshing"}

(* getEndPos.                                                              *)
BeginScan(r, phase) ==
    reader' = [reader EXCEPT ![r] =
                [@ EXCEPT !.phase = phase, !.physical_size = size,
                          !.next_slot = 0, !.seen = NothingSeen,
                          !.floor = Len(history), !.error = "none"]]

BeginOpen(r) ==
    /\ reader[r].phase = "closed"
    /\ control = "valid"
    /\ BeginScan(r, "opening")
    /\ UNCHANGED vars

(* Mutant: bytes the reader saw but no root covered are not looked at.     *)
NothingGrown(r) == size = reader[r].observed_file_size

(* A file no longer than at the last look, whose every byte the reader's   *)
(* own root covers, cannot hold a newer generation.                        *)
NothingAppended(r) ==
    /\ size = reader[r].observed_file_size
    /\ reader[r].observed_file_size = reader[r].committed_size

BeginRefresh(r) ==
    /\ reader[r].phase = "open"
    /\ ~NothingAppended(r)
    /\ BeginScan(r, "refreshing")
    /\ UNCHANGED vars

(* validateControl copies the region from its first byte to its last.      *)
ReadSlot(r) ==
    /\ Scanning(r)
    /\ reader[r].next_slot < SlotCount
    /\ LET s == reader[r].next_slot
       IN  reader' = [reader EXCEPT ![r].seen[s] = slots[s],
                                    ![r].next_slot = s + 1]
    /\ UNCHANGED vars

(* Mutant: a refresh replaces the root and keeps the old series.           *)
AdoptedWithoutSeries(state, root) ==
    [state EXCEPT !.phase = "open",
                  !.generation = root.generation,
                  !.identity = RootIdentity(root),
                  !.committed_size = root.committed_size,
                  !.observed_file_size = state.physical_size,
                  !.seen = NothingSeen, !.next_slot = 0]

(* The reader maps the committed extent of the root it loaded.             *)
Adopted(state, root) ==
    [state EXCEPT !.phase = "open",
                  !.generation = root.generation,
                  !.identity = RootIdentity(root),
                  !.committed_size = root.committed_size,
                  !.observed_file_size = state.physical_size,
                  !.catalog = cells[root.manifest.offset].catalog,
                  !.seen = NothingSeen, !.next_slot = 0]

FinishOpen(r) ==
    /\ reader[r].phase = "opening"
    /\ reader[r].next_slot = SlotCount
    /\ LET loaded == LoadSnapshot(reader[r].seen, cells, {}, reader[r].physical_size)
       IN  reader' = [reader EXCEPT ![r] =
            IF loaded.kind = "invalid" THEN [ClosedReader EXCEPT !.error = "InvalidDatabase"]
            ELSE IF loaded.kind = "root" THEN Adopted(@, loaded)
            ELSE [@ EXCEPT !.phase = "open",
                           !.observed_file_size = reader[r].physical_size,
                           !.seen = NothingSeen, !.next_slot = 0]]
    /\ UNCHANGED vars

(* Mutant: refresh adopts whatever recovery elects.                        *)
NeverStale(state, root) == FALSE

NotNewer(state, root) == root.generation <= state.generation

(* A refresh that finds nothing newer keeps the snapshot it has.  It       *)
(* records the size it saw only when it got as far as loading a manifest.  *)
FinishRefresh(r) ==
    /\ reader[r].phase = "refreshing"
    /\ reader[r].next_slot = SlotCount
    /\ LET state == reader[r]
           kept == [state EXCEPT !.phase = "open", !.seen = NothingSeen,
                                 !.next_slot = 0]
           candidates == CollectRoots(state.seen, state.physical_size)
           loaded == LoadSnapshotFromCandidates(cells, {}, candidates)
       IN  reader' = [reader EXCEPT ![r] =
            IF \A c \in candidates : NotNewer(state, c) THEN kept
            ELSE IF loaded.kind = "invalid" THEN kept
            ELSE IF NotNewer(state, loaded)
                 THEN [kept EXCEPT !.observed_file_size = state.physical_size]
            ELSE Adopted(state, loaded)]
    /\ UNCHANGED vars

(* close, or the end of the reader's process at any point.                 *)
CloseReader(r) ==
    /\ reader[r].phase # "closed"
    /\ reader' = [reader EXCEPT ![r] = ClosedReader]
    /\ UNCHANGED vars

-----------------------------------------------------------------------------
SnapshotsInit == Init /\ reader = [r \in Readers |-> ClosedReader]

SnapshotsNext ==
    \/ WriterNext /\ UNCHANGED reader
    \/ PowerLoss /\ reader' = [r \in Readers |-> ClosedReader]
    \/ \E r \in Readers : BeginOpen(r)
    \/ \E r \in Readers : BeginRefresh(r)
    \/ \E r \in Readers : ReadSlot(r)
    \/ \E r \in Readers : FinishOpen(r)
    \/ \E r \in Readers : FinishRefresh(r)
    \/ \E r \in Readers : CloseReader(r)

SnapshotsSpec == SnapshotsInit /\ [][SnapshotsNext]_snapshotVars

-----------------------------------------------------------------------------
(* Properties.                                                             *)

HasSnapshot(r) ==
    reader[r].phase \in {"open", "refreshing"} /\ reader[r].generation > 0

(* A reader holds exactly one published generation of the file's lineage:  *)
(* never a mixture of two, never one whose root was torn.                  *)
SnapshotIsPublished ==
    \A r \in Readers : HasSnapshot(r) =>
        LET state == reader[r] IN
        /\ state.generation \in DOMAIN history
        /\ state.identity = RootIdentity(history[state.generation].root)
        /\ state.committed_size = history[state.generation].root.committed_size
        /\ state.catalog = history[state.generation].catalog

(* Every object of a reader's snapshot stays readable for as long as the   *)
(* reader holds it, while the writer fails, restarts and publishes.        *)
SnapshotIsReadable ==
    power_losses = 0 =>
        \A r \in Readers : \A p \in reader[r].catalog : Authentic(cells, p)

(* A refresh moves a reader forward or leaves it where it is.              *)
ReadersNeverGoBack ==
    [][\A r \in Readers : HasSnapshot(r) /\ HasSnapshot(r)' =>
            reader[r].generation <= reader'[r].generation]_snapshotVars

(* The newest generation whose root write has begun, also by a session     *)
(* that died while it was writing.                                         *)
NewestBegun ==
    Len(history) + IF TornSlot \in {slots[s] : s \in Slots} THEN 1 ELSE 0

Completes(r) == Scanning(r) /\ ~Scanning(r)'
Misses(r) ==
    \/ reader'[r].error = "InvalidDatabase"
    \/ reader'[r].phase = "open" /\ reader'[r].generation < reader[r].floor

(* What a successful checkpoint published is visible to every open and     *)
(* refresh that begins afterwards and during which the writer begins to    *)
(* write at most SlotCount - 2 roots.                                      *)
PublishedIsVisibleToQuickScans ==
    [][\A r \in Readers :
            Completes(r) /\ reader[r].floor > 0
                         /\ NewestBegun <= reader[r].floor + SlotCount - 2
                => ~Misses(r)]_snapshotVars

-----------------------------------------------------------------------------
(* The promise of the file, and how the file keeps it.                     *)

AcknowledgedGenerations ==
    {g \in DOMAIN history : RootIdentity(history[g].root) = acknowledged}

Store == INSTANCE SnapshotStore WITH
    Contents <- SUBSET Pointer,
    log <- [g \in DOMAIN history |-> history[g].catalog],
    durable <- IF AcknowledgedGenerations = {} THEN 0
               ELSE CHOOSE g \in AcknowledgedGenerations : TRUE,
    view <- [r \in Readers |-> reader[r].generation],
    content <- [r \in Readers |-> reader[r].catalog]

(* The file behaves as a log of atomic snapshots: creation, checkpoints,   *)
(* failures, crashes and lock-free readers all look like steps of          *)
(* SnapshotStore.                                                          *)
ImplementsSnapshotStore == Store!Spec

(* A reader that stays open and keeps refreshing ends up with the newest   *)
(* generation once the writer stops.  Fairness: the application keeps      *)
(* calling refresh, and a refresh is a bounded number of reads.            *)
Refreshing(r) == BeginRefresh(r) \/ ReadSlot(r) \/ FinishRefresh(r)
PollingSpec ==
    SnapshotsSpec /\ \A r \in Readers : WF_snapshotVars(Refreshing(r))

StaysOpen(r) == reader[r].phase \in {"open", "refreshing"}
RefreshCatchesUp ==
    \A r \in Readers :
        <>[]StaysOpen(r) => <>[](reader[r].generation = Len(history))

=============================================================================
