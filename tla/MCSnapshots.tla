---------------------------- MODULE MCSnapshots ----------------------------
(***************************************************************************)
(* Model checking of Snapshots, from an empty file (SnapshotsSpec and      *)
(* PollingSpec of Snapshots) or from the file of MCPublication that has a  *)
(* root in every slot (SeededSnapshotsSpec).                               *)
(***************************************************************************)
EXTENDS Snapshots, MCPublication

SeededSnapshotsSpec ==
    /\ SeededInit
    /\ reader = [r \in Readers |-> ClosedReader]
    /\ [][SnapshotsNext]_snapshotVars

=============================================================================
