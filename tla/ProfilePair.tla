----------------------------- MODULE ProfilePair -----------------------------
(***************************************************************************)
(* scripts/profile-pair.py: the baseline and the candidate are profiled in *)
(* turns, in worktrees of their own, every file is checked, the files of   *)
(* each are combined and checked again, and only then are they compared.   *)
(* Any command may fail, and the harness may be another one, or write      *)
(* incomplete evidence, in either revision.                                *)
(***************************************************************************)
EXTENDS ProfileEvidence

CONSTANTS
    PairRepetitions,    \* values of --repetitions
    Contracts           \* the rest of the metadata: zig, os, arch

ASSUME ProfilePairAssumption ==
    /\ PairRepetitions \subseteq Nat \ {0, 1}
    /\ "none" \notin Contracts

VARIABLES
    pair,           \* the script: its arguments and where it is
    worktrees,      \* worktrees that exist
    harness,        \* label -> the harness in its revision
    files,          \* label -> the checked files
    combined,       \* label -> the combined file
    order           \* ghost: labels in the order they were profiled

pairVars == <<pair, worktrees, harness, files, combined, order>>

Labels == {"baseline", "candidate"}
NoFile == [rows_valid |-> FALSE]

PairInit ==
    /\ pair \in [phase : {"started"}, repetitions : PairRepetitions, quick : BOOLEAN,
                 turn : {0}, contract : {"none"}]
    /\ worktrees = {}
    /\ harness \in [Labels -> {"same", "other"}]
    /\ files = [l \in Labels |-> << >>]
    /\ combined = [l \in Labels |-> NoFile]
    /\ order = << >>

PairAt(phase) == pair.phase = phase
PairGoes(phase) == pair' = [pair EXCEPT !.phase = phase]

(* A command that fails raises; from the try block on, through finally.    *)
Raises == PairGoes("cleanup")

AddBaseline ==
    /\ PairAt("started")
    /\ \/ PairGoes("ended") /\ UNCHANGED worktrees
       \/ PairGoes("baseline added") /\ worktrees' = {"baseline"}
    /\ UNCHANGED <<harness, files, combined, order>>

(* git may fail before or after it has made the directory.                 *)
AddCandidate ==
    /\ PairAt("baseline added")
    /\ \/ Raises /\ worktrees' \in {worktrees, worktrees \cup {"candidate"}}
       \/ PairGoes("compare harness") /\ worktrees' = worktrees \cup {"candidate"}
    /\ UNCHANGED <<harness, files, combined, order>>

CompareHarness ==
    /\ PairAt("compare harness")
    /\ IF harness["baseline"] = harness["candidate"] THEN PairGoes("profile") ELSE Raises
    /\ UNCHANGED <<worktrees, harness, files, combined, order>>

(* The label of a turn: baseline and candidate, then the other way round.  *)
Label(turn) ==
    LET first == (turn \div 2) % 2 = 0
        second == turn % 2 = 1
    IN  IF first = second THEN "candidate" ELSE "baseline"

(* What the harness may write: everything, or not everything.              *)
Profiles(contract) ==
    LET metadata == [points |-> IF pair.quick THEN 100000 ELSE 1000000,
                     quick |-> pair.quick, repetitions |-> 1, contract |-> contract]
        whole == expected_workloads(metadata)
        lost == CHOOSE key \in DOMAIN whole : TRUE
    IN  {[rows_valid |-> TRUE, metadata |-> metadata, workloads |-> whole],
         [rows_valid |-> TRUE, metadata |-> metadata,
          workloads |-> [key \in DOMAIN whole \ {lost} |-> whole[key]]],
         [rows_valid |-> FALSE, metadata |-> metadata, workloads |-> whole]}

(* Mutant: the metadata may differ between files.                          *)
AnyContract(contract) == TRUE

check_contract(contract) == pair.contract \in {"none", contract}

ProfileNext ==
    LET label == Label(pair.turn) IN
    /\ PairAt("profile") /\ pair.turn < 2 * pair.repetitions
    /\ \/ Raises /\ UNCHANGED <<files, order>>
       \/ \E contract \in Contracts : \E file \in Profiles(contract) :
            IF validate_profile(file) /\ check_contract(contract)
            THEN /\ pair' = [pair EXCEPT !.turn = @ + 1, !.contract = contract]
                 /\ files' = [files EXCEPT ![label] = Append(@, file)]
                 /\ order' = Append(order, label)
            ELSE Raises /\ UNCHANGED <<files, order>>
    /\ UNCHANGED <<worktrees, harness, combined>>

(* The rows of all parts, under the metadata of the first with the number  *)
(* of repetitions.                                                         *)
Combine(parts) ==
    [rows_valid |-> TRUE,
     metadata |-> [parts[1].metadata EXCEPT !.repetitions = pair.repetitions],
     workloads |-> FoldLeft(LAMBDA bag, part : bag (+) part.workloads, EmptyBag, parts)]

CombineLabel(label, phase) ==
    /\ combined' = [combined EXCEPT ![label] = Combine(files[label])]
    /\ PairGoes(IF validate_profile(Combine(files[label])) THEN phase ELSE "cleanup")
    /\ UNCHANGED <<worktrees, harness, files, order>>

CombineBaseline ==
    /\ PairAt("profile") /\ pair.turn = 2 * pair.repetitions
    /\ CombineLabel("baseline", "combine candidate")
CombineCandidate ==
    PairAt("combine candidate") /\ CombineLabel("candidate", "compare")

Compare ==
    /\ PairAt("compare")
    /\ PairGoes("compared")
    /\ UNCHANGED <<worktrees, harness, files, combined, order>>

(* The candidate's worktree if it is there, and the baseline's.            *)
Removed == worktrees \ {"candidate", "baseline"}

(* git may refuse the first removal, which raises before the second, or    *)
(* the second.                                                             *)
CleanUp ==
    /\ pair.phase \in {"cleanup", "compared"}
    /\ \/ /\ worktrees' = Removed
          /\ PairGoes(IF PairAt("compared") THEN "done" ELSE "ended")
       \/ /\ worktrees' \in {worktrees, worktrees \ {"candidate"}}
          /\ PairGoes("not removed")
    /\ UNCHANGED <<harness, files, combined, order>>

PairNext ==
    \/ AddBaseline \/ AddCandidate \/ CompareHarness \/ ProfileNext
    \/ CombineBaseline \/ CombineCandidate \/ Compare \/ CleanUp

PairSpec == PairInit /\ [][PairNext]_pairVars

-----------------------------------------------------------------------------
(* Properties.                                                             *)

(* What the arguments of the script ask of each side.                      *)
Asked ==
    [points |-> IF pair.quick THEN 100000 ELSE 1000000, quick |-> pair.quick,
     repetitions |-> pair.repetitions]

(* A comparison is of evidence of one harness under one contract, with     *)
(* every workload on both sides repeated as often as was asked for,        *)
(* although each file was made and checked on its own, in turns; and each  *)
(* side went first in half of the repetitions, or one more.                *)
ComparisonIsFair ==
    PairAt("compared") =>
        /\ harness["baseline"] = harness["candidate"]
        /\ \A l \in Labels : combined[l].workloads = expected_workloads(Asked)
        /\ \A l \in Labels : \A i \in DOMAIN files[l] :
                files[l][i].metadata.contract = files["baseline"][1].metadata.contract
        /\ \A l \in Labels :
            LET first == Cardinality({k \in 1 .. pair.repetitions : order[2 * k - 1] = l})
            IN  2 * first \in pair.repetitions - 1 .. pair.repetitions + 1

=============================================================================
