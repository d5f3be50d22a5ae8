----------------------------- MODULE Toolchains -----------------------------
(***************************************************************************)
(* scripts/setup-dev.py: a pinned tool is downloaded, checked, unpacked    *)
(* beside its destination, renamed into place and linked, by installers    *)
(* that may run at the same time, die at any step, and find the lock file  *)
(* changed between them.  An archive is its checksum; one whose content is *)
(* not the one that was asked for has another checksum.                    *)
(***************************************************************************)
EXTENDS Integers, FiniteSets

CONSTANTS
    Installers,     \* processes
    Locks,          \* entries that the lock file may have: [version, sha256]
    Archives,       \* what the network may deliver
    VersionOf,      \* archive -> the version that its executable reports
    MaxRuns         \* bound: starts of installers

ASSUME ToolchainsAssumption ==
    /\ Locks \subseteq [version : STRING \ {"none"}, sha256 : Archives]
    /\ Archives \subseteq STRING \ {"none", "damaged"}
    /\ MaxRuns \in Nat

VARIABLES
    lock,           \* the entry of the lock file
    installed,      \* version -> what is at its destination
    link,           \* the version that .tools/bin points to
    installer,      \* process -> where it is
    began,          \* starts so far
    overlapped      \* ghost: two installers have run at the same time

toolVars == <<lock, installed, link, installer, began, overlapped>>

Versions == {entry.version : entry \in Locks}
Absent == [unpacked |-> "none", receipt |-> "none"]
Stopped == [phase |-> "stopped"]

ToolInit ==
    /\ lock \in Locks
    /\ installed = [v \in Versions |-> Absent]
    /\ link = "none"
    /\ installer = [p \in Installers |-> Stopped]
    /\ began = 0 /\ overlapped = FALSE

At(p, phase) == installer[p].phase = phase
Wanted(p) == installer[p].entry
Destination(p) == installed[Wanted(p).version]
Goes(p, phase) == installer' = [installer EXCEPT ![p].phase = phase]
Stops(p) == installer' = [installer EXCEPT ![p] = Stopped]
GoesIf(p, condition, phase) == IF condition THEN Goes(p, phase) ELSE Stops(p)

(* Mutant: a tool without a receipt is taken as it is.                     *)
CacheIsUsableUnreceipted(p) == Destination(p).receipt \in {"none", Wanted(p).sha256}

(* The executable is used only with a receipt of the same identity.        *)
CacheIsUsable(p) == Destination(p).receipt = Wanted(p).sha256

(* The installer reads the lock file and looks for the executable.         *)
Begin(p) ==
    /\ At(p, "stopped") /\ began < MaxRuns
    /\ began' = began + 1
    /\ installer' = [installer EXCEPT ![p] = [phase |-> "cache", entry |-> lock]]
    /\ overlapped' = (overlapped \/ \E q \in Installers : ~At(q, "stopped"))
    /\ UNCHANGED <<lock, installed, link>>

(* It looks twice: for an executable with a wrong receipt, and, later, for *)
(* the absence of one.                                                     *)
LookForReceipt(p) ==
    /\ At(p, "cache")
    /\ GoesIf(p, Destination(p) = Absent \/ CacheIsUsable(p), "absence")
    /\ UNCHANGED <<lock, installed, link, began, overlapped>>

LookForAbsence(p) ==
    /\ At(p, "absence")
    /\ Goes(p, IF Destination(p) = Absent THEN "download" ELSE "version")
    /\ UNCHANGED <<lock, installed, link, began, overlapped>>

ChecksumMatches(p, archive) == archive = Wanted(p).sha256

Download(p) ==
    /\ At(p, "download")
    /\ \E archive \in Archives :
        IF ChecksumMatches(p, archive)
        THEN installer' = [installer EXCEPT ![p] =
                [phase |-> "rename", entry |-> Wanted(p), archive |-> archive]]
        ELSE Stops(p)
    /\ UNCHANGED <<lock, installed, link, began, overlapped>>

(* A destination that another installer made in the meantime is not        *)
(* replaced: a directory is not renamed over one that has files.           *)
RenameIntoPlace(p) ==
    /\ At(p, "rename")
    /\ IF Destination(p) = Absent
       THEN /\ installed' = [installed EXCEPT ![Wanted(p).version].unpacked =
                                installer[p].archive]
            /\ Goes(p, "receipt")
       ELSE Stops(p) /\ UNCHANGED installed
    /\ UNCHANGED <<lock, link, began, overlapped>>

(* An installer that dies while it writes the receipt leaves a damaged one.*)
WriteReceipt(p) ==
    /\ At(p, "receipt")
    /\ \/ /\ installed' = [installed EXCEPT ![Wanted(p).version].receipt = Wanted(p).sha256]
          /\ Goes(p, "version")
       \/ /\ installed' = [installed EXCEPT ![Wanted(p).version].receipt = "damaged"]
          /\ Stops(p)
    /\ UNCHANGED <<lock, link, began, overlapped>>

CheckVersion(p) ==
    /\ At(p, "version")
    /\ GoesIf(p, VersionOf[Destination(p).unpacked] = Wanted(p).version, "unlink")
    /\ UNCHANGED <<lock, installed, link, began, overlapped>>

Unlink(p) ==
    /\ At(p, "unlink")
    /\ link' = "none"
    /\ Goes(p, "symlink")
    /\ UNCHANGED <<lock, installed, began, overlapped>>

(* Creating the link fails where another installer has created one.        *)
Symlink(p) ==
    /\ At(p, "symlink")
    /\ link' = IF link = "none" THEN Wanted(p).version ELSE link
    /\ Stops(p)
    /\ UNCHANGED <<lock, installed, began, overlapped>>

InstallerDies(p) ==
    /\ ~At(p, "stopped")
    /\ Stops(p)
    /\ UNCHANGED <<lock, installed, link, began, overlapped>>

EditLock ==
    /\ lock' \in Locks \ {lock}
    /\ UNCHANGED <<installed, link, installer, began, overlapped>>

ToolNext ==
    \/ EditLock
    \/ \E p \in Installers :
        \/ Begin(p) \/ LookForReceipt(p) \/ LookForAbsence(p) \/ Download(p)
        \/ RenameIntoPlace(p) \/ WriteReceipt(p) \/ CheckVersion(p) \/ Unlink(p) \/ Symlink(p)
        \/ InstallerDies(p)

ToolSpec == ToolInit /\ [][ToolNext]_toolVars

-----------------------------------------------------------------------------
(* The linked tool was unpacked from an archive that some lock file asked  *)
(* for under the version it is linked as and reports, whichever installers *)
(* died; and, as long as no two have run at the same time, the receipt     *)
(* beside it says so.  Where two have, the one that finds the other's      *)
(* executable between its two looks links it before it has a receipt.      *)
LinkedToolIsVerified ==
    link # "none" =>
        LET tool == installed[link] IN
        /\ [version |-> link, sha256 |-> tool.unpacked] \in Locks
        /\ VersionOf[tool.unpacked] = link
        /\ overlapped \/ tool.receipt = tool.unpacked

=============================================================================
