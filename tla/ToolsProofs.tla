----------------------------- MODULE ToolsProofs -----------------------------
(***************************************************************************)
(* What the scripts around the engine guarantee for any number of          *)
(* processes: the toolchain installer links only verified tools, a receipt *)
(* of the compatibility gate that says passed is true, what merge-pr.py    *)
(* merges was reviewed and green, for any checks, any number of pushes and *)
(* any number of concurrent changes, what profile-pair.py compares was     *)
(* measured alike, for any number of repetitions, and the runs of bench.py *)
(* are whole, for any matrix whose invocations emit distinct identities,   *)
(* any number of directories, and processes that are started and die in    *)
(* any order.                                                              *)
(***************************************************************************)
EXTENDS Toolchains, OldAbiGate, MergePullRequest, ProfilePair, Benchmarks,
        SharedLemmas, FiniteSetTheorems, TLAPS

-----------------------------------------------------------------------------
(* The installer.                                                          *)

Phases ==
    {"cache", "absence", "download", "rename", "receipt", "version", "unlink", "symlink"}

InstallerTyped(x) ==
    \/ x = Stopped
    \/ x \in [phase : Phases \ {"rename", "receipt"}, entry : Locks]
    \/ x \in [phase : Phases, entry : Locks, archive : Archives] /\ x.archive = x.entry.sha256

ToolsTyped ==
    /\ lock \in Locks
    /\ installed \in [Versions -> [unpacked : Archives \cup {"none"},
                                   receipt : Archives \cup {"none", "damaged"}]]
    /\ link \in Versions \cup {"none"}
    /\ DOMAIN installer = Installers
    /\ \A p \in Installers : InstallerTyped(installer[p])
    /\ overlapped \in BOOLEAN

(* What is at a destination was locked under its version, and a receipt    *)
(* that is not damaged is of what is there.                                *)
DestinationsAreLocked ==
    \A v \in Versions :
        /\ installed[v].unpacked = "none" => installed[v].receipt = "none"
        /\ installed[v].unpacked # "none" =>
                /\ [version |-> v, sha256 |-> installed[v].unpacked] \in Locks
                /\ installed[v].receipt \in {"none", "damaged", installed[v].unpacked}

(* As long as no two installers have overlapped, at most one is running.   *)
OneRuns ==
    ~overlapped => \A p, q \in Installers :
        (~At(p, "stopped") /\ ~At(q, "stopped")) => p = q

(* What an installer has found out about its destination still holds: the  *)
(* executable for good, the receipt as long as nobody else was running.    *)
Receipted(tool) == tool.receipt = tool.unpacked

FoundHolds(p) ==
    /\ At(p, "absence") =>
            overlapped \/ Destination(p) = Absent \/ Receipted(Destination(p))
    /\ At(p, "receipt") =>
            /\ Destination(p).unpacked = Wanted(p).sha256
            /\ overlapped \/ Destination(p).receipt = "none"
    /\ installer[p].phase \in {"version", "unlink", "symlink"} =>
            /\ Destination(p).unpacked # "none"
            /\ overlapped \/ Receipted(Destination(p))
    /\ installer[p].phase \in {"unlink", "symlink"} =>
            VersionOf[Destination(p).unpacked] = Wanted(p).version

LinkHolds ==
    link # "none" =>
        /\ installed[link].unpacked # "none"
        /\ VersionOf[installed[link].unpacked] = link
        /\ overlapped \/ Receipted(installed[link])

ToolInv ==
    /\ ToolsTyped /\ DestinationsAreLocked /\ OneRuns /\ LinkHolds
    /\ \A p \in Installers : FoundHolds(p)

-----------------------------------------------------------------------------
(* An installer that moves, and what that leaves alone.                    *)

LEMMA EntryFacts ==
    ASSUME NEW e \in Locks
    PROVE  /\ e.version \in Versions /\ e.version # "none"
           /\ e.sha256 \in Archives /\ e.sha256 \notin {"none", "damaged"}
           /\ e = [version |-> e.version, sha256 |-> e.sha256]
BY ToolchainsAssumption DEF Versions

LEMMA InstallerFacts ==
    ASSUME ToolsTyped, NEW p \in Installers, ~At(p, "stopped")
    PROVE  /\ Wanted(p) \in Locks /\ Wanted(p).version \in Versions
           /\ installer[p].phase \in Phases
           /\ installer[p].phase \in {"rename", "receipt"} =>
                    installer[p].archive = Wanted(p).sha256
           /\ Destination(p) \in [unpacked : Archives \cup {"none"},
                                  receipt : Archives \cup {"none", "damaged"}]
BY EntryFacts DEF ToolsTyped, InstallerTyped, At, Stopped, Wanted, Destination

(* A new phase, or the end, is a step of the right type.                   *)
LEMMA MovesTyped ==
    ASSUME ToolsTyped, NEW p \in Installers, ~At(p, "stopped"), NEW phase \in Phases,
           \/ phase \notin {"rename", "receipt"}
           \/ phase = "receipt" /\ At(p, "rename"),
           Goes(p, phase) \/ Stops(p)
    PROVE  /\ DOMAIN installer' = Installers
           /\ \A q \in Installers : InstallerTyped(installer'[q])
           /\ \A q \in Installers : q # p => installer'[q] = installer[q]
           /\ Goes(p, phase) => /\ installer'[p].phase = phase
                                /\ installer'[p].entry = installer[p].entry
           /\ Stops(p) => installer'[p] = Stopped
<1>1. DOMAIN installer = Installers /\ InstallerTyped(installer[p])
      /\ \A q \in Installers : InstallerTyped(installer[q])
  BY DEF ToolsTyped
<1>2. CASE Stops(p)
  <2>1. /\ DOMAIN installer' = Installers /\ installer'[p] = Stopped
        /\ \A q \in Installers : q # p => installer'[q] = installer[q]
    BY <1>1, <1>2 DEF Stops
  <2>2. InstallerTyped(installer'[p])
    BY <2>1 DEF InstallerTyped
  <2>3. Goes(p, phase) => installer'[p] = [installer[p] EXCEPT !.phase = phase]
    BY <1>1 DEF Goes
  <2>4. installer[p] # Stopped
    BY DEF At, Stopped
  <2>5. [installer[p] EXCEPT !.phase = phase] # Stopped
    BY <1>1, <2>4 DEF InstallerTyped, Stopped, Phases
  <2> QED
    BY <1>1, <2>1, <2>2, <2>3, <2>5
<1>3. CASE Goes(p, phase)
  <2>1. /\ DOMAIN installer' = Installers
        /\ installer'[p] = [installer[p] EXCEPT !.phase = phase]
        /\ \A q \in Installers : q # p => installer'[q] = installer[q]
    BY <1>1, <1>3 DEF Goes
  <2>2. PICK x : x = installer[p] /\ InstallerTyped(x) /\ x # Stopped
    BY <1>1 DEF At, Stopped
  <2>3. PICK y : y = [x EXCEPT !.phase = phase] /\ y = installer'[p]
    BY <2>1, <2>2
  <2>4. CASE x \in [phase : Phases \ {"rename", "receipt"}, entry : Locks]
    <3>1. x.phase # "rename"
      BY <2>4
    <3>2. y \in [phase : Phases \ {"rename", "receipt"}, entry : Locks]
          /\ y.phase = phase /\ y.entry = x.entry
      BY <2>2, <2>3, <2>4, <3>1 DEF At
    <3>3. y # Stopped
      BY <3>2 DEF Stopped, Phases
    <3> QED
      BY <1>1, <2>1, <2>2, <2>3, <3>2, <3>3 DEF InstallerTyped, Stops
  <2>5. CASE x \in [phase : Phases, entry : Locks, archive : Archives]
             /\ x.archive = x.entry.sha256
    <3>1. y \in [phase : Phases, entry : Locks, archive : Archives]
          /\ y.archive = y.entry.sha256 /\ y.phase = phase /\ y.entry = x.entry
      BY <2>2, <2>3, <2>5
    <3>2. y # Stopped
      BY <3>1 DEF Stopped, Phases
    <3> QED
      BY <1>1, <2>1, <2>2, <2>3, <3>1, <3>2 DEF InstallerTyped, Stops
  <2> QED
    BY <2>2, <2>4, <2>5 DEF InstallerTyped
<1> QED
  BY <1>2, <1>3

(* What was found stays found while no destination changes.                *)
LEMMA FoundStays ==
    ASSUME NEW q \in Installers, FoundHolds(q), installer'[q] = installer[q],
           installed' = installed, overlapped => overlapped'
    PROVE  FoundHolds(q)'
BY DEF FoundHolds, At, Wanted, Destination, Absent, Receipted

LEMMA StoppedHolds ==
    ASSUME NEW q \in Installers, installer'[q] = Stopped
    PROVE  FoundHolds(q)'
BY DEF FoundHolds, At, Stopped

(* A step of one installer that changes no destination.                    *)
LEMMA QuietStep ==
    ASSUME ToolInv, NEW p \in Installers, ~At(p, "stopped"), NEW phase \in Phases,
           \/ phase \notin {"rename", "receipt"}
           \/ phase = "receipt" /\ At(p, "rename"),
           Goes(p, phase) \/ Stops(p),
           Goes(p, phase) => FoundHolds(p)',
           UNCHANGED <<lock, installed, link, overlapped>>
    PROVE  ToolInv'
<1> USE DEF ToolInv
<1>1. /\ DOMAIN installer' = Installers
      /\ \A q \in Installers : InstallerTyped(installer'[q])
      /\ \A q \in Installers : q # p => installer'[q] = installer[q]
      /\ Stops(p) => installer'[p] = Stopped
  BY MovesTyped
<1>2. ToolsTyped'
  BY <1>1 DEF ToolsTyped, InstallerTyped, Stopped, Phases
<1>3. DestinationsAreLocked' /\ LinkHolds'
  BY DEF DestinationsAreLocked, LinkHolds, Receipted
<1>4. OneRuns'
  BY <1>1 DEF OneRuns, At
<1>5. \A q \in Installers : FoundHolds(q)'
  BY <1>1, FoundStays, StoppedHolds
<1> QED
  BY <1>2, <1>3, <1>4, <1>5


(* Steps that change a destination: the others' findings survive, because  *)
(* an executable is never replaced, and nobody else runs unless installers *)
(* have overlapped.                                                        *)
LEMMA OthersStand ==
    ASSUME ToolInv, NEW p \in Installers, ~At(p, "stopped"), NEW q \in Installers, q # p,
           installer'[q] = installer[q], overlapped' = overlapped,
           \A v \in Versions : installed[v].unpacked # "none" =>
                                    installed'[v].unpacked = installed[v].unpacked
    PROVE  FoundHolds(q)'
<1> USE DEF ToolInv
<1>1. CASE At(q, "stopped")
  BY <1>1 DEF FoundHolds, At
<1>2. CASE ~At(q, "stopped")
  <2>1. overlapped
    BY <1>2 DEF OneRuns
  <2>2. /\ Wanted(q) \in Locks /\ Wanted(q).version \in Versions
        /\ Wanted(q).sha256 # "none"
    BY <1>2, InstallerFacts, EntryFacts
  <2>3. Wanted(q)' = Wanted(q) /\ installer'[q].phase = installer[q].phase
    BY DEF Wanted
  <2>4. Destination(q).unpacked # "none" => Destination(q)'.unpacked = Destination(q).unpacked
    BY <2>2, <2>3 DEF Destination
  <2> QED
    BY <2>1, <2>2, <2>3, <2>4 DEF FoundHolds, At
<1> QED
  BY <1>1, <1>2

LEMMA BeginHolds == ASSUME ToolInv, NEW p \in Installers, Begin(p) PROVE ToolInv'
<1> USE DEF ToolInv
<1>1. /\ At(p, "stopped")
      /\ installer' = [installer EXCEPT ![p] = [phase |-> "cache", entry |-> lock]]
      /\ overlapped' = (overlapped \/ \E q \in Installers : ~At(q, "stopped"))
      /\ UNCHANGED <<lock, installed, link>>
  BY DEF Begin
<1>2. /\ DOMAIN installer' = Installers
      /\ installer'[p] = [phase |-> "cache", entry |-> lock]
      /\ \A q \in Installers : q # p => installer'[q] = installer[q]
  BY <1>1 DEF ToolsTyped
<1>3. ToolsTyped'
  <2>1. InstallerTyped(installer'[p])
    BY <1>2 DEF ToolsTyped, InstallerTyped, Phases
  <2> QED
    BY <1>1, <1>2, <2>1 DEF ToolsTyped, InstallerTyped, Stopped, Phases
<1>4. DestinationsAreLocked'
  BY <1>1 DEF DestinationsAreLocked
<1>5. LinkHolds'
  BY <1>1 DEF LinkHolds, Receipted
<1>6. OneRuns'
  <2>1. ~overlapped' => \A q \in Installers : q # p => installer'[q].phase = "stopped"
    BY <1>1, <1>2 DEF At
  <2> QED
    BY <2>1 DEF OneRuns, At
<1>7. ASSUME NEW q \in Installers PROVE FoundHolds(q)'
  <2>1. CASE q = p
    BY <1>2, <2>1 DEF FoundHolds, At
  <2>2. CASE q # p
    BY <1>1, <1>2, <2>2, FoundStays
  <2> QED
    BY <2>1, <2>2
<1> QED
  BY <1>3, <1>4, <1>5, <1>6, <1>7

LEMMA LooksHold ==
    ASSUME ToolInv, NEW p \in Installers,
           LookForReceipt(p) \/ LookForAbsence(p) \/ CheckVersion(p) \/ InstallerDies(p)
    PROVE  ToolInv'
<1> USE DEF ToolInv
<1>1. ~At(p, "stopped") /\ UNCHANGED <<lock, installed, link, overlapped>>
  BY DEF LookForReceipt, LookForAbsence, CheckVersion, InstallerDies, At
<1>2. /\ Wanted(p) \in Locks /\ Wanted(p).version \in Versions
      /\ Wanted(p).sha256 \notin {"none", "damaged"}
      /\ Destination(p) \in [unpacked : Archives \cup {"none"},
                             receipt : Archives \cup {"none", "damaged"}]
  BY <1>1, InstallerFacts, EntryFacts
<1>3. /\ Destination(p).unpacked = "none" => Destination(p) = Absent
      /\ CacheIsUsable(p) => Receipted(Destination(p)) /\ Destination(p).unpacked # "none"
  BY <1>2 DEF DestinationsAreLocked, Destination, CacheIsUsable, Receipted, Absent
<1>4. ASSUME NEW phase \in Phases, Goes(p, phase), phase \notin {"rename", "receipt"}
      PROVE  /\ installer'[p].phase = phase /\ Destination(p)' = Destination(p)
             /\ Wanted(p)' = Wanted(p)
  BY <1>1, <1>4, MovesTyped DEF Wanted, Destination
<1>5. CASE LookForReceipt(p)
  <2>1. Goes(p, "absence") => Destination(p) = Absent \/ Receipted(Destination(p))
    <3>1. ~(Goes(p, "absence") /\ Stops(p))
      BY <1>1, MovesTyped DEF Phases, Stopped
    <3> QED
      BY <1>3, <1>5, <3>1 DEF LookForReceipt, GoesIf
  <2>2. Goes(p, "absence") => FoundHolds(p)'
    BY <1>4, <2>1 DEF FoundHolds, At, Receipted, Absent, Phases
  <2> QED
    BY <1>1, <1>5, <2>2, QuietStep DEF LookForReceipt, GoesIf, Phases
<1>6. CASE LookForAbsence(p)
  <2>1. CASE Destination(p) = Absent
    <3>1. Goes(p, "download")
      BY <1>6, <2>1 DEF LookForAbsence
    <3>2. FoundHolds(p)'
      BY <1>4, <3>1 DEF FoundHolds, At, Phases
    <3> QED
      BY <1>1, <3>1, <3>2, QuietStep DEF Phases
  <2>2. CASE Destination(p) # Absent
    <3>1. Goes(p, "version") /\ At(p, "absence")
      BY <1>6, <2>2 DEF LookForAbsence
    <3>2. Destination(p).unpacked # "none" /\ (overlapped \/ Receipted(Destination(p)))
      BY <1>3, <2>2, <3>1 DEF FoundHolds
    <3>3. FoundHolds(p)'
      BY <1>1, <1>4, <3>1, <3>2 DEF FoundHolds, At, Phases, Receipted
    <3> QED
      BY <1>1, <3>1, <3>3, QuietStep DEF Phases
  <2> QED
    BY <2>1, <2>2
<1>7. CASE CheckVersion(p)
  <2>1. Goes(p, "unlink") => VersionOf[Destination(p).unpacked] = Wanted(p).version
    <3>1. ~(Goes(p, "unlink") /\ Stops(p))
      BY <1>1, MovesTyped DEF Phases, Stopped
    <3> QED
      BY <1>7, <3>1 DEF CheckVersion, GoesIf
  <2>2. Goes(p, "unlink") => FoundHolds(p)'
    BY <1>1, <1>4, <1>7, <2>1 DEF CheckVersion, FoundHolds, At, Receipted, Phases
  <2> QED
    BY <1>1, <1>7, <2>2, QuietStep DEF CheckVersion, GoesIf, Phases
<1>8. CASE InstallerDies(p)
  <2>1. Stops(p)
    BY <1>8 DEF InstallerDies
  <2>2. ~Goes(p, "cache")
    BY <1>1, <2>1, MovesTyped DEF Phases, Stopped
  <2> QED
    BY <1>1, <2>1, <2>2, QuietStep DEF Phases
<1> QED
  BY <1>5, <1>6, <1>7, <1>8

LEMMA DownloadHolds == ASSUME ToolInv, NEW p \in Installers, Download(p) PROVE ToolInv'
<1> USE DEF ToolInv
<1>1. ~At(p, "stopped") /\ UNCHANGED <<lock, installed, link, overlapped>>
  BY DEF Download, At
<1>2. CASE Stops(p)
  <2>1. ~Goes(p, "cache")
    BY <1>1, <1>2, MovesTyped DEF Phases, Stopped
  <2> QED
    BY <1>1, <1>2, <2>1, QuietStep DEF Phases
<1>3. ASSUME NEW archive \in Archives, ChecksumMatches(p, archive),
             installer' = [installer EXCEPT ![p] =
                [phase |-> "rename", entry |-> Wanted(p), archive |-> archive]]
      PROVE  ToolInv'
  <2>1. /\ DOMAIN installer' = Installers
        /\ installer'[p] = [phase |-> "rename", entry |-> Wanted(p), archive |-> archive]
        /\ \A q \in Installers : q # p => installer'[q] = installer[q]
    BY <1>3 DEF ToolsTyped
  <2>2. InstallerTyped(installer'[p])
    <3>1. Wanted(p) \in Locks
      BY <1>1, InstallerFacts
    <3> QED
      BY <1>3, <2>1, <3>1 DEF InstallerTyped, Phases, ChecksumMatches
  <2>3. ToolsTyped'
    BY <1>1, <2>1, <2>2 DEF ToolsTyped, InstallerTyped, Stopped, Phases
  <2>4. DestinationsAreLocked' /\ LinkHolds'
    BY <1>1 DEF DestinationsAreLocked, LinkHolds, Receipted
  <2>5. OneRuns'
    BY <1>1, <2>1 DEF OneRuns, At
  <2>6. \A q \in Installers : FoundHolds(q)'
    BY <1>1, <2>1, FoundStays DEF FoundHolds, At
  <2> QED
    BY <2>3, <2>4, <2>5, <2>6
<1> QED
  BY <1>2, <1>3 DEF Download

LEMMA RenameHolds == ASSUME ToolInv, NEW p \in Installers, RenameIntoPlace(p) PROVE ToolInv'
<1> USE DEF ToolInv
<1>1. ~At(p, "stopped") /\ At(p, "rename") /\ UNCHANGED <<lock, link, overlapped>>
  BY DEF RenameIntoPlace, At
<1>2. PICK e : /\ e = Wanted(p) /\ e \in Locks /\ e.version \in Versions
               /\ e.sha256 \in Archives /\ e.sha256 \notin {"none", "damaged"}
               /\ e = [version |-> e.version, sha256 |-> e.sha256]
               /\ installer[p].archive = e.sha256
  BY <1>1, InstallerFacts, EntryFacts DEF At
<1>3. CASE Destination(p) # Absent
  <2>1. Stops(p) /\ installed' = installed
    BY <1>3 DEF RenameIntoPlace
  <2>2. ~Goes(p, "cache")
    BY <1>1, <2>1, MovesTyped DEF Phases, Stopped
  <2> QED
    BY <1>1, <2>1, <2>2, QuietStep DEF Phases
<1>4. CASE Destination(p) = Absent
  <2>1. /\ installed' = [installed EXCEPT ![e.version].unpacked = e.sha256]
        /\ Goes(p, "receipt") /\ installed[e.version] = Absent
    BY <1>2, <1>4 DEF RenameIntoPlace, Destination
  <2>2. /\ installed' \in [Versions -> [unpacked : Archives \cup {"none"},
                                        receipt : Archives \cup {"none", "damaged"}]]
        /\ installed'[e.version].unpacked = e.sha256
        /\ installed'[e.version].receipt = "none"
        /\ \A v \in Versions : v # e.version => installed'[v] = installed[v]
    BY <1>2, <2>1 DEF ToolsTyped, Absent
  <2>3. /\ DOMAIN installer' = Installers
        /\ \A q \in Installers : InstallerTyped(installer'[q])
        /\ \A q \in Installers : q # p => installer'[q] = installer[q]
        /\ installer'[p].phase = "receipt" /\ installer'[p].entry = e
    BY <1>1, <1>2, <2>1, MovesTyped DEF Phases, Wanted
  <2>4. ToolsTyped'
    BY <1>1, <2>2, <2>3 DEF ToolsTyped, InstallerTyped, Stopped, Phases
  <2>5. DestinationsAreLocked'
    BY <1>2, <2>2 DEF DestinationsAreLocked
  <2>6. LinkHolds'
    BY <1>1, <2>1, <2>2 DEF ToolsTyped, LinkHolds, Receipted, Absent
  <2>7. OneRuns'
    BY <1>1, <2>3 DEF OneRuns, At
  <2>8. FoundHolds(p)'
    BY <2>2, <2>3 DEF FoundHolds, At, Wanted, Destination
  <2>9. \A v \in Versions : installed[v].unpacked # "none" =>
                                    installed'[v].unpacked = installed[v].unpacked
    BY <2>1, <2>2 DEF Absent
  <2>10. \A q \in Installers : q # p => FoundHolds(q)'
    BY <1>1, <2>3, <2>9, OthersStand
  <2> QED
    BY <2>4, <2>5, <2>6, <2>7, <2>8, <2>10
<1> QED
  BY <1>3, <1>4

LEMMA ReceiptHolds == ASSUME ToolInv, NEW p \in Installers, WriteReceipt(p) PROVE ToolInv'
<1> USE DEF ToolInv
<1>1. ~At(p, "stopped") /\ At(p, "receipt") /\ UNCHANGED <<lock, link, overlapped>>
  BY DEF WriteReceipt, At
<1>2. PICK e : /\ e = Wanted(p) /\ e \in Locks /\ e.version \in Versions
               /\ e.sha256 \in Archives /\ e.sha256 \notin {"none", "damaged"}
  BY <1>1, InstallerFacts, EntryFacts
<1>3. /\ installed[e.version].unpacked = e.sha256
      /\ overlapped \/ installed[e.version].receipt = "none"
  BY <1>1, <1>2 DEF FoundHolds, Destination
<1>4. PICK receipt \in {e.sha256, "damaged"} :
        /\ installed' = [installed EXCEPT ![e.version].receipt = receipt]
        /\ \/ receipt = e.sha256 /\ Goes(p, "version")
           \/ Stops(p)
  BY <1>2 DEF WriteReceipt
<1>5. /\ installed' \in [Versions -> [unpacked : Archives \cup {"none"},
                                      receipt : Archives \cup {"none", "damaged"}]]
      /\ installed'[e.version].unpacked = e.sha256
      /\ installed'[e.version].receipt = receipt
      /\ \A v \in Versions : v # e.version => installed'[v] = installed[v]
  BY <1>2, <1>3, <1>4 DEF ToolsTyped
<1>6. /\ DOMAIN installer' = Installers
      /\ \A q \in Installers : InstallerTyped(installer'[q])
      /\ \A q \in Installers : q # p => installer'[q] = installer[q]
      /\ Goes(p, "version") => installer'[p].phase = "version" /\ installer'[p].entry = e
      /\ Stops(p) => installer'[p] = Stopped
  BY <1>1, <1>2, <1>4, MovesTyped DEF Phases, Wanted
<1>7. ToolsTyped'
  BY <1>1, <1>5, <1>6 DEF ToolsTyped, InstallerTyped, Stopped, Phases
<1>8. DestinationsAreLocked'
  BY <1>2, <1>3, <1>5 DEF DestinationsAreLocked
<1>9. LinkHolds'
  <2>1. (link # "none" /\ ~overlapped) => link # e.version
    BY <1>2, <1>3 DEF LinkHolds, Receipted
  <2> QED
    BY <1>1, <1>3, <1>5, <2>1 DEF ToolsTyped, LinkHolds, Receipted
<1>10. OneRuns'
  BY SMTT(40), <1>1, <1>6 DEF OneRuns, At
<1>11. FoundHolds(p)'
  BY <1>2, <1>4, <1>5, <1>6 DEF FoundHolds, At, Wanted, Destination, Receipted, Stopped
<1>12. \A v \in Versions : installed'[v].unpacked = installed[v].unpacked
  BY <1>3, <1>5
<1>13. \A q \in Installers : q # p => FoundHolds(q)'
  BY <1>1, <1>6, <1>12, OthersStand
<1> QED
  BY <1>7, <1>8, <1>9, <1>10, <1>11, <1>13

LEMMA LinksHold == ASSUME ToolInv, NEW p \in Installers, Unlink(p) \/ Symlink(p) PROVE ToolInv'
<1> USE DEF ToolInv
<1>1. /\ ~At(p, "stopped") /\ installer[p].phase \in {"unlink", "symlink"}
      /\ UNCHANGED <<lock, installed, overlapped>>
      /\ Goes(p, "symlink") \/ Stops(p)
      /\ link' \in {"none", link, Wanted(p).version}
      /\ Goes(p, "symlink") \/ Stops(p)
  BY DEF Unlink, Symlink, At
<1>2. Wanted(p) \in Locks /\ Wanted(p).version \in Versions
  BY <1>1, InstallerFacts
<1>3. /\ DOMAIN installer' = Installers
      /\ \A q \in Installers : InstallerTyped(installer'[q])
      /\ \A q \in Installers : q # p => installer'[q] = installer[q]
      /\ Goes(p, "symlink") => /\ installer'[p].phase = "symlink"
                               /\ installer'[p].entry = installer[p].entry
      /\ Stops(p) => installer'[p] = Stopped
  BY <1>1, MovesTyped DEF Phases
<1>4. ToolsTyped'
  BY <1>1, <1>2, <1>3 DEF ToolsTyped, InstallerTyped, Stopped, Phases
<1>5. DestinationsAreLocked'
  BY <1>1 DEF DestinationsAreLocked
<1>6. LinkHolds'
  BY <1>1, <1>2 DEF LinkHolds, FoundHolds, Destination, Receipted
<1>7. OneRuns'
  BY <1>1, <1>3 DEF OneRuns, At
<1>8. FoundHolds(p)'
  BY <1>1, <1>3 DEF FoundHolds, At, Wanted, Destination, Receipted, Stopped
<1>9. \A q \in Installers : q # p => FoundHolds(q)'
  BY <1>1, <1>3, FoundStays
<1> QED
  BY <1>4, <1>5, <1>6, <1>7, <1>8, <1>9

LEMMA UntouchedHolds ==
    ASSUME ToolInv, UNCHANGED <<installed, link, installer, overlapped>>, lock' \in Locks
    PROVE  ToolInv'
<1> USE DEF ToolInv
<1>1. ToolsTyped'
  BY DEF ToolsTyped
<1>2. DestinationsAreLocked' /\ OneRuns' /\ LinkHolds'
  BY DEF DestinationsAreLocked, OneRuns, LinkHolds, Receipted, At
<1> QED
  BY <1>1, <1>2, FoundStays

LEMMA ToolInitially == ToolInit => ToolInv
<1> SUFFICES ASSUME ToolInit PROVE ToolInv
  OBVIOUS
<1> USE DEF ToolInit
<1>1. ToolsTyped
  BY DEF ToolsTyped, InstallerTyped, Absent
<1>2. DestinationsAreLocked
  BY DEF DestinationsAreLocked, Absent
<1>3. OneRuns /\ LinkHolds
  BY DEF OneRuns, LinkHolds, At, Stopped
<1>4. \A p \in Installers : FoundHolds(p)
  BY DEF FoundHolds, At, Stopped
<1> QED
  BY <1>1, <1>2, <1>3, <1>4 DEF ToolInv

(* The linked tool is what a lock file asked for under the version it is   *)
(* linked as, for any number of installers that overlap and die, and any   *)
(* edits of the lock file; and its receipt says so, unless installers have *)
(* overlapped.                                                             *)
THEOREM LinkedToolVerified == ToolSpec => []LinkedToolIsVerified
<1>1. ToolInv /\ [ToolNext]_toolVars => ToolInv'
  <2> SUFFICES ASSUME ToolInv, [ToolNext]_toolVars PROVE ToolInv'
    OBVIOUS
  <2>1. CASE EditLock \/ UNCHANGED toolVars
    BY <2>1, UntouchedHolds DEF EditLock, toolVars, ToolInv, ToolsTyped
  <2>2. ASSUME NEW p \in Installers,
               \/ Begin(p) \/ LookForReceipt(p) \/ LookForAbsence(p) \/ Download(p)
               \/ RenameIntoPlace(p) \/ WriteReceipt(p) \/ CheckVersion(p) \/ Unlink(p)
               \/ Symlink(p) \/ InstallerDies(p)
        PROVE  ToolInv'
    BY <2>2, BeginHolds, LooksHold, DownloadHolds, RenameHolds, ReceiptHolds, LinksHold
  <2> QED
    BY <2>1, <2>2 DEF ToolNext
<1>2. ToolInv => LinkedToolIsVerified
  BY DEF ToolInv, ToolsTyped, LinkHolds, DestinationsAreLocked, LinkedToolIsVerified, Receipted
<1> QED
  BY <1>1, <1>2, ToolInitially, PTL DEF ToolSpec


-----------------------------------------------------------------------------
(* The compatibility gate.                                                 *)

(* A gate by how far it has come.                                          *)
LinksAttempted == {"required", "rehash"}
Probed == {"links"} \cup LinksAttempted
InstalledPhases == {"probe new", "probe old"} \cup Probed
VerifiedPhases == {"install"} \cup InstalledPhases
BothExtracted == {"provenance"} \cup VerifiedPhases
NewExtracted == {"hash old", "extract old"} \cup BothExtracted
Working == {"hash new", "extract new"} \cup NewExtracted
GatePhases == {"reserve", "refused", "receipt", "ended", "killed"} \cup Working

GateRecord ==
    [phase : GatePhases, require_links : BOOLEAN,
     extracted : UNION {[S -> Bundles] : S \in SUBSET Kinds},
     installed : {"none"} \cup {bundle.wheel_python : bundle \in Bundles},
     links : [c : {"skipped", "passed"}, go : {"skipped", "passed"}],
     status : {"failed", "passed"}, complete : BOOLEAN]

GateTyped(x) == x \in {NotRun, [phase |-> "refused"]} \/ x \in GateRecord

GatesTyped ==
    /\ pins \in [Kinds -> Bundles] /\ archives \in [Kinds -> Bundles]
    /\ replaced \in 0 .. MaxReplacements
    /\ DOMAIN gates = Gates /\ \A g \in Gates : GateTyped(gates[g])
    /\ output = NoReceipt \/ output.gate \in Gates
    /\ logs \in Gates \cup {"none"}

(* What two kinds of links mean together.                                  *)
BothLinked(x) == x.links = [c |-> "passed", go |-> "passed"]

(* What a result that says passed says.                                    *)
PassedIsTrue(x) ==
    /\ x.extracted = pins
    /\ x.installed = pins["new"].wheel_python
    /\ x.extracted["old"].native = Provenance.native
    /\ x.extracted["old"].native \in OldNatives
    /\ x.extracted["new"].native \notin OldNatives
    /\ x.complete = BothLinked(x)
    /\ x.require_links => x.complete

(* The archive has been replaced, will not be again, and is not the pinned *)
(* one.                                                                    *)
Spoilt(kind) == replaced = MaxReplacements /\ archives[kind] # pins[kind]

(* What a gate knows of what it has extracted.                             *)
Knows(x) ==
    /\ \A kind \in Kinds :
        /\ x.phase = Extracting[kind] => archives[kind] = pins[kind] \/ Spoilt(kind)
        /\ kind \in DOMAIN x.extracted =>
                \/ x.extracted[kind] = pins[kind] \/ Spoilt(kind)
                \/ x.phase \notin Working \cup {"reserve"}
    /\ x.phase \in NewExtracted => "new" \in DOMAIN x.extracted
    /\ x.phase \in BothExtracted => DOMAIN x.extracted = Kinds
    /\ x.phase \in VerifiedPhases => x.extracted["old"].native = Provenance.native
    /\ x.phase \in InstalledPhases => x.installed = x.extracted["new"].wheel_python
    /\ x.phase \in {"probe old"} \cup Probed => x.extracted["new"].native \notin OldNatives
    /\ x.phase \in Probed => x.extracted["old"].native \in OldNatives
    /\ x.phase = "rehash" => (x.require_links => BothLinked(x))
    /\ x.status = "passed" => x.phase \notin Working \cup {"reserve", "refused"} /\ PassedIsTrue(x)

GateInv ==
    /\ GatesTyped
    /\ \A g \in Gates : gates[g] \in GateRecord => Knows(gates[g])
    /\ \A g \in Gates : gates[g].phase \in Working \cup {"receipt"} => logs = g
    /\ PassedReceiptIsTrue


LEMMA ExtractedTypes ==
    /\ \A e \in UNION {[S -> Bundles] : S \in SUBSET Kinds} :
            e \in [DOMAIN e -> Bundles] /\ DOMAIN e \in SUBSET Kinds
    /\ \A S \in SUBSET Kinds : \A e \in [S -> Bundles] :
            e \in UNION {[T -> Bundles] : T \in SUBSET Kinds}
OBVIOUS

LEMMA PhaseTells == ASSUME NEW x, NEW phase, x.phase # phase PROVE x # [phase |-> phase]
OBVIOUS

(* A gate that has started is a complete record.                           *)
LEMMA StartedIsRecord ==
    ASSUME GatesTyped, NEW g \in Gates, gates[g].phase # "not run", gates[g].phase # "refused"
    PROVE  /\ gates[g] \in GateRecord /\ gates[g].phase \in GatePhases
           /\ gates[g].status \in {"failed", "passed"}
<1>1. gates[g] # NotRun /\ gates[g] # [phase |-> "refused"]
  BY PhaseTells DEF NotRun
<1>2. gates[g] \in GateRecord
  BY <1>1 DEF GatesTyped, GateTyped
<1> QED
  BY <1>2 DEF GateRecord

(* One gate becomes y, and the archives and the output stay.               *)
LEMMA GateStep ==
    ASSUME GateInv, NEW g \in Gates, NEW y, gates' = [gates EXCEPT ![g] = y],
           GateTyped(y), y \in GateRecord => Knows(y),
           y.phase \in Working \cup {"receipt"} => logs' = g,
           logs' = logs \/ (logs = "none" /\ logs' = g),
           UNCHANGED <<pins, archives, replaced, output>>
    PROVE  GateInv'
<1> USE DEF GateInv
<1>1. /\ DOMAIN gates' = Gates /\ gates'[g] = y
      /\ \A q \in Gates : q # g => gates'[q] = gates[q]
  BY DEF GatesTyped
<1>2. GatesTyped'
  BY <1>1 DEF GatesTyped, GateTyped
<1>3. ASSUME NEW x, Knows(x) PROVE Knows(x)'
  BY <1>3 DEF Knows, Spoilt, PassedIsTrue, BothLinked
<1>4. ASSUME NEW q \in Gates, gates'[q] \in GateRecord PROVE Knows(gates[q])'
  <2>1. PICK x : x = gates'[q]
    OBVIOUS
  <2>2. Knows(x)'
    BY <1>1, <1>3, <1>4, <2>1
  <2> QED
    BY ZenonT(60), <2>1, <2>2 DEF Knows, Spoilt, PassedIsTrue, BothLinked
<1>5. ASSUME NEW q \in Gates, gates'[q].phase \in Working \cup {"receipt"} PROVE logs' = q
  BY <1>1, <1>5, OldAbiGateAssumption
<1>6. PassedReceiptIsTrue'
  BY OldAbiGateAssumption DEF PassedReceiptIsTrue, GatesTyped
<1> QED
  BY <1>2, <1>4, <1>5, <1>6

(* A gate that goes from one phase to another.                             *)
LEMMA PhaseMove ==
    ASSUME NEW x \in GateRecord, NEW phase \in GatePhases
    PROVE  LET y == [x EXCEPT !.phase = phase] IN
           /\ y \in GateRecord /\ y.phase = phase
           /\ y.require_links = x.require_links /\ y.extracted = x.extracted
           /\ y.installed = x.installed /\ y.links = x.links
           /\ y.status = x.status /\ y.complete = x.complete
BY DEF GateRecord

(* A gate that fails, ends or is killed keeps its result.                  *)
LEMMA LeavesWork ==
    ASSUME NEW x \in GateRecord, Knows(x), NEW phase,
           \/ phase \in {"receipt", "ended", "killed"}
           \/ phase = "refused" /\ x.phase = "reserve"
    PROVE  LET y == [x EXCEPT !.phase = phase] IN y \in GateRecord /\ Knows(y)
<1>1. phase \in GatePhases
  BY DEF GatePhases
<1>2. PICK y : y = [x EXCEPT !.phase = phase]
  OBVIOUS
<1>3. /\ y \in GateRecord /\ y.phase = phase
      /\ y.require_links = x.require_links /\ y.extracted = x.extracted
      /\ y.installed = x.installed /\ y.links = x.links
      /\ y.status = x.status /\ y.complete = x.complete
  BY <1>1, <1>2, PhaseMove
<1>4. /\ phase \notin Working /\ phase \notin NewExtracted /\ phase \notin BothExtracted
      /\ phase \notin VerifiedPhases /\ phase \notin InstalledPhases /\ phase \notin Probed
      /\ phase # "rehash" /\ phase # "probe old"
      /\ \A kind \in Kinds : phase # Extracting[kind]
  <2>1. phase \in {"receipt", "ended", "killed", "refused"}
    OBVIOUS
  <2>2. Extracting["new"] = "extract new" /\ Extracting["old"] = "extract old"
    BY DEF Extracting
  <2> QED
    BY <2>1, <2>2 DEF Kinds, Working, NewExtracted, BothExtracted, VerifiedPhases,
                      InstalledPhases, Probed, LinksAttempted
<1>5. y.status = "passed" => y.phase \notin {"reserve", "refused"} /\ PassedIsTrue(y)
  BY <1>3 DEF Knows, PassedIsTrue, BothLinked
<1>6. Knows(y)
  BY <1>3, <1>4, <1>5 DEF Knows
<1> QED
  BY <1>2, <1>3, <1>6

(* A step of a working gate: it fails, or comes to y.                      *)
LEMMA WorkStep ==
    ASSUME GateInv, NEW g \in Gates, gates[g].phase \in Working \cup {"receipt"},
           NEW y,
           Fails(g) \/ (gates' = [gates EXCEPT ![g] = y] /\ y \in GateRecord /\ Knows(y)),
           UNCHANGED <<pins, archives, replaced, output, logs>>
    PROVE  GateInv'
<1> USE DEF GateInv
<1>1. gates[g] \in GateRecord /\ Knows(gates[g]) /\ logs = g
  BY StartedIsRecord DEF Working, NewExtracted, BothExtracted, VerifiedPhases, InstalledPhases,
                         Probed, LinksAttempted
<1>2. CASE Fails(g)
  <2>1. PICK z : z = [gates[g] EXCEPT !.phase = "receipt"]
    OBVIOUS
  <2>2. z \in GateRecord /\ Knows(z)
    BY <1>1, <2>1, LeavesWork
  <2>3. gates' = [gates EXCEPT ![g] = z]
    BY <1>2, <2>1 DEF Fails
  <2> QED
    BY <1>1, <2>2, <2>3, GateStep DEF GateTyped
<1>3. CASE gates' = [gates EXCEPT ![g] = y] /\ y \in GateRecord /\ Knows(y)
  BY <1>1, <1>3, GateStep DEF GateTyped
<1> QED
  BY <1>2, <1>3


LEMMA Tables ==
    /\ Hashing["new"] = "hash new" /\ Hashing["old"] = "hash old"
    /\ Extracting["new"] = "extract new" /\ Extracting["old"] = "extract old"
    /\ Probing["new"] = "probe new" /\ Probing["old"] = "probe old"
    /\ Kinds = {"new", "old"}
BY DEF Hashing, Extracting, Probing, Kinds

LEMMA HashHolds ==
    ASSUME GateInv, NEW g \in Gates, NEW kind \in Kinds, HashBundle(g, kind)
    PROVE  GateInv'
<1> USE DEF GateInv
<1>1. gates[g].phase = Hashing[kind] /\ UNCHANGED <<pins, archives, replaced, output, logs>>
  BY DEF HashBundle, GateAt
<1>2. gates[g].phase \in Working \cup {"receipt"}
  BY <1>1, Tables DEF Working, NewExtracted
<1>3. PICK x : x = gates[g] /\ x \in GateRecord /\ Knows(x) /\ x.phase = Hashing[kind]
  BY <1>1, Tables, StartedIsRecord
<1>4. PICK y : y = [x EXCEPT !.phase = Extracting[kind]]
  OBVIOUS
<1>5. Fails(g) \/ (archives[kind] = pins[kind] /\ gates' = [gates EXCEPT ![g] = y])
  BY <1>3, <1>4 DEF HashBundle, GoesWhen, GateGoes
<1>6. Extracting[kind] \in GatePhases
  BY Tables DEF GatePhases, Working, NewExtracted
<1>7. /\ y \in GateRecord /\ y.phase = Extracting[kind]
      /\ y.require_links = x.require_links /\ y.extracted = x.extracted
      /\ y.installed = x.installed /\ y.links = x.links
      /\ y.status = x.status /\ y.complete = x.complete
  BY <1>3, <1>4, <1>6, PhaseMove
<1>8. archives[kind] = pins[kind] => Knows(y)
  <2>1. CASE kind = "new"
    BY ZenonT(60), <1>3, <1>7, <2>1, Tables DEF Knows, Working, NewExtracted, BothExtracted,
        VerifiedPhases, InstalledPhases, Probed, LinksAttempted
  <2>2. CASE kind = "old"
    BY ZenonT(60), <1>3, <1>7, <2>2, Tables DEF Knows, Working, NewExtracted, BothExtracted,
        VerifiedPhases, InstalledPhases, Probed, LinksAttempted
  <2> QED
    BY <2>1, <2>2, Tables
<1> QED
  BY <1>1, <1>2, <1>5, <1>7, <1>8, WorkStep


LEMMA ExtractHolds ==
    ASSUME GateInv, NEW g \in Gates, NEW kind \in Kinds, ExtractBundle(g, kind)
    PROVE  GateInv'
<1> USE DEF GateInv
<1>1. gates[g].phase = Extracting[kind] /\ UNCHANGED <<pins, archives, replaced, output, logs>>
  BY DEF ExtractBundle, GateAt
<1>2. gates[g].phase \in Working \cup {"receipt"}
  BY <1>1, Tables DEF Working, NewExtracted
<1>3. PICK x : x = gates[g] /\ x \in GateRecord /\ Knows(x) /\ x.phase = Extracting[kind]
  BY <1>1, Tables, StartedIsRecord
<1>4. PICK phase : /\ phase \in {"receipt", IF kind = "new" THEN "hash old" ELSE "provenance"}
                   /\ gates' = [gates EXCEPT
                        ![g].extracted = [k \in DOMAIN @ \cup {kind} |->
                                            IF k = kind THEN archives[kind] ELSE @[k]],
                        ![g].phase = phase]
  BY DEF ExtractBundle
<1>5. PICK e : e = [k \in DOMAIN x.extracted \cup {kind} |->
                        IF k = kind THEN archives[kind] ELSE x.extracted[k]]
  OBVIOUS
<1>6. PICK y : y = [x EXCEPT !.extracted = e, !.phase = phase]
  OBVIOUS
<1>7. gates' = [gates EXCEPT ![g] = y]
  BY <1>3, <1>4, <1>5, <1>6 DEF GatesTyped
<1>8. e \in UNION {[S -> Bundles] : S \in SUBSET Kinds} /\ DOMAIN e = DOMAIN x.extracted \cup {kind}
  <2>1. x.extracted \in UNION {[S -> Bundles] : S \in SUBSET Kinds}
    BY <1>3 DEF GateRecord
  <2>2. x.extracted \in [DOMAIN x.extracted -> Bundles] /\ DOMAIN x.extracted \in SUBSET Kinds
    BY <2>1, ExtractedTypes
  <2>3. archives[kind] \in Bundles
    BY DEF GatesTyped
  <2>4. PICK D \in SUBSET Kinds : D = DOMAIN x.extracted \cup {kind}
    BY <2>2
  <2>5. e \in [D -> Bundles]
    BY <1>5, <2>2, <2>3, <2>4
  <2> QED
    BY <2>4, <2>5, ExtractedTypes
<1>9. phase \in GatePhases
  BY <1>4 DEF GatePhases, Working, NewExtracted, BothExtracted
<1>10. /\ y \in GateRecord /\ y.phase = phase /\ y.extracted = e
       /\ y.require_links = x.require_links
       /\ y.installed = x.installed /\ y.links = x.links
       /\ y.status = x.status /\ y.complete = x.complete
  BY <1>3, <1>6, <1>8, <1>9 DEF GateRecord
<1>11. x.status # "passed"
  BY <1>1, <1>2, <1>3, Tables DEF Knows, Working, NewExtracted
<1>12. \A k \in Kinds : k \in DOMAIN e => e[k] = pins[k] \/ Spoilt(k)
  <2>1. e[kind] = archives[kind] /\ \A k \in DOMAIN x.extracted : k # kind => e[k] = x.extracted[k]
    BY <1>5
  <2>2. archives[kind] = pins[kind] \/ Spoilt(kind)
    BY <1>3 DEF Knows
  <2>3. x.phase \in Working
    BY <1>3, Tables DEF Working, NewExtracted
  <2> QED
    BY <1>3, <1>8, <2>1, <2>2, <2>3 DEF Knows
<1>13. phase \in BothExtracted => DOMAIN e = Kinds
  <2>1. CASE kind = "new"
    BY <1>4, <2>1 DEF BothExtracted, VerifiedPhases, InstalledPhases, Probed, LinksAttempted
  <2>2. CASE kind = "old"
    <3>1. x.phase \in NewExtracted
      BY <1>3, <2>2, Tables DEF NewExtracted
    <3>2. "new" \in DOMAIN x.extracted
      BY <1>3, <3>1 DEF Knows
    <3>3. x.extracted \in UNION {[S -> Bundles] : S \in SUBSET Kinds}
      BY <1>3 DEF GateRecord
    <3>4. DOMAIN x.extracted \in SUBSET Kinds
      BY <3>3, ExtractedTypes
    <3> QED
      BY <1>8, <2>2, <3>2, <3>4, Tables
  <2> QED
    BY <2>1, <2>2, Tables
<1>14. phase \in NewExtracted => "new" \in DOMAIN e
  <2>1. kind = "old" => x.phase \in NewExtracted
    BY <1>3, Tables DEF NewExtracted
  <2> QED
    BY <1>3, <1>8, <2>1, Tables DEF Knows
<1>15. /\ phase \notin VerifiedPhases /\ phase \notin InstalledPhases /\ phase \notin Probed
       /\ phase # "rehash" /\ phase # "probe old"
       /\ \A k \in Kinds : phase # Extracting[k]
  BY <1>4, Tables DEF VerifiedPhases, InstalledPhases, Probed, LinksAttempted
<1>16. Knows(y)
  BY <1>10, <1>11, <1>12, <1>13, <1>14, <1>15 DEF Knows
<1> QED
  BY <1>1, <1>2, <1>7, <1>10, <1>16, WorkStep

(* A gate that has extracted both bundles.                                 *)
LEMMA HasExtracted ==
    ASSUME GateInv, NEW g \in Gates, gates[g].phase \in BothExtracted
    PROVE  /\ gates[g].phase \in Working \cup {"receipt"}
           /\ gates[g] \in GateRecord /\ Knows(gates[g])
           /\ gates[g].status # "passed" /\ DOMAIN gates[g].extracted = Kinds
           /\ \A kind \in Kinds : gates[g].extracted[kind] = pins[kind] \/ Spoilt(kind)
<1> USE DEF GateInv
<1>1. gates[g].phase \in Working /\ gates[g].phase # "not run" /\ gates[g].phase # "refused"
  BY DEF Working, NewExtracted, BothExtracted, VerifiedPhases, InstalledPhases, Probed,
         LinksAttempted
<1>2. PICK x : x = gates[g] /\ x \in GateRecord /\ Knows(x) /\ x.phase \in Working
  BY <1>1, StartedIsRecord
<1>3. x.status # "passed"
  BY <1>2 DEF Knows
<1>4. DOMAIN x.extracted = Kinds
  BY <1>2 DEF Knows
<1>5. \A kind \in Kinds : x.extracted[kind] = pins[kind] \/ Spoilt(kind)
  BY <1>2, <1>4 DEF Knows
<1> QED
  BY <1>1, <1>2, <1>3, <1>4, <1>5

(* After both bundles are extracted, the phases follow one another.        *)
LEMMA PlainMove ==
    ASSUME GateInv, NEW g \in Gates, gates[g].phase \in BothExtracted,
           NEW phase \in BothExtracted,
           NEW y, y = [gates[g] EXCEPT !.phase = phase]
    PROVE  /\ gates[g].phase \in Working \cup {"receipt"}
           /\ gates[g] \in GateRecord /\ Knows(gates[g])
           /\ y \in GateRecord /\ y.phase = phase
           /\ y.require_links = gates[g].require_links /\ y.extracted = gates[g].extracted
           /\ y.installed = gates[g].installed /\ y.links = gates[g].links
           /\ y.status = gates[g].status /\ y.complete = gates[g].complete
           /\ y.status # "passed"
           /\ DOMAIN y.extracted = Kinds
           /\ \A kind \in Kinds : y.extracted[kind] = pins[kind] \/ Spoilt(kind)
           /\ \A kind \in Kinds : phase # Extracting[kind]
<1> USE DEF GateInv
<1>1. PICK x : x = gates[g] /\ x \in GateRecord
  BY HasExtracted
<1>2. phase \in GatePhases
  BY DEF GatePhases, Working, NewExtracted
<1>3. /\ y \in GateRecord /\ y.phase = phase
      /\ y.require_links = x.require_links /\ y.extracted = x.extracted
      /\ y.installed = x.installed /\ y.links = x.links
      /\ y.status = x.status /\ y.complete = x.complete
  BY <1>1, <1>2, PhaseMove
<1>4. \A kind \in Kinds : phase # Extracting[kind]
  BY Tables DEF BothExtracted, VerifiedPhases, InstalledPhases, Probed, LinksAttempted
<1> QED
  BY <1>1, <1>3, <1>4, HasExtracted

LEMMA ProvenanceHolds == ASSUME GateInv, NEW g \in Gates, CheckProvenance(g) PROVE GateInv'
<1> USE DEF VerifiedPhases, InstalledPhases, Probed, LinksAttempted
<1>1. gates[g].phase = "provenance" /\ UNCHANGED <<pins, archives, replaced, output, logs>>
  BY DEF CheckProvenance, GateAt
<1>2. PICK y : y = [gates[g] EXCEPT !.phase = "install"]
  OBVIOUS
<1>3. /\ gates[g].phase \in Working \cup {"receipt"} /\ y \in GateRecord /\ y.phase = "install"
      /\ y.extracted = gates[g].extracted /\ y.status # "passed" /\ DOMAIN y.extracted = Kinds
      /\ \A kind \in Kinds : y.extracted[kind] = pins[kind] \/ Spoilt(kind)
      /\ \A kind \in Kinds : "install" # Extracting[kind]
  <2>1. gates[g].phase \in BothExtracted /\ "install" \in BothExtracted
    BY <1>1 DEF BothExtracted
  <2> QED
    BY <1>2, <2>1, PlainMove
<1>4. Fails(g) \/ (verify_old_provenance(y.extracted["old"]) /\ gates' = [gates EXCEPT ![g] = y])
  BY <1>2, <1>3 DEF CheckProvenance, GoesWhen, GateGoes
<1>5. verify_old_provenance(y.extracted["old"]) => Knows(y)
  BY <1>3, Tables DEF Knows, verify_old_provenance
<1> QED
  BY <1>1, <1>3, <1>4, <1>5, WorkStep

LEMMA InstallHolds == ASSUME GateInv, NEW g \in Gates, InstallWheel(g) PROVE GateInv'
<1> USE DEF VerifiedPhases, InstalledPhases, Probed, LinksAttempted
<1>1. gates[g].phase = "install" /\ UNCHANGED <<pins, archives, replaced, output, logs>>
  BY DEF InstallWheel, GateAt
<1>2. PICK z : z = [gates[g] EXCEPT !.phase = "probe new"]
  OBVIOUS
<1>3. /\ gates[g].phase \in Working \cup {"receipt"} /\ gates[g] \in GateRecord /\ Knows(gates[g])
      /\ z \in GateRecord /\ z.phase = "probe new"
      /\ z.extracted = gates[g].extracted /\ z.status # "passed" /\ DOMAIN z.extracted = Kinds
      /\ \A kind \in Kinds : z.extracted[kind] = pins[kind] \/ Spoilt(kind)
      /\ \A kind \in Kinds : "probe new" # Extracting[kind]
  <2>1. PICK p \in BothExtracted : p = "probe new"
    BY DEF BothExtracted
  <2>2. gates[g].phase \in BothExtracted /\ z = [gates[g] EXCEPT !.phase = p]
    BY <1>1, <1>2, <2>1 DEF BothExtracted
  <2> HIDE DEF VerifiedPhases, InstalledPhases, Probed, LinksAttempted
  <2>3. /\ gates[g].phase \in Working \cup {"receipt"} /\ gates[g] \in GateRecord
        /\ Knows(gates[g]) /\ z \in GateRecord /\ z.phase = p
        /\ z.extracted = gates[g].extracted /\ z.status # "passed" /\ DOMAIN z.extracted = Kinds
        /\ \A kind \in Kinds : z.extracted[kind] = pins[kind] \/ Spoilt(kind)
        /\ \A kind \in Kinds : p # Extracting[kind]
    BY <2>2, PlainMove
  <2> QED
    BY <2>1, <2>3
<1>4. PICK y : y = [z EXCEPT !.installed = z.extracted["new"].wheel_python]
  OBVIOUS
<1>5. z.extracted["new"].wheel_python \in {bundle.wheel_python : bundle \in Bundles}
  <2>1. z.extracted \in UNION {[S -> Bundles] : S \in SUBSET Kinds}
    BY <1>3 DEF GateRecord
  <2>2. z.extracted \in [Kinds -> Bundles]
    BY <1>3, <2>1, ExtractedTypes
  <2> QED
    BY <2>2, Tables
<1>6. /\ y \in GateRecord /\ y.phase = "probe new" /\ y.extracted = z.extracted
      /\ y.status = z.status /\ y.installed = y.extracted["new"].wheel_python
  BY <1>3, <1>4, <1>5 DEF GateRecord
<1>7. Fails(g) \/ gates' = [gates EXCEPT ![g] = y]
  <2>1. CASE Fails(g)
    BY <2>1
  <2>2. CASE gates' = [gates EXCEPT ![g].phase = "probe new",
                                    ![g].installed = gates[g].extracted["new"].wheel_python]
    BY <1>2, <1>3, <1>4, <2>2 DEF GateInv, GatesTyped
  <2> QED
    BY <2>1, <2>2 DEF InstallWheel
<1>8. Knows(y)
  <2>1. y.extracted["old"].native = Provenance.native
    BY <1>1, <1>3, <1>6 DEF Knows
  <2> QED
    BY <1>3, <1>6, <2>1, Tables DEF Knows
<1> QED
  BY <1>1, <1>3, <1>6, <1>7, <1>8, WorkStep

LEMMA ProbeHolds ==
    ASSUME GateInv, NEW g \in Gates, NEW side \in Kinds, Probe(g, side)
    PROVE  GateInv'
<1> USE DEF VerifiedPhases, InstalledPhases, Probed, LinksAttempted
<1>1. gates[g].phase = Probing[side] /\ UNCHANGED <<pins, archives, replaced, output, logs>>
  BY DEF Probe, GateAt
<1>2. PICK next \in {"probe old", "links"} :
            next = IF side = "new" THEN "probe old" ELSE "links"
  OBVIOUS
<1>3. PICK y : y = [gates[g] EXCEPT !.phase = next]
  OBVIOUS
<1>4. /\ gates[g].phase \in Working \cup {"receipt"} /\ Knows(gates[g])
      /\ y \in GateRecord /\ y.phase = next /\ y.installed = gates[g].installed
      /\ y.extracted = gates[g].extracted /\ y.status # "passed" /\ DOMAIN y.extracted = Kinds
      /\ \A k \in Kinds : y.extracted[k] = pins[k] \/ Spoilt(k)
      /\ \A k \in Kinds : next # Extracting[k]
  <2>1. PICK x : x = gates[g] /\ x.phase \in BothExtracted
    BY ZenonT(60), <1>1, Tables DEF BothExtracted
  <2> HIDE DEF VerifiedPhases, InstalledPhases, Probed, LinksAttempted
  <2>2. /\ x.phase \in Working \cup {"receipt"} /\ x \in GateRecord /\ Knows(x)
        /\ x.status # "passed" /\ DOMAIN x.extracted = Kinds
        /\ \A k \in Kinds : x.extracted[k] = pins[k] \/ Spoilt(k)
    BY <2>1, HasExtracted
  <2>3. next \in GatePhases /\ \A k \in Kinds : next # Extracting[k]
    BY <1>2, Tables DEF GatePhases, Working, NewExtracted, BothExtracted, VerifiedPhases,
                        InstalledPhases, Probed
  <2>4. /\ y \in GateRecord /\ y.phase = next /\ y.installed = x.installed
        /\ y.extracted = x.extracted /\ y.status = x.status
    <3>1. y = [x EXCEPT !.phase = next]
      BY <1>3, <2>1
    <3> QED
      BY <2>2, <2>3, <3>1 DEF GateRecord
  <2> QED
    BY <2>1, <2>2, <2>3, <2>4
<1>5. \/ Fails(g)
      \/ /\ (y.extracted[side].native \in OldNatives) = (side = "old")
         /\ gates' = [gates EXCEPT ![g] = y]
  BY <1>2, <1>3, <1>4 DEF Probe, GoesWhen, GateGoes
<1>6. ((y.extracted[side].native \in OldNatives) = (side = "old")) => Knows(y)
  <2>1. y.extracted["old"].native = Provenance.native /\ y.installed = y.extracted["new"].wheel_python
    BY <1>1, <1>4, Tables DEF Knows
  <2>2. side = "old" => y.extracted["new"].native \notin OldNatives
    BY <1>1, <1>4, Tables DEF Knows
  <2>3. CASE side = "new"
    BY <1>2, <1>4, <2>1, <2>3, Tables DEF Knows
  <2>4. CASE side = "old"
    BY <1>2, <1>4, <2>1, <2>2, <2>4, Tables DEF Knows
  <2> QED
    BY <2>3, <2>4, Tables
<1> QED
  BY <1>1, <1>4, <1>5, <1>6, WorkStep

LEMMA LinkChecksHold == ASSUME GateInv, NEW g \in Gates, link_checks(g) PROVE GateInv'
<1> USE DEF VerifiedPhases, InstalledPhases, Probed, LinksAttempted
<1>1. gates[g].phase = "links" /\ UNCHANGED <<pins, archives, replaced, output, logs>>
  BY DEF link_checks, GateAt
<1>2. PICK z : z = [gates[g] EXCEPT !.phase = "required"]
  OBVIOUS
<1>3. /\ gates[g].phase \in Working \cup {"receipt"} /\ gates[g] \in GateRecord /\ Knows(gates[g])
      /\ z \in GateRecord /\ z.phase = "required" /\ z.installed = gates[g].installed
      /\ z.extracted = gates[g].extracted /\ z.status # "passed" /\ DOMAIN z.extracted = Kinds
      /\ \A kind \in Kinds : z.extracted[kind] = pins[kind] \/ Spoilt(kind)
      /\ \A kind \in Kinds : "required" # Extracting[kind]
  <2>1. gates[g].phase \in BothExtracted /\ "required" \in BothExtracted
    BY <1>1 DEF BothExtracted
  <2> QED
    BY <1>2, <2>1, PlainMove
<1>4. CASE Fails(g)
  BY <1>1, <1>3, <1>4, WorkStep
<1>5. ASSUME NEW links \in {[c |-> "skipped", go |-> "skipped"], [c |-> "passed", go |-> "skipped"],
                            [c |-> "passed", go |-> "passed"]},
             gates' = [gates EXCEPT ![g].links = links, ![g].phase = "required"]
      PROVE  GateInv'
  <2>1. PICK y : y = [z EXCEPT !.links = links]
    OBVIOUS
  <2>2. gates' = [gates EXCEPT ![g] = y]
    BY ZenonT(60), <1>2, <1>3, <1>5, <2>1 DEF GateInv, GatesTyped, GateRecord
  <2>3. /\ y \in GateRecord /\ y.phase = "required" /\ y.extracted = z.extracted
        /\ y.status = z.status /\ y.installed = z.installed
    BY <1>3, <2>1 DEF GateRecord
  <2>4. /\ y.extracted["old"].native = Provenance.native
        /\ y.installed = y.extracted["new"].wheel_python
        /\ y.extracted["new"].native \notin OldNatives
        /\ y.extracted["old"].native \in OldNatives
    BY <1>1, <1>3, <2>3 DEF Knows
  <2>5. Knows(y)
    BY <1>3, <2>3, <2>4, Tables DEF Knows
  <2> QED
    BY <1>1, <1>3, <2>2, <2>3, <2>5, WorkStep
<1> QED
  BY <1>4, <1>5 DEF link_checks

LEMMA RequireHolds == ASSUME GateInv, NEW g \in Gates, RequireLinks(g) PROVE GateInv'
<1> USE DEF VerifiedPhases, InstalledPhases, Probed, LinksAttempted
<1>1. gates[g].phase = "required" /\ UNCHANGED <<pins, archives, replaced, output, logs>>
  BY DEF RequireLinks, GateAt
<1>2. PICK y : y = [gates[g] EXCEPT !.phase = "rehash"]
  OBVIOUS
<1>3. /\ gates[g].phase \in Working \cup {"receipt"} /\ Knows(gates[g])
      /\ y \in GateRecord /\ y.phase = "rehash" /\ y.installed = gates[g].installed
      /\ y.extracted = gates[g].extracted /\ y.status # "passed" /\ DOMAIN y.extracted = Kinds
      /\ y.links = gates[g].links /\ y.require_links = gates[g].require_links
      /\ \A kind \in Kinds : y.extracted[kind] = pins[kind] \/ Spoilt(kind)
      /\ \A kind \in Kinds : "rehash" # Extracting[kind]
  <2>1. gates[g].phase \in BothExtracted /\ "rehash" \in BothExtracted
    BY <1>1 DEF BothExtracted
  <2> QED
    BY <1>2, <2>1, PlainMove
<1>4. \/ Fails(g)
      \/ /\ y.require_links => BothLinked(y)
         /\ gates' = [gates EXCEPT ![g] = y]
  BY <1>2, <1>3 DEF RequireLinks, GoesWhen, GateGoes, LinksComplete, BothLinked
<1>5. (y.require_links => BothLinked(y)) => Knows(y)
  <2>1. /\ y.extracted["old"].native = Provenance.native
        /\ y.installed = y.extracted["new"].wheel_python
        /\ y.extracted["new"].native \notin OldNatives
        /\ y.extracted["old"].native \in OldNatives
    BY <1>1, <1>3 DEF Knows
  <2> QED
    BY <1>3, <2>1, Tables DEF Knows
<1> QED
  BY <1>1, <1>3, <1>4, <1>5, WorkStep

(* An archive that was not the pinned one when it was extracted is not the *)
(* pinned one now.                                                         *)
LEMMA RehashHolds == ASSUME GateInv, NEW g \in Gates, Rehash(g) PROVE GateInv'
<1> USE DEF VerifiedPhases, InstalledPhases, Probed, LinksAttempted
<1>1. gates[g].phase = "rehash" /\ UNCHANGED <<pins, archives, replaced, output, logs>>
  BY DEF Rehash, GateAt
<1>2. PICK z : z = [gates[g] EXCEPT !.phase = "rehash"]
  OBVIOUS
<1>3. /\ gates[g].phase \in Working \cup {"receipt"} /\ gates[g] \in GateRecord /\ Knows(gates[g])
      /\ z.extracted = gates[g].extracted /\ DOMAIN z.extracted = Kinds
      /\ \A kind \in Kinds : z.extracted[kind] = pins[kind] \/ Spoilt(kind)
  <2>1. gates[g].phase \in BothExtracted /\ "rehash" \in BothExtracted
    BY <1>1 DEF BothExtracted
  <2> QED
    BY <1>2, <2>1, PlainMove
<1>4. PICK x : x = gates[g] /\ x \in GateRecord /\ Knows(x) /\ x.phase = "rehash"
  BY <1>1, <1>3
<1>5. PICK y : y = [x EXCEPT !.phase = "receipt",
                             !.status = IF ArtifactsStable THEN "passed" ELSE "failed",
                             !.complete = ArtifactsStable /\ LinksComplete(g)]
  OBVIOUS
<1>6. gates' = [gates EXCEPT ![g] = y]
  BY <1>4, <1>5 DEF Rehash, GateInv, GatesTyped
<1>7. ArtifactsStable \in BOOLEAN /\ LinksComplete(g) = BothLinked(x)
  BY <1>4 DEF ArtifactsStable, LinksComplete, BothLinked
<1>8. /\ y \in GateRecord /\ y.phase = "receipt" /\ y.extracted = x.extracted
      /\ y.installed = x.installed /\ y.links = x.links /\ y.require_links = x.require_links
      /\ y.status = (IF ArtifactsStable THEN "passed" ELSE "failed")
      /\ y.complete = (ArtifactsStable /\ LinksComplete(g))
  <2>1. PICK status \in {"failed", "passed"}, complete \in BOOLEAN :
            /\ status = IF ArtifactsStable THEN "passed" ELSE "failed"
            /\ complete = (ArtifactsStable /\ LinksComplete(g))
    BY <1>7
  <2>2. y = [x EXCEPT !.phase = "receipt", !.status = status, !.complete = complete]
    BY <1>5, <2>1
  <2>3. "receipt" \in GatePhases
    BY DEF GatePhases
  <2> QED
    BY <1>4, <2>1, <2>2, <2>3 DEF GateRecord
<1>9. ArtifactsStable => PassedIsTrue(y)
  <2> SUFFICES ASSUME ArtifactsStable PROVE PassedIsTrue(y)
    OBVIOUS
  <2>1. \A kind \in Kinds : x.extracted[kind] = pins[kind]
    BY <1>3, <1>4 DEF ArtifactsStable, Spoilt
  <2>2. x.extracted = pins
    <3>1. x.extracted \in UNION {[S -> Bundles] : S \in SUBSET Kinds}
      BY <1>4 DEF GateRecord
    <3>2. x.extracted \in [Kinds -> Bundles]
      BY <1>3, <1>4, <3>1, ExtractedTypes
    <3> QED
      BY <2>1, <3>2 DEF GateInv, GatesTyped
  <2>3. /\ x.extracted["old"].native = Provenance.native
        /\ x.installed = x.extracted["new"].wheel_python
        /\ x.extracted["new"].native \notin OldNatives
        /\ x.extracted["old"].native \in OldNatives
        /\ x.require_links => BothLinked(x)
    BY <1>4 DEF Knows
  <2>4. y.complete = BothLinked(y)
    BY <1>7, <1>8 DEF BothLinked
  <2>5. y.require_links => BothLinked(y)
    BY <1>8, <2>3 DEF BothLinked
  <2> QED
    BY <1>8, <2>2, <2>3, <2>4, <2>5 DEF PassedIsTrue
<1>10. Knows(y)
  <2>1. "receipt" \notin Working /\ "receipt" \notin NewExtracted /\ "receipt" \notin BothExtracted
    BY DEF Working, NewExtracted, BothExtracted
  <2> QED
    BY <1>8, <1>9, <2>1, Tables DEF Knows
<1> QED
  BY <1>1, <1>3, <1>6, <1>8, <1>10, WorkStep


LEMMA StartHolds ==
    ASSUME GateInv, NEW g \in Gates, NEW require_links \in BOOLEAN, StartGate(g, require_links)
    PROVE  GateInv'
<1> USE DEF GateInv
<1>1. UNCHANGED <<pins, archives, replaced, output, logs>>
  BY DEF StartGate
<1>2. PICK y : /\ gates' = [gates EXCEPT ![g] = y]
               /\ \/ y = [phase |-> "refused"]
                  \/ y = [phase |-> "reserve", require_links |-> require_links,
                          extracted |-> [k \in {} |-> 0], installed |-> "none",
                          links |-> [c |-> "skipped", go |-> "skipped"],
                          status |-> "failed", complete |-> FALSE]
  BY DEF StartGate
<1>3. /\ "reserve" \in GatePhases /\ "reserve" \notin Working /\ "reserve" \notin NewExtracted
      /\ "reserve" \notin BothExtracted /\ "reserve" \notin VerifiedPhases
      /\ "reserve" \notin InstalledPhases /\ "reserve" \notin Probed /\ "refused" \notin Working
  BY DEF GatePhases, Working, NewExtracted, BothExtracted, VerifiedPhases, InstalledPhases,
         Probed, LinksAttempted
<1>4. CASE y = [phase |-> "refused"]
  <2>1. y.phase = "refused" /\ y \notin GateRecord
    <3>1. DOMAIN y = {"phase"}
      BY <1>4
    <3>2. \A x \in GateRecord : "status" \in DOMAIN x
      BY DEF GateRecord
    <3> QED
      BY <1>4, <3>1, <3>2
  <2> QED
    BY <1>1, <1>2, <1>3, <1>4, <2>1, GateStep DEF GateTyped
<1>5. CASE y # [phase |-> "refused"]
  <2>1. PICK e : e = [k \in {} |-> 0]
    OBVIOUS
  <2>2. e \in [{} -> Bundles] /\ DOMAIN e = {} /\ {} \in SUBSET Kinds
    BY <2>1
  <2>3. e \in UNION {[S -> Bundles] : S \in SUBSET Kinds}
    BY <2>2, ExtractedTypes
  <2>4. /\ y.phase = "reserve" /\ y.extracted = e /\ y.status = "failed"
        /\ y \in GateRecord
    <3>1. y = [phase |-> "reserve", require_links |-> require_links,
               extracted |-> e, installed |-> "none",
               links |-> [c |-> "skipped", go |-> "skipped"],
               status |-> "failed", complete |-> FALSE]
      BY <1>2, <1>5, <2>1
    <3> HIDE <2>1
    <3> QED
      BY <1>3, <2>3, <3>1 DEF GateRecord
  <2>5. Knows(y)
    BY <1>3, <2>2, <2>4, Tables DEF Knows
  <2> QED
    BY <1>1, <1>2, <1>3, <2>4, <2>5, GateStep DEF GateTyped
<1> QED
  BY <1>4, <1>5

LEMMA MakeLogsHolds == ASSUME GateInv, NEW g \in Gates, MakeLogs(g) PROVE GateInv'
<1> USE DEF GateInv
<1>1. gates[g].phase = "reserve" /\ UNCHANGED <<pins, archives, replaced, output>>
  BY DEF MakeLogs, GateAt
<1>2. PICK x : x = gates[g] /\ x \in GateRecord /\ Knows(x) /\ x.phase = "reserve"
  BY <1>1, StartedIsRecord
<1>3. CASE LogsAreFree
  <2>1. PICK y : y = [x EXCEPT !.phase = "hash new"]
    OBVIOUS
  <2>2. "hash new" \in GatePhases
    BY DEF GatePhases, Working
  <2>3. /\ y \in GateRecord /\ y.phase = "hash new" /\ y.status = x.status
        /\ y.extracted = x.extracted
    BY ZenonT(60), <1>2, <2>1, <2>2, PhaseMove
  <2>4. /\ "hash new" \notin NewExtracted
        /\ "hash new" \notin BothExtracted /\ "hash new" \notin VerifiedPhases
        /\ "hash new" \notin InstalledPhases /\ "hash new" \notin Probed
    BY DEF NewExtracted, BothExtracted, VerifiedPhases, InstalledPhases, Probed, LinksAttempted
  <2>5. \A k \in Kinds : k \in DOMAIN y.extracted => y.extracted[k] = pins[k] \/ Spoilt(k)
    BY <1>2, <2>3 DEF Knows
  <2>6. Knows(y)
    BY <1>2, <2>3, <2>4, <2>5, Tables DEF Knows
  <2>7. gates' = [gates EXCEPT ![g] = y] /\ logs = "none" /\ logs' = g
    BY <1>2, <1>3, <2>1 DEF MakeLogs, GateGoes, LogsAreFree
  <2> QED
    BY <1>1, <2>3, <2>6, <2>7, GateStep DEF GateTyped
<1>4. CASE ~LogsAreFree
  <2>1. PICK y : y = [x EXCEPT !.phase = "refused"]
    OBVIOUS
  <2>2. y \in GateRecord /\ Knows(y)
    BY <1>2, <2>1, LeavesWork
  <2>3. y.phase = "refused"
    BY <1>2, <2>1 DEF GateRecord
  <2>4. gates' = [gates EXCEPT ![g] = y] /\ logs' = logs
    BY <1>2, <1>4, <2>1 DEF MakeLogs, GateGoes
  <2>5. "refused" \notin Working \cup {"receipt"}
    BY DEF Working, NewExtracted, BothExtracted, VerifiedPhases, InstalledPhases, Probed,
           LinksAttempted
  <2> QED
    BY <1>1, <2>2, <2>3, <2>4, <2>5, GateStep DEF GateTyped
<1> QED
  BY <1>3, <1>4


(* A result that a gate holds is what it then writes.                      *)
LEMMA WriteReceiptHolds == ASSUME GateInv, NEW g \in Gates, WriteGateReceipt(g) PROVE GateInv'
<1> USE DEF GateInv
<1>1. gates[g].phase = "receipt" /\ UNCHANGED <<pins, archives, replaced, logs>>
  BY DEF WriteGateReceipt, GateAt
<1>2. PICK x : x = gates[g] /\ x \in GateRecord /\ Knows(x) /\ x.phase = "receipt" /\ logs = g
  BY <1>1, StartedIsRecord
<1>3. PICK phase \in {"ended", "killed"} :
        /\ gates' = [gates EXCEPT ![g].phase = phase]
        /\ output' \in {[gate |-> g, result |-> x], [gate |-> g, result |-> [status |-> "damaged"]]}
  BY <1>2 DEF WriteGateReceipt, GateGoes
<1>4. PICK y : y = [x EXCEPT !.phase = phase]
  OBVIOUS
<1>5. y \in GateRecord /\ Knows(y)
  BY <1>2, <1>4, LeavesWork
<1>6. y.phase = phase
  BY <1>2, <1>4 DEF GateRecord
<1>7. /\ DOMAIN gates' = Gates /\ gates'[g] = y
      /\ \A q \in Gates : q # g => gates'[q] = gates[q]
  BY <1>2, <1>3, <1>4 DEF GatesTyped
<1>8. output'.gate = g /\ (output'.result = x \/ output'.result.status = "damaged")
  BY <1>3
<1>9. GatesTyped'
  BY <1>1, <1>5, <1>7, <1>8 DEF GatesTyped, GateTyped
<1>10. ASSUME NEW q \in Gates, gates'[q] \in GateRecord PROVE Knows(gates[q])'
  <2>1. PICK z : z = gates'[q]
    OBVIOUS
  <2>2. Knows(z)
    BY <1>5, <1>7, <1>10, <2>1
  <2>3. Knows(z)'
    BY <1>1, <2>2 DEF Knows, Spoilt, PassedIsTrue, BothLinked
  <2> QED
    BY <2>1, <2>3 DEF Knows, Spoilt, PassedIsTrue, BothLinked
<1>11. ASSUME NEW q \in Gates, gates'[q].phase \in Working \cup {"receipt"} PROVE logs' = q
  <2>1. phase \notin Working \cup {"receipt"}
    BY DEF Working, NewExtracted, BothExtracted, VerifiedPhases, InstalledPhases, Probed,
           LinksAttempted
  <2> QED
    BY <1>1, <1>6, <1>7, <1>11, <2>1
<1>12. PassedReceiptIsTrue'
  <2>1. output'.result.status = "passed" => output'.result = x /\ PassedIsTrue(x)
    BY <1>2, <1>8 DEF Knows
  <2> QED
    BY <1>1, <1>2, <1>8, <2>1 DEF PassedReceiptIsTrue, PassedIsTrue, BothLinked
<1> QED
  BY <1>9, <1>10, <1>11, <1>12

LEMMA KillHolds == ASSUME GateInv, NEW g \in Gates, KillGate(g) PROVE GateInv'
<1> USE DEF GateInv
<1>1. UNCHANGED <<pins, archives, replaced, output, logs>>
  BY DEF KillGate
<1>2. PICK x : x = gates[g] /\ x \in GateRecord /\ Knows(x)
  <2>1. gates[g].phase # "not run" /\ gates[g].phase # "refused"
    BY DEF KillGate
  <2> QED
    BY <2>1, StartedIsRecord
<1>3. PICK y : y = [x EXCEPT !.phase = "killed"]
  OBVIOUS
<1>4. y \in GateRecord /\ Knows(y)
  BY <1>2, <1>3, LeavesWork
<1>5. y.phase = "killed"
  BY <1>2, <1>3 DEF GateRecord
<1>6. "killed" \notin Working \cup {"receipt"}
  BY DEF Working, NewExtracted, BothExtracted, VerifiedPhases, InstalledPhases, Probed,
         LinksAttempted
<1>7. gates' = [gates EXCEPT ![g] = y]
  BY <1>2, <1>3 DEF KillGate, GateGoes
<1> QED
  BY <1>1, <1>4, <1>5, <1>6, <1>7, GateStep DEF GateTyped

(* The one replacement there may be spoils the archive for good: whatever  *)
(* was extracted before it is pinned.                                      *)
LEMMA ReplaceHolds ==
    ASSUME GateInv, MaxReplacements <= 1, NEW kind \in Kinds, NEW bundle \in Bundles,
           ReplaceArchive(kind, bundle)
    PROVE  GateInv'
<1> USE DEF GateInv
<1>1. UNCHANGED <<pins, gates, output, logs>>
  BY DEF ReplaceArchive
<1>2. replaced # MaxReplacements /\ replaced' = MaxReplacements
  BY OldAbiGateAssumption DEF ReplaceArchive, GatesTyped
<1>3. archives' \in [Kinds -> Bundles] /\ \A k \in Kinds : k # kind => archives'[k] = archives[k]
  BY DEF ReplaceArchive, GatesTyped
<1>4. GatesTyped'
  BY <1>1, <1>2, <1>3, OldAbiGateAssumption DEF GatesTyped
<1>5. ASSUME NEW x, Knows(x) PROVE Knows(x)'
  <2>1. \A k \in Kinds : archives'[k] = pins'[k] \/ Spoilt(k)'
    BY <1>2 DEF Spoilt
  <2>2. \A k \in Kinds : ~Spoilt(k)
    BY <1>2 DEF Spoilt
  <2> QED
    BY <1>1, <1>5, <2>1, <2>2 DEF Knows, PassedIsTrue, BothLinked
<1>6. ASSUME NEW g \in Gates, gates'[g] \in GateRecord PROVE Knows(gates[g])'
  <2>1. PICK x : x = gates'[g]
    OBVIOUS
  <2>2. Knows(x)'
    BY <1>1, <1>5, <1>6, <2>1
  <2> QED
    BY <2>1, <2>2 DEF Knows, Spoilt, PassedIsTrue, BothLinked
<1>7. PassedReceiptIsTrue'
  BY <1>1 DEF PassedReceiptIsTrue
<1> QED
  BY <1>1, <1>4, <1>6, <1>7

LEMMA GateInitially == GateInit => GateInv
<1> SUFFICES ASSUME GateInit PROVE GateInv
  OBVIOUS
<1> USE DEF GateInit
<1>1. GatesTyped
  BY OldAbiGateAssumption DEF GatesTyped, GateTyped
<1>2. ASSUME NEW g \in Gates PROVE gates[g] \notin GateRecord
  <2>1. PICK x : x = gates[g]
    OBVIOUS
  <2>2. x = [phase |-> "not run"]
    BY <2>1 DEF NotRun
  <2>3. DOMAIN x = {"phase"}
    BY <2>2
  <2>4. \A y \in GateRecord : "status" \in DOMAIN y
    BY DEF GateRecord
  <2> QED
    BY <2>1, <2>3, <2>4
<1>3. ASSUME NEW g \in Gates PROVE gates[g].phase \notin Working \cup {"receipt"}
  <2>1. gates[g].phase = "not run"
    BY DEF NotRun
  <2> QED
    BY <2>1 DEF Working, NewExtracted, BothExtracted, VerifiedPhases, InstalledPhases, Probed,
                LinksAttempted
<1> QED
  BY <1>1, <1>2, <1>3 DEF GateInv, PassedReceiptIsTrue

(* A receipt that says passed is true, for any number of gates that share  *)
(* the output path, fail and are killed, if at most one archive is         *)
(* replaced: a second replacement could put the pinned one back before it  *)
(* is hashed again.                                                        *)
THEOREM PassedReceiptTrue ==
    ASSUME MaxReplacements <= 1
    PROVE  GateSpec => []PassedReceiptIsTrue
<1>1. GateInv /\ [GateNext]_gateVars => GateInv'
  <2> SUFFICES ASSUME GateInv, [GateNext]_gateVars PROVE GateInv'
    OBVIOUS
  <2>1. CASE UNCHANGED gateVars
    <3> USE <2>1 DEF gateVars, GateInv
    <3>1. GatesTyped' /\ PassedReceiptIsTrue'
      BY DEF GatesTyped, PassedReceiptIsTrue
    <3>2. ASSUME NEW g \in Gates, Knows(gates[g]) PROVE Knows(gates[g])'
      <4>1. PICK x : x = gates'[g] /\ Knows(x)
        BY <3>2
      <4>2. Knows(x)'
        BY <4>1 DEF Knows, Spoilt, PassedIsTrue, BothLinked
      <4> QED
        BY <4>1, <4>2 DEF Knows, Spoilt, PassedIsTrue, BothLinked
    <3> QED
      BY <3>1, <3>2
  <2>2. ASSUME NEW kind \in Kinds, NEW bundle \in Bundles, ReplaceArchive(kind, bundle)
        PROVE  GateInv'
    BY <2>2, ReplaceHolds
  <2>3. ASSUME NEW g \in Gates, NEW require_links \in BOOLEAN, StartGate(g, require_links)
        PROVE  GateInv'
    BY <2>3, StartHolds
  <2>4. ASSUME NEW g \in Gates, NEW kind \in Kinds,
               HashBundle(g, kind) \/ ExtractBundle(g, kind) \/ Probe(g, kind)
        PROVE  GateInv'
    BY <2>4, HashHolds, ExtractHolds, ProbeHolds
  <2>5. ASSUME NEW g \in Gates,
               \/ MakeLogs(g) \/ CheckProvenance(g) \/ InstallWheel(g) \/ link_checks(g)
               \/ RequireLinks(g) \/ Rehash(g) \/ WriteGateReceipt(g) \/ KillGate(g)
        PROVE  GateInv'
    BY <2>5, MakeLogsHolds, ProvenanceHolds, InstallHolds, LinkChecksHold, RequireHolds,
       RehashHolds, WriteReceiptHolds, KillHolds
  <2> QED
    BY <2>1, <2>2, <2>3, <2>4, <2>5 DEF GateNext
<1>2. GateInv => PassedReceiptIsTrue
  BY DEF GateInv
<1> QED
  BY <1>1, <1>2, GateInitially, PTL DEF GateSpec

-----------------------------------------------------------------------------
(* The merge script validates what it saw, which need not be what is there *)
(* now.  The invariant therefore says of everything the script may hold,   *)
(* of the pull request on the server, and of the review file, that passing *)
(* the checks puts a commit among those that were green at some time, and  *)
(* that an acceptable review puts its commit among the cleared ones.       *)

Pulls ==
    [head : Int, base : Int, state : {"open", "closed", "merged"}, draft : BOOLEAN,
     clean : BOOLEAN, checks : [Checks -> Statuses \cup {"absent"}]]

(* A pull request that passes its checks was green.                        *)
WasGreen(pr) == ChecksPass(pr) => pr.head \in green

PullIsTyped == pull \in Pulls
PullWasGreen == WasGreen(pull)
FreshWasGreen == merger.phase = "viewed again" => WasGreen(merger.fresh)
ReviewWasCleared == (review.reviewers /\ ~review.blocking) => review.sha \in cleared
MergingIsSafe == merger.phase = "merging" => merger.sha \in green \cap cleared

MergeInv ==
    /\ PullIsTyped
    /\ PullWasGreen
    /\ FreshWasGreen
    /\ ReviewWasCleared
    /\ MergingIsSafe
    /\ MergedIsReviewedAndGreen

(* The pull request that is opened has no successful check and no review.  *)
LEMMA MergeInitially == MergeInit => MergeInv
<1> SUFFICES ASSUME MergeInit PROVE MergeInv
  OBVIOUS
<1> USE DEF MergeInit
<1>1. PullIsTyped
  BY DEF PullIsTyped, Pulls
<1>2. PullWasGreen
  BY DEF PullWasGreen, WasGreen, ChecksPass, Checks, Passing
<1>3. FreshWasGreen /\ MergingIsSafe
  BY DEF FreshWasGreen, MergingIsSafe, NotStarted
<1>4. ReviewWasCleared
  BY DEF ReviewWasCleared, NoReview
<1>5. MergedIsReviewedAndGreen
  BY DEF MergedIsReviewedAndGreen
<1> QED BY <1>1, <1>2, <1>3, <1>4, <1>5 DEF MergeInv

(* A change of the open pull request, by a push, a check, the base, its    *)
(* author or a reviewer, keeps the invariant if it does not merge it.      *)
LEMMA ChangesKeepInvariant ==
    ASSUME MergeInv, NEW changed \in Pulls, Changes(changed), changed.state # "merged"
    PROVE  MergeInv'
<1> USE DEF MergeInv, Changes
<1>1. green \subseteq green'
  OBVIOUS
<1>2. PullIsTyped'
  BY DEF PullIsTyped
<1>3. PullWasGreen'
  BY DEF PullWasGreen, WasGreen, ChecksPass
<1>4. FreshWasGreen'
  BY <1>1 DEF FreshWasGreen, WasGreen, ChecksPass
<1>5. ReviewWasCleared'
  BY DEF ReviewWasCleared
<1>6. MergingIsSafe'
  BY <1>1 DEF MergingIsSafe
<1>7. MergedIsReviewedAndGreen'
  BY DEF MergedIsReviewedAndGreen
<1> QED BY <1>2, <1>3, <1>4, <1>5, <1>6, <1>7

(* A step of the script that only changes what the script holds keeps what *)
(* the invariant says of everything else.                                  *)
LEMMA ScriptKeepsTheRest ==
    ASSUME MergeInv, UNCHANGED <<pull, review, green, cleared>>,
           FreshWasGreen', MergingIsSafe'
    PROVE  MergeInv'
BY DEF MergeInv, PullIsTyped, PullWasGreen, WasGreen, ChecksPass, ReviewWasCleared,
       MergedIsReviewedAndGreen

(* Every step keeps the invariant.                                         *)
LEMMA MergeStep == MergeInv /\ [MergeNext]_mergeVars => MergeInv'
<1> SUFFICES ASSUME MergeInv, [MergeNext]_mergeVars PROVE MergeInv'
  OBVIOUS
<1>0. pull \in Pulls
  BY DEF MergeInv, PullIsTyped
<1>1. ASSUME NEW execute \in BOOLEAN, View(execute) PROVE MergeInv'
  BY <1>1, ScriptKeepsTheRest DEF View, FreshWasGreen, MergingIsSafe
<1>2. CASE Validate
  BY <1>2, ScriptKeepsTheRest DEF Validate, FreshWasGreen, MergingIsSafe, NotStarted
<1>3. CASE ViewAgain
  <2>1. FreshWasGreen'
    BY <1>3 DEF ViewAgain, FreshWasGreen, MergeInv, PullWasGreen, WasGreen, ChecksPass
  <2> QED BY <1>3, <2>1, ScriptKeepsTheRest DEF ViewAgain, MergingIsSafe
<1>4. CASE ValidateAgain
  <2>1. FreshWasGreen'
    BY <1>4 DEF ValidateAgain, FreshWasGreen, NotStarted
  <2>2. MergingIsSafe'
    <3>1. CASE merger'.phase = "merging"
      <4>1. /\ validate(merger.fresh, review) /\ merger.fresh.head = merger.sha
            /\ merger' = [phase |-> "merging", sha |-> merger.sha]
        BY <1>4, <3>1 DEF ValidateAgain, NotStarted
      <4>2. merger.sha \in green
        BY <1>4, <4>1 DEF ValidateAgain, MergeInv, FreshWasGreen, WasGreen, validate
      <4>3. merger.sha \in cleared
        BY <4>1 DEF MergeInv, ReviewWasCleared, validate
      <4>4. merger'.sha = merger.sha
        BY <4>1
      <4>5. green' = green /\ cleared' = cleared
        BY <1>4 DEF ValidateAgain
      <4> QED BY <4>2, <4>3, <4>4, <4>5 DEF MergingIsSafe
    <3> QED BY <3>1 DEF MergingIsSafe
  <2> QED BY <1>4, <2>1, <2>2, ScriptKeepsTheRest DEF ValidateAgain
<1>5. CASE Merge
  <2> USE <1>5, <1>0 DEF Merge
  <2>1. PullIsTyped'
    BY DEF PullIsTyped, Pulls
  <2>2. pull'.head = pull.head /\ pull'.checks = pull.checks
    BY DEF Pulls
  <2>3. PullWasGreen'
    BY <2>2 DEF MergeInv, PullWasGreen, WasGreen, ChecksPass
  <2>4. FreshWasGreen' /\ MergingIsSafe'
    BY DEF FreshWasGreen, MergingIsSafe, NotStarted
  <2>5. ReviewWasCleared'
    BY DEF MergeInv, ReviewWasCleared
  <2>6. MergedIsReviewedAndGreen'
    <3>1. CASE ServerAccepts(merger.sha)
      <4>1. pull.head \in green \cap cleared
        BY <3>1 DEF ServerAccepts, MergeInv, MergingIsSafe
      <4> QED BY <4>1, <2>2 DEF MergedIsReviewedAndGreen
    <3>2. CASE ~ServerAccepts(merger.sha)
      BY <3>2 DEF MergeInv, MergedIsReviewedAndGreen
    <3> QED BY <3>1, <3>2
  <2> QED BY <2>1, <2>3, <2>4, <2>5, <2>6 DEF MergeInv
<1>6. CASE Push
  <2> DEFINE changed == [pull EXCEPT !.head = @ + 1, !.checks = [c \in Checks |-> "absent"]]
  <2>1. changed \in Pulls /\ changed.state = pull.state
    <3>1. ASSUME NEW head \in Int, NEW checks \in [Checks -> Statuses \cup {"absent"}]
          PROVE  /\ [pull EXCEPT !.head = head, !.checks = checks] \in Pulls
                 /\ [pull EXCEPT !.head = head, !.checks = checks].state = pull.state
      BY <1>0 DEF Pulls
    <3>2. pull.head + 1 \in Int
      BY <1>0 DEF Pulls
    <3>3. [c \in Checks |-> "absent"] \in [Checks -> Statuses \cup {"absent"}]
      OBVIOUS
    <3> QED BY <3>1, <3>2, <3>3
  <2>2. Changes(changed)
    BY <1>6 DEF Push
  <2>3. changed.state # "merged"
    BY <2>1, <2>2 DEF Changes
  <2> HIDE DEF changed
  <2> QED BY <2>1, <2>2, <2>3, ChangesKeepInvariant
<1>7. CASE BaseMoves
  <2>1. PICK clean \in BOOLEAN : Changes([pull EXCEPT !.base = @ + 1, !.clean = clean])
    BY <1>7 DEF BaseMoves
  <2> DEFINE changed == [pull EXCEPT !.base = @ + 1, !.clean = clean]
  <2>2. changed \in Pulls /\ Changes(changed) /\ changed.state = pull.state
    <3>1. ASSUME NEW base \in Int
          PROVE  /\ [pull EXCEPT !.base = base, !.clean = clean] \in Pulls
                 /\ [pull EXCEPT !.base = base, !.clean = clean].state = pull.state
      BY <1>0 DEF Pulls
    <3>2. pull.base + 1 \in Int
      BY <1>0 DEF Pulls
    <3> QED BY <2>1, <3>1, <3>2
  <2>3. changed.state # "merged"
    BY <2>2 DEF Changes
  <2> HIDE DEF changed
  <2> QED BY <2>2, <2>3, ChangesKeepInvariant
<1>8. CASE ToggleDraft
  <2> DEFINE changed == [pull EXCEPT !.draft = ~@]
  <2>1. changed \in Pulls /\ Changes(changed) /\ changed.state = pull.state
    BY <1>8, <1>0 DEF ToggleDraft, Pulls
  <2>2. changed.state # "merged"
    BY <2>1 DEF Changes
  <2> HIDE DEF changed
  <2> QED BY <2>1, <2>2, ChangesKeepInvariant
<1>9. CASE ClosePull
  <2> DEFINE changed == [pull EXCEPT !.state = "closed"]
  <2>1. changed \in Pulls /\ Changes(changed) /\ changed.state = "closed"
    BY <1>9, <1>0 DEF ClosePull, Pulls
  <2> HIDE DEF changed
  <2> QED BY <2>1, ChangesKeepInvariant
<1>10. ASSUME NEW c \in Checks, NEW status \in Statuses, CheckReports(c, status)
       PROVE MergeInv'
  <2> DEFINE changed == [pull EXCEPT !.checks[c] = status]
  <2>1. changed \in Pulls /\ Changes(changed) /\ changed.state = pull.state
    BY <1>10, <1>0 DEF CheckReports, Pulls
  <2>2. changed.state # "merged"
    BY <2>1 DEF Changes
  <2> HIDE DEF changed
  <2> QED BY <2>1, <2>2, ChangesKeepInvariant
<1>11. ASSUME NEW sha \in Commits, NEW blocking \in BOOLEAN, WriteReview(sha, blocking)
       PROVE MergeInv'
  <2> USE <1>11 DEF WriteReview
  <2>1. ReviewWasCleared'
    BY DEF ReviewWasCleared
  <2>2. cleared \subseteq cleared'
    OBVIOUS
  <2>3. MergingIsSafe' /\ MergedIsReviewedAndGreen'
    BY <2>2 DEF MergeInv, MergingIsSafe, MergedIsReviewedAndGreen
  <2>4. PullIsTyped' /\ PullWasGreen' /\ FreshWasGreen'
    BY DEF MergeInv, PullIsTyped, PullWasGreen, FreshWasGreen, WasGreen, ChecksPass
  <2> QED BY <2>1, <2>3, <2>4 DEF MergeInv
<1>12. CASE UNCHANGED mergeVars
  <2>1. FreshWasGreen' /\ MergingIsSafe'
    BY <1>12 DEF mergeVars, MergeInv, FreshWasGreen, MergingIsSafe, WasGreen, ChecksPass
  <2> QED BY <1>12, <2>1, ScriptKeepsTheRest DEF mergeVars
<1> QED
  BY <1>1, <1>2, <1>3, <1>4, <1>5, <1>6, <1>7, <1>8, <1>9, <1>10, <1>11, <1>12
     DEF MergeNext

(* What merge-pr.py merges is a commit that a review without blocking      *)
(* findings named and whose checks were all successful at one time.        *)
THEOREM MergesOnlyReviewedAndGreen == MergeSpec => []MergedIsReviewedAndGreen
<1>1. MergeInv => MergedIsReviewedAndGreen
  BY DEF MergeInv
<1> QED BY MergeInitially, MergeStep, <1>1, PTL DEF MergeSpec

-----------------------------------------------------------------------------
(* The paired profile.                                                     *)

PairPhases ==
    {"started", "baseline added", "compare harness", "profile", "combine candidate",
     "compare", "compared", "cleanup", "done", "ended", "not removed"}

(* What validate_profile has let through of a revision.                    *)
Metas == [points : Nat, quick : BOOLEAN, repetitions : {1}, contract : Contracts]
Evidence ==
    [rows_valid : {TRUE}, metadata : Metas,
     workloads : {expected_workloads(metadata) : metadata \in Metas}]

PairTyped ==
    /\ pair \in [phase : PairPhases, repetitions : PairRepetitions, quick : BOOLEAN,
                 turn : Nat, contract : Contracts \cup {"none"}]
    /\ pair.turn <= 2 * pair.repetitions
    /\ files \in [Labels -> Seq(Evidence)]
    /\ DOMAIN combined = Labels
    /\ order \in Seq(Labels)

(* The metadata of a file of a run with these arguments.                   *)
Meta(quick, contract) ==
    [points |-> IF quick THEN 100000 ELSE 1000000, quick |-> quick,
     repetitions |-> 1, contract |-> contract]

FilesAgree ==
    \A l \in Labels : \A i \in DOMAIN files[l] :
        files[l][i].metadata = Meta(pair.quick, pair.contract)

(* Until the first file is accepted there is no contract; after one turn   *)
(* the baseline has a file, after two the candidate has.                   *)
FilesStart ==
    /\ pair.contract = "none" => \A l \in Labels : files[l] = << >>
    /\ pair.turn >= 1 => files["baseline"] # << >>
    /\ pair.turn >= 2 => files["candidate"] # << >>

Alternates ==
    /\ Len(order) = pair.turn
    /\ \A k \in 1 .. pair.turn : order[k] = Label(k - 1)

Profiled == {"combine candidate", "compare", "compared"}
HarnessChecked ==
    pair.phase \in Profiled \cup {"profile"} => harness["baseline"] = harness["candidate"]

(* The workloads of a combined file that validate_profile has accepted.    *)
Whole(l) ==
    combined[l].workloads =
        expected_workloads([Meta(pair.quick, pair.contract) EXCEPT !.repetitions = pair.repetitions])

CombinedChecked ==
    /\ pair.phase \in Profiled => pair.turn = 2 * pair.repetitions /\ Whole("baseline")
    /\ pair.phase \in {"compare", "compared"} => Whole("candidate")

PairInv ==
    /\ PairTyped
    /\ FilesAgree
    /\ FilesStart
    /\ Alternates
    /\ HarnessChecked
    /\ CombinedChecked

LEMMA PairInitially == PairInit => PairInv
<1> SUFFICES ASSUME PairInit PROVE PairInv
  OBVIOUS
<1>1. /\ pair.phase = "started" /\ pair.turn = 0 /\ pair.contract = "none"
      /\ pair.repetitions \in PairRepetitions /\ pair.quick \in BOOLEAN
  BY DEF PairInit
<1>2. pair.repetitions \in Nat
  BY <1>1, ProfilePairAssumption
<1>3. pair \in [phase : PairPhases, repetitions : PairRepetitions, quick : BOOLEAN,
                turn : Nat, contract : Contracts \cup {"none"}]
  <2>1. pair \in [phase : {"started"}, repetitions : PairRepetitions, quick : BOOLEAN,
                  turn : {0}, contract : {"none"}]
    BY DEF PairInit
  <2>2. "started" \in PairPhases
    BY DEF PairPhases
  <2> QED
    BY <2>1, <2>2
<1>4. /\ files = [l \in Labels |-> << >>] /\ order = << >> /\ DOMAIN combined = Labels
  BY DEF PairInit
<1>5. PairTyped
  BY <1>1, <1>2, <1>3, <1>4 DEF PairTyped
<1>6. FilesAgree /\ FilesStart /\ Alternates
  BY <1>1, <1>4 DEF FilesAgree, FilesStart, Alternates, Labels
<1>7. HarnessChecked /\ CombinedChecked
  BY <1>1 DEF HarnessChecked, CombinedChecked, Profiled
<1> QED
  BY <1>5, <1>6, <1>7 DEF PairInv

(* The arguments and the progress of the script.                           *)
LEMMA PairFields ==
    ASSUME PairTyped
    PROVE  /\ pair.turn \in Nat /\ pair.repetitions \in Nat /\ pair.repetitions >= 2
           /\ pair.quick \in BOOLEAN
<1>1. pair.turn \in Nat /\ pair.repetitions \in PairRepetitions /\ pair.quick \in BOOLEAN
  BY DEF PairTyped
<1>2. pair.repetitions \in Nat /\ pair.repetitions # 0 /\ pair.repetitions # 1
  BY <1>1, ProfilePairAssumption
<1> QED
  BY <1>1, <1>2

(* A step that changes only where the script is, and the worktrees.        *)
PairMoves(phase) ==
    /\ phase \in PairPhases
    /\ PairGoes(phase)
    /\ UNCHANGED <<harness, files, combined, order>>

LEMMA PairMoveKeeps ==
    ASSUME PairInv, NEW phase, PairMoves(phase)
    PROVE  /\ PairTyped' /\ FilesAgree' /\ FilesStart' /\ Alternates'
           /\ pair' = [pair EXCEPT !.phase = phase]
           /\ pair'.phase = phase /\ pair'.turn = pair.turn /\ pair'.quick = pair.quick
           /\ pair'.contract = pair.contract /\ pair'.repetitions = pair.repetitions
<1>0. PairTyped /\ FilesAgree /\ FilesStart /\ Alternates
  BY DEF PairInv
<1>1. /\ phase \in PairPhases /\ pair' = [pair EXCEPT !.phase = phase]
      /\ files' = files /\ order' = order /\ combined' = combined
  BY DEF PairMoves, PairGoes
<1>2. /\ pair' \in [phase : PairPhases, repetitions : PairRepetitions, quick : BOOLEAN,
                    turn : Nat, contract : Contracts \cup {"none"}]
      /\ pair'.phase = phase /\ pair'.turn = pair.turn /\ pair'.quick = pair.quick
      /\ pair'.contract = pair.contract /\ pair'.repetitions = pair.repetitions
  BY <1>0, <1>1 DEF PairTyped
<1>3. PairTyped'
  BY <1>0, <1>1, <1>2 DEF PairTyped
<1>4. FilesAgree' /\ FilesStart' /\ Alternates'
  BY <1>0, <1>1, <1>2 DEF FilesAgree, FilesStart, Alternates
<1> QED
  BY <1>1, <1>2, <1>3, <1>4

(* A step to where nothing has been compared.                              *)
LEMMA PairLeaves ==
    ASSUME PairInv, NEW phase, PairMoves(phase), phase \notin Profiled \cup {"profile"}
    PROVE  PairInv'
<1>1. pair'.phase = phase
  BY PairMoveKeeps
<1>2. HarnessChecked' /\ CombinedChecked'
  BY ZenonT(60), <1>1 DEF HarnessChecked, CombinedChecked, Profiled
<1> QED
  BY <1>2, PairMoveKeeps DEF PairInv

LEMMA ProfileStep == PairInv /\ ProfileNext => PairInv'
<1> SUFFICES ASSUME PairInv, ProfileNext PROVE PairInv'
  BY SMTT(40)
<1>0. /\ PairTyped /\ FilesAgree /\ FilesStart /\ Alternates /\ HarnessChecked
      /\ pair.phase = "profile" /\ pair.turn < 2 * pair.repetitions
      /\ UNCHANGED <<worktrees, harness, combined>>
  BY DEF PairInv, ProfileNext, PairAt
<1>1. CASE Raises /\ UNCHANGED <<files, order>>
  <2>1. PairMoves("cleanup")
    BY <1>0, <1>1 DEF PairMoves, Raises, PairPhases
  <2> QED
    BY <2>1, PairLeaves DEF Profiled
<1>2. ASSUME NEW contract \in Contracts, NEW file \in Profiles(contract),
             validate_profile(file), check_contract(contract),
             pair' = [pair EXCEPT !.turn = @ + 1, !.contract = contract],
             files' = [files EXCEPT ![Label(pair.turn)] = Append(@, file)],
             order' = Append(order, Label(pair.turn))
      PROVE PairInv'
  <2>1. PICK l \in Labels : l = Label(pair.turn)
    BY DEF Label, Labels
  <2>2. /\ pair.turn \in Nat /\ pair.repetitions \in Nat /\ pair.repetitions >= 2
        /\ pair.quick \in BOOLEAN
    BY <1>0, PairFields
  <2>3. /\ pair' \in [phase : PairPhases, repetitions : PairRepetitions, quick : BOOLEAN,
                      turn : Nat, contract : Contracts \cup {"none"}]
        /\ pair'.phase = "profile" /\ pair'.turn = pair.turn + 1 /\ pair'.quick = pair.quick
        /\ pair'.contract = contract /\ pair'.repetitions = pair.repetitions
    <3>1. PICK turn \in Nat : turn = pair.turn + 1
      BY <2>2
    <3>5. PICK q : q = [pair EXCEPT !.turn = turn]
      OBVIOUS
    <3>2. /\ q \in [phase : PairPhases, repetitions : PairRepetitions, quick : BOOLEAN,
                    turn : Nat, contract : Contracts \cup {"none"}]
          /\ q.phase = "profile" /\ q.turn = pair.turn + 1 /\ q.quick = pair.quick
          /\ q.repetitions = pair.repetitions
      BY <1>0, <3>1, <3>5 DEF PairTyped
    <3>3. pair' = [q EXCEPT !.contract = contract]
      BY <1>0, <1>2, <3>1, <3>5 DEF PairTyped
    <3> QED
      BY <3>2, <3>3
  <2>4. file.metadata = Meta(pair.quick, contract) /\ file \in Evidence
    <3>1. PICK m : m = Meta(pair.quick, contract)
      OBVIOUS
    <3>2. m \in Metas
      BY <2>2, <3>1 DEF Meta, Metas
    <3>3. PICK whole, part :
              file \in {[rows_valid |-> TRUE, metadata |-> m, workloads |-> whole],
                        [rows_valid |-> TRUE, metadata |-> m, workloads |-> part],
                        [rows_valid |-> FALSE, metadata |-> m, workloads |-> whole]}
      <4> DEFINE whole == expected_workloads(m)
                 lost == CHOOSE key \in DOMAIN whole : TRUE
                 part == [key \in DOMAIN whole \ {lost} |-> whole[key]]
      <4>1. file \in {[rows_valid |-> TRUE, metadata |-> m, workloads |-> whole],
                      [rows_valid |-> TRUE, metadata |-> m, workloads |-> part],
                      [rows_valid |-> FALSE, metadata |-> m, workloads |-> whole]}
        BY <1>2, <3>1 DEF Profiles, Meta
      <4> HIDE DEF whole, part
      <4> QED
        BY <4>1
    <3>4. PICK v \in BOOLEAN, w \in {whole, part} :
              file = [rows_valid |-> v, metadata |-> m, workloads |-> w]
      BY <3>3
    <3>5. file.rows_valid /\ file.workloads = expected_workloads(file.metadata)
      BY <1>2 DEF validate_profile
    <3>6. file.metadata = m /\ v /\ w = expected_workloads(m)
      BY <3>4, <3>5
    <3> QED
      BY <3>1, <3>2, <3>4, <3>6 DEF Evidence
  <2>6. files[l] \in Seq(Evidence)
    BY <1>0 DEF PairTyped
  <2>5. PICK g \in Seq(Evidence) : g = Append(files[l], file)
    BY <2>4, <2>6, AppendProperties
  <2>7. /\ Len(g) = Len(files[l]) + 1 /\ g[Len(g)] = file /\ g # << >>
        /\ \A i \in 1 .. Len(files[l]) : g[i] = files[l][i]
    BY <2>4, <2>5, <2>6
  <2>8. files' = [files EXCEPT ![l] = g]
    BY <1>2, <2>1, <2>5
  <2>9. /\ files' \in [Labels -> Seq(Evidence)] /\ files'[l] = g
        /\ \A k \in Labels : k # l => files'[k] = files[k]
    BY <1>0, <2>5, <2>8 DEF PairTyped
  <2>10. /\ order' \in Seq(Labels) /\ Len(order') = pair.turn + 1
         /\ order'[pair.turn + 1] = l /\ \A k \in 1 .. pair.turn : order'[k] = order[k]
    BY <1>0, <1>2, <2>1, <2>2 DEF PairTyped, Alternates
  <2>11. PairTyped'
    BY <1>0, <2>2, <2>3, <2>9, <2>10 DEF PairTyped
  <2>12. FilesAgree'
    <3>1. SUFFICES ASSUME NEW k \in Labels, NEW i \in DOMAIN files'[k]
                   PROVE files'[k][i].metadata = Meta(pair.quick, contract)
      BY <2>3 DEF FilesAgree
    <3>2. ASSUME NEW j \in DOMAIN files[k]
          PROVE files[k][j].metadata = Meta(pair.quick, contract)
      <4>1. files[k] # << >>
        BY <3>2
      <4>2. pair.contract = contract
        BY <1>0, <1>2, <4>1 DEF FilesStart, check_contract
      <4> QED
        BY <1>0, <3>2, <4>2 DEF FilesAgree
    <3>3. CASE k # l
      BY <2>9, <3>1, <3>2, <3>3
    <3>4. CASE k = l
      <4>1. i \in 1 .. Len(files[l]) \/ i = Len(g)
        BY <2>5, <2>6, <2>7, <2>9, <3>1, <3>4
      <4>2. CASE i \in 1 .. Len(files[l])
        <5>1. i \in DOMAIN files[k]
          BY <2>6, <3>4, <4>2
        <5> QED
          BY <2>7, <2>9, <3>2, <3>4, <4>2, <5>1
      <4>3. CASE i = Len(g)
        BY <2>4, <2>7, <2>9, <3>4, <4>3
      <4> QED
        BY <4>1, <4>2, <4>3
    <3> QED
      BY <3>3, <3>4
  <2>13. FilesStart'
    <3>1. pair'.contract # "none"
      BY <2>3, ProfilePairAssumption
    <3>2. files'["baseline"] # << >>
      <4>1. CASE pair.turn = 0
        <5>1. l = "baseline"
          BY <2>1, <4>1 DEF Label
        <5> QED
          BY <2>7, <2>9, <5>1
      <4>2. CASE pair.turn >= 1
        <5>1. files["baseline"] # << >>
          BY <1>0, <4>2 DEF FilesStart
        <5> QED
          BY <2>7, <2>9, <5>1 DEF Labels
      <4> QED
        BY <2>2, <4>1, <4>2
    <3>3. pair.turn >= 1 => files'["candidate"] # << >>
      <4>1. CASE pair.turn = 1
        <5>1. l = "candidate"
          BY <2>1, <4>1 DEF Label
        <5> QED
          BY <2>7, <2>9, <5>1
      <4>2. CASE pair.turn >= 2
        <5>1. files["candidate"] # << >>
          BY <1>0, <4>2 DEF FilesStart
        <5> QED
          BY <2>7, <2>9, <5>1 DEF Labels
      <4> QED
        BY <2>2, <4>1, <4>2
    <3> QED
      BY <2>2, <2>3, <3>1, <3>2, <3>3 DEF FilesStart
  <2>14. Alternates'
    <3>1. SUFFICES ASSUME NEW k \in 1 .. pair.turn + 1 PROVE order'[k] = Label(k - 1)
      BY <2>3, <2>10 DEF Alternates
    <3>2. CASE k = pair.turn + 1
      <4>1. k - 1 = pair.turn
        BY <2>2, <3>2
      <4> QED
        BY <2>1, <2>10, <3>2, <4>1
    <3>3. CASE k \in 1 .. pair.turn
      BY <1>0, <2>10, <3>3 DEF Alternates
    <3> QED
      BY <2>2, <3>1, <3>2, <3>3
  <2>15. HarnessChecked' /\ CombinedChecked'
    BY <1>0, <2>3 DEF HarnessChecked, CombinedChecked, Profiled
  <2> QED
    BY <2>11, <2>12, <2>13, <2>14, <2>15 DEF PairInv
<1>3. ASSUME NEW contract \in Contracts, NEW file \in Profiles(contract),
             ~(validate_profile(file) /\ check_contract(contract)),
             Raises /\ UNCHANGED <<files, order>>
      PROVE PairInv'
  BY <1>1, <1>3
<1> QED
  BY <1>1, <1>2, <1>3 DEF ProfileNext

(* Combining a label: the file that is accepted has every workload of the  *)
(* run, as often as was asked for.                                         *)
LEMMA CombineStep ==
    ASSUME PairInv, NEW label \in Labels, NEW phase \in PairPhases,
           CombineLabel(label, phase), pair.turn = 2 * pair.repetitions
    PROVE  /\ PairTyped' /\ FilesAgree' /\ FilesStart' /\ Alternates'
           /\ harness' = harness
           /\ pair'.turn = pair.turn /\ pair'.quick = pair.quick
           /\ pair'.contract = pair.contract /\ pair'.repetitions = pair.repetitions
           /\ \A l \in Labels : l # label => combined'[l] = combined[l]
           /\ pair'.phase = "cleanup" \/ (pair'.phase = phase /\ Whole(label)')
<1>0. PairTyped /\ FilesAgree /\ FilesStart /\ Alternates
  BY DEF PairInv
<1>1. PICK file : file = Combine(files[label])
  OBVIOUS
<1>2. PICK next \in PairPhases : next = IF validate_profile(file) THEN phase ELSE "cleanup"
  BY DEF PairPhases
<1>3. /\ combined' = [combined EXCEPT ![label] = file]
      /\ pair' = [pair EXCEPT !.phase = next]
      /\ harness' = harness /\ files' = files /\ order' = order
  BY <1>1, <1>2 DEF CombineLabel, PairGoes
<1>4. /\ pair' \in [phase : PairPhases, repetitions : PairRepetitions, quick : BOOLEAN,
                    turn : Nat, contract : Contracts \cup {"none"}]
      /\ pair'.phase = next /\ pair'.turn = pair.turn /\ pair'.quick = pair.quick
      /\ pair'.contract = pair.contract /\ pair'.repetitions = pair.repetitions
  BY <1>0, <1>3 DEF PairTyped
<1>5. /\ DOMAIN combined' = Labels /\ combined'[label] = file
      /\ \A l \in Labels : l # label => combined'[l] = combined[l]
  BY <1>0, <1>3 DEF PairTyped
<1>6. PairTyped' /\ FilesAgree' /\ FilesStart' /\ Alternates'
  <2>1. PairTyped'
    BY <1>0, <1>3, <1>4, <1>5 DEF PairTyped
  <2> QED
    BY <1>0, <1>3, <1>4, <2>1 DEF FilesAgree, FilesStart, Alternates
<1>7. ASSUME validate_profile(file) PROVE pair'.phase = phase /\ Whole(label)'
  <2>1. file.workloads = expected_workloads(file.metadata)
    BY <1>7 DEF validate_profile
  <2>2. files[label] # << >> /\ files[label] \in Seq(Evidence)
    <3>1. pair.turn >= 2
      BY <1>0, PairFields
    <3> QED
      BY <1>0, <3>1 DEF FilesStart, Labels, PairTyped
  <2>3. 1 \in DOMAIN files[label]
    BY <2>2
  <2>4. files[label][1].metadata = Meta(pair.quick, pair.contract)
    BY <1>0, <2>3 DEF FilesAgree
  <2>5. file.metadata =
            [Meta(pair.quick, pair.contract) EXCEPT !.repetitions = pair.repetitions]
    BY <1>1, <2>4 DEF Combine
  <2>6. combined'[label].workloads =
          expected_workloads([Meta(pair.quick, pair.contract) EXCEPT
                                !.repetitions = pair.repetitions])
    BY <1>5, <2>1, <2>5
  <2> QED
    BY <1>2, <1>4, <1>7, <2>6 DEF Whole
<1> QED
  BY <1>2, <1>3, <1>4, <1>5, <1>6, <1>7

LEMMA PairStep == PairInv /\ [PairNext]_pairVars => PairInv'
<1> SUFFICES ASSUME PairInv, [PairNext]_pairVars PROVE PairInv'
  OBVIOUS
<1>0. /\ PairTyped /\ HarnessChecked /\ CombinedChecked
  BY DEF PairInv
<1>1. CASE AddBaseline
  <2>1. PICK phase \in {"ended", "baseline added"} : PairMoves(phase)
    BY <1>1 DEF AddBaseline, PairMoves, PairPhases
  <2> QED
    BY <2>1, PairLeaves DEF Profiled
<1>2. CASE AddCandidate
  <2>1. PICK phase \in {"cleanup", "compare harness"} : PairMoves(phase)
    BY <1>2 DEF AddCandidate, PairMoves, PairPhases, Raises
  <2> QED
    BY <2>1, PairLeaves DEF Profiled
<1>3. CASE CompareHarness
  <2>1. CASE harness["baseline"] = harness["candidate"]
    <3>1. PairMoves("profile")
      BY <1>3, <2>1 DEF CompareHarness, PairMoves, PairPhases
    <3>2. pair'.phase = "profile" /\ harness' = harness
      BY <3>1, PairMoveKeeps DEF PairMoves
    <3>3. HarnessChecked' /\ CombinedChecked'
      BY <2>1, <3>2 DEF HarnessChecked, CombinedChecked, Profiled
    <3> QED
      BY <3>1, <3>3, PairMoveKeeps DEF PairInv
  <2>2. CASE harness["baseline"] # harness["candidate"]
    <3>1. PairMoves("cleanup")
      BY <1>3, <2>2 DEF CompareHarness, PairMoves, PairPhases, Raises
    <3> QED
      BY <3>1, PairLeaves DEF Profiled
  <2> QED
    BY <2>1, <2>2
<1>4. CASE ProfileNext
  BY <1>4, ProfileStep
<1>5. CASE CombineBaseline
  <2>1. /\ pair.phase = "profile" /\ pair.turn = 2 * pair.repetitions
        /\ CombineLabel("baseline", "combine candidate")
    BY <1>5 DEF CombineBaseline, PairAt
  <2>2. "baseline" \in Labels /\ "combine candidate" \in PairPhases
    BY DEF Labels, PairPhases
  <2>3. /\ PairTyped' /\ FilesAgree' /\ FilesStart' /\ Alternates'
        /\ harness' = harness
        /\ pair'.turn = pair.turn /\ pair'.repetitions = pair.repetitions
        /\ pair'.phase = "cleanup" \/ (pair'.phase = "combine candidate" /\ Whole("baseline")')
    BY <2>1, <2>2, CombineStep
  <2>4. HarnessChecked' /\ CombinedChecked'
    BY <1>0, <2>1, <2>3 DEF HarnessChecked, CombinedChecked, Profiled
  <2> QED
    BY <2>3, <2>4 DEF PairInv
<1>6. CASE CombineCandidate
  <2>1. pair.phase = "combine candidate" /\ CombineLabel("candidate", "compare")
    BY <1>6 DEF CombineCandidate, PairAt
  <2>2. pair.turn = 2 * pair.repetitions /\ Whole("baseline")
    BY <1>0, <2>1 DEF CombinedChecked, Profiled
  <2>3. "candidate" \in Labels /\ "compare" \in PairPhases /\ "baseline" \in Labels
    BY DEF Labels, PairPhases
  <2>4. /\ PairTyped' /\ FilesAgree' /\ FilesStart' /\ Alternates'
        /\ harness' = harness
        /\ pair'.turn = pair.turn /\ pair'.repetitions = pair.repetitions
        /\ pair'.quick = pair.quick /\ pair'.contract = pair.contract
        /\ \A l \in Labels : l # "candidate" => combined'[l] = combined[l]
        /\ pair'.phase = "cleanup" \/ (pair'.phase = "compare" /\ Whole("candidate")')
    BY <2>1, <2>2, <2>3, CombineStep
  <2>5. Whole("baseline")'
    BY <2>2, <2>3, <2>4 DEF Whole
  <2>6. HarnessChecked' /\ CombinedChecked'
    BY <1>0, <2>1, <2>2, <2>4, <2>5 DEF HarnessChecked, CombinedChecked, Profiled
  <2> QED
    BY <2>4, <2>6 DEF PairInv
<1>7. CASE Compare
  <2>1. pair.phase = "compare" /\ PairMoves("compared")
    BY <1>7 DEF Compare, PairAt, PairMoves, PairPhases
  <2>2. /\ pair'.phase = "compared" /\ pair'.turn = pair.turn /\ pair'.quick = pair.quick
        /\ pair'.contract = pair.contract /\ pair'.repetitions = pair.repetitions
    BY <2>1, PairMoveKeeps
  <2>3. harness' = harness /\ combined' = combined
    BY <2>1 DEF PairMoves
  <2>4. HarnessChecked' /\ CombinedChecked'
    BY <1>0, <2>1, <2>2, <2>3 DEF HarnessChecked, CombinedChecked, Profiled, Whole
  <2> QED
    BY <2>1, <2>4, PairMoveKeeps DEF PairInv
<1>8. CASE CleanUp
  <2>1. PICK phase \in {"done", "ended", "not removed"} : PairMoves(phase)
    BY <1>8 DEF CleanUp, PairMoves, PairPhases
  <2> QED
    BY <2>1, PairLeaves DEF Profiled
<1>9. CASE UNCHANGED pairVars
  BY <1>9 DEF pairVars, PairInv, PairTyped, FilesAgree, FilesStart, Alternates,
              HarnessChecked, CombinedChecked, Whole
<1> QED
  BY <1>1, <1>2, <1>3, <1>4, <1>5, <1>6, <1>7, <1>8, <1>9 DEF PairNext

(* Of n repetitions the odd ones are half, or one more than the even ones. *)
OddOnes(n) == {k \in 1 .. n : k % 2 = 1}
EvenOnes(n) == {k \in 1 .. n : k % 2 = 0}

(* With one more, they are again.                                          *)
LEMMA NextHalf ==
    ASSUME NEW n \in Nat, NEW odd \in Nat, NEW even \in Nat,
           2 * odd = n + (n % 2), 2 * even = n - (n % 2)
    PROVE  /\ n % 2 = 0 => 2 * (odd + 1) = (n + 1) + ((n + 1) % 2) /\ 2 * even = (n + 1) - ((n + 1) % 2)
           /\ n % 2 = 1 => 2 * (even + 1) = (n + 1) - ((n + 1) % 2) /\ 2 * odd = (n + 1) + ((n + 1) % 2)
<1>1. n % 2 = 0 => (n + 1) % 2 = 1
  OBVIOUS
<1>2. n % 2 = 1 => (n + 1) % 2 = 0
  OBVIOUS
<1> QED
  BY <1>1, <1>2

LEMMA Halves ==
    ASSUME NEW m \in Nat
    PROVE  /\ 2 * Cardinality(OddOnes(m)) = m + (m % 2)
           /\ 2 * Cardinality(EvenOnes(m)) = m - (m % 2)
<1> DEFINE Half(n) ==
              /\ IsFiniteSet(OddOnes(n)) /\ IsFiniteSet(EvenOnes(n))
              /\ 2 * Cardinality(OddOnes(n)) = n + (n % 2)
              /\ 2 * Cardinality(EvenOnes(n)) = n - (n % 2)
           T == {n \in 0 .. m : Half(n)}
<1>1. 0 \in T
  <2>1. OddOnes(0) = {} /\ EvenOnes(0) = {}
    BY DEF OddOnes, EvenOnes
  <2> QED
    BY <2>1, FS_EmptySet
<1>2. ASSUME NEW n \in 0 .. m, n # m, n \in T PROVE n + 1 \in T
  <2>1. PICK k \in 1 .. m : k = n + 1
    BY <1>2
  <2>2. k \notin OddOnes(n) /\ k \notin EvenOnes(n)
    BY <2>1 DEF OddOnes, EvenOnes
  <2>3. /\ Cardinality(OddOnes(n)) \in Nat /\ Cardinality(EvenOnes(n)) \in Nat
    BY <1>2, FS_CardinalityType
  <2>6. PICK odd \in Nat, even \in Nat :
            odd = Cardinality(OddOnes(n)) /\ even = Cardinality(EvenOnes(n))
    BY <2>3
  <2>7. n \in Nat /\ 2 * odd = n + (n % 2) /\ 2 * even = n - (n % 2)
    BY <1>2, <2>6
  <2>4. CASE k % 2 = 1
    <3>1. OddOnes(k) = OddOnes(n) \cup {k} /\ EvenOnes(k) = EvenOnes(n)
      BY <2>1, <2>4 DEF OddOnes, EvenOnes
    <3>2. IsFiniteSet(OddOnes(k)) /\ Cardinality(OddOnes(k)) = Cardinality(OddOnes(n)) + 1
      BY <1>2, <2>2, <3>1, FS_AddElement
    <3>3. n % 2 = 0
      BY <2>1, <2>4
    <3>4. 2 * (odd + 1) = (n + 1) + ((n + 1) % 2) /\ 2 * even = (n + 1) - ((n + 1) % 2)
      BY <2>6, <2>7, <3>3, NextHalf
    <3>5. Half(k)
      BY <1>2, <2>1, <2>6, <3>1, <3>2, <3>4
    <3> QED
      BY <2>1, <3>5
  <2>5. CASE k % 2 = 0
    <3>1. EvenOnes(k) = EvenOnes(n) \cup {k} /\ OddOnes(k) = OddOnes(n)
      BY <2>1, <2>5 DEF OddOnes, EvenOnes
    <3>2. IsFiniteSet(EvenOnes(k)) /\ Cardinality(EvenOnes(k)) = Cardinality(EvenOnes(n)) + 1
      BY <1>2, <2>2, <3>1, FS_AddElement
    <3>3. n % 2 = 1
      BY <2>1, <2>5
    <3>4. 2 * odd = (n + 1) + ((n + 1) % 2) /\ 2 * (even + 1) = (n + 1) - ((n + 1) % 2)
      BY ZenonT(60), <2>6, <2>7, <3>3, NextHalf
    <3>5. Half(k)
      BY <1>2, <2>1, <2>6, <3>1, <3>2, <3>4
    <3> QED
      BY <2>1, <3>5
  <2> QED
    BY <2>1, <2>4, <2>5
<1> HIDE DEF T
<1>3. \A n \in 0 .. m : n \in T
  BY <1>1, <1>2, Induction
<1> QED
  BY <1>3 DEF T

LEMMA FairIsImplied == PairInv => ComparisonIsFair
<1> SUFFICES ASSUME PairInv, pair.phase = "compared" PROVE ComparisonIsFair
  BY DEF ComparisonIsFair, PairAt
<1>0. /\ PairTyped /\ FilesAgree /\ FilesStart /\ Alternates /\ HarnessChecked /\ CombinedChecked
  BY DEF PairInv
<1>1. harness["baseline"] = harness["candidate"]
  BY <1>0 DEF HarnessChecked, Profiled
<1>2. Whole("baseline") /\ Whole("candidate") /\ pair.turn = 2 * pair.repetitions
  BY <1>0 DEF CombinedChecked, Profiled
<1>3. ASSUME NEW l \in Labels PROVE combined[l].workloads = expected_workloads(Asked)
  <2>1. Whole(l)
    BY <1>2 DEF Labels
  <2>2. PICK meta : meta = [Meta(pair.quick, pair.contract) EXCEPT !.repetitions = pair.repetitions]
    OBVIOUS
  <2>3. /\ meta.points = Asked.points /\ meta.quick = Asked.quick
        /\ meta.repetitions = Asked.repetitions
    BY <2>2 DEF Meta, Asked
  <2>4. expected_workloads(meta) = expected_workloads(Asked)
    BY <2>3 DEF expected_workloads
  <2> QED
    BY <2>1, <2>2, <2>4 DEF Whole
<1>4. PICK m \in Nat : m = pair.repetitions /\ m >= 2
  BY <1>0, PairFields
<1>5. ASSUME NEW l \in Labels, NEW i \in DOMAIN files[l]
      PROVE files[l][i].metadata.contract = files["baseline"][1].metadata.contract
  <2>1. files["baseline"] # << >> /\ files["baseline"] \in Seq(Evidence)
    BY <1>0, <1>2, <1>4 DEF FilesStart, PairTyped, Labels
  <2>2. 1 \in DOMAIN files["baseline"] /\ "baseline" \in Labels
    BY <2>1 DEF Labels
  <2> QED
    BY <1>0, <1>5, <2>2 DEF FilesAgree
<1>6. ASSUME NEW k \in 1 .. m
      PROVE order[2 * k - 1] = IF k % 2 = 1 THEN "baseline" ELSE "candidate"
  <2>1. PICK t \in 1 .. pair.turn : t = 2 * k - 1
    BY <1>2, <1>4
  <2>2. order[t] = Label(t - 1)
    BY <1>0 DEF Alternates
  <2>3. (t - 1) \div 2 = k - 1 /\ (t - 1) % 2 = 0
    BY <2>1
  <2>4. (k - 1) % 2 = 0 <=> k % 2 = 1
    OBVIOUS
  <2> QED
    BY <2>1, <2>2, <2>3, <2>4 DEF Label
<1>7. ASSUME NEW l \in Labels
      PROVE 2 * Cardinality({k \in 1 .. pair.repetitions : order[2 * k - 1] = l})
                \in pair.repetitions - 1 .. pair.repetitions + 1
  <2>1. CASE l = "baseline"
    <3>1. {k \in 1 .. pair.repetitions : order[2 * k - 1] = l} = OddOnes(m)
      BY <1>4, <1>6, <2>1 DEF OddOnes
    <3>2. 2 * Cardinality(OddOnes(m)) \in m - 1 .. m + 1
      <4>1. m % 2 \in 0 .. 1
        BY <1>4
      <4>2. PICK c : c = 2 * Cardinality(OddOnes(m))
        OBVIOUS
      <4>3. c = m + (m % 2)
        BY <1>4, <4>2, Halves
      <4> QED
        BY <4>1, <4>2, <4>3
    <3> QED
      BY <1>4, <3>1, <3>2
  <2>2. CASE l = "candidate"
    <3>1. {k \in 1 .. pair.repetitions : order[2 * k - 1] = l} = EvenOnes(m)
      BY <1>4, <1>6, <2>2 DEF EvenOnes
    <3>2. 2 * Cardinality(EvenOnes(m)) \in m - 1 .. m + 1
      <4>1. m % 2 \in 0 .. 1
        BY <1>4
      <4>2. PICK c : c = 2 * Cardinality(EvenOnes(m))
        OBVIOUS
      <4>3. c = m - (m % 2)
        BY <1>4, <4>2, Halves
      <4> QED
        BY <4>1, <4>2, <4>3
    <3> QED
      BY <1>4, <3>1, <3>2
  <2> QED
    BY <2>1, <2>2 DEF Labels
<1> QED
  BY <1>1, <1>3, <1>5, <1>7 DEF ComparisonIsFair

(* profile-pair.py compares only evidence of one harness and one contract, *)
(* whole on both sides, in which the sides took turns at going first, for  *)
(* any number of repetitions and whatever a command or a harness does.     *)
THEOREM ComparisonIsFairHolds == PairSpec => []ComparisonIsFair
<1> QED
  BY PairInitially, PairStep, FairIsImplied, PTL DEF PairSpec


-----------------------------------------------------------------------------
(* The runs of bench.py.                                                   *)

RunFields == {"made", "environment", "raw", "log", "summary", "charts", "report", "sums"}
ProcessFields ==
    {"phase", "dir", "resume", "publish", "built", "fingerprint", "at", "complete", "emitted",
     "zero"}

Row == [identity : Identities, built : Nat, fingerprint : Nat, positive : BOOLEAN]
Environment == [of : Directories, fingerprint : Nat, completed : Nat]

-----------------------------------------------------------------------------
(* A run x of directory d.                                                 *)

RunTyped(x) ==
    \/ x = NoRun
    \/ /\ DOMAIN x = RunFields /\ x.made = TRUE
       /\ x.raw \in Seq(Row)
       /\ x.environment = Damaged \/ x.environment \in Environment

(* Its rows are of one fingerprint, that of its environment; dirty says    *)
(* that the sources were edited under one of its builds.                   *)
RowsAgree(x, dirty) ==
    \A i \in DOMAIN x.raw :
        /\ x.raw[i].fingerprint = x.raw[1].fingerprint
        /\ x.environment # Damaged => x.raw[i].fingerprint = x.environment.fingerprint
        /\ ~dirty => x.raw[i].built = x.raw[i].fingerprint

(* No identity has two rows.                                               *)
RowsDistinct(x) ==
    /\ IsFiniteSet(IdentitiesOf(x.raw))
    /\ Len(x.raw) = Cardinality(IdentitiesOf(x.raw))

(* The checksums were taken of files that agreed with one another.         *)
SumsAgree(d, x) ==
    x.sums.of = d =>
        /\ x.sums.summary = [of |-> d, rows |-> x.sums.raw]
        /\ x.sums.charts = [of |-> d, rows |-> x.sums.raw]
        /\ x.sums.report = [of |-> d, rows |-> x.sums.raw,
                            fingerprint |-> x.sums.environment.fingerprint]

(* Rows that validate.                                                     *)
Complete(raw) == EachOnce(raw) /\ Counted(raw)

(* All results of an invocation are there, or none.                        *)
WholeRun(x, i) ==
    \/ \A k \in DOMAIN Calls[i] : Calls[i][k] \in IdentitiesOf(x.raw)
    \/ \A k \in DOMAIN Calls[i] : Calls[i][k] \notin IdentitiesOf(x.raw)

RunAgrees(d, x, dirty) ==
    x.made => RowsAgree(x, dirty) /\ RowsDistinct(x) /\ SumsAgree(d, x)

-----------------------------------------------------------------------------
(* A process p that works on run x, by how far it has come.                *)

Preparing == {"build", "fingerprint"}
Measuring == {"matrix", "emit"}
Published == {"root report", "assets", "latest"}
Reported == {"checksums"} \cup Published
Charted == {"report"} \cup Reported
Summarised == {"charts"} \cup Charted
Validated == {"environment", "summary"} \cup Summarised
ProcessPhases == Preparing \cup Measuring \cup {"validate"} \cup Validated

(* It has emitted the first k - 1 results of the invocation it is at.      *)
Emitting(p, k) ==
    /\ p.emitted = SubSeq(Calls[p.at], k, Len(Calls[p.at]))
    /\ \A m \in DOMAIN Calls[p.at] : Calls[p.at][m] \in p.complete <=> m < k

MeasuresRightly(p, x, dirty) ==
    /\ x.environment \in Environment
    /\ p.fingerprint = x.environment.fingerprint
    /\ p.built \in Nat /\ (dirty \/ p.built = p.fingerprint)
    /\ p.complete = IdentitiesOf(x.raw)
    /\ p.at \in Nat \ {0}
    /\ \A j \in DOMAIN Calls : j < p.at => \A k \in DOMAIN Calls[j] : Calls[j][k] \in p.complete
    /\ p.phase = "emit" => /\ p.at \in DOMAIN Calls
                          /\ \E k \in DOMAIN Calls[p.at] : Emitting(p, k)

ProcessAgrees(p, x, dirty, now) ==
    /\ DOMAIN p = ProcessFields /\ p.dir \in Directories /\ p.phase \in ProcessPhases
    /\ p.phase \in Preparing => x.made = p.resume /\ p.at = 1 /\ p.complete = {}
    /\ p.phase \notin Preparing => x.made
    /\ p.phase = "fingerprint" => p.built \in Nat /\ (dirty \/ p.built = now)
    /\ p.phase \in Measuring => MeasuresRightly(p, x, dirty)
    /\ p.phase \in {"environment"} \cup Reported => x.environment \in Environment
    /\ p.phase \in Validated => Complete(x.raw)
    /\ p.phase \in Summarised => x.summary = [of |-> p.dir, rows |-> x.raw]
    /\ p.phase \in Charted => x.charts = [of |-> p.dir, rows |-> x.raw]
    /\ p.phase \in Reported =>
            x.report = [of |-> p.dir, rows |-> x.raw, fingerprint |-> x.environment.fingerprint]

-----------------------------------------------------------------------------
(* A run that was complete once gets no more rows.                         *)
Sealed(d) ==
    /\ runs[d].made /\ Complete(runs[d].raw)
    /\ ~(process.phase = "emit" /\ process.dir = d)

BenchTyped ==
    /\ source \in Nat /\ starts \in Nat
    /\ DOMAIN runs = Directories /\ \A d \in Directories : RunTyped(runs[d])
    /\ DOMAIN root = {"report", "assets", "latest"}
    /\ root.latest \in Directories \cup {"none"}
    /\ root.report.of = "cut" => root.report = Truncated(root.report.whole)

(* The root report, with the end that it may have lost.                    *)
Text(report) == IF report.of = "cut" THEN report.whole ELSE report
ReportAgrees(r) ==
    r.of \in Directories =>
        /\ Sealed(r.of)
        /\ r = [of |-> r.of, rows |-> runs[r.of].raw, fingerprint |-> r.fingerprint]
        /\ runs[r.of].environment # Damaged =>
                runs[r.of].environment.fingerprint = r.fingerprint

PublicationsAgree ==
    /\ root.latest # "none" => Sealed(root.latest)
    /\ ReportAgrees(Text(root.report))

(* A process that is at work has not been refused.                         *)
RefusalsInv ==
    /\ RefusalsAreExplained
    /\ process = Idle \/ refusal.reason = "none"

(* A run whose process did not die within an invocation has no part of one *)
(* but that which is being emitted.                                        *)
CallsAreWhole ==
    \A d \in Directories : \A i \in DOMAIN Calls :
        \/ ~runs[d].made \/ d \in torn \/ WholeRun(runs[d], i)
        \/ process.phase = "emit" /\ process.dir = d /\ process.at = i

BenchInv ==
    /\ BenchTyped
    /\ \A d \in Directories : RunAgrees(d, runs[d], d \in edited)
    /\ process = Idle
       \/ ProcessAgrees(process, runs[process.dir], process.dir \in edited, source)
    /\ CallsAreWhole
    /\ PublicationsAgree
    /\ RefusalsInv


-----------------------------------------------------------------------------
(* What a process that is at work may rely on.                             *)
LEMMA AtWork ==
    ASSUME BenchInv, process # Idle
    PROVE  /\ process.dir \in Directories
           /\ ProcessAgrees(process, runs[process.dir], process.dir \in edited, source)
           /\ RunTyped(runs[process.dir])
           /\ RunAgrees(process.dir, runs[process.dir], process.dir \in edited)
<1>1. ProcessAgrees(process, runs[process.dir], process.dir \in edited, source)
  BY DEF BenchInv
<1>2. process.dir \in Directories
  BY <1>1 DEF ProcessAgrees
<1> QED
  BY <1>1, <1>2 DEF BenchInv, BenchTyped

(* The process works on d: its run becomes y, and itself becomes q.        *)
Works(d, y, q) ==
    /\ process # Idle /\ d = process.dir
    /\ runs' = [runs EXCEPT ![d] = y] \/ (runs' = runs /\ y = runs[d])
    /\ process' = q
    /\ q = Idle \/ (q.dir = d /\ ProcessAgrees(q, y, d \in edited, source))
    /\ RunTyped(y) /\ RunAgrees(d, y, d \in edited)
    /\ torn \subseteq torn'
    /\ \A i \in DOMAIN Calls :
        ~y.made \/ d \in torn' \/ WholeRun(y, i) \/ (q.phase = "emit" /\ q.at = i)
    /\ UNCHANGED <<source, starts, edited>>

(* It leaves a complete run alone, apart from its derived files.           *)
Respects(d, y, q) ==
    Sealed(d) =>
        /\ y.made /\ y.raw = runs[d].raw /\ q.phase # "emit"
        /\ y.environment # Damaged =>
            /\ runs[d].environment # Damaged
            /\ y.environment.fingerprint = runs[d].environment.fingerprint

LEMMA WorkFrame ==
    ASSUME BenchInv, NEW d, NEW y, NEW q, Works(d, y, q)
    PROVE  /\ d \in Directories
           /\ DOMAIN runs' = Directories /\ runs'[d] = y
           /\ \A e \in Directories : e # d => runs'[e] = runs[e]
           /\ \A e \in Directories : RunTyped(runs'[e])
           /\ \A e \in Directories : RunAgrees(e, runs'[e], e \in edited')
           /\ process' = Idle
              \/ ProcessAgrees(process', runs'[process'.dir], process'.dir \in edited', source')
           /\ CallsAreWhole'
<1> USE DEF Works
<1>1. d \in Directories
  BY AtWork
<1>2. /\ DOMAIN runs' = Directories /\ runs'[d] = y
      /\ \A e \in Directories : e # d => runs'[e] = runs[e]
  BY <1>1 DEF BenchInv, BenchTyped
<1>3. \A e \in Directories : RunTyped(runs'[e])
  BY <1>2 DEF BenchInv, BenchTyped
<1>4. ASSUME NEW e \in Directories PROVE RunAgrees(e, runs'[e], e \in edited')
  <2>1. CASE e = d
    BY <1>2, <2>1
  <2>2. CASE e # d
    BY <1>2, <2>2 DEF BenchInv
  <2> QED
    BY <2>1, <2>2
<1>5. process' = Idle
      \/ ProcessAgrees(process', runs'[process'.dir], process'.dir \in edited', source')
  BY <1>2
<1>6. CallsAreWhole'
  <2> SUFFICES ASSUME NEW e \in Directories, NEW i \in DOMAIN Calls
               PROVE  \/ ~runs'[e].made \/ e \in torn' \/ WholeRun(runs'[e], i)
                      \/ process'.phase = "emit" /\ process'.dir = e /\ process'.at = i
    BY DEF CallsAreWhole, WholeRun, IdentitiesOf
  <2>1. CASE e = d
    <3>1. q.phase = "emit" => q.dir = d
      BY DEF Idle
    <3> QED
      BY <1>2, <2>1, <3>1
  <2>2. CASE e # d
    BY <1>2, <2>2 DEF BenchInv, CallsAreWhole
  <2> QED
    BY <2>1, <2>2
<1> QED
  BY <1>1, <1>2, <1>3, <1>4, <1>5, <1>6

(* A complete run stays so.                                                *)
LEMMA SealStays ==
    ASSUME BenchInv, NEW d, NEW y, NEW q, Works(d, y, q), Respects(d, y, q),
           NEW e \in Directories, Sealed(e)
    PROVE  /\ Sealed(e)' /\ runs'[e].raw = runs[e].raw
           /\ runs'[e].environment # Damaged =>
                /\ runs[e].environment # Damaged
                /\ runs'[e].environment.fingerprint = runs[e].environment.fingerprint
<1>1. /\ runs'[d] = y /\ process' = q
      /\ \A b \in Directories : b # d => runs'[b] = runs[b]
      /\ q.phase = "emit" => q.dir = d
  BY WorkFrame DEF Works, Idle
<1>2. CASE e = d
  BY <1>1, <1>2 DEF Sealed, Respects, Complete, EachOnce, Counted, IdentitiesOf
<1>3. CASE e # d
  BY <1>1, <1>3 DEF Sealed, Complete, EachOnce, Counted, IdentitiesOf
<1> QED
  BY <1>2, <1>3

LEMMA ReportStays ==
    ASSUME BenchInv, NEW d, NEW y, NEW q, Works(d, y, q), Respects(d, y, q),
           NEW r, ReportAgrees(r), r.of \in Directories
    PROVE  /\ Sealed(r.of)'
           /\ r = [of |-> r.of, rows |-> runs'[r.of].raw, fingerprint |-> r.fingerprint]
           /\ runs'[r.of].environment # Damaged =>
                runs'[r.of].environment.fingerprint = r.fingerprint
<1>1. PICK e \in Directories : e = r.of
  OBVIOUS
<1>2. /\ Sealed(e)
      /\ r = [of |-> e, rows |-> runs[e].raw, fingerprint |-> r.fingerprint]
      /\ runs[e].environment # Damaged => runs[e].environment.fingerprint = r.fingerprint
  BY <1>1 DEF ReportAgrees
<1>3. /\ Sealed(e)' /\ runs'[e].raw = runs[e].raw
      /\ runs'[e].environment # Damaged =>
            /\ runs[e].environment # Damaged
            /\ runs'[e].environment.fingerprint = runs[e].environment.fingerprint
  BY <1>2, SealStays
<1>4. r = [of |-> e, rows |-> runs'[e].raw, fingerprint |-> r.fingerprint]
  BY <1>2, <1>3
<1>5. runs'[e].environment # Damaged => runs'[e].environment.fingerprint = r.fingerprint
  BY <1>2, <1>3
<1> QED
  BY <1>1, <1>3, <1>4, <1>5 DEF Sealed

LEMMA WorkHolds ==
    ASSUME BenchInv, NEW d, NEW y, NEW q, Works(d, y, q), Respects(d, y, q),
           RefusalsInv', root' = root
    PROVE  BenchInv'
<1>1. BenchTyped'
  BY WorkFrame DEF BenchInv, BenchTyped, Works
<1>2. PublicationsAgree'
  <2>1. root.latest # "none" => Sealed(root.latest)'
    BY SealStays DEF BenchInv, PublicationsAgree, BenchTyped
  <2>2. PICK r : r = Text(root.report) /\ ReportAgrees(r)
    BY DEF BenchInv, PublicationsAgree
  <2>3. r.of \in Directories =>
            /\ Sealed(r.of)'
            /\ r = [of |-> r.of, rows |-> runs'[r.of].raw, fingerprint |-> r.fingerprint]
            /\ runs'[r.of].environment # Damaged =>
                 runs'[r.of].environment.fingerprint = r.fingerprint
    BY <2>2, ReportStays
  <2>4. (ReportAgrees(Text(root.report)))'
    <3>1. Text(root.report)' = r
      BY <2>2 DEF Text
    <3> QED
      BY <2>3, <3>1 DEF ReportAgrees, Sealed
  <2> QED
    BY <2>1, <2>4 DEF PublicationsAgree, Sealed
<1>3. \A e \in Directories : RunAgrees(e, runs[e], e \in edited)'
  BY WorkFrame DEF RunAgrees, RowsAgree, RowsDistinct, SumsAgree, IdentitiesOf
<1>4. (process = Idle
       \/ ProcessAgrees(process, runs[process.dir], process.dir \in edited, source))'
  BY WorkFrame DEF ProcessAgrees, MeasuresRightly, Emitting, Complete, EachOnce, Counted, IdentitiesOf
<1> QED
  BY <1>1, <1>2, <1>3, <1>4, WorkFrame DEF BenchInv


(* A step that adds no row: at most a derived file or the environment      *)
(* becomes another.                                                        *)
LEMMA RunMove ==
    ASSUME BenchInv, process # Idle, process.phase # "emit",
           NEW d, d = process.dir, NEW y, NEW q,
           runs' = [runs EXCEPT ![d] = y] \/ (runs' = runs /\ y = runs[d]),
           process' = q, q.phase # "emit",
           q = Idle \/ (q.dir = d /\ ProcessAgrees(q, y, d \in edited, source)),
           RunTyped(y), y.made = runs[d].made, y.raw = runs[d].raw,
           y.made => SumsAgree(d, y),
           y.environment # Damaged =>
                /\ runs[d].environment # Damaged
                /\ y.environment.fingerprint = runs[d].environment.fingerprint,
           UNCHANGED <<source, starts, edited, torn, root>>, RefusalsInv'
    PROVE  BenchInv'
<1>1. d \in Directories /\ RunAgrees(d, runs[d], d \in edited)
  BY AtWork
<1>2. RunAgrees(d, y, d \in edited)
  BY <1>1 DEF RunAgrees, RowsAgree, RowsDistinct
<1>3. \A i \in DOMAIN Calls : ~y.made \/ d \in torn' \/ WholeRun(y, i)
  BY <1>1 DEF BenchInv, CallsAreWhole, WholeRun
<1>4. Works(d, y, q)
  BY <1>2, <1>3 DEF Works
<1>5. Respects(d, y, q)
  BY DEF Respects, Sealed
<1> QED
  BY <1>4, <1>5, WorkHolds

(* A process that goes on, or stops, and writes nothing.                   *)
LEMMA ProcessMove ==
    ASSUME BenchInv, process # Idle, process.phase # "emit", NEW q,
           process' = q, q.phase # "emit",
           \/ q = Idle
           \/ /\ q.dir = process.dir
              /\ ProcessAgrees(q, runs[process.dir], process.dir \in edited, source),
           UNCHANGED <<source, starts, edited, torn, root, runs>>, RefusalsInv'
    PROVE  BenchInv'
<1>1. PICK d, y : d = process.dir /\ y = runs[d]
  OBVIOUS
<1>2. RunTyped(y) /\ RunAgrees(d, y, d \in edited)
  BY <1>1, AtWork
<1>3. y.made => SumsAgree(d, y)
  BY <1>2 DEF RunAgrees
<1> QED
  BY <1>1, <1>2, <1>3, RunMove

LEMMA Explained ==
    ASSUME BenchInv, refusal'.reason = "none" \/ (refusal' = refusal /\ process # Idle)
    PROVE  RefusalsInv'
<1>1. refusal'.reason = "none"
  BY DEF BenchInv, RefusalsInv
<1> QED
  BY <1>1 DEF RefusalsInv, RefusalsAreExplained

(* A process with one phase has the others' facts no more.                 *)
LEMMA Continued ==
    ASSUME NEW p, DOMAIN p = ProcessFields, NEW phase
    PROVE  LET q == [p EXCEPT !.phase = phase] IN
           /\ DOMAIN q = ProcessFields /\ q.phase = phase /\ q.dir = p.dir
           /\ q.resume = p.resume /\ q.publish = p.publish /\ q.built = p.built
           /\ q.fingerprint = p.fingerprint /\ q.at = p.at /\ q.complete = p.complete
           /\ q.emitted = p.emitted
BY DEF ProcessFields

-----------------------------------------------------------------------------
(* Starting and stopping.                                                  *)

LEMMA BenchInitially == BenchInit => BenchInv
<1> SUFFICES ASSUME BenchInit PROVE BenchInv
  OBVIOUS
<1> USE DEF BenchInit
<1>1. /\ root.report = Nothing /\ root.latest = "none" /\ Nothing.of = "nothing"
      /\ DOMAIN root = {"report", "assets", "latest"}
  BY DEF Nothing
<1>2. BenchTyped
  BY <1>1 DEF BenchTyped, RunTyped
<1>3. \A d \in Directories : ~runs[d].made
  BY DEF NoRun
<1>4. (\A d \in Directories : RunAgrees(d, runs[d], d \in edited)) /\ CallsAreWhole
  BY <1>3 DEF RunAgrees, CallsAreWhole
<1>5. PublicationsAgree
  BY <1>1, BenchmarksAssumption DEF PublicationsAgree, ReportAgrees, Text
<1>6. RefusalsInv
  BY DEF RefusalsInv, RefusalsAreExplained, NoRefusal
<1> QED
  BY <1>2, <1>4, <1>5, <1>6 DEF BenchInv

(* A process that starts finds the runs as others have left them.          *)
LEMMA BenchStartHolds ==
    ASSUME BenchInv, NEW d \in Directories, NEW publish \in BOOLEAN,
           StartRun(d, publish) \/ StartResume(d, publish) \/ StartReport(d, publish)
    PROVE  BenchInv'
<1>1. PICK phase \in {"build", "validate"}, resume \in BOOLEAN :
        /\ Start(phase, d, resume, publish)
        /\ phase = "build" => runs[d].made = resume
        /\ phase = "validate" => runs[d].made
  <2>1. runs[d].made \in BOOLEAN
    <3>1. PICK x : x = runs[d] /\ RunTyped(x)
      BY DEF BenchInv, BenchTyped
    <3>2. x = NoRun => x.made = FALSE
      BY DEF NoRun
    <3> QED
      BY <3>1, <3>2 DEF RunTyped
  <2> QED
    BY <2>1 DEF StartRun, StartResume, StartReport
<1>2. /\ process = Idle /\ starts' = starts + 1
      /\ UNCHANGED <<source, runs, root, torn, edited>> /\ refusal' = NoRefusal
  BY <1>1 DEF Start
<1>3. PICK q : /\ process' = q
               /\ q = [phase |-> phase, dir |-> d, resume |-> resume, publish |-> publish,
                       built |-> 0, fingerprint |-> 0, at |-> 1, complete |-> {},
                       emitted |-> << >>, zero |-> {}]
  BY <1>1 DEF Start
<1>4. /\ DOMAIN q = ProcessFields /\ q.dir = d /\ q.phase = phase /\ q.resume = resume
      /\ q.at = 1 /\ q.complete = {}
  BY <1>3 DEF ProcessFields
<1>5. ProcessAgrees(q, runs[d], d \in edited, source)
  BY <1>1, <1>4 DEF ProcessAgrees, ProcessPhases, Preparing, Measuring, Validated, Summarised,
                    Charted, Reported, Published
<1>6. BenchTyped'
  BY <1>2 DEF BenchInv, BenchTyped
<1>7. q.phase # "emit" /\ process.phase # "emit"
  BY <1>2, <1>4 DEF Idle
<1>8. CallsAreWhole'
  BY <1>2, <1>7 DEF BenchInv, CallsAreWhole, WholeRun, IdentitiesOf
<1>9. PublicationsAgree'
  BY <1>2, <1>3, <1>7 DEF BenchInv, PublicationsAgree, ReportAgrees, Text, Sealed
<1>10. RefusalsInv'
  BY <1>2, Explained DEF NoRefusal
<1>11. (ProcessAgrees(process, runs[process.dir], process.dir \in edited, source))'
  <2>1. ProcessAgrees(process', runs'[process'.dir], process'.dir \in edited', source')
    BY <1>2, <1>3, <1>4, <1>5
  <2> QED
    BY <2>1 DEF ProcessAgrees, MeasuresRightly, Emitting, Complete, EachOnce, Counted, IdentitiesOf
<1>12. \A e \in Directories : RunAgrees(e, runs[e], e \in edited)'
  BY ZenonT(60), <1>2 DEF BenchInv, RunAgrees, RowsAgree, RowsDistinct, SumsAgree, IdentitiesOf
<1> QED
  BY <1>6, <1>8, <1>9, <1>10, <1>11, <1>12 DEF BenchInv


LEMMA CallFacts ==
    /\ DOMAIN Calls = 1 .. Len(Calls) /\ Len(Calls) \in Nat
    /\ \A i \in DOMAIN Calls :
        /\ Calls[i] \in Seq(Identities) /\ Len(Calls[i]) \in Nat \ {0}
        /\ DOMAIN Calls[i] = 1 .. Len(Calls[i])
<1>1. PICK S : S = Seq(Identities) \ {<< >>}
  OBVIOUS
<1>2. Calls \in Seq(S)
  BY <1>1, BenchmarksAssumption
<1>3. DOMAIN Calls = 1 .. Len(Calls) /\ Len(Calls) \in Nat /\ \A i \in DOMAIN Calls : Calls[i] \in S
  BY <1>2
<1>4. ASSUME NEW i \in DOMAIN Calls
      PROVE  /\ Calls[i] \in Seq(Identities) /\ Len(Calls[i]) \in Nat \ {0}
             /\ DOMAIN Calls[i] = 1 .. Len(Calls[i])
  BY <1>1, <1>3, <1>4
<1> QED
  BY <1>3, <1>4

LEMMA LeftToEmit ==
    ASSUME NEW p, p.at \in DOMAIN Calls, NEW k \in DOMAIN Calls[p.at], Emitting(p, k)
    PROVE  /\ k \in Nat \ {0} /\ k <= Len(Calls[p.at]) /\ Len(Calls[p.at]) \in Nat
           /\ p.emitted \in Seq(Identities)
           /\ Len(p.emitted) = Len(Calls[p.at]) - k + 1
           /\ Head(p.emitted) = Calls[p.at][k]
           /\ Tail(p.emitted) = SubSeq(Calls[p.at], k + 1, Len(Calls[p.at]))
<1>1. PICK s \in Seq(Identities) : s = Calls[p.at] /\ DOMAIN s = 1 .. Len(s) /\ Len(s) \in Nat
  BY CallFacts
<1>2. k \in 1 .. Len(s) /\ p.emitted = SubSeq(s, k, Len(s))
  BY <1>1 DEF Emitting
<1>3. /\ SubSeq(s, k, Len(s)) \in Seq(Identities) /\ Len(SubSeq(s, k, Len(s))) = Len(s) - k + 1
      /\ \A m \in 1 .. Len(s) - k + 1 : SubSeq(s, k, Len(s))[m] = s[k + m - 1]
  BY <1>1, <1>2
<1>4. Head(SubSeq(s, k, Len(s))) = s[k]
  BY <1>1, <1>2, <1>3
<1>5. Tail(SubSeq(s, k, Len(s))) = SubSeq(s, k + 1, Len(s))
  <2>1. PICK n \in Nat : n = Len(s) /\ k <= n /\ k \in Nat
    BY <1>1, <1>2
  <2>2. PICK t \in Seq(Identities) : /\ t = SubSeq(s, k, n) /\ Len(t) = n - k + 1
                                     /\ \A m \in 1 .. n - k + 1 : t[m] = s[k + m - 1]
    BY <1>3, <2>1
  <2>3. t # << >>
    <3>1. Len(t) # 0
      BY <2>1, <2>2
    <3> QED
      BY <3>1
  <2>4. /\ Tail(t) \in Seq(Identities) /\ Len(Tail(t)) = n - k
        /\ \A m \in 1 .. n - k : Tail(t)[m] = t[m + 1]
    BY <2>1, <2>2, <2>3, HeadTailProperties
  <2>5. \A m \in k + 1 .. n : s[m] \in Identities
    BY <1>1, <2>1
  <2>6. /\ SubSeq(s, k + 1, n) \in Seq(Identities) /\ Len(SubSeq(s, k + 1, n)) = n - k
        /\ \A m \in 1 .. n - k : SubSeq(s, k + 1, n)[m] = s[k + m]
    <3>1. /\ SubSeq(s, k + 1, n) \in Seq(Identities)
          /\ Len(SubSeq(s, k + 1, n)) = IF k + 1 <= n THEN n - (k + 1) + 1 ELSE 0
          /\ \A m \in 1 .. n - (k + 1) + 1 : SubSeq(s, k + 1, n)[m] = s[k + 1 + m - 1]
      BY <2>1, <2>5, SubSeqProperties
    <3>2. n - (k + 1) + 1 = n - k /\ (IF k + 1 <= n THEN n - (k + 1) + 1 ELSE 0) = n - k
      BY <2>1
    <3>3. \A m \in 1 .. n - k : k + 1 + m - 1 = k + m
      BY <2>1
    <3> QED
      BY <3>1, <3>2, <3>3
  <2>7. \A m \in 1 .. n - k : Tail(t)[m] = SubSeq(s, k + 1, n)[m]
    <3> TAKE m \in 1 .. n - k
    <3>1. Tail(t)[m] = t[m + 1] /\ m + 1 \in 1 .. n - k + 1
      BY <2>1, <2>4
    <3>2. t[m + 1] = s[k + (m + 1) - 1] /\ k + (m + 1) - 1 = k + m
      BY <2>1, <2>2, <3>1
    <3> QED
      BY <2>6, <3>1, <3>2
  <2>8. Tail(t) = SubSeq(s, k + 1, n)
    BY <2>4, <2>6, <2>7, SeqEqual
  <2> QED
    BY <2>1, <2>2, <2>8
<1>6. PICK e : e = p.emitted /\ e = SubSeq(s, k, Len(s))
  BY <1>2
<1>7. e \in Seq(Identities) /\ Len(e) = Len(s) - k + 1
  BY <1>3, <1>6
<1>8. Head(e) = s[k] /\ Tail(e) = SubSeq(s, k + 1, Len(s))
  BY <1>4, <1>5, <1>6
<1>9. k \in Nat \ {0} /\ k <= Len(s)
  BY <1>1, <1>2
<1> QED
  BY <1>1, <1>6, <1>7, <1>8, <1>9

LEMMA DieHolds == ASSUME BenchInv, Die PROVE BenchInv'
<1>1. /\ process # Idle /\ process' = Idle /\ torn \subseteq torn'
      /\ UNCHANGED <<source, runs, root, starts, refusal, edited>>
  BY DEF Die
<1>2. PICK d, x, p : d = process.dir /\ x = runs[d] /\ p = process
  OBVIOUS
<1>3. /\ d \in Directories /\ ProcessAgrees(p, x, d \in edited, source)
      /\ RunTyped(x) /\ RunAgrees(d, x, d \in edited)
  BY <1>1, <1>2, AtWork
<1>4. ASSUME NEW i \in DOMAIN Calls PROVE ~x.made \/ d \in torn' \/ WholeRun(x, i)
  <2>1. CASE ~(p.phase = "emit" /\ p.at = i)
    BY <1>1, <1>2, <1>3, <2>1 DEF BenchInv, CallsAreWhole
  <2>2. CASE p.phase = "emit" /\ p.at = i
    <3>1. MeasuresRightly(p, x, d \in edited)
      BY <1>3, <2>2 DEF ProcessAgrees, Measuring
    <3>2. PICK k \in DOMAIN Calls[p.at] : Emitting(p, k)
      BY <2>2, <3>1 DEF MeasuresRightly
    <3>3. CASE k = 1
      <4>1. \A m \in DOMAIN Calls[i] : Calls[i][m] \notin p.complete
        BY <2>2, <3>2, <3>3, CallFacts DEF Emitting
      <4> QED
        BY <3>1, <4>1 DEF MeasuresRightly, WholeRun
    <3>4. CASE k # 1
      <4>1. Len(p.emitted) < Len(Calls[p.at])
        BY <2>2, <3>2, <3>4, LeftToEmit
      <4> QED
        BY <1>2, <2>2, <4>1 DEF Die
    <3> QED
      BY <3>3, <3>4
  <2> QED
    BY <2>1, <2>2
<1>5. Works(d, x, Idle)
  BY <1>1, <1>2, <1>3, <1>4 DEF Works
<1>6. Respects(d, x, Idle)
  BY <1>2 DEF Respects, Sealed, Idle
<1> QED
  BY <1>1, <1>5, <1>6, WorkHolds, Explained

(* An edit during a build taints the run that is about to be measured.     *)
LEMMA EditHolds == ASSUME BenchInv, EditSource PROVE BenchInv'
<1>1. /\ UNCHANGED <<runs, root, process, starts, refusal, torn>>
      /\ source' \in Nat /\ edited \subseteq edited'
      /\ process.phase = "fingerprint" => process.dir \in edited'
      /\ process.phase # "fingerprint" => edited' = edited
  BY DEF EditSource, BenchInv, BenchTyped
<1>2. BenchTyped' /\ CallsAreWhole' /\ PublicationsAgree' /\ RefusalsInv'
  <2>1. BenchTyped'
    BY <1>1 DEF BenchInv, BenchTyped
  <2>2. CallsAreWhole'
    BY <1>1 DEF BenchInv, CallsAreWhole, WholeRun, IdentitiesOf
  <2>3. \A d : Sealed(d)' <=> Sealed(d)
    BY <1>1 DEF Sealed
  <2>4. PublicationsAgree'
    BY <1>1, <2>3 DEF BenchInv, PublicationsAgree, ReportAgrees, Text
  <2>5. RefusalsInv'
    BY <1>1 DEF BenchInv, RefusalsInv, RefusalsAreExplained, Rows, EachOnce, Counted, IdentitiesOf
  <2> QED
    BY <2>1, <2>2, <2>4, <2>5
<1>3. ASSUME NEW d \in Directories PROVE RunAgrees(d, runs[d], d \in edited)'
  <2>1. RunAgrees(d, runs[d], d \in edited)
    BY DEF BenchInv
  <2> QED
    BY <1>1, <2>1 DEF RunAgrees, RowsAgree, RowsDistinct, SumsAgree, IdentitiesOf
<1>4. (process = Idle
       \/ ProcessAgrees(process, runs[process.dir], process.dir \in edited, source))'
  <2>1. CASE process = Idle
    BY <1>1, <2>1
  <2>2. CASE process # Idle
    <3>1. PICK p, x : p = process /\ x = runs[p.dir] /\ process' = p /\ runs'[p.dir] = x
      BY <1>1
    <3>2. ProcessAgrees(p, x, p.dir \in edited, source)
      BY <2>2, <3>1 DEF BenchInv
    <3>3. ProcessAgrees(p, x, p.dir \in edited', source')
      BY <1>1, <3>1, <3>2 DEF ProcessAgrees, MeasuresRightly, Preparing
    <3>4. ProcessAgrees(process', runs'[process'.dir], process'.dir \in edited', source')
      BY <3>1, <3>3
    <3> QED
      BY <3>4 DEF ProcessAgrees, MeasuresRightly, Emitting, Complete, EachOnce, Counted, IdentitiesOf
  <2> QED
    BY <2>1, <2>2
<1> QED
  BY <1>2, <1>3, <1>4 DEF BenchInv

LEMMA Busy == ASSUME process.phase # "idle" PROVE process # Idle
BY DEF Idle

(* A process that ends with an error leaves everything as it is.           *)
LEMMA RefuseHolds ==
    ASSUME BenchInv, process # Idle, process.phase # "emit", NEW reason, Refuse(reason),
           reason # "duplicates",
           reason = "matrix does not validate" =>
                EachOnce(runs[process.dir].raw) /\ ~Counted(runs[process.dir].raw),
           reason = "partial" => process.dir \in torn,
           UNCHANGED <<source, runs, root, starts, torn, edited>>
    PROVE  BenchInv'
<1>1. process' = Idle /\ Idle.phase # "emit"
  BY DEF Refuse, Idle
<1>2. refusal'.reason = reason /\ refusal'.dir = process.dir
  BY DEF Refuse
<1>3. RefusalsInv'
  <2>1. PICK r : r = refusal' /\ r.reason = reason /\ r.dir = process.dir
    BY <1>2
  <2>2. r.reason = "matrix does not validate" =>
            EachOnce(runs'[r.dir].raw) /\ ~Counted(runs'[r.dir].raw)
    BY <2>1
  <2>3. r.reason # "duplicates" /\ (r.reason = "partial" => r.dir \in torn')
    BY <2>1
  <2> QED
    BY ZenonT(60), <1>1, <2>1, <2>2, <2>3
       DEF RefusalsInv, RefusalsAreExplained, Rows, EachOnce, Counted, IdentitiesOf
<1> QED
  BY <1>1, <1>3, ProcessMove

LEMMA BuildHolds == ASSUME BenchInv, FetchAndBuild PROVE BenchInv'
<1>1. /\ process.phase = "build" /\ process # Idle
      /\ UNCHANGED <<source, runs, root, starts, torn, edited>>
  BY Busy DEF FetchAndBuild
<1>2. PICK d, x, p : d = process.dir /\ x = runs[d] /\ p = process
  OBVIOUS
<1>3. ProcessAgrees(p, x, d \in edited, source) /\ d \in Directories
  BY <1>1, <1>2, AtWork
<1>4. CASE process' = [process EXCEPT !.phase = "fingerprint", !.built = source] /\ UNCHANGED refusal
  <2>1. PICK q : q = [p EXCEPT !.phase = "fingerprint", !.built = source]
    OBVIOUS
  <2>2. /\ DOMAIN q = ProcessFields /\ q.phase = "fingerprint" /\ q.dir = p.dir
        /\ q.resume = p.resume /\ q.built = source /\ q.at = p.at /\ q.complete = p.complete
    BY <1>3, <2>1 DEF ProcessAgrees, ProcessFields
  <2>3. /\ x.made = p.resume /\ p.at = 1 /\ p.complete = {}
    BY <1>1, <1>2, <1>3 DEF ProcessAgrees, Preparing
  <2>4. ProcessAgrees(q, x, d \in edited, source)
    BY <1>2, <1>3, <2>2, <2>3 DEF ProcessAgrees, ProcessPhases, Preparing, Measuring, Validated,
                            Summarised, Charted, Reported, Published, BenchInv, BenchTyped
  <2>5. RefusalsInv'
    BY <1>1, <1>4, Explained
  <2>6. process' = q /\ q.phase # "emit"
    BY <1>2, <1>4, <2>1, <2>2
  <2>7. q.dir = process.dir /\ ProcessAgrees(q, runs[process.dir], process.dir \in edited, source)
    BY <1>2, <2>2, <2>4
  <2> QED
    BY <1>1, <2>5, <2>6, <2>7, ProcessMove
<1>5. CASE Refuse("build failed")
  BY <1>1, <1>5, RefuseHolds
<1> QED
  BY <1>4, <1>5 DEF FetchAndBuild


(* A new run has no rows, and the sources that its rows will be measured   *)
(* with are those its environment identifies, or the run is edited.        *)
LEMMA OpenNewHolds == ASSUME BenchInv, OpenNew PROVE BenchInv'
<1>1. /\ process.phase = "fingerprint" /\ process # Idle /\ ~process.resume
      /\ UNCHANGED <<source, root, starts, refusal, torn, edited>>
  BY Busy DEF OpenNew
<1>2. PICK d, x, p : d = process.dir /\ x = runs[d] /\ p = process
  OBVIOUS
<1>3. ProcessAgrees(p, x, d \in edited, source) /\ d \in Directories
  BY <1>1, <1>2, AtWork
<1>4. /\ ~x.made /\ p.at = 1 /\ p.complete = {} /\ p.built \in Nat /\ DOMAIN p = ProcessFields
      /\ d \in edited \/ p.built = source
  BY <1>1, <1>2, <1>3 DEF ProcessAgrees, Preparing
<1>5. PICK written \in Rewritten([of |-> d, fingerprint |-> source, completed |-> 0]) :
        /\ runs' = [runs EXCEPT ![d] = NewRun(written.content)]
        /\ process' = IF written.dead THEN Idle
                      ELSE [p EXCEPT !.phase = "matrix", !.fingerprint = source]
  BY <1>2 DEF OpenNew
<1>6. PICK y : y = NewRun(written.content)
  OBVIOUS
<1>7. source \in Nat
  BY DEF BenchInv, BenchTyped
<1>8. /\ DOMAIN y = RunFields /\ y.made = TRUE /\ y.raw = << >> /\ y.sums = Nothing
      /\ y.environment = written.content
  BY <1>6 DEF NewRun, RunFields
<1>9. \/ written.dead = TRUE /\ written.content = Damaged
      \/ written.dead = FALSE /\ written.content = [of |-> d, fingerprint |-> source, completed |-> 0]
  BY DEF Rewritten
<1>10. ~written.dead => y.environment \in Environment /\ y.environment.fingerprint = source
  BY <1>3, <1>7, <1>8, <1>9 DEF Environment
<1>11. y.raw \in Seq(Row) /\ IdentitiesOf(y.raw) = {} /\ Len(y.raw) = 0 /\ DOMAIN y.raw = {}
  BY <1>8 DEF IdentitiesOf
<1>12. RunTyped(y)
  BY <1>8, <1>9, <1>10, <1>11 DEF RunTyped
<1>13. RunAgrees(d, y, d \in edited)
  <2>1. RowsAgree(y, d \in edited)
    BY <1>11 DEF RowsAgree
  <2>2. RowsDistinct(y)
    BY <1>11, FS_EmptySet DEF RowsDistinct
  <2>3. SumsAgree(d, y)
    BY <1>3, <1>8, BenchmarksAssumption DEF SumsAgree, Nothing
  <2> QED
    BY <2>1, <2>2, <2>3 DEF RunAgrees
<1>14. \A i \in DOMAIN Calls : WholeRun(y, i)
  BY <1>11 DEF WholeRun
<1>15. PICK q : process' = q
  OBVIOUS
<1>16. CASE ~written.dead
  <2>1. q = [p EXCEPT !.phase = "matrix", !.fingerprint = source]
    BY <1>5, <1>15, <1>16
  <2>2. /\ DOMAIN q = ProcessFields /\ q.phase = "matrix" /\ q.dir = d /\ q.built = p.built
        /\ q.fingerprint = source /\ q.at = 1 /\ q.complete = {}
    BY <1>2, <1>4, <2>1 DEF ProcessFields
  <2>3. MeasuresRightly(q, y, d \in edited)
    BY <1>4, <1>10, <1>11, <1>16, <2>2, CallFacts DEF MeasuresRightly
  <2>4. ProcessAgrees(q, y, d \in edited, source)
    BY <1>3, <1>8, <2>2, <2>3 DEF ProcessAgrees, ProcessPhases, Preparing, Measuring, Validated,
                            Summarised, Charted, Reported, Published
  <2>5. Works(d, y, q)
    BY <1>1, <1>2, <1>5, <1>6, <1>12, <1>13, <1>14, <1>15, <2>2, <2>4 DEF Works
  <2> QED
    BY <1>1, <1>2, <1>4, <2>5, WorkHolds, Explained DEF Respects, Sealed
<1>17. CASE written.dead
  <2>1. Works(d, y, Idle)
    BY <1>1, <1>2, <1>5, <1>6, <1>12, <1>13, <1>14, <1>17 DEF Works
  <2> QED
    BY <1>1, <1>2, <1>4, <2>1, WorkHolds, Explained DEF Respects, Sealed
<1> QED
  BY <1>16, <1>17

(* A run is resumed under the fingerprint it has.                          *)
LEMMA OpenResumeHolds == ASSUME BenchInv, OpenResume PROVE BenchInv'
<1>1. /\ process.phase = "fingerprint" /\ process # Idle /\ process.phase # "emit"
      /\ process.resume
      /\ UNCHANGED <<source, runs, root, starts, torn, edited>>
  BY Busy DEF OpenResume
<1>2. PICK d, x, p : d = process.dir /\ x = runs[d] /\ p = process
  OBVIOUS
<1>3. /\ ProcessAgrees(p, x, d \in edited, source) /\ d \in Directories
      /\ RunTyped(x) /\ RunAgrees(d, x, d \in edited)
  BY <1>1, <1>2, AtWork
<1>4. /\ x.made /\ p.at = 1 /\ p.complete = {} /\ p.built \in Nat /\ DOMAIN p = ProcessFields
      /\ d \in edited \/ p.built = source
  BY <1>1, <1>2, <1>3 DEF ProcessAgrees, Preparing
<1>5. Len(x.raw) = Cardinality(IdentitiesOf(x.raw))
  BY <1>3, <1>4 DEF RunAgrees, RowsDistinct
<1>6. CASE ~MayResume(d)
  <2>1. Refuse("not resumable")
    BY <1>2, <1>6 DEF OpenResume
  <2> QED
    BY <1>1, <2>1, RefuseHolds
<1>7. CASE MayResume(d)
  <2>1. PICK q : q = [p EXCEPT !.phase = "matrix", !.fingerprint = source,
                               !.complete = IdentitiesOf(x.raw)]
    OBVIOUS
  <2>2. process' = q /\ UNCHANGED refusal
    BY <1>2, <1>5, <1>7, <2>1 DEF OpenResume, AlreadyComplete, Rows
  <2>3. /\ DOMAIN q = ProcessFields /\ q.phase = "matrix" /\ q.dir = d /\ q.built = p.built
        /\ q.fingerprint = source /\ q.at = 1 /\ q.complete = IdentitiesOf(x.raw)
    BY <1>2, <1>4, <2>1 DEF ProcessFields
  <2>4. x.environment \in Environment /\ x.environment.fingerprint = source
    <3>1. x # NoRun
      BY <1>4 DEF NoRun
    <3> QED
      BY <1>2, <1>3, <1>7, <3>1 DEF MayResume, RunTyped
  <2>5. MeasuresRightly(q, x, d \in edited)
    BY <1>4, <2>3, <2>4, CallFacts DEF MeasuresRightly
  <2>6. ProcessAgrees(q, x, d \in edited, source)
    BY <1>3, <1>4, <2>3, <2>5 DEF ProcessAgrees, ProcessPhases, Preparing, Measuring, Validated,
                            Summarised, Charted, Reported, Published
  <2>7. RefusalsInv'
    BY <1>1, <2>2, Explained
  <2>8. q.phase # "emit" /\ q.dir = process.dir
        /\ ProcessAgrees(q, runs[process.dir], process.dir \in edited, source)
    BY <1>2, <2>3, <2>6
  <2> QED
    BY <1>1, <2>2, <2>7, <2>8, ProcessMove
<1> QED
  BY <1>6, <1>7


-----------------------------------------------------------------------------
(* The matrix.                                                             *)

(* What the process knows while it measures.                               *)
LEMMA AtMatrix ==
    ASSUME BenchInv, process.phase = "matrix" \/ process.phase = "emit"
    PROVE  /\ process # Idle /\ process.dir \in Directories
           /\ DOMAIN process = ProcessFields
           /\ runs[process.dir].made /\ DOMAIN runs[process.dir] = RunFields
           /\ runs[process.dir].raw \in Seq(Row)
           /\ MeasuresRightly(process, runs[process.dir], process.dir \in edited)
           /\ RunTyped(runs[process.dir])
           /\ RunAgrees(process.dir, runs[process.dir], process.dir \in edited)
<1>1. process # Idle
  BY Busy
<1>2. PICK d, x : d = process.dir /\ x = runs[d]
  OBVIOUS
<1>3. /\ d \in Directories /\ ProcessAgrees(process, x, d \in edited, source)
      /\ RunTyped(x) /\ RunAgrees(d, x, d \in edited)
  BY <1>1, <1>2, AtWork
<1>4. x.made /\ MeasuresRightly(process, x, d \in edited) /\ DOMAIN process = ProcessFields
  BY <1>3 DEF ProcessAgrees, Preparing, Measuring
<1>5. x # NoRun
  BY <1>4 DEF NoRun
<1> QED
  BY <1>1, <1>2, <1>3, <1>4, <1>5 DEF RunTyped

(* The log says that another process was here.                             *)
LEMMA LogWritten ==
    ASSUME NEW x, DOMAIN x = RunFields, RunTyped(x), NEW n
    PROVE  LET y == [x EXCEPT !.log = n] IN
           /\ DOMAIN y = RunFields /\ RunTyped(y)
           /\ y.made = x.made /\ y.raw = x.raw /\ y.environment = x.environment
           /\ y.summary = x.summary /\ y.charts = x.charts /\ y.report = x.report
           /\ y.sums = x.sums
<1>1. x # NoRun
  BY DEF NoRun, RunFields
<1>2. PICK y : y = [x EXCEPT !.log = n]
  OBVIOUS
<1>3. /\ DOMAIN y = RunFields
      /\ y.made = x.made /\ y.raw = x.raw /\ y.environment = x.environment
      /\ y.summary = x.summary /\ y.charts = x.charts /\ y.report = x.report
      /\ y.sums = x.sums
  BY <1>2 DEF RunFields
<1>4. RunTyped(y)
  BY <1>1, <1>3 DEF RunTyped
<1> QED
  BY <1>2, <1>3, <1>4

LEMMA SkipHolds == ASSUME BenchInv, SkipCompleted PROVE BenchInv'
<1>1. /\ process.phase = "matrix" /\ process.at <= Len(Calls) /\ Present = ToSet(Call)
      /\ process.phase # "emit"
      /\ UNCHANGED <<source, root, starts, refusal, torn, edited>>
  BY DEF SkipCompleted, InMatrix, Skipped
<1>2. PICK d, x, p : d = process.dir /\ x = runs[d] /\ p = process
  OBVIOUS
<1>3. /\ process # Idle /\ d \in Directories /\ DOMAIN p = ProcessFields
      /\ x.made /\ DOMAIN x = RunFields /\ RunTyped(x) /\ RunAgrees(d, x, d \in edited)
      /\ MeasuresRightly(p, x, d \in edited)
  BY <1>1, <1>2, AtMatrix
<1>4. PICK y : y = [x EXCEPT !.log = starts]
  OBVIOUS
<1>5. /\ RunTyped(y) /\ y.made = x.made /\ y.raw = x.raw /\ y.environment = x.environment
      /\ y.sums = x.sums
  BY ZenonT(60), <1>3, <1>4, LogWritten
<1>6. PICK q : q = [p EXCEPT !.at = p.at + 1]
  OBVIOUS
<1>7. /\ DOMAIN q = ProcessFields /\ q.phase = "matrix" /\ q.dir = d /\ q.built = p.built
      /\ q.fingerprint = p.fingerprint /\ q.at = p.at + 1 /\ q.complete = p.complete
  BY <1>1, <1>2, <1>3, <1>6 DEF ProcessFields
<1>8. p.at \in DOMAIN Calls /\ \A k \in DOMAIN Calls[p.at] : Calls[p.at][k] \in p.complete
  <2>1. p.at \in DOMAIN Calls
    BY <1>1, <1>2, <1>3, CallFacts DEF MeasuresRightly
  <2> QED
    BY <1>1, <1>2, <2>1 DEF Present, Call, ToSet
<1>9. MeasuresRightly(q, y, d \in edited)
  <2>1. \A j \in DOMAIN Calls : j < q.at =>
            \A k \in DOMAIN Calls[j] : Calls[j][k] \in q.complete
    <3> TAKE j \in DOMAIN Calls
    <3>1. j \in Nat /\ p.at \in Nat
      BY <1>8, CallFacts
    <3>2. j < q.at => j < p.at \/ j = p.at
      BY <1>7, <3>1
    <3> QED
      BY <1>3, <1>7, <1>8, <3>2 DEF MeasuresRightly
  <2> QED
    BY <1>3, <1>5, <1>7, <2>1 DEF MeasuresRightly
<1>10. ProcessAgrees(q, y, d \in edited, source)
  BY <1>3, <1>5, <1>7, <1>9 DEF ProcessAgrees, ProcessPhases, Preparing, Measuring, Validated,
                          Summarised, Charted, Reported, Published
<1>11. process' = q /\ runs' = [runs EXCEPT ![d] = y]
  BY <1>2, <1>4, <1>6 DEF SkipCompleted, Logged, BenchInv, BenchTyped
<1>12. y.made => SumsAgree(d, y)
  BY <1>3, <1>5 DEF RunAgrees, SumsAgree
<1>13. RefusalsInv'
  BY <1>1, <1>3, Explained
<1> QED
  BY <1>1, <1>2, <1>3, <1>5, <1>7, <1>10, <1>11, <1>12, <1>13, RunMove

(* A part of an invocation is there only after a death within it.          *)
LEMMA RefusePartialHolds == ASSUME BenchInv, RefusePartial PROVE BenchInv'
<1>1. /\ process.phase = "matrix" /\ process.at <= Len(Calls)
      /\ Present # ToSet(Call) /\ Present # {} /\ Refuse("partial") /\ process.phase # "emit"
      /\ UNCHANGED <<source, runs, root, starts, torn, edited>>
  BY DEF RefusePartial, InMatrix, Skipped
<1>2. PICK d, x, p : d = process.dir /\ x = runs[d] /\ p = process
  OBVIOUS
<1>3. /\ process # Idle /\ d \in Directories /\ x.made /\ MeasuresRightly(p, x, d \in edited)
  BY <1>1, <1>2, AtMatrix
<1>4. p.at \in DOMAIN Calls
  BY <1>1, <1>2, <1>3, CallFacts DEF MeasuresRightly
<1>5. ~WholeRun(x, p.at)
  BY <1>1, <1>2, <1>3 DEF WholeRun, Present, Call, ToSet, MeasuresRightly
<1>6. d \in torn
  BY <1>1, <1>2, <1>3, <1>4, <1>5 DEF BenchInv, CallsAreWhole
<1> QED
  BY <1>1, <1>2, <1>3, <1>6, RefuseHolds

(* An invocation is started only if none of its results is there: never in *)
(* a run that is complete.                                                 *)
LEMMA RunInvocationHolds == ASSUME BenchInv, RunInvocation PROVE BenchInv'
<1>1. /\ process.phase = "matrix" /\ process.at <= Len(Calls) /\ Present = {}
      /\ process.phase # "emit"
      /\ UNCHANGED <<source, root, starts, torn, edited>>
  BY DEF RunInvocation, InMatrix
<1>2. PICK d, x, p : d = process.dir /\ x = runs[d] /\ p = process
  OBVIOUS
<1>3. /\ process # Idle /\ d \in Directories /\ DOMAIN p = ProcessFields
      /\ x.made /\ DOMAIN x = RunFields /\ RunTyped(x) /\ RunAgrees(d, x, d \in edited)
      /\ MeasuresRightly(p, x, d \in edited)
  BY <1>1, <1>2, AtMatrix
<1>4. PICK y : y = [x EXCEPT !.log = starts]
  OBVIOUS
<1>5. /\ RunTyped(y) /\ y.made = x.made /\ y.raw = x.raw /\ y.environment = x.environment
      /\ y.sums = x.sums
  BY <1>3, <1>4, LogWritten
<1>6. runs' = [runs EXCEPT ![d] = y]
  <2>1. Logged
    BY DEF RunInvocation
  <2> QED
    BY <1>2, <1>4, <2>1 DEF Logged
<1>7. SumsAgree(d, y)
  BY <1>3, <1>5 DEF RunAgrees, SumsAgree
<1>8. CASE Refuse("runner")
  <2>1. process' = Idle /\ Idle.phase # "emit"
    BY <1>8 DEF Refuse, Idle
  <2>2. refusal'.reason = "runner"
    BY <1>8 DEF Refuse
  <2>3. RefusalsInv'
    BY <2>1, <2>2 DEF RefusalsInv, RefusalsAreExplained
  <2> QED
    BY ZenonT(60), <1>1, <1>2, <1>3, <1>5, <1>6, <1>7, <2>1, <2>3, RunMove
<1>9. ASSUME NEW printed \in Runner(Call), UNCHANGED refusal,
             process' = [process EXCEPT !.phase = "emit", !.emitted = printed.rows,
                                        !.zero = printed.zero]
      PROVE  BenchInv'
  <2>0. printed.rows = Call
    BY DEF Runner
  <2>1. PICK q : q = [p EXCEPT !.phase = "emit", !.emitted = Calls[p.at], !.zero = printed.zero]
    OBVIOUS
  <2>2. /\ DOMAIN q = ProcessFields /\ q.phase = "emit" /\ q.dir = d /\ q.built = p.built
        /\ q.fingerprint = p.fingerprint /\ q.at = p.at /\ q.complete = p.complete
        /\ q.emitted = Calls[p.at]
    BY <1>2, <1>3, <2>1 DEF ProcessFields
  <2>3. process' = q
    BY <1>2, <1>9, <2>0, <2>1 DEF Call
  <2>4. p.at \in DOMAIN Calls
    BY <1>1, <1>2, <1>3, CallFacts DEF MeasuresRightly
  <2>5. \A k \in DOMAIN Calls[p.at] : Calls[p.at][k] \notin p.complete
    BY <1>1, <1>2 DEF Present, Call, ToSet
  <2>6. 1 \in DOMAIN Calls[p.at] /\ Emitting(q, 1)
    <3>1. PICK s \in Seq(Identities) : s = Calls[p.at] /\ Len(s) \in Nat \ {0}
                                       /\ DOMAIN s = 1 .. Len(s)
      BY <2>4, CallFacts
    <3>2. SubSeq(s, 1, Len(s)) = s
      BY <3>1, SubSeqFull
    <3> QED
      BY <2>2, <2>5, <3>1, <3>2 DEF Emitting
  <2>7. MeasuresRightly(q, y, d \in edited)
    BY <1>3, <1>5, <2>2, <2>4, <2>6 DEF MeasuresRightly
  <2>8. ProcessAgrees(q, y, d \in edited, source)
    BY <1>3, <1>5, <2>2, <2>7 DEF ProcessAgrees, ProcessPhases, Preparing, Measuring, Validated,
                            Summarised, Charted, Reported, Published
  <2>9. RunAgrees(d, y, d \in edited)
    BY <1>3, <1>5, <1>7 DEF RunAgrees, RowsAgree, RowsDistinct
  <2>10. \A i \in DOMAIN Calls : d \in torn' \/ WholeRun(y, i)
    BY <1>1, <1>2, <1>3, <1>5 DEF BenchInv, CallsAreWhole, WholeRun
  <2>11. Works(d, y, q)
    BY <1>1, <1>2, <1>3, <1>5, <1>6, <2>2, <2>3, <2>8, <2>9, <2>10 DEF Works
  <2>12. ~Sealed(d)
    <3>1. Calls[p.at][1] \in Identities
      BY <2>4, <2>6 DEF Identities
    <3>2. Calls[p.at][1] \notin IdentitiesOf(x.raw)
      BY <1>3, <2>5, <2>6 DEF MeasuresRightly
    <3> QED
      BY <1>2, <3>1, <3>2 DEF Sealed, Complete, EachOnce
  <2>13. RefusalsInv'
    BY <1>3, <1>9, Explained
  <2> QED
    BY <1>1, <2>11, <2>12, <2>13, WorkHolds DEF Respects
<1> QED
  BY <1>8, <1>9 DEF RunInvocation


LEMMA UsableEnvironment == \A e \in Environment : e # Damaged
BY BenchmarksAssumption DEF Environment, Damaged

LEMMA AppendedRow ==
    ASSUME NEW raw \in Seq(Row), NEW row \in Row
    PROVE  LET all == Append(raw, row) IN
           /\ all \in Seq(Row) /\ Len(all) = Len(raw) + 1 /\ Len(raw) \in Nat
           /\ DOMAIN all = 1 .. Len(raw) + 1 /\ DOMAIN raw = 1 .. Len(raw)
           /\ \A i \in DOMAIN raw : all[i] = raw[i]
           /\ all[Len(raw) + 1] = row
           /\ IdentitiesOf(all) = IdentitiesOf(raw) \cup {row.identity}
<1>1. PICK all, n : all = Append(raw, row) /\ n = Len(raw)
  OBVIOUS
<1>2. /\ all \in Seq(Row) /\ Len(all) = n + 1 /\ n \in Nat
      /\ DOMAIN all = 1 .. n + 1 /\ DOMAIN raw = 1 .. n
      /\ \A i \in 1 .. n : all[i] = raw[i]
      /\ all[n + 1] = row
  BY <1>1
<1>3. IdentitiesOf(all) = IdentitiesOf(raw) \cup {row.identity}
  <2>1. ASSUME NEW i \in DOMAIN all
        PROVE  all[i].identity \in IdentitiesOf(raw) \cup {row.identity}
    <3>1. i \in 1 .. n \/ i = n + 1
      BY <1>2, <2>1
    <3> QED
      BY <1>2, <3>1 DEF IdentitiesOf
  <2>2. ASSUME NEW i \in DOMAIN raw PROVE raw[i].identity \in IdentitiesOf(all)
    <3>1. i \in DOMAIN all /\ all[i] = raw[i]
      BY <1>2, <2>2
    <3> QED
      BY <3>1 DEF IdentitiesOf
  <2>3. row.identity \in IdentitiesOf(all)
    <3>1. n + 1 \in DOMAIN all /\ all[n + 1] = row
      BY <1>2
    <3> QED
      BY <3>1 DEF IdentitiesOf
  <2> QED
    BY <2>1, <2>2, <2>3 DEF IdentitiesOf
<1> QED
  BY <1>1, <1>2, <1>3

(* A row is added under the fingerprint of the run, for an identity that   *)
(* has none yet.                                                           *)
LEMMA WriteRowHolds == ASSUME BenchInv, WriteRow PROVE BenchInv'
<1>1. process.phase = "emit" /\ UNCHANGED <<source, root, starts, refusal, torn, edited>>
  BY DEF WriteRow
<1>2. PICK d, x, p : d = process.dir /\ x = runs[d] /\ p = process
  OBVIOUS
<1>3. /\ process # Idle /\ d \in Directories /\ DOMAIN p = ProcessFields
      /\ x.made /\ DOMAIN x = RunFields /\ RunTyped(x) /\ RunAgrees(d, x, d \in edited)
      /\ x.raw \in Seq(Row)
      /\ MeasuresRightly(p, x, d \in edited)
  BY <1>1, <1>2, AtMatrix
<1>4. p.at \in DOMAIN Calls
  BY <1>1, <1>2, <1>3 DEF MeasuresRightly
<1>5. PICK k \in DOMAIN Calls[p.at] : Emitting(p, k)
  BY <1>1, <1>2, <1>3 DEF MeasuresRightly
<1>6. PICK n \in Nat, call \in Seq(Identities) :
        /\ call = Calls[p.at] /\ n = Len(call) /\ DOMAIN call = 1 .. n
        /\ k \in 1 .. n
        /\ Len(p.emitted) = n - k + 1 /\ Head(p.emitted) = call[k]
        /\ Tail(p.emitted) = SubSeq(call, k + 1, n)
  BY ZenonT(60), <1>4, <1>5, LeftToEmit, CallFacts
<1>7. PICK identity \in Identities : identity = call[k]
  BY <1>6
<1>8. identity \notin p.complete
  <2>1. Calls[p.at][k] \in p.complete <=> k < k
    BY <1>5 DEF Emitting
  <2> QED
    BY <1>6, <1>7, <2>1
<1>9. PICK row : row = [identity |-> identity, built |-> p.built, fingerprint |-> p.fingerprint,
                        positive |-> identity \notin p.zero]
  OBVIOUS
<1>10. /\ row \in Row /\ row.identity = identity /\ row.fingerprint = p.fingerprint
       /\ row.built = p.built
  BY <1>3, <1>7, <1>9 DEF Row, MeasuresRightly, Environment
<1>11. PICK y : y = [x EXCEPT !.raw = Append(x.raw, row)]
  OBVIOUS
<1>12. /\ DOMAIN y = RunFields /\ y.made = x.made /\ y.raw = Append(x.raw, row)
       /\ y.environment = x.environment /\ y.sums = x.sums
  BY <1>3, <1>11 DEF RunFields
<1>13. PICK m \in Nat :
        /\ m = Len(x.raw) /\ y.raw \in Seq(Row) /\ Len(y.raw) = m + 1
        /\ DOMAIN y.raw = 1 .. m + 1 /\ DOMAIN x.raw = 1 .. m
        /\ \A i \in 1 .. m : y.raw[i] = x.raw[i]
        /\ y.raw[m + 1] = row
        /\ IdentitiesOf(y.raw) = IdentitiesOf(x.raw) \cup {identity}
  BY SMTT(40), <1>3, <1>10, <1>12, AppendedRow
<1>14. RunTyped(y)
  <2>1. x # NoRun
    BY <1>3 DEF NoRun
  <2> QED
    BY <1>3, <1>12, <1>13, <2>1 DEF RunTyped
<1>15. RunAgrees(d, y, d \in edited)
  <2>1. x.environment # Damaged /\ p.fingerprint = x.environment.fingerprint
    BY <1>3, UsableEnvironment DEF MeasuresRightly
  <2>2. RowsAgree(x, d \in edited) /\ RowsDistinct(x) /\ SumsAgree(d, x)
    BY <1>3 DEF RunAgrees
  <2>3. \A i \in 1 .. m + 1 : /\ y.raw[i].fingerprint = p.fingerprint
                              /\ d \notin edited => y.raw[i].built = y.raw[i].fingerprint
    <3> TAKE i \in 1 .. m + 1
    <3>1. i \in 1 .. m \/ i = m + 1
      OBVIOUS
    <3>2. CASE i \in 1 .. m
      BY <1>13, <2>1, <2>2, <3>2 DEF RowsAgree
    <3>3. CASE i = m + 1
      BY <1>3, <1>10, <1>13, <3>3 DEF MeasuresRightly
    <3> QED
      BY <3>1, <3>2, <3>3
  <2>4. RowsAgree(y, d \in edited)
    <3>1. 1 \in 1 .. m + 1
      OBVIOUS
    <3> QED
      BY <1>12, <1>13, <2>1, <2>3, <3>1 DEF RowsAgree
  <2>5. RowsDistinct(y)
    <3>1. identity \notin IdentitiesOf(x.raw)
      BY <1>3, <1>8 DEF MeasuresRightly
    <3>2. /\ IsFiniteSet(IdentitiesOf(x.raw) \cup {identity})
          /\ Cardinality(IdentitiesOf(x.raw) \cup {identity}) = Cardinality(IdentitiesOf(x.raw)) + 1
      BY <2>2, <3>1, FS_AddElement DEF RowsDistinct
    <3> QED
      BY <1>13, <2>2, <3>2 DEF RowsDistinct
  <2>6. SumsAgree(d, y)
    BY <1>12, <2>2 DEF SumsAgree
  <2> QED
    BY <2>4, <2>5, <2>6 DEF RunAgrees
<1>16. PICK last, phase, at :
        /\ last \in BOOLEAN /\ (last <=> k = n)
        /\ phase = IF last THEN "matrix" ELSE "emit"
        /\ at = IF last THEN p.at + 1 ELSE p.at
  OBVIOUS
<1>17. PICK q : q = [p EXCEPT !.complete = p.complete \cup {identity},
                              !.emitted = SubSeq(call, k + 1, n), !.phase = phase, !.at = at]
  OBVIOUS
<1>18. /\ DOMAIN q = ProcessFields /\ q.phase = phase /\ q.dir = d /\ q.built = p.built
       /\ q.fingerprint = p.fingerprint /\ q.at = at /\ q.complete = p.complete \cup {identity}
       /\ q.emitted = SubSeq(call, k + 1, n)
  BY <1>2, <1>3, <1>17 DEF ProcessFields
<1>19. process' = q /\ runs' = [runs EXCEPT ![d] = y]
  <2>1. (Len(p.emitted) = 1) <=> last
    BY <1>6, <1>16
  <2>2. Head(p.emitted) = identity /\ Tail(p.emitted) = SubSeq(call, k + 1, n)
    BY <1>6, <1>7
  <2>3. process' = q
    BY <1>2, <1>16, <1>17, <2>1, <2>2 DEF WriteRow
  <2>4. runs' = [runs EXCEPT ![d] = y]
    BY <1>2, <1>9, <1>11, <2>2 DEF WriteRow, BenchInv, BenchTyped
  <2> QED
    BY <2>3, <2>4
<1>20. \A j \in DOMAIN Calls : \A l \in DOMAIN Calls[j] :
            Calls[j][l] = identity => j = p.at /\ l = k
  BY SMTT(40), <1>4, <1>5, <1>6, <1>7, BenchmarksAssumption
<1>21. last => \A l \in DOMAIN Calls[p.at] : Calls[p.at][l] \in q.complete
  <2> SUFFICES ASSUME last, NEW l \in DOMAIN Calls[p.at] PROVE Calls[p.at][l] \in q.complete
    OBVIOUS
  <2>1. l < k \/ l = k
    BY <1>6, <1>16
  <2> QED
    BY <1>5, <1>6, <1>7, <1>18, <2>1 DEF Emitting
<1>22. \A i \in DOMAIN Calls : d \in torn' \/ WholeRun(y, i) \/ (q.phase = "emit" /\ q.at = i)
  <2> TAKE i \in DOMAIN Calls
  <2>1. CASE i = p.at
    <3>1. last => WholeRun(y, i)
      BY <1>3, <1>13, <1>18, <1>21, <2>1 DEF WholeRun, MeasuresRightly
    <3> QED
      BY <1>16, <1>18, <2>1, <3>1
  <2>2. CASE i # p.at
    <3>1. d \in torn \/ WholeRun(x, i)
      BY <1>2, <1>3, <2>2 DEF BenchInv, CallsAreWhole
    <3>2. \A l \in DOMAIN Calls[i] : Calls[i][l] # identity
      BY <1>20, <2>2
    <3> QED
      BY <1>1, <1>13, <3>1, <3>2 DEF WholeRun
  <2> QED
    BY <2>1, <2>2
<1>23. MeasuresRightly(q, y, d \in edited)
  <2>1. \A j \in DOMAIN Calls : j < q.at =>
            \A l \in DOMAIN Calls[j] : Calls[j][l] \in q.complete
    <3> TAKE j \in DOMAIN Calls
    <3>1. j \in Nat /\ p.at \in Nat
      BY <1>4, CallFacts
    <3>2. j < q.at => j < p.at \/ (j = p.at /\ last)
      BY <1>16, <1>18, <3>1
    <3> QED
      BY <1>3, <1>18, <1>21, <3>2 DEF MeasuresRightly
  <2>2. q.phase = "emit" => q.at \in DOMAIN Calls /\ \E l \in DOMAIN Calls[q.at] : Emitting(q, l)
    <3> SUFFICES ASSUME q.phase = "emit"
                 PROVE  q.at \in DOMAIN Calls /\ \E l \in DOMAIN Calls[q.at] : Emitting(q, l)
      OBVIOUS
    <3>1. ~last /\ q.at = p.at /\ k + 1 \in DOMAIN Calls[p.at]
      BY <1>6, <1>16, <1>18
    <3>2. \A l \in DOMAIN call : call[l] \in q.complete <=> l < k + 1
      <4> TAKE l \in DOMAIN call
      <4>1. call[l] \in p.complete <=> l < k
        BY <1>5, <1>6 DEF Emitting
      <4>2. call[l] = identity <=> l = k
        BY <1>4, <1>6, <1>7, <1>20
      <4> QED
        BY <1>6, <1>18, <4>1, <4>2
    <3>3. Emitting(q, k + 1)
      BY <1>6, <1>18, <3>1, <3>2 DEF Emitting
    <3> QED
      BY <1>4, <3>1, <3>3
  <2>3. q.at \in Nat \ {0}
    BY <1>3, <1>16, <1>18 DEF MeasuresRightly
  <2> QED
    BY <1>3, <1>12, <1>13, <1>18, <2>1, <2>2, <2>3 DEF MeasuresRightly
<1>24. ProcessAgrees(q, y, d \in edited, source)
  BY <1>3, <1>12, <1>16, <1>18, <1>23 DEF ProcessAgrees, ProcessPhases, Preparing, Measuring,
                            Validated, Summarised, Charted, Reported, Published
<1>25. Works(d, y, q)
  BY <1>1, <1>2, <1>3, <1>12, <1>14, <1>15, <1>18, <1>19, <1>22, <1>24 DEF Works
<1>26. RefusalsInv'
  BY <1>1, <1>3, Explained
<1>27. Respects(d, y, q)
  BY <1>1, <1>2 DEF Respects, Sealed
<1> QED
  BY <1>1, <1>25, <1>26, <1>27, WorkHolds

(* A matrix that was gone through has every identity, once: it is refused  *)
(* only for a row that counted nothing.                                    *)
LEMMA FinishMatrixHolds == ASSUME BenchInv, FinishMatrix PROVE BenchInv'
<1>1. /\ process.phase = "matrix" /\ process.at > Len(Calls) /\ process.phase # "emit"
      /\ UNCHANGED <<source, runs, root, starts, torn, edited>>
  BY DEF FinishMatrix
<1>2. PICK d, x, p : d = process.dir /\ x = runs[d] /\ p = process
  OBVIOUS
<1>3. /\ process # Idle /\ d \in Directories /\ DOMAIN p = ProcessFields
      /\ x.made /\ RunAgrees(d, x, d \in edited) /\ x.raw \in Seq(Row)
      /\ MeasuresRightly(p, x, d \in edited)
  BY <1>1, <1>2, AtMatrix
<1>4. IdentitiesOf(x.raw) = Identities
  <2>1. IdentitiesOf(x.raw) \subseteq Identities
    <3>1. ASSUME NEW i \in DOMAIN x.raw PROVE x.raw[i].identity \in Identities
      <4>1. x.raw[i] \in Row
        BY <1>3, <3>1
      <4> QED
        BY <4>1 DEF Row
    <3> QED
      BY <3>1 DEF IdentitiesOf
  <2>2. ASSUME NEW j \in DOMAIN Calls, NEW l \in DOMAIN Calls[j]
        PROVE  Calls[j][l] \in IdentitiesOf(x.raw)
    <3>1. j < p.at
      BY <1>1, <1>2, <1>3, CallFacts DEF MeasuresRightly
    <3> QED
      BY <1>3, <2>2, <3>1 DEF MeasuresRightly
  <2> QED
    BY <2>1, <2>2 DEF Identities
<1>5. EachOnce(x.raw)
  BY <1>3, <1>4 DEF RunAgrees, RowsDistinct, EachOnce
<1>6. validate_results(d) <=> Counted(x.raw)
  BY <1>2, <1>3, <1>4 DEF RunAgrees, RowsDistinct, validate_results, Rows, Counted
<1>7. CASE ~Counted(x.raw)
  <2>1. Refuse("matrix does not validate")
    BY <1>2, <1>6, <1>7 DEF FinishMatrix
  <2> QED
    BY <1>1, <1>2, <1>3, <1>5, <1>7, <2>1, RefuseHolds
<1>8. CASE Counted(x.raw)
  <2>1. PICK q : q = [p EXCEPT !.phase = "environment"]
    OBVIOUS
  <2>2. process' = q /\ UNCHANGED refusal
    BY <1>2, <1>6, <1>8, <2>1 DEF FinishMatrix, Continue
  <2>3. DOMAIN q = ProcessFields /\ q.phase = "environment" /\ q.dir = d
    BY <1>2, <1>3, <2>1 DEF ProcessFields
  <2>4. ProcessAgrees(q, x, d \in edited, source)
    BY <1>3, <1>5, <1>8, <2>3 DEF Complete, ProcessAgrees, ProcessPhases, Preparing, Measuring,
                    Validated, Summarised, Charted, Reported, Published, MeasuresRightly
  <2>5. RefusalsInv'
    BY <1>3, <2>2, Explained
  <2>6. q.phase # "emit" /\ q.dir = process.dir
        /\ ProcessAgrees(q, runs[process.dir], process.dir \in edited, source)
    BY <1>2, <2>3, <2>4
  <2> QED
    BY <1>1, <1>3, <2>2, <2>5, <2>6, ProcessMove
<1> QED
  BY <1>7, <1>8

-----------------------------------------------------------------------------
(* The report.                                                             *)

(* What the process knows while it reports.                                *)
LEMMA AtReport ==
    ASSUME BenchInv, process.phase \in {"validate"} \cup Validated
    PROVE  /\ process # Idle /\ process.phase # "emit" /\ process.dir \in Directories
           /\ DOMAIN process = ProcessFields
           /\ runs[process.dir].made /\ DOMAIN runs[process.dir] = RunFields
           /\ runs[process.dir] # NoRun
           /\ ProcessAgrees(process, runs[process.dir], process.dir \in edited, source)
           /\ RunTyped(runs[process.dir])
           /\ SumsAgree(process.dir, runs[process.dir])
<1>1. /\ process.phase # "idle" /\ process.phase # "emit"
      /\ process.phase # "build" /\ process.phase # "fingerprint"
  BY DEF Validated, Summarised, Charted, Reported, Published
<1>2. process # Idle
  BY <1>1, Busy
<1>3. PICK d, x : d = process.dir /\ x = runs[d]
  OBVIOUS
<1>4. /\ d \in Directories /\ ProcessAgrees(process, x, d \in edited, source)
      /\ RunTyped(x) /\ RunAgrees(d, x, d \in edited)
  BY <1>2, <1>3, AtWork
<1>5. x.made /\ DOMAIN process = ProcessFields
  BY <1>1, <1>4 DEF ProcessAgrees, Preparing
<1>6. x # NoRun
  BY <1>5 DEF NoRun
<1> QED
  BY <1>1, <1>2, <1>3, <1>4, <1>5, <1>6 DEF RunTyped, RunAgrees

(* A file is written, or damaged by the death of the process.              *)
LEMMA WriteStep ==
    ASSUME BenchInv, process # Idle, process.phase # "emit",
           NEW d, d = process.dir, NEW y, NEW dead, NEW phase, phase # "emit",
           runs' = [runs EXCEPT ![d] = y],
           ContinueUnless(dead, phase),
           RunTyped(y), y.made = runs[d].made, y.raw = runs[d].raw, SumsAgree(d, y),
           y.environment # Damaged =>
                /\ runs[d].environment # Damaged
                /\ y.environment.fingerprint = runs[d].environment.fingerprint,
           ~dead /\ phase # "idle" =>
                ProcessAgrees([process EXCEPT !.phase = phase], y, d \in edited, source),
           UNCHANGED <<source, starts, edited, torn, root, refusal>>
    PROVE  BenchInv'
<1>1. RefusalsInv'
  BY Explained
<1>2. CASE dead \/ phase = "idle"
  <2>1. process' = Idle /\ Idle.phase # "emit"
    BY <1>2 DEF ContinueUnless, Idle
  <2> QED
    BY <1>1, <2>1, RunMove
<1>3. CASE ~dead /\ phase # "idle"
  <2>1. PICK q : q = [process EXCEPT !.phase = phase]
    OBVIOUS
  <2>2. process' = q
    BY <1>3, <2>1 DEF ContinueUnless, Continue
  <2>3. q.phase = phase /\ q.dir = d
    <3>1. DOMAIN process = ProcessFields
      BY AtWork DEF ProcessAgrees
    <3> QED
      BY <2>1, <3>1 DEF ProcessFields
  <2>4. ProcessAgrees(q, y, d \in edited, source)
    BY <1>3, <2>1
  <2> QED
    BY <1>1, <2>2, <2>3, <2>4, RunMove
<1> QED
  BY <1>2, <1>3

LEMMA WriteEnvironmentHolds == ASSUME BenchInv, WriteEnvironment PROVE BenchInv'
<1>1. process.phase = "environment" /\ UNCHANGED <<source, starts, edited, torn, root, refusal>>
  BY DEF WriteEnvironment
<1>2. PICK d, x, p : d = process.dir /\ x = runs[d] /\ p = process
  OBVIOUS
<1>3. /\ process # Idle /\ process.phase # "emit" /\ d \in Directories
      /\ DOMAIN p = ProcessFields /\ DOMAIN x = RunFields /\ x.made /\ x # NoRun
      /\ RunTyped(x) /\ SumsAgree(d, x) /\ ProcessAgrees(p, x, d \in edited, source)
  BY <1>1, <1>2, AtReport DEF Validated
<1>4. x.environment \in Environment /\ x.environment # Damaged
  BY <1>1, <1>2, <1>3, UsableEnvironment DEF ProcessAgrees
<1>5. PICK e : e = [x.environment EXCEPT !.completed = starts]
  OBVIOUS
<1>6. e \in Environment /\ e.fingerprint = x.environment.fingerprint
  BY <1>4, <1>5 DEF Environment, BenchInv, BenchTyped
<1>7. PICK written \in Rewritten(e) :
        /\ runs' = [runs EXCEPT ![d].environment = written.content]
        /\ ContinueUnless(written.dead, "validate")
  BY <1>2, <1>5 DEF WriteEnvironment
<1>8. \/ written.dead = TRUE /\ written.content = Damaged
      \/ written.dead = FALSE /\ written.content = e
  BY DEF Rewritten
<1>9. PICK y : y = [x EXCEPT !.environment = written.content]
  OBVIOUS
<1>10. /\ DOMAIN y = RunFields /\ y.made = x.made /\ y.raw = x.raw /\ y.sums = x.sums
       /\ y.environment = written.content
  BY <1>3, <1>9 DEF RunFields
<1>11. RunTyped(y) /\ SumsAgree(d, y)
  BY <1>3, <1>6, <1>8, <1>10 DEF RunTyped, SumsAgree
<1>12. runs' = [runs EXCEPT ![d] = y]
  BY <1>2, <1>7, <1>9 DEF BenchInv, BenchTyped
<1>13. ProcessAgrees([p EXCEPT !.phase = "validate"], y, d \in edited, source)
  <2>1. PICK q : q = [p EXCEPT !.phase = "validate"]
    OBVIOUS
  <2>2. DOMAIN q = ProcessFields /\ q.phase = "validate" /\ q.dir = d
    BY <1>2, <1>3, <2>1 DEF ProcessFields
  <2>3. ProcessAgrees(q, y, d \in edited, source)
    BY <1>3, <1>10, <2>2 DEF ProcessAgrees, ProcessPhases, Preparing, Measuring, Validated,
                    Summarised, Charted, Reported, Published
  <2> QED
    BY <2>1, <2>3
<1>14. y.environment # Damaged => y.environment.fingerprint = x.environment.fingerprint
  BY <1>6, <1>8, <1>10
<1> QED
  BY <1>1, <1>2, <1>3, <1>4, <1>7, <1>10, <1>11, <1>12, <1>13, <1>14, WriteStep

LEMMA ValidateHolds == ASSUME BenchInv, ValidateForReport PROVE BenchInv'
<1>1. process.phase = "validate" /\ UNCHANGED <<source, runs, root, starts, torn, edited>>
  BY DEF ValidateForReport
<1>2. PICK d, x, p : d = process.dir /\ x = runs[d] /\ p = process
  OBVIOUS
<1>3. /\ process # Idle /\ process.phase # "emit" /\ d \in Directories
      /\ DOMAIN p = ProcessFields /\ x.made
  BY <1>1, <1>2, AtReport
<1>4. CASE ~validate_results(d)
  <2>1. Refuse("incomplete")
    BY <1>2, <1>4 DEF ValidateForReport
  <2> QED
    BY <1>1, <1>3, <2>1, RefuseHolds
<1>5. CASE validate_results(d)
  <2>1. PICK q : q = [p EXCEPT !.phase = "summary"]
    OBVIOUS
  <2>2. process' = q /\ UNCHANGED refusal
    BY <1>2, <1>5, <2>1 DEF ValidateForReport, Continue
  <2>3. DOMAIN q = ProcessFields /\ q.phase = "summary" /\ q.dir = d
    BY <1>2, <1>3, <2>1 DEF ProcessFields
  <2>4. Complete(x.raw)
    BY <1>2, <1>5 DEF validate_results, Complete, EachOnce, Counted, Rows
  <2>5. ProcessAgrees(q, x, d \in edited, source)
    BY <1>3, <2>3, <2>4 DEF ProcessAgrees, ProcessPhases, Preparing, Measuring, Validated,
                    Summarised, Charted, Reported, Published
  <2>6. RefusalsInv'
    BY <1>3, <2>2, Explained
  <2>7. q.phase # "emit" /\ q.dir = process.dir
        /\ ProcessAgrees(q, runs[process.dir], process.dir \in edited, source)
    BY <1>2, <2>3, <2>5
  <2> QED
    BY <1>1, <1>3, <2>2, <2>6, <2>7, ProcessMove
<1> QED
  BY <1>4, <1>5


LEMMA SummaryHolds == ASSUME BenchInv, WriteSummary PROVE BenchInv'
<1>1. process.phase = "summary" /\ UNCHANGED <<source, starts, edited, torn, root, refusal>>
  BY DEF WriteSummary
<1>2. PICK d, x, p : d = process.dir /\ x = runs[d] /\ p = process
  OBVIOUS
<1>3. /\ process # Idle /\ process.phase # "emit" /\ d \in Directories
      /\ DOMAIN p = ProcessFields /\ DOMAIN x = RunFields /\ x.made /\ x # NoRun
      /\ RunTyped(x) /\ SumsAgree(d, x) /\ ProcessAgrees(p, x, d \in edited, source)
  BY <1>1, <1>2, AtReport DEF Validated, Summarised, Charted
<1>4. Complete(x.raw)
  BY <1>1, <1>2, <1>3 DEF ProcessAgrees, Validated, Summarised, Charted
<1>5. PICK written \in Rewritten([of |-> d, rows |-> x.raw]) :
        /\ runs' = [runs EXCEPT ![d].summary = written.content]
        /\ ContinueUnless(written.dead, "charts")
  BY <1>2 DEF WriteSummary, Reduced, Rows
<1>6. written.dead \/ written.content = [of |-> d, rows |-> x.raw]
  BY DEF Rewritten
<1>7. PICK y : y = [x EXCEPT !.summary = written.content]
  OBVIOUS
<1>8. /\ DOMAIN y = RunFields /\ y.made = x.made /\ y.raw = x.raw /\ y.sums = x.sums
      /\ y.environment = x.environment /\ y.summary = written.content
  BY <1>3, <1>7 DEF RunFields
<1>9. RunTyped(y) /\ SumsAgree(d, y)
  BY <1>3, <1>8 DEF RunTyped, SumsAgree
<1>10. runs' = [runs EXCEPT ![d] = y]
  BY <1>2, <1>5, <1>7 DEF BenchInv, BenchTyped
<1>11. ~written.dead => ProcessAgrees([p EXCEPT !.phase = "charts"], y, d \in edited, source)
  <2> SUFFICES ASSUME ~written.dead
               PROVE  ProcessAgrees([p EXCEPT !.phase = "charts"], y, d \in edited, source)
    OBVIOUS
  <2>1. PICK q : q = [p EXCEPT !.phase = "charts"]
    OBVIOUS
  <2>2. DOMAIN q = ProcessFields /\ q.phase = "charts" /\ q.dir = d
    BY <1>2, <1>3, <2>1 DEF ProcessFields
  <2>3. ProcessAgrees(q, y, d \in edited, source)
    BY <1>3, <1>4, <1>6, <1>8, <2>2 DEF ProcessAgrees, ProcessPhases, Preparing, Measuring, Validated,
                    Summarised, Charted, Reported, Published
  <2> QED
    BY <2>1, <2>3
<1> QED
  BY <1>1, <1>2, <1>3, <1>5, <1>8, <1>9, <1>10, <1>11, WriteStep

LEMMA ChartsHold == ASSUME BenchInv, RenderCharts PROVE BenchInv'
<1>1. process.phase = "charts" /\ UNCHANGED <<source, starts, edited, torn, root, refusal>>
  BY DEF RenderCharts
<1>2. PICK d, x, p : d = process.dir /\ x = runs[d] /\ p = process
  OBVIOUS
<1>3. /\ process # Idle /\ process.phase # "emit" /\ d \in Directories
      /\ DOMAIN p = ProcessFields /\ DOMAIN x = RunFields /\ x.made /\ x # NoRun
      /\ RunTyped(x) /\ SumsAgree(d, x) /\ ProcessAgrees(p, x, d \in edited, source)
  BY <1>1, <1>2, AtReport DEF Validated, Summarised, Charted
<1>4. Complete(x.raw) /\ x.summary = [of |-> d, rows |-> x.raw]
  BY <1>1, <1>2, <1>3 DEF ProcessAgrees, Validated, Summarised, Charted
<1>5. PICK written \in Rewritten([of |-> d, rows |-> x.raw]) :
        /\ runs' = [runs EXCEPT ![d].charts = written.content]
        /\ ContinueUnless(written.dead, "report")
  BY <1>2 DEF RenderCharts, Reduced, Rows
<1>6. written.dead \/ written.content = [of |-> d, rows |-> x.raw]
  BY DEF Rewritten
<1>7. PICK y : y = [x EXCEPT !.charts = written.content]
  OBVIOUS
<1>8. /\ DOMAIN y = RunFields /\ y.made = x.made /\ y.raw = x.raw /\ y.sums = x.sums
      /\ y.environment = x.environment /\ y.charts = written.content
      /\ y.summary = x.summary
  BY <1>3, <1>7 DEF RunFields
<1>9. RunTyped(y) /\ SumsAgree(d, y)
  BY <1>3, <1>8 DEF RunTyped, SumsAgree
<1>10. runs' = [runs EXCEPT ![d] = y]
  BY <1>2, <1>5, <1>7 DEF BenchInv, BenchTyped
<1>11. ~written.dead => ProcessAgrees([p EXCEPT !.phase = "report"], y, d \in edited, source)
  <2> SUFFICES ASSUME ~written.dead
               PROVE  ProcessAgrees([p EXCEPT !.phase = "report"], y, d \in edited, source)
    OBVIOUS
  <2>1. PICK q : q = [p EXCEPT !.phase = "report"]
    OBVIOUS
  <2>2. DOMAIN q = ProcessFields /\ q.phase = "report" /\ q.dir = d
    BY <1>2, <1>3, <2>1 DEF ProcessFields
  <2>3. ProcessAgrees(q, y, d \in edited, source)
    BY <1>3, <1>4, <1>6, <1>8, <2>2 DEF ProcessAgrees, ProcessPhases, Preparing, Measuring, Validated,
                    Summarised, Charted, Reported, Published
  <2> QED
    BY <2>1, <2>3
<1> QED
  BY <1>1, <1>2, <1>3, <1>5, <1>8, <1>9, <1>10, <1>11, WriteStep

(* The archived report is of a run that has an environment.                *)
LEMMA ReportHolds == ASSUME BenchInv, WriteReport PROVE BenchInv'
<1>1. process.phase = "report" /\ UNCHANGED <<source, root, starts, torn, edited>>
  BY DEF WriteReport
<1>2. PICK d, x, p : d = process.dir /\ x = runs[d] /\ p = process
  OBVIOUS
<1>3. /\ process # Idle /\ process.phase # "emit" /\ d \in Directories
      /\ DOMAIN p = ProcessFields /\ DOMAIN x = RunFields /\ x.made /\ x # NoRun
      /\ RunTyped(x) /\ SumsAgree(d, x) /\ ProcessAgrees(p, x, d \in edited, source)
  BY <1>1, <1>2, AtReport DEF Validated, Summarised, Charted
<1>4. /\ Complete(x.raw) /\ x.summary = [of |-> d, rows |-> x.raw]
      /\ x.charts = [of |-> d, rows |-> x.raw]
  BY <1>1, <1>2, <1>3 DEF ProcessAgrees, Validated, Summarised, Charted
<1>5. CASE x.environment = Damaged
  <2>1. Refuse("environment") /\ runs' = runs
    BY <1>2, <1>5 DEF WriteReport
  <2> QED
    BY <1>1, <1>3, <2>1, RefuseHolds
<1>6. CASE x.environment # Damaged
  <2>1. PICK content :
            content = [of |-> d, rows |-> x.raw, fingerprint |-> x.environment.fingerprint]
    OBVIOUS
  <2>2. PICK written \in Rewritten(content) :
            /\ runs' = [runs EXCEPT ![d].report = written.content]
            /\ ContinueUnless(written.dead, "checksums")
            /\ UNCHANGED refusal
    BY <1>2, <1>6, <2>1 DEF WriteReport, Rendered, Rows
  <2>3. written.dead \/ written.content = content
    BY DEF Rewritten
  <2>4. PICK y : y = [x EXCEPT !.report = written.content]
    OBVIOUS
  <2>5. /\ DOMAIN y = RunFields /\ y.made = x.made /\ y.raw = x.raw /\ y.sums = x.sums
        /\ y.environment = x.environment /\ y.report = written.content
        /\ y.summary = x.summary /\ y.charts = x.charts
    BY <1>3, <2>4 DEF RunFields
  <2>6. RunTyped(y) /\ SumsAgree(d, y)
    BY <1>3, <2>5 DEF RunTyped, SumsAgree
  <2>7. runs' = [runs EXCEPT ![d] = y]
    BY <1>2, <2>2, <2>4 DEF BenchInv, BenchTyped
  <2>8. ~written.dead => ProcessAgrees([p EXCEPT !.phase = "checksums"], y, d \in edited, source)
    <3> SUFFICES ASSUME ~written.dead
                 PROVE  ProcessAgrees([p EXCEPT !.phase = "checksums"], y, d \in edited, source)
      OBVIOUS
    <3>1. PICK q : q = [p EXCEPT !.phase = "checksums"]
      OBVIOUS
    <3>2. DOMAIN q = ProcessFields /\ q.phase = "checksums" /\ q.dir = d
      BY <1>2, <1>3, <3>1 DEF ProcessFields
    <3>3. x.environment \in Environment
      BY <1>3, <1>6 DEF RunTyped
    <3>4. y.report = [of |-> d, rows |-> y.raw, fingerprint |-> y.environment.fingerprint]
      BY <2>1, <2>3, <2>5
    <3>5. ProcessAgrees(q, y, d \in edited, source)
      BY <1>3, <1>4, <2>5, <3>2, <3>3, <3>4 DEF ProcessAgrees, ProcessPhases, Preparing, Measuring,
                    Validated, Summarised, Charted, Reported, Published
    <3> QED
      BY <3>1, <3>5
  <2> QED
    BY <1>1, <1>2, <1>3, <1>6, <2>2, <2>5, <2>6, <2>7, <2>8, WriteStep
<1> QED
  BY <1>5, <1>6

(* The checksums are taken of files that were all derived from these rows. *)
LEMMA ChecksumsHold == ASSUME BenchInv, WriteChecksums PROVE BenchInv'
<1>1. process.phase = "checksums" /\ UNCHANGED <<source, starts, edited, torn, root, refusal>>
  BY DEF WriteChecksums
<1>2. PICK d, x, p : d = process.dir /\ x = runs[d] /\ p = process
  OBVIOUS
<1>3. /\ process # Idle /\ process.phase # "emit" /\ d \in Directories
      /\ DOMAIN p = ProcessFields /\ DOMAIN x = RunFields /\ x.made /\ x # NoRun
      /\ RunTyped(x) /\ ProcessAgrees(p, x, d \in edited, source)
  BY <1>1, <1>2, AtReport DEF Validated, Summarised, Charted, Reported
<1>4. /\ Complete(x.raw) /\ x.summary = [of |-> d, rows |-> x.raw]
      /\ x.charts = [of |-> d, rows |-> x.raw] /\ x.environment \in Environment
      /\ x.report = [of |-> d, rows |-> x.raw, fingerprint |-> x.environment.fingerprint]
  BY <1>1, <1>2, <1>3 DEF ProcessAgrees, Validated, Summarised, Charted, Reported
<1>5. PICK content : content = Checksums(d)
  OBVIOUS
<1>6. /\ content.of = d /\ content.raw = x.raw /\ content.environment = x.environment
      /\ content.summary = x.summary /\ content.charts = x.charts /\ content.report = x.report
  BY <1>2, <1>5 DEF Checksums, Rows
<1>7. PICK phase : phase = IF p.publish THEN "root report" ELSE "idle"
  OBVIOUS
<1>8. PICK written \in Rewritten(content) :
        /\ runs' = [runs EXCEPT ![d].sums = written.content]
        /\ ContinueUnless(written.dead, phase)
  BY <1>2, <1>5, <1>7 DEF WriteChecksums
<1>9. written.content = Damaged \/ written.content = content
  BY DEF Rewritten
<1>10. PICK y : y = [x EXCEPT !.sums = written.content]
  OBVIOUS
<1>11. /\ DOMAIN y = RunFields /\ y.made = x.made /\ y.raw = x.raw
       /\ y.sums = written.content /\ y.environment = x.environment /\ y.report = x.report
       /\ y.summary = x.summary /\ y.charts = x.charts
  BY <1>3, <1>10 DEF RunFields
<1>12. RunTyped(y)
  BY <1>3, <1>11 DEF RunTyped
<1>13. SumsAgree(d, y)
  <2>1. CASE written.content = Damaged
    BY <1>3, <1>11, <2>1, BenchmarksAssumption DEF SumsAgree, Damaged
  <2>2. CASE written.content = content
    BY <1>4, <1>6, <1>11, <2>2 DEF SumsAgree
  <2> QED
    BY <1>9, <2>1, <2>2
<1>14. runs' = [runs EXCEPT ![d] = y]
  BY <1>2, <1>8, <1>10 DEF BenchInv, BenchTyped
<1>15. phase # "idle" => ProcessAgrees([p EXCEPT !.phase = phase], y, d \in edited, source)
  <2> SUFFICES ASSUME phase # "idle"
               PROVE  ProcessAgrees([p EXCEPT !.phase = phase], y, d \in edited, source)
    OBVIOUS
  <2>1. PICK q : q = [p EXCEPT !.phase = phase]
    OBVIOUS
  <2>2. DOMAIN q = ProcessFields /\ q.phase = "root report" /\ q.dir = d
    BY <1>2, <1>3, <1>7, <2>1 DEF ProcessFields
  <2>3. ProcessAgrees(q, y, d \in edited, source)
    BY <1>3, <1>4, <1>11, <2>2 DEF ProcessAgrees, ProcessPhases, Preparing, Measuring,
                    Validated, Summarised, Charted, Reported, Published
  <2> QED
    BY <2>1, <2>3
<1>16. phase # "emit"
  BY <1>7
<1> QED
  BY <1>1, <1>2, <1>3, <1>8, <1>11, <1>12, <1>13, <1>14, <1>15, <1>16, WriteStep


(* Publication changes the root files only, and names a complete run whose *)
(* report is of its rows.                                                  *)
LEMMA PublishStep ==
    ASSUME BenchInv, process.phase \in Published, NEW phase \in Published,
           \/ process' = Idle \/ process' = [process EXCEPT !.phase = phase],
           DOMAIN root' = {"report", "assets", "latest"},
           root'.latest = root.latest \/ root'.latest = "none" \/ root'.latest = process.dir,
           \/ root'.report = root.report \/ root'.report = Damaged
           \/ root'.report \in {Rendered(process.dir), Truncated(Rendered(process.dir))},
           UNCHANGED <<source, runs, starts, refusal, torn, edited>>
    PROVE  BenchInv'
<1>1. PICK d, x, p : d = process.dir /\ x = runs[d] /\ p = process
  OBVIOUS
<1>2. /\ process # Idle /\ process.phase # "emit" /\ d \in Directories
      /\ DOMAIN p = ProcessFields /\ DOMAIN x = RunFields /\ x.made /\ x # NoRun
      /\ RunTyped(x) /\ ProcessAgrees(p, x, d \in edited, source)
      /\ RunAgrees(d, x, d \in edited)
  <2>1. process # Idle /\ process.phase # "emit"
    <3>1. Idle.phase = "idle"
      BY DEF Idle
    <3> QED
      BY <3>1 DEF Published
  <2> QED
    BY <1>1, <2>1, AtReport, AtWork DEF Validated, Summarised, Charted, Reported, Published
<1>3. /\ Complete(x.raw) /\ x.summary = [of |-> d, rows |-> x.raw]
      /\ x.charts = [of |-> d, rows |-> x.raw] /\ x.environment \in Environment
      /\ x.report = [of |-> d, rows |-> x.raw, fingerprint |-> x.environment.fingerprint]
  BY <1>1, <1>2 DEF ProcessAgrees, Validated, Summarised, Charted, Reported
<1>4. PICK q : q = process'
  OBVIOUS
<1>5. q.phase # "emit" /\ (q = Idle \/ (q.dir = d /\ ProcessAgrees(q, x, d \in edited, source)))
  <2>1. CASE q = Idle
    BY <2>1 DEF Idle
  <2>2. CASE q = [process EXCEPT !.phase = phase]
    <3>1. DOMAIN q = ProcessFields /\ q.phase = phase /\ q.dir = d
      BY <1>1, <1>2, <2>2 DEF ProcessFields
    <3>2. phase # "emit"
      BY DEF Published
    <3>3. ProcessAgrees(q, x, d \in edited, source)
      BY <1>2, <1>3, <3>1 DEF ProcessAgrees, ProcessPhases, Preparing, Measuring,
                    Validated, Summarised, Charted, Reported, Published
    <3> QED
      BY <3>1, <3>2, <3>3
  <2> QED
    BY <1>4, <2>1, <2>2
<1>6. Works(d, x, q)
  <2>1. \A i \in DOMAIN Calls : ~x.made \/ d \in torn' \/ WholeRun(x, i)
    BY <1>1, <1>2 DEF BenchInv, CallsAreWhole, WholeRun
  <2> QED
    BY <1>1, <1>2, <1>4, <1>5, <2>1 DEF Works
<1>7. Respects(d, x, q)
  BY <1>1, <1>5 DEF Respects, Sealed
<1>8. Sealed(d)
  BY <1>1, <1>2, <1>3 DEF Sealed
<1>9. \A e \in Directories : Sealed(e) => Sealed(e)'
  BY <1>6, <1>7, SealStays
<1>10. BenchTyped'
  <2>1. root'.report.of = "cut" => root'.report = Truncated(root'.report.whole)
    <3>1. CASE root'.report = root.report
      BY <3>1 DEF BenchInv, BenchTyped
    <3>2. CASE root'.report = Damaged
      BY <3>2 DEF Damaged
    <3>3. CASE root'.report = Rendered(process.dir)
      BY <1>1, <1>2, <3>3, BenchmarksAssumption DEF Rendered
    <3>4. CASE root'.report = Truncated(Rendered(process.dir))
      BY <3>4 DEF Truncated
    <3> QED
      BY <3>1, <3>2, <3>3, <3>4
  <2>2. root'.latest \in Directories \cup {"none"}
    BY <1>1, <1>2 DEF BenchInv, BenchTyped
  <2> QED
    BY <1>6, <2>1, <2>2, WorkFrame DEF BenchInv, BenchTyped
<1>11. PublicationsAgree'
  <2>1. PICK l, r : l = root'.latest /\ r = Text(root'.report)
    OBVIOUS
  <2>2. l # "none" => Sealed(l)'
    BY <1>1, <1>2, <1>8, <1>9, <2>1 DEF BenchInv, PublicationsAgree, BenchTyped
  <2>3. r = Text(root.report) \/ r = Damaged \/ r = Rendered(process.dir)
    <3>1. Text(Damaged) = Damaged
      BY DEF Text, Damaged
    <3>2. Text(Rendered(process.dir)) = Rendered(process.dir)
      BY <1>1, <1>2, BenchmarksAssumption DEF Text, Rendered
    <3>3. Text(Truncated(Rendered(process.dir))) = Rendered(process.dir)
      BY DEF Text, Truncated
    <3> QED
      BY <2>1, <3>1, <3>2, <3>3
  <2>4. ASSUME r.of \in Directories
        PROVE  /\ Sealed(r.of)'
               /\ r = [of |-> r.of, rows |-> runs'[r.of].raw, fingerprint |-> r.fingerprint]
               /\ runs'[r.of].environment # Damaged =>
                    runs'[r.of].environment.fingerprint = r.fingerprint
    <3>1. CASE r = Text(root.report)
      BY <1>6, <1>7, <2>4, <3>1, ReportStays DEF BenchInv, PublicationsAgree
    <3>2. CASE r = Damaged
      BY <2>4, <3>2, BenchmarksAssumption DEF Damaged
    <3>3. CASE r = Rendered(process.dir)
      <4>1. r = [of |-> d, rows |-> x.raw, fingerprint |-> x.environment.fingerprint]
        BY <1>1, <3>3 DEF Rendered, Rows
      <4>2. r.of = d /\ r.fingerprint = x.environment.fingerprint
        BY <4>1
      <4>3. runs'[d] = x
        BY <1>1
      <4>4. Sealed(d)'
        BY <1>2, <1>8, <1>9
      <4> QED
        BY <4>1, <4>2, <4>3, <4>4 DEF Sealed
    <3> QED
      BY <2>3, <3>1, <3>2, <3>3
  <2>5. (root.latest # "none" => Sealed(root.latest))'
    BY <2>1, <2>2 DEF Sealed
  <2>6. (ReportAgrees(Text(root.report)))'
    <3>1. Text(root.report)' = r
      BY <2>1 DEF Text
    <3> QED
      BY <2>4, <3>1 DEF ReportAgrees, Sealed
  <2> QED
    BY <2>5, <2>6 DEF PublicationsAgree
<1>12. RefusalsInv'
  BY <1>2, Explained
<1>13. \A e \in Directories : RunAgrees(e, runs[e], e \in edited)'
  BY <1>6, WorkFrame DEF RunAgrees, RowsAgree, RowsDistinct, SumsAgree, IdentitiesOf
<1>14. (process = Idle
        \/ ProcessAgrees(process, runs[process.dir], process.dir \in edited, source))'
  BY <1>6, WorkFrame DEF ProcessAgrees, MeasuresRightly, Emitting, Complete, EachOnce, Counted, IdentitiesOf
<1> QED
  BY <1>6, <1>10, <1>11, <1>12, <1>13, <1>14, WorkFrame DEF BenchInv

LEMMA PublishHolds ==
    ASSUME BenchInv, PublishReport \/ PublishAssets \/ PublishLatest PROVE BenchInv'
<1>1. /\ process.phase \in Published
      /\ UNCHANGED <<source, runs, starts, refusal, torn, edited>>
  BY DEF PublishReport, PublishAssets, PublishLatest, Published
<1>2. DOMAIN root = {"report", "assets", "latest"}
  BY DEF BenchInv, BenchTyped
<1>3. CASE PublishReport
  <2>1. PICK written \in Rewritten(Rendered(process.dir)) \cup CutShort(Rendered(process.dir)) :
            /\ root' = [root EXCEPT !.report = written.content]
            /\ ContinueUnless(written.dead, "assets")
    BY <1>3 DEF PublishReport
  <2>2. process' = Idle \/ process' = [process EXCEPT !.phase = "assets"]
    BY <2>1 DEF ContinueUnless, Continue
  <2>3. \/ written.content = Damaged
        \/ written.content \in {Rendered(process.dir), Truncated(Rendered(process.dir))}
    BY <2>1 DEF Rewritten, CutShort
  <2>4. /\ DOMAIN root' = {"report", "assets", "latest"}
        /\ root'.latest = root.latest /\ root'.report = written.content
    BY <1>2, <2>1
  <2>5. "assets" \in Published
    BY DEF Published
  <2> QED
    BY <1>1, <2>2, <2>3, <2>4, <2>5, PublishStep
<1>4. CASE PublishAssets
  <2>1. PICK written \in Rewritten(runs[process.dir].charts) :
            /\ root' = [root EXCEPT !.assets = written.content]
            /\ ContinueUnless(written.dead, "latest")
    BY <1>4 DEF PublishAssets
  <2>2. process' = Idle \/ process' = [process EXCEPT !.phase = "latest"]
    BY <2>1 DEF ContinueUnless, Continue
  <2>3. /\ DOMAIN root' = {"report", "assets", "latest"}
        /\ root'.latest = root.latest /\ root'.report = root.report
    BY <1>2, <2>1
  <2>4. "latest" \in Published
    BY DEF Published
  <2> QED
    BY <1>1, <2>2, <2>3, <2>4, PublishStep
<1>5. CASE PublishLatest
  <2>1. PICK dead \in BOOLEAN :
            /\ root' = [root EXCEPT !.latest = IF dead THEN "none" ELSE process.dir]
            /\ process' = Idle
    BY <1>5 DEF PublishLatest
  <2>2. /\ DOMAIN root' = {"report", "assets", "latest"}
        /\ root'.report = root.report
        /\ root'.latest = "none" \/ root'.latest = process.dir
    BY <1>2, <2>1
  <2>3. "latest" \in Published
    BY DEF Published
  <2> QED
    BY <1>1, <2>1, <2>2, <2>3, PublishStep
<1> QED
  BY <1>3, <1>4, <1>5

-----------------------------------------------------------------------------
(* Every step keeps the invariant.                                         *)
LEMMA BenchStep == ASSUME BenchInv, [BenchNext]_benchVars PROVE BenchInv'
<1>1. CASE UNCHANGED benchVars
  <2> USE <1>1 DEF benchVars
  <2>1. BenchTyped'
    BY DEF BenchInv, BenchTyped
  <2>2. (\A d \in Directories : RunAgrees(d, runs[d], d \in edited))'
    BY DEF BenchInv, RunAgrees, RowsAgree, RowsDistinct, SumsAgree, IdentitiesOf
  <2>3. (process = Idle
         \/ ProcessAgrees(process, runs[process.dir], process.dir \in edited, source))'
    <3>1. process = Idle
          \/ ProcessAgrees(process, runs[process.dir], process.dir \in edited, source)
      BY DEF BenchInv
    <3>2. process' = Idle
          \/ ProcessAgrees(process', runs'[process'.dir], process'.dir \in edited', source')
      BY <3>1
    <3> QED
      BY <3>2 DEF ProcessAgrees, MeasuresRightly, Emitting, Complete, EachOnce, Counted, IdentitiesOf
  <2>4. CallsAreWhole'
    BY SMTT(40) DEF BenchInv, CallsAreWhole, WholeRun, IdentitiesOf
  <2>5. PublicationsAgree'
    BY DEF BenchInv, PublicationsAgree, ReportAgrees, Text, Sealed, Complete, EachOnce, Counted,
           IdentitiesOf
  <2>6. RefusalsInv'
    BY DEF BenchInv, RefusalsInv, RefusalsAreExplained, Rows, EachOnce, Counted, IdentitiesOf
  <2> QED
    BY <2>1, <2>2, <2>3, <2>4, <2>5, <2>6 DEF BenchInv
<1>2. CASE EditSource
  BY <1>2, EditHolds
<1>3. CASE Die
  BY <1>3, DieHolds
<1>4. ASSUME NEW d \in Directories, NEW publish \in BOOLEAN,
             StartRun(d, publish) \/ StartResume(d, publish) \/ StartReport(d, publish)
      PROVE  BenchInv'
  BY <1>4, BenchStartHolds
<1>5. CASE FetchAndBuild \/ OpenNew \/ OpenResume
  BY <1>5, BuildHolds, OpenNewHolds, OpenResumeHolds
<1>6. CASE SkipCompleted \/ RefusePartial \/ RunInvocation \/ WriteRow \/ FinishMatrix
  BY <1>6, SkipHolds, RefusePartialHolds, RunInvocationHolds, WriteRowHolds, FinishMatrixHolds
<1>7. CASE WriteEnvironment
  BY <1>7, WriteEnvironmentHolds
<1>8. CASE ReportNext
  BY <1>8, ValidateHolds, SummaryHolds, ChartsHold, ReportHolds, ChecksumsHold, PublishHolds
     DEF ReportNext
<1> QED
  BY <1>1, <1>2, <1>3, <1>4, <1>5, <1>6, <1>7, <1>8 DEF BenchNext

LEMMA BenchInvariant == BenchSpec => []BenchInv
  BY BenchInitially, BenchStep, PTL DEF BenchSpec

-----------------------------------------------------------------------------
(* RowsMatchFingerprint: whichever processes resumed a run, all its rows   *)
(* are of the fingerprint that the run records.                            *)
THEOREM RowsAreOfOneBuild == BenchSpec => []RowsMatchFingerprint
<1>1. BenchInv => RowsMatchFingerprint
  <2> SUFFICES ASSUME BenchInv, NEW d \in Directories,
                      NEW i \in DOMAIN (IF runs[d].made THEN Rows(d) ELSE << >>)
               PROVE  /\ Rows(d)[i].fingerprint = Rows(d)[1].fingerprint
                      /\ runs[d].environment # Damaged =>
                            Rows(d)[i].fingerprint = runs[d].environment.fingerprint
                      /\ d \notin edited => Rows(d)[i].built = Rows(d)[i].fingerprint
    BY DEF RowsMatchFingerprint
  <2>1. runs[d].made /\ i \in DOMAIN runs[d].raw
    BY DEF Rows
  <2> QED
    BY <2>1 DEF BenchInv, RunAgrees, RowsAgree, Rows
<1> QED
  BY <1>1, BenchInvariant, PTL

(* ReleaseIsOfItsRows: LATEST names only a run that validates, and what a  *)
(* passed release check saw is derived from the rows of that run as they   *)
(* are now; of the root report the end may be missing.                     *)
THEOREM ReleaseIsDerived == BenchSpec => []ReleaseIsOfItsRows
<1>1. BenchInv => ReleaseIsOfItsRows
  <2> SUFFICES ASSUME BenchInv PROVE ReleaseIsOfItsRows
    OBVIOUS
  <2>1. root.latest # "none" => EachOnce(Rows(root.latest)) /\ Counted(Rows(root.latest))
    BY DEF BenchInv, PublicationsAgree, Sealed, Complete, Rows
  <2>2. ASSUME check_current_benchmark
        PROVE  LET d == root.latest IN
               /\ runs[d].summary = Reduced(d) /\ runs[d].charts = Reduced(d)
               /\ runs[d].report = Rendered(d)
               /\ root.report \in {Rendered(d), Truncated(Rendered(d))}
    <3>1. PICK d, x : d = root.latest /\ x = runs[d]
      OBVIOUS
    <3>2. /\ d \in Directories /\ x.made /\ x.environment # Damaged
          /\ x.sums = Checksums(d) /\ RootReportNames(d)
      BY <2>2, <3>1 DEF check_current_benchmark, check_checksums,
                        BenchInv, BenchTyped, PublicationsAgree, Sealed
    <3>3. /\ x.sums.of = d /\ x.sums.raw = x.raw /\ x.sums.environment = x.environment
          /\ x.sums.summary = x.summary /\ x.sums.charts = x.charts
          /\ x.sums.report = x.report
      BY <3>1, <3>2 DEF Checksums, Rows
    <3>4. SumsAgree(d, x)
      BY <3>1, <3>2 DEF BenchInv, RunAgrees
    <3>5. /\ x.summary = [of |-> d, rows |-> x.raw] /\ x.charts = [of |-> d, rows |-> x.raw]
          /\ x.report = [of |-> d, rows |-> x.raw, fingerprint |-> x.environment.fingerprint]
      BY <3>3, <3>4 DEF SumsAgree
    <3>6. PICK r : r = Text(root.report) /\ ReportAgrees(r)
      BY DEF BenchInv, PublicationsAgree
    <3>7. r.of = d /\ root.report \in {r, Truncated(r)}
      <4>1. d # "cut"
        BY <3>2, BenchmarksAssumption
      <4>2. CASE root.report.of = d
        BY <3>6, <4>1, <4>2 DEF Text
      <4>3. CASE root.report.of = "cut" /\ root.report.whole.of = d
        BY <3>6, <4>3 DEF Text, BenchInv, BenchTyped
      <4> QED
        BY <3>2, <4>2, <4>3 DEF RootReportNames
    <3>8. r = [of |-> d, rows |-> x.raw, fingerprint |-> x.environment.fingerprint]
      BY <3>1, <3>2, <3>6, <3>7 DEF ReportAgrees
    <3>9. r = Rendered(d)
      BY <3>1, <3>8 DEF Rendered, Rows
    <3> QED
      BY <3>1, <3>5, <3>7, <3>9 DEF Reduced, Rendered, Rows
  <2> QED
    BY <2>1, <2>2 DEF ReleaseIsOfItsRows
<1> QED
  BY <1>1, BenchInvariant, PTL

(* RefusalsAreExplained: a matrix gone through to its end is refused only  *)
(* for a row that counted nothing, no resume meets a duplicate, and one    *)
(* that meets a part of an invocation follows a death within one.          *)
THEOREM RefusalsHaveReasons == BenchSpec => []RefusalsAreExplained
<1>1. BenchInv => RefusalsAreExplained
  BY DEF BenchInv, RefusalsInv
<1> QED
  BY <1>1, BenchInvariant, PTL

=============================================================================
