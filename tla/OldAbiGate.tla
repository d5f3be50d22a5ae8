----------------------------- MODULE OldAbiGate -----------------------------
(***************************************************************************)
(* scripts/check-old-abi.py: the gate that runs the new Python client with *)
(* the released old library.  Two gates may be given the same output path, *)
(* archives may be replaced while they run, every command may fail, and a  *)
(* gate may be killed.                                                     *)
(*                                                                         *)
(* A bundle is its content: whether its members are as the gate wants them *)
(* (names, sizes, formats), the version of its release notes, its native   *)
(* library with the hash listed for it, and its wheel: the version, the    *)
(* native library, the Python source with its ABI, and the hashes recorded *)
(* for both.  Equal hashes are equal contents.                             *)
(***************************************************************************)
EXTENDS Integers, FiniteSets

CONSTANTS
    Gates,              \* processes
    Bundles,            \* contents of archives
    OldNatives,         \* native libraries without the optional symbols
    Provenance,         \* the retained receipt: bundle, native and Python of v2.0.0
    MaxReplacements     \* bound: archives replaced

ASSUME OldAbiGateAssumption == "none" \notin Gates /\ MaxReplacements \in Nat

VARIABLES
    pins,           \* the hashes the caller gives for "new" and "old"
    archives,       \* what is at the two paths
    replaced,       \* replacements so far
    gates,          \* process -> the gate
    output,         \* the receipt, or NoReceipt
    logs            \* the log directory: the gate that made it, or "none"

gateVars == <<pins, archives, replaced, gates, output, logs>>

Kinds == {"new", "old"}
BundleVersion == [new |-> "2.2", old |-> "2.0"]
Hashing == [new |-> "hash new", old |-> "hash old"]
Extracting == [new |-> "extract new", old |-> "extract old"]
Probing == [new |-> "probe new", old |-> "probe old"]
NoReceipt == [gate |-> "none"]
NotRun == [phase |-> "not run"]

GateInit ==
    /\ pins \in [Kinds -> Bundles]
    /\ archives \in [Kinds -> Bundles]
    /\ replaced = 0
    /\ gates = [g \in Gates |-> NotRun]
    /\ output = NoReceipt
    /\ logs = "none"

GateAt(g, phase) == gates[g].phase = phase
GateGoes(g, phase) == gates' = [gates EXCEPT ![g].phase = phase]
(* GateError: the result stays "failed" and is written in the end.         *)
Fails(g) == gates' = [gates EXCEPT ![g].phase = "receipt"]
GoesWhen(g, condition, phase) == IF condition THEN GateGoes(g, phase) ELSE Fails(g)

-----------------------------------------------------------------------------
(* Output and logs are reserved before anything else.                      *)

StartGate(g, require_links) ==
    /\ GateAt(g, "not run")
    /\ gates' = [gates EXCEPT ![g] =
            IF output # NoReceipt THEN [phase |-> "refused"]
            ELSE [phase |-> "reserve", require_links |-> require_links,
                  extracted |-> [k \in {} |-> 0], installed |-> "none",
                  links |-> [c |-> "skipped", go |-> "skipped"],
                  status |-> "failed", complete |-> FALSE]]
    /\ UNCHANGED <<pins, archives, replaced, output, logs>>

(* Mutant: a log directory that is there is used.                          *)
LogsAreFreeAlways == TRUE

LogsAreFree == logs = "none"

(* Making the directory fails if it is there.                              *)
MakeLogs(g) ==
    /\ GateAt(g, "reserve")
    /\ IF LogsAreFree THEN logs' = g /\ GateGoes(g, "hash new")
       ELSE UNCHANGED logs /\ GateGoes(g, "refused")
    /\ UNCHANGED <<pins, archives, replaced, output>>

-----------------------------------------------------------------------------
(* The bundles: hashed, then opened again and extracted, then verified.    *)
(* The host may be one that the gate does not run on.                      *)

HashBundle(g, kind) ==
    /\ GateAt(g, Hashing[kind])
    /\ \/ Fails(g)
       \/ GoesWhen(g, archives[kind] = pins[kind], Extracting[kind])
    /\ UNCHANGED <<pins, archives, replaced, output, logs>>

verify_wheel(bundle, version) ==
    /\ bundle.recorded = <<bundle.wheel_native, bundle.wheel_python>>
    /\ bundle.wheel_version = version
    /\ bundle.wheel_native = bundle.native
    /\ bundle.wheel_abi = 2

verify_bundle(bundle, version) ==
    /\ bundle.well_formed
    /\ bundle.listed = bundle.native
    /\ verify_wheel(bundle, version)
    /\ bundle.notes_version = version

ExtractBundle(g, kind) ==
    /\ GateAt(g, Extracting[kind])
    /\ gates' = [gates EXCEPT
            ![g].extracted = [k \in DOMAIN @ \cup {kind} |->
                                IF k = kind THEN archives[kind] ELSE @[k]],
            ![g].phase = IF ~verify_bundle(archives[kind], BundleVersion[kind]) THEN "receipt"
                         ELSE IF kind = "new" THEN "hash old" ELSE "provenance"]
    /\ UNCHANGED <<pins, archives, replaced, output, logs>>

verify_old_provenance(old) ==
    /\ Provenance.bundle = pins["old"]
    /\ Provenance.native = old.native
    /\ Provenance.python = old.wheel_python

CheckProvenance(g) ==
    /\ GateAt(g, "provenance")
    /\ GoesWhen(g, verify_old_provenance(gates[g].extracted["old"]), "install")
    /\ UNCHANGED <<pins, archives, replaced, output, logs>>

-----------------------------------------------------------------------------
(* Commands.  Each may fail, time out, or exit with the wrong code.        *)

InstallWheel(g) ==
    /\ GateAt(g, "install")
    /\ \/ Fails(g)
       \/ gates' = [gates EXCEPT ![g].phase = "probe new",
                                 ![g].installed = gates[g].extracted["new"].wheel_python]
    /\ UNCHANGED <<pins, archives, replaced, output, logs>>

(* The new client loads the library and finds the optional symbols exactly *)
(* in the new one.                                                         *)
Probe(g, kind) ==
    /\ GateAt(g, Probing[kind])
    /\ \/ Fails(g)
       \/ GoesWhen(g, (gates[g].extracted[kind].native \in OldNatives) = (kind = "old"),
                   IF kind = "new" THEN "probe old" ELSE "links")
    /\ UNCHANGED <<pins, archives, replaced, output, logs>>

(* With a compiler a C program, and with Go a Go program, must link with   *)
(* the new library and must not link with the old one, for the want of the *)
(* lookup symbols.                                                         *)
LinksAsExpected(g) ==
    /\ gates[g].extracted["new"].native \notin OldNatives
    /\ gates[g].extracted["old"].native \in OldNatives

link_checks(g) ==
    /\ GateAt(g, "links")
    /\ \/ Fails(g)
       \/ \E links \in {[c |-> "skipped", go |-> "skipped"], [c |-> "passed", go |-> "skipped"],
                        [c |-> "passed", go |-> "passed"]} :
            /\ links.c = "passed" => LinksAsExpected(g)
            /\ gates' = [gates EXCEPT ![g].links = links, ![g].phase = "required"]
    /\ UNCHANGED <<pins, archives, replaced, output, logs>>

LinksComplete(g) == gates[g].links = [c |-> "passed", go |-> "passed"]

RequireLinks(g) ==
    /\ GateAt(g, "required")
    /\ GoesWhen(g, gates[g].require_links => LinksComplete(g), "rehash")
    /\ UNCHANGED <<pins, archives, replaced, output, logs>>

(* Mutant: the archives are not looked at again.                           *)
StableAssumed == TRUE

ArtifactsStable == \A kind \in Kinds : archives[kind] = pins[kind]

Rehash(g) ==
    /\ GateAt(g, "rehash")
    /\ gates' = [gates EXCEPT
            ![g].phase = "receipt",
            ![g].status = IF ArtifactsStable THEN "passed" ELSE "failed",
            ![g].complete = ArtifactsStable /\ LinksComplete(g)]
    /\ UNCHANGED <<pins, archives, replaced, output, logs>>

(* finally: the receipt is written whatever happened before.  A gate that  *)
(* is killed while it writes leaves a part of it.                          *)
WriteGateReceipt(g) ==
    /\ GateAt(g, "receipt")
    /\ \/ output' = [gate |-> g, result |-> gates[g]] /\ GateGoes(g, "ended")
       \/ output' = [gate |-> g, result |-> [status |-> "damaged"]] /\ GateGoes(g, "killed")
    /\ UNCHANGED <<pins, archives, replaced, logs>>

KillGate(g) ==
    /\ gates[g].phase \notin {"not run", "refused", "ended", "killed"}
    /\ GateGoes(g, "killed")
    /\ UNCHANGED <<pins, archives, replaced, output, logs>>

ReplaceArchive(kind, bundle) ==
    /\ replaced < MaxReplacements
    /\ replaced' = replaced + 1
    /\ archives' = [archives EXCEPT ![kind] = bundle]
    /\ UNCHANGED <<pins, gates, output, logs>>

GateNext ==
    \/ \E kind \in Kinds, bundle \in Bundles : ReplaceArchive(kind, bundle)
    \/ \E g \in Gates :
        \/ \E require_links \in BOOLEAN : StartGate(g, require_links)
        \/ MakeLogs(g)
        \/ \E kind \in Kinds : HashBundle(g, kind) \/ ExtractBundle(g, kind) \/ Probe(g, kind)
        \/ CheckProvenance(g) \/ InstallWheel(g) \/ link_checks(g) \/ RequireLinks(g)
        \/ Rehash(g) \/ WriteGateReceipt(g) \/ KillGate(g)

GateSpec == GateInit /\ [][GateNext]_gateVars

-----------------------------------------------------------------------------
(* Properties.                                                             *)

(* A receipt that says passed is of the pinned bundles: the client that    *)
(* ran is the pinned new one, the old library is that of the release and   *)
(* has none of the optional symbols, and if links were required or the     *)
(* receipt says complete, both languages were linked.  An archive that is  *)
(* replaced once while the gate runs does not change that.  The receipt    *)
(* and the logs beside it are of one gate, although two may have seen the  *)
(* output path free.                                                       *)
PassedReceiptIsTrue ==
    /\ (output # NoReceipt /\ output.result.status = "passed") =>
           LET result == output.result IN
           /\ result.extracted = pins
           /\ result.installed = pins["new"].wheel_python
           /\ result.extracted["old"].native = Provenance.native
           /\ result.extracted["old"].native \in OldNatives
           /\ result.extracted["new"].native \notin OldNatives
           /\ result.complete = (result.links = [c |-> "passed", go |-> "passed"])
           /\ result.require_links => result.complete
    /\ output # NoReceipt => output.gate = logs

=============================================================================
