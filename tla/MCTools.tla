------------------------------ MODULE MCTools ------------------------------
(***************************************************************************)
(* The scripts around the engine.  They share no state with one another,   *)
(* so a behaviour is of one of them, chosen at the start; the variables of *)
(* the others keep one initial value.                                      *)
(***************************************************************************)
EXTENDS BenchMatrix, Benchmarks, MergePullRequest, Toolchains, ProfilePair, OldAbiGate

VARIABLE script

toolsVars ==
    <<script, matrixVars, benchVars, mergeVars, toolVars, pairVars, gateVars>>

(* An invocation with one result and a concurrent one with two.            *)
MCCalls == << <<"a">>, <<"w", "r">> >>

(* Two archives have been locked under one version, and one under another; *)
(* "x" is delivered by mistake.                                            *)
MCLocks ==
    {[version |-> "v1", sha256 |-> "a"], [version |-> "v1", sha256 |-> "b"],
     [version |-> "v2", sha256 |-> "c"]}
MCVersionOf == [a |-> "v1", b |-> "v1", c |-> "v2", x |-> "v1"]

(* The released bundle, a new one, a new one with another library in its   *)
(* wheel, and one that has the old version and the new library.            *)
Bundle(version, native, wheel_native, python) ==
    [well_formed |-> TRUE, notes_version |-> version, native |-> native, listed |-> native,
     wheel_version |-> version, wheel_native |-> wheel_native, wheel_python |-> python,
     wheel_abi |-> 2, recorded |-> <<wheel_native, python>>]
Released == Bundle("2.0", "n0", "n0", "p0")
MCBundles ==
    {Released, Bundle("2.2", "n2", "n2", "p2"), Bundle("2.2", "n2", "n0", "p2"),
     Bundle("2.0", "n2", "n2", "p0")}
MCProvenance == [bundle |-> Released, native |-> "n0", python |-> "p0"]

Fixed(name, value, values) == script # name => value = CHOOSE v \in values : TRUE

Init ==
    /\ script \in {"matrix", "bench", "merge-pr", "setup-dev", "profile-pair", "check-old-abi"}
    /\ MatrixInit
    /\ BenchInit
    /\ MergeInit
    /\ ToolInit
    /\ Fixed("setup-dev", lock, Locks)
    /\ PairInit
    /\ Fixed("profile-pair", pair.repetitions, PairRepetitions)
    /\ Fixed("profile-pair", pair.quick, BOOLEAN)
    /\ Fixed("profile-pair", harness, [Labels -> {"same"}])
    /\ GateInit
    /\ Fixed("check-old-abi", <<pins, archives>>,
             {<<released, released>> : released \in [Kinds -> {Released}]})

Next ==
    \/ /\ script = "matrix" /\ MakeInvocation
       /\ UNCHANGED <<script, benchVars, mergeVars, toolVars, pairVars, gateVars>>
    \/ /\ script = "bench" /\ BenchNext
       /\ UNCHANGED <<script, matrixVars, mergeVars, toolVars, pairVars, gateVars>>
    \/ /\ script = "merge-pr" /\ MergeNext
       /\ UNCHANGED <<script, matrixVars, benchVars, toolVars, pairVars, gateVars>>
    \/ /\ script = "setup-dev" /\ ToolNext
       /\ UNCHANGED <<script, matrixVars, benchVars, mergeVars, pairVars, gateVars>>
    \/ /\ script = "profile-pair" /\ PairNext
       /\ UNCHANGED <<script, matrixVars, benchVars, mergeVars, toolVars, gateVars>>
    \/ /\ script = "check-old-abi" /\ GateNext
       /\ UNCHANGED <<script, matrixVars, benchVars, mergeVars, toolVars, pairVars>>

Spec == Init /\ [][Next]_toolsVars

=============================================================================
