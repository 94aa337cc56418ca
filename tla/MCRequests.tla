----------------------------- MODULE MCRequests -----------------------------
(***************************************************************************)
(* What a request says and who may make it: the authorisation of a call    *)
(* while Pods are recreated in two namespaces, containers restart, or PVs  *)
(* are edited; the mounter command that makes requests; the rules for the  *)
(* paths in them; and what requests come to in a wrapper that neither      *)
(* crashes nor fails to write its state.  A behaviour exercises one of     *)
(* them.                                                                   *)
(***************************************************************************)
EXTENDS Authorization, MounterRequest, PathPolicy

CONSTANTS Handlers, Reconcilers, Volumes, NoKey, NoSubPath, Foreign   \* of Wrapper

VARIABLES
    part,
    mounts, byPod, files, pc, job, lock, gen, status, present, stack, spec,
    pvOK, pvRoot, exportKey

\* One target, to which handlers mount several PVs.
Steady == INSTANCE Wrapper WITH
    Keys <- {"target"}, Pods <- {"pod"}, PVs <- Volumes, SubPaths <- {NoSubPath},
    ExportKeys <- {}, MaxGen <- 2, Faults <- {"node"}, Stripes <- {"mutex"},
    Stripe <- [k \in {"target"} |-> "mutex"], PodOf <- [k \in {"target"} |-> "pod"],
    Place <- [k \in {"target"} |-> k]

ASSUME SteadyAssumption == Steady!WrapperAssumption

steadyVars == <<mounts, byPod, files, pc, job, lock, gen, status, present, stack,
                spec, pvOK, pvRoot, exportKey>>

-----------------------------------------------------------------------------
(* Pod specs on this node: with a single container, with two of which the  *)
(* second is marked, and of another account; and on another node with two  *)
(* unmarked containers.                                                    *)

Here == <<"ns", "pod">>
There == <<"other", "pod">>
MCPlaces == {Here, There}
Plain(name) == [name |-> name, env |-> {[name |-> "HOME", value |-> "true"]}]
Marked(name) == [name |-> name, env |-> {[name |-> Marker, value |-> "TRUE"]}]
Single == [sa |-> "sa", node |-> "here", containers |-> <<Plain("main")>>]
Double == [sa |-> "sa", node |-> "here", containers |-> <<Plain("side"), Marked("main")>>]
Robot == [sa |-> "robot", node |-> "here", containers |-> <<Plain("main")>>]
Distant == [sa |-> "robot", node |-> "there", containers |-> <<Plain("side"), Plain("main")>>]
MCSpecs == {Single, Double, Robot, Distant}
PV(ns, sa, source) ==
    [ours |-> TRUE, allowNamespace |-> ns, allowServiceAccount |-> sa, source |-> source]
OpenPV == PV(None, None, "export")
MCPVs == {
    OpenPV,
    PV(<<"ns">>, <<"robot", "sa">>, "export/dir"),
    PV(<<"ns", Blank>>, None, "export"),
    PV(<<>>, <<Star>>, "export"),
    PV(None, None, None),
    [OpenPV EXCEPT !.ours = FALSE]}

\* What happens during a call, one thing at a time: Pods are recreated at two
\* places, containers restart, or the PV is edited while lookups may fail.
BornWith(specs) == \A u \in UIDs : born[u] # None => born[u].spec \in specs
AtHere == pods[There] = None /\ (call # Idle => call.request.place = Here)
Scope ==
    CASE part = "recreated" ->
            /\ BornWith({Single, Double, Distant}) /\ restarts = 0
            /\ pv \in {OpenPV, None} /\ edits = 0
      [] part = "restarted" ->
            /\ BornWith({Single, Double, Distant}) /\ AtHere
            /\ pv \in {OpenPV, None} /\ edits = 0
      [] part = "edited" ->
            /\ BornWith({Single, Robot}) /\ AtHere /\ restarts = 0
            /\ call # Idle => call.request.container = None

-----------------------------------------------------------------------------
(* The mounter command: where a value can come from, and what --config can *)
(* hold.                                                                   *)

Source(flag, env, file) == [flag |-> flag, env |-> env, files |-> file]
CSI(names, id, subPaths, target) ==
    [names |-> names, volumeID |-> id, subPaths |-> subPaths, target |-> target]

MCIdentities == {
    Source("flag", "env", <<"file", NoValue>>),
    Source(NoValue, "env", <<NoValue, "file2">>),
    Source(Unset, NoValue, <<NoValue, NoValue>>)}
MCContainerFlags == {<<Unset, "env">>, <<"flag", "env">>}
MCPublications == {
    Unset, Undecodable,
    CSI(<<"pv", NoValue>>, <<"pv", Six>>, <<NoValue, "sub">>, "dir"),
    CSI(<<NoValue, "pv">>, <<>>, <<NoValue, NoValue>>, "dir"),
    CSI(<<NoValue, NoValue>>, <<"a", "b", Six>>, <<"sub", NoValue>>, "dir"),
    CSI(<<NoValue, NoValue>>, <<NoValue, Six>>, <<NoValue, NoValue>>, "dir"),
    CSI(<<NoValue, NoValue>>, <<>>, <<NoValue, NoValue>>, "dir"),
    CSI(<<"pv", NoValue>>, <<>>, <<NoValue, NoValue>>, NoValue)}

-----------------------------------------------------------------------------
(* Paths over two names.  The denied sets have the shapes of the real ones:*)
(* the root, a tree at the top ("/proc"), a tree further down              *)
(* ("/run/secrets"), a single file ("/etc/passwd").                        *)

MCSegments == {"", ".", "..", "a", "d", " ", "NUL"}
MCDeniedTrees == {<<"d">>, <<"a", "d">>}
MCDeniedPlaces == {<<>>, <<"d">>, <<"a", "a">>}

-----------------------------------------------------------------------------
RequestsInit ==
    /\ part \in {"recreated", "restarted", "edited", "command", "paths", "steady"}
    /\ Init /\ IF part \in {"command", "paths", "steady"} THEN pv = OpenPV ELSE Scope
    /\ Steady!Init /\ \A v \in Volumes : ~pvRoot[v]
    /\ part # "steady" => spec = {}
    /\ IF part = "command" THEN CommandInit
       ELSE input = Unset /\ done = [c \in Commands |-> Unset]
    /\ IF part = "paths" THEN PathInit ELSE path = <<"">> /\ other = <<"">>

RequestsNext ==
    /\ UNCHANGED part
    /\ \/ /\ part \in {"recreated", "restarted", "edited"} /\ Next /\ Scope'
          /\ UNCHANGED <<commandVars, pathVars, steadyVars>>
       \/ /\ part = "command" /\ CommandNext
          /\ UNCHANGED <<vars, pathVars, steadyVars>>
       \/ /\ part = "paths" /\ PathNext
          /\ UNCHANGED <<vars, commandVars, steadyVars>>
       \/ /\ part = "steady" /\ Steady!Next
          /\ UNCHANGED <<vars, commandVars, pathVars>>

RequestsSpec ==
    RequestsInit /\ [][RequestsNext]_<<part, vars, commandVars, pathVars, steadyVars>>

-----------------------------------------------------------------------------

\* The record of a mounted target names what is mounted there, and mounts of
\* the Pod spec are left alone (Server.mount, unmount, reconcileMount).
RecordNamesSource == Steady!RecordNamesSource
ForeignUntouched == Steady!ForeignUntouched
=============================================================================
