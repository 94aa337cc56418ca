---------------------------- MODULE MounterRequest ----------------------------
(***************************************************************************)
(* How the mounter command turns its flags, the environment, the files of  *)
(* the Pod and a CSI NodePublishVolumeRequest into a request               *)
(* (cmd/mounter/main.go).  An input is chosen, then each of the commands   *)
(* is run on it: the bare one, mount and unmount.                          *)
(*                                                                         *)
(* NoValue is the empty string, Unset a flag that was not given; the two   *)
(* are different, since a flag given as "" replaces the default of the     *)
(* environment.  A volume ID is the sequence of its parts between dashes;  *)
(* Six is a part of six lower-case letters or digits.                      *)
(***************************************************************************)
EXTENDS Naturals, Sequences

CONSTANTS
    NoValue, Unset,
    Six, Undecodable,
    Identities,   \* where a part of the Pod identity can come from:
                  \*   [flag, env, files], files in the order of the search
    Flags,        \* values of --pv, --sub-path and --target, Unset among them
    ContainerFlags, \* pairs of --container and CONTAINER_NAME
    Publications  \* values of --config: Unset, Undecodable, or
                  \*   [names, volumeID, subPaths, target]

ASSUME RequestAssumption ==
    /\ Unset \in Flags /\ Unset \in Publications /\ NoValue # Unset

VARIABLES
    input,        \* the command line, the environment and the files
    done          \* command -> the request it made, or NoValue; Unset before that

commandVars == <<input, done>>

Commands == {"bare", "mount", "unmount"}
Inputs == [namespace : Identities, podName : Identities, podUID : Identities,
           pv : Flags, subPath : Flags, target : Flags,
           container : ContainerFlags, config : Publications]

-----------------------------------------------------------------------------
firstNonEmpty(values) ==
    LET given == {i \in DOMAIN values : values[i] # NoValue}
    IN  IF given = {} THEN NoValue
        ELSE values[CHOOSE i \in given : \A j \in given : i <= j]

FlagOr(flag, default) == IF flag = Unset THEN default ELSE flag

\* defaultMountRequest and the flag, then completePodIdentity.
Resolved(source) ==
    firstNonEmpty(<<FlagOr(source.flag, source.env)>> \o source.files)

derivePVNameFromVolumeID(id) ==
    LET last == Len(id)
    IN  IF last > 1 /\ id[last] = Six /\ SubSeq(id, 1, last - 1) # <<NoValue>>
        THEN SubSeq(id, 1, last - 1) ELSE id

\* names and subPaths hold the keys of both contexts in the order of the lookup.
pvNameFromNodePublishRequest(csi) ==
    LET name == firstNonEmpty(csi.names)
    IN  IF name # NoValue THEN <<name>>
        ELSE IF csi.volumeID = <<>> THEN NoValue
        ELSE derivePVNameFromVolumeID(csi.volumeID)

\* The request that the flags alone make.
FromFlags(in) ==
    [namespace |-> Resolved(in.namespace), podName |-> Resolved(in.podName),
     podUID |-> Resolved(in.podUID),
     pv |-> IF in.pv \in {Unset, NoValue} THEN NoValue ELSE <<in.pv>>,
     subPath |-> FlagOr(in.subPath, NoValue), target |-> FlagOr(in.target, NoValue),
     container |-> FlagOr(in.container[1], in.container[2])]

FillsGapsOnly(request, csi, includeSubPath) ==
    [request EXCEPT
        !.pv = IF @ = NoValue THEN pvNameFromNodePublishRequest(csi) ELSE @,
        !.subPath = IF includeSubPath /\ @ = NoValue THEN firstNonEmpty(csi.subPaths) ELSE @,
        !.target = IF @ = NoValue THEN csi.target ELSE @]

applyNodePublishConfig(request, csi, includeSubPath) ==
    [request EXCEPT
        !.pv = pvNameFromNodePublishRequest(csi),
        !.subPath = IF includeSubPath /\ @ = NoValue THEN firstNonEmpty(csi.subPaths) ELSE @,
        !.target = csi.target]

NoConfigOnUnmount(command, in) ==
    IF in.config = Unset \/ command = "unmount" THEN FromFlags(in)
    ELSE applyNodePublishConfig(FromFlags(in), in.config, TRUE)

Configured(command, in) ==
    IF in.config = Unset THEN FromFlags(in)
    ELSE applyNodePublishConfig(FromFlags(in), in.config, command = "mount")

\* Not every command has every flag, and --config must decode.
Parses(command, in) ==
    /\ in.config # Undecodable
    /\ command = "bare" => in.config = Unset
    /\ command = "unmount" => in.subPath = Unset

validateCLIRequest(request) ==
    NoValue \notin {request.namespace, request.podName, request.podUID, request.pv,
                    request.target}

\* parseRequest and completePodIdentity; then validateCLIRequest.
Made(command, in) ==
    LET configured == Configured(command, in)
    IN  IF command = "unmount" THEN [configured EXCEPT !.subPath = NoValue] ELSE configured
Request(command, in) ==
    IF Parses(command, in) /\ validateCLIRequest(Made(command, in))
    THEN Made(command, in) ELSE NoValue

\* NoValue, the error of parseRequest, is not a request.
ASSUME ErrorAssumption ==
    \A c \in Commands, in \in Inputs : Parses(c, in) => Made(c, in) # NoValue

-----------------------------------------------------------------------------
CommandInit ==
    /\ input \in Inputs
    /\ done = [c \in Commands |-> Unset]

Run(command) ==
    /\ done[command] = Unset
    /\ done' = [done EXCEPT ![command] = Request(command, input)]
    /\ UNCHANGED input

CommandNext == \E c \in Commands : Run(c)

CommandSpec == CommandInit /\ [][CommandNext]_commandVars

-----------------------------------------------------------------------------
Fields == {"namespace", "podName", "podUID", "pv", "target", "container"}

(* The command line that mounted, with unmount for mount and without the    *)
(* sub-path, addresses what it mounted: the same Pod, container, target and *)
(* PV, with the same search through flags, environment and files.           *)
UnmountAddressesMount ==
    LET mounted == done["mount"]
        removed == Request("unmount", [input EXCEPT !.subPath = Unset])
    IN  mounted \notin {NoValue, Unset} =>
            removed # NoValue /\ \A f \in Fields : removed[f] = mounted[f]

\* PV and target come from one place: either both from the flags or both from
\* the decoded --config, never the volume of one at the path of the other.
OneOrigin(c) ==
    LET byFlags == [pv |-> <<input.pv>>, target |-> input.target]
        made == [pv |-> done[c].pv, target |-> done[c].target]
    IN  IF input.config = Unset THEN made = byFlags
        ELSE made = [pv |-> pvNameFromNodePublishRequest(input.config),
                     target |-> input.config.target]

\* validateRequest of the SDK and validateRequestShape of the wrapper.
SDKAccepts(request) == \A f \in Fields \ {"container"} : request[f] # NoValue

(* A request takes its PV and its target from one place, and what           *)
(* validateCLIRequest lets through, the SDK and the wrapper let through: an *)
(* incomplete request is reported before a token is read.                   *)
RequestsAreWhole ==
    \A c \in Commands : done[c] \notin {NoValue, Unset} => OneOrigin(c) /\ SDKAccepts(done[c])
=============================================================================
