--------------------------- MODULE MountStateStore ---------------------------
(***************************************************************************)
(* The desired-mount store of the wrapper (internal/wrapper/state.go): one *)
(* JSON file per target on disk, the same records in a map in memory, and  *)
(* an index of the map by Pod.  A write goes to a temporary file, which is *)
(* renamed over the old one before the directory is synced; only after the *)
(* sync does the map change.  An error can therefore come early (nothing   *)
(* happened) or late (the file already changed and the map did not).       *)
(*                                                                         *)
(* A target is a key (Pod UID, container name, target path).  Container    *)
(* ids are the successive instances 1, 2, ... of that container; the empty *)
(* id is NoContainer.                                                      *)
(***************************************************************************)
EXTENDS Integers, FiniteSets

CONSTANTS
    Keys,         \* targets: Pod UID, container name and target path
    Pods,         \* Pod identities: namespace, name and UID
    PVs,          \* names of PersistentVolumes
    SubPaths,     \* cleaned source sub-paths
    NoSubPath,    \* the empty one, which selects the whole volume
    ExportKeys,   \* fingerprints of export-root keys
    NoKey,        \* the empty fingerprint, or no key configured
    None,         \* no record, no job, no holder
    MaxGen,       \* bound: instances of a container that are explored
    Faults        \* what may go wrong; "early" and "late" are the store's

ASSUME StoreAssumption ==
    /\ MaxGen \in Nat \ {0}
    /\ NoKey \notin ExportKeys
    /\ NoSubPath \in SubPaths

NoContainer == 0

Fingerprints == ExportKeys \cup {NoKey}

\* The part of an api.MountRequest that is not already in the key.
Requests == [pv : PVs, sub : SubPaths]

\* desiredMount.  root is ExportRootAuthorized, fp ExportRootKeyFingerprint,
\* cid ContainerID and legacy legacyRootClassificationUnknown.
Records == [pod : Pods, req : Requests, root : BOOLEAN, fp : Fingerprints,
            cid : NoContainer..MaxGen, legacy : BOOLEAN]

ASSUME NoneAssumption == None \notin Records

VARIABLES
    mounts,       \* key -> record in memory, or None
    byPod,        \* Pod -> the keys indexed under it
    files         \* key -> record on disk, or None; legacy = a version 1 file

storeVars == <<mounts, byPod, files>>

StoreTypeOK ==
    /\ mounts \in [Keys -> Records \cup {None}]
    /\ byPod \in [Pods -> SUBSET Keys]
    /\ files \in [Keys -> Records \cup {None}]

-----------------------------------------------------------------------------
(* The in-memory map and its index.                                        *)

\* A replacement that forgets to drop the key from the previous Pod's set.
UnindexedForgotten(k) == byPod

Unindexed(k) ==
    IF mounts[k] = None THEN byPod
    ELSE [byPod EXCEPT ![mounts[k].pod] = @ \ {k}]

deleteInMemory(k) ==
    /\ mounts' = [mounts EXCEPT ![k] = None]
    /\ byPod' = Unindexed(k)

putInMemory(k, r) ==
    /\ mounts' = [mounts EXCEPT ![k] = r]
    /\ byPod' = [Unindexed(k) EXCEPT ![r.pod] = @ \cup {k}]

-----------------------------------------------------------------------------
(* Files.  Every write is version 2, which has no place for the legacy     *)
(* flag; a version 1 file carries no root classification.                  *)

Written(r) == [r EXCEPT !.legacy = FALSE]

Loaded(f) ==
    IF f = None \/ ~f.legacy THEN f
    ELSE [f EXCEPT !.root = FALSE, !.fp = NoKey]

Load ==
    /\ mounts' = [k \in Keys |-> Loaded(files[k])]
    /\ byPod' = [p \in Pods |->
                    {k \in Keys : files[k] # None /\ files[k].pod = p}]
    /\ UNCHANGED files

-----------------------------------------------------------------------------
(* Put and Delete, split by the error they return.                         *)

\* A write that leaves the file alone and only updates the memory.
writeMountSkipped(k, r) == UNCHANGED files

writeMount(k, r) == files' = [files EXCEPT ![k] = Written(r)]

PutOK(k, r) == writeMount(k, r) /\ putInMemory(k, r)

PutFails(k, r) ==
    /\ \/ "early" \in Faults /\ UNCHANGED files
       \/ "late" \in Faults /\ writeMount(k, r)
    /\ UNCHANGED <<mounts, byPod>>

DeleteOK(k) ==
    IF mounts[k] = None THEN UNCHANGED storeVars
    ELSE /\ files' = [files EXCEPT ![k] = None]
         /\ deleteInMemory(k)

DeleteFails(k) ==
    /\ mounts[k] # None
    /\ \/ "early" \in Faults /\ UNCHANGED files
       \/ "late" \in Faults /\ files' = [files EXCEPT ![k] = None]
    /\ UNCHANGED <<mounts, byPod>>

-----------------------------------------------------------------------------
(* The store by itself, under callers that put and delete anything.        *)

\* A version 1 file, as an earlier release left it.
LegacyRecord(p, r, c) ==
    [pod |-> p, req |-> r, root |-> FALSE, fp |-> NoKey, cid |-> c,
     legacy |-> TRUE]

StoreInit ==
    /\ files \in [Keys -> {None} \cup
                  {LegacyRecord(p, r, 1) : p \in Pods, r \in Requests}]
    /\ mounts = [k \in Keys |-> Loaded(files[k])]
    /\ byPod = [p \in Pods |->
                   {k \in Keys : files[k] # None /\ files[k].pod = p}]

Put(k, r) == PutOK(k, r) \/ PutFails(k, r)
Delete(k) == DeleteOK(k) \/ DeleteFails(k)

StoreNext ==
    \/ \E k \in Keys : Delete(k) \/ \E r \in Records : Put(k, r)
    \/ Load

StoreSpec == StoreInit /\ [][StoreNext]_storeVars

-----------------------------------------------------------------------------
(* Properties.                                                             *)

\* The Pod index lists exactly the records of the map, each under its own
\* Pod: ListForPod (the reconciler's view of an event) misses no record and
\* returns no zero-valued one.
IndexExact ==
    \A p \in Pods, k \in Keys :
        k \in byPod[p] <=> mounts[k] # None /\ mounts[k].pod = p

\* Memory never runs ahead of the disk: whenever the map changes at a key,
\* the file already says what the map says now, except for the legacy flag
\* that version 2 cannot express.  A crash at any moment loses no record
\* whose Put returned nil.
SameOnDisk(m, f) ==
    IF m = None THEN f = None ELSE f # None /\ Written(f) = Written(m)

MemoryFollowsDisk ==
    [][\A k \in Keys :
          mounts'[k] # mounts[k] => SameOnDisk(mounts'[k], files'[k])]_storeVars

=============================================================================
