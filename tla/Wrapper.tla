------------------------------- MODULE Wrapper -------------------------------
(***************************************************************************)
(* The wrapper of one node: HTTP handlers that serve mount and unmount     *)
(* requests (internal/wrapper/server.go), reconciler goroutines that       *)
(* reattach desired mounts after a container restart (reconciler.go), the  *)
(* desired-mount store they share (MountStateStore), and the node and the  *)
(* cluster they act on.                                                    *)
(*                                                                         *)
(* A worker is a goroutine.  Its program counter pc[w] names the step it   *)
(* takes next and job[w] holds its local variables.  Steps end where the   *)
(* code lets others run: at an API call before the target lock, at the     *)
(* lock, and at every store or node operation made under the lock.         *)
(*                                                                         *)
(* The node keeps for every path the stack of mounts in the namespace of   *)
(* the container instance that runs now; a restart discards it.  Only the  *)
(* wrapper mounts at run time; a mount of the Pod spec (Foreign) is there  *)
(* from the start of every instance of its container.                      *)
(*                                                                         *)
(* The kernel follows the symbolic links of a container in the path of a   *)
(* target, and mountinfo shows the path that it arrived at (Place).  The   *)
(* wrapper looks for the path as the request spells it, so it does not     *)
(* recognise what it mounted through a link.  What is said below of mounts *)
(* at a target is said of Straight targets, which no link leads from or    *)
(* to.                                                                     *)
(***************************************************************************)
EXTENDS MountStateStore, Sequences

CONSTANTS
    Handlers,     \* goroutines serving HTTP requests
    Reconcilers,  \* goroutines reconciling: informer callbacks, retry workers
    Stripes,      \* the mutexes of Server.targetLocks
    Stripe,       \* key -> its mutex (the FNV hash of the key, modulo 128)
    PodOf,        \* key -> its Pod
    Place,        \* key -> the key that spells where its path ends up
    Foreign       \* a mount layer that the Pod spec put there

\* Members of Faults used here: "crash" (the process dies), "rotate" (it
\* restarts under another export-root key), "node" (a node operation fails),
\* "pv" (somebody edits a PV), "legacy" (version 1 state at the start).

Workers == Handlers \cup Reconcilers

\* A mount layer that the wrapper attached: its request, whether its source is
\* the NFS export root, and the fingerprint that authorised it.
OwnLayers == [req : Requests, root : BOOLEAN, fp : Fingerprints]
Layers == OwnLayers \cup {Foreign}

\* Local variables of a worker: the target, the (desired) request, its root
\* classification and fingerprint, the container id that the worker read from
\* the Pod (NoContainer: the Pod is gone), the record it found or saw, and
\* the export-root key of the request, where the decision looked at it.
Jobs == [key : Keys, req : Requests, root : BOOLEAN, fp : Fingerprints,
         cid : NoContainer..MaxGen, prev : Records \cup {None},
         shown : Fingerprints]

ASSUME WrapperAssumption ==
    /\ Handlers \cap Reconcilers = {}
    /\ Stripe \in [Keys -> Stripes]
    /\ PodOf \in [Keys -> Pods]
    /\ Place \in [Keys -> Keys]
    /\ \A k \in Keys : Place[Place[k]] = Place[k] /\ PodOf[Place[k]] = PodOf[k]
    /\ Foreign \notin OwnLayers
    /\ None \notin Workers
    /\ None \notin Jobs

\* Targets without symbolic links: only their own path leads to their place.
Straight == {k \in Keys : \A i \in Keys : Place[i] = k <=> i = k}

VARIABLES
    pc,           \* worker -> next step
    job,          \* worker -> its local variables, or None
    lock,         \* mutex -> its holder, or None
    gen,          \* Pod -> the container instance that runs
    status,       \* Pod -> the instance its API status shows
    present,      \* Pod -> it exists, is not terminal, and is on this node
    stack,        \* key -> mounts at this very path in the running instance
    spec,         \* the paths that the Pod spec itself mounts
    pvOK,         \* PV -> driver and annotations admit the Pods
    pvRoot,       \* PV -> its NFS directory is the export root
    exportKey     \* the configured export-root key, or NoKey

workers == <<pc, job, lock>>
cluster == <<gen, status, present, spec, pvOK, pvRoot, exportKey>>
vars == <<storeVars, workers, cluster, stack>>

Done == {"idle", "ok", "failed"}

\* Steps taken while holding the target lock.
Critical == {"mount_probe", "mount_intent", "node_check", "node_attach",
             "record", "restore", "unmount_probe", "unmount_node",
             "reconcile_probe"}

Waiting == {"mount_lock", "unmount_lock", "reconcile_lock", "stale"}

WorkerTypeOK ==
    /\ pc \in [Workers -> Done \cup Critical \cup Waiting]
    /\ job \in [Workers -> Jobs \cup {None}]
    /\ \A w \in Workers :
          /\ job[w] = None <=> pc[w] \in Done
          /\ pc[w] = "mount_probe" => job[w].prev # None
    /\ lock \in [Stripes -> Workers \cup {None}]

ClusterTypeOK ==
    /\ gen \in [Pods -> 1..MaxGen]
    /\ status \in [Pods -> 1..MaxGen]
    /\ present \in [Pods -> BOOLEAN]
    /\ stack \in [Keys -> Seq(Layers)]
    /\ spec \in SUBSET Keys
    /\ pvOK \in [PVs -> BOOLEAN]
    /\ pvRoot \in [PVs -> BOOLEAN]
    /\ exportKey \in Fingerprints

\* The types of all variables; a worker has local variables exactly while it
\* works, and a mount that probes has found a record.
TypeOK == StoreTypeOK /\ WorkerTypeOK /\ ClusterTypeOK

-----------------------------------------------------------------------------
(* What the code reads and decides.                                        *)

Idle(w) == pc[w] \in Done

\* authorizePod and validatePodNode: the token belongs to the Pod of target k,
\* which exists with the same UID, has not ended, and is on this node.
AuthorizesPod(k) == present[PodOf[k]]

\* authorizePVForPod and buildMountPlan: driver, allowlists and attributes.
AuthorizesPV(r) == pvOK[r.pv]

\* node.IsNFSExportRoot of the plan of request r.
IsExportRoot(r) == pvRoot[r.pv] /\ r.sub = NoSubPath

\* exportRootAuthorizer.authorize: is the provided key good enough, and the
\* fingerprint that the intent records, which is the configured key's.
NeedsKey(r) == IsExportRoot(r) /\ exportKey # NoKey
AnyKeyAccepted(r, provided) == NeedsKey(r) => provided # NoKey
KeyAccepted(r, provided) == NeedsKey(r) => provided = exportKey
AuthorizedFingerprint(r) == IF IsExportRoot(r) THEN exportKey ELSE NoKey

\* exportRootAuthorizer.authorizesFingerprint.
AuthorizesFingerprint(fp) == exportKey # NoKey /\ fp # NoKey /\ fp = exportKey

\* findContainerPID finds a process of instance c of the target's container.
Running(k, c) == present[PodOf[k]] /\ gen[PodOf[k]] = c

\* isMountPoint in the namespace of that instance: a mount at this very path,
\* not at the place that the path ends up at.
IsMountPoint(k) == stack[k] # <<>>

UnlockedTarget(w, k) == TRUE
LockFree(w, k) == lock[Stripe[k]] = None

\* The record that mount writes before it touches the node.
DesiredTooEarly(j) ==
    [pod |-> PodOf[j.key], req |-> j.req, root |-> j.root, fp |-> j.fp,
     cid |-> j.cid, legacy |-> FALSE]
Desired(j) ==
    [pod |-> PodOf[j.key], req |-> j.req, root |-> j.root, fp |-> j.fp,
     cid |-> NoContainer, legacy |-> FALSE]

\* The record after a successful Mount, with the container that has it.
Installed(j) == [Desired(j) EXCEPT !.cid = j.cid]

\* The existing record rejects the request that asks for something else.
NeverConflicts(prev, j) == FALSE
Conflicts(prev, j) == prev # None /\ (prev.req # j.req \/ prev.root # j.root)

\* The request repeats what the record already says of this container, or of
\* no container yet.  The record has the same intent by then.
RepeatsZeroValue(prev, j) ==
    prev = None \/ prev.cid \in {NoContainer, j.cid}
Repeats(prev, j) == prev # None /\ prev.cid \in {NoContainer, j.cid}

-----------------------------------------------------------------------------
(* Control of a worker.                                                    *)

\* A mutex that was copied out of Server.targetLocks locks nobody out.
AcquireCopy(w, k) == UNCHANGED lock
Acquire(w, k) == lock' = [lock EXCEPT ![Stripe[k]] = w]
Goto(w, step) == pc' = [pc EXCEPT ![w] = step] /\ UNCHANGED <<job, lock>>

\* The worker answers and releases the target lock if it holds it.
Answer(w, result) ==
    /\ pc' = [pc EXCEPT ![w] = IF w \in Handlers THEN result ELSE "idle"]
    /\ job' = [job EXCEPT ![w] = None]

Unlock(w, result) ==
    /\ Answer(w, result)
    /\ lock' = [lock EXCEPT ![Stripe[job[w].key]] = None]

\* Answer in the step that acquired the lock.
Reply(w, result) == Answer(w, result) /\ UNCHANGED lock

-----------------------------------------------------------------------------
(* Mount requests.                                                         *)

\* Before the lock: token review, Pod, PV and export-root key, and the
\* container id of the plan.  Any of these can refuse.
MountAuthorize(w, k, r, provided) ==
    /\ w \in Handlers /\ Idle(w)
    /\ \/ /\ AuthorizesPod(k) /\ AuthorizesPV(r) /\ KeyAccepted(r, provided)
          /\ pc' = [pc EXCEPT ![w] = "mount_lock"]
          /\ job' = [job EXCEPT ![w] =
                [key |-> k, req |-> r, root |-> IsExportRoot(r),
                 fp |-> AuthorizedFingerprint(r), cid |-> status[PodOf[k]],
                 prev |-> None,
                 shown |-> IF NeedsKey(r) THEN provided ELSE NoKey]]
       \/ pc' = [pc EXCEPT ![w] = "failed"] /\ UNCHANGED job
    /\ UNCHANGED <<storeVars, lock, cluster, stack>>

\* With the lock: Get, the two rejections, the refresh of the fingerprint.
MountAdmit(w) ==
    LET j == job[w]
        k == j.key
        prev == mounts[k]
        kept == IF prev = None THEN None ELSE [prev EXCEPT !.fp = j.fp]
        refresh == prev # kept
        proceed == /\ Acquire(w, k)
                   /\ job' = [job EXCEPT ![w].prev = kept]
                   /\ pc' = [pc EXCEPT ![w] =
                        IF Repeats(prev, j) THEN "mount_probe"
                        ELSE "mount_intent"]
    IN /\ pc[w] = "mount_lock" /\ LockFree(w, k)
       /\ \/ Conflicts(prev, j) /\ Reply(w, "failed") /\ UNCHANGED storeVars
          \/ ~Conflicts(prev, j) /\ ~refresh /\ proceed /\ UNCHANGED storeVars
          \/ ~Conflicts(prev, j) /\ refresh /\ PutOK(k, kept) /\ proceed
          \/ /\ ~Conflicts(prev, j) /\ refresh /\ PutFails(k, kept)
             /\ Reply(w, "failed")
       /\ UNCHANGED <<cluster, stack>>

\* The same intent again: IsMounted, and the container id is adopted.
MountProbe(w) ==
    LET j == job[w]
        k == j.key
        adopted == [j.prev EXCEPT !.cid = j.cid]
    IN /\ pc[w] = "mount_probe"
       /\ \/ /\ Running(k, j.cid) /\ IsMountPoint(k)
             /\ IF j.prev = adopted THEN Unlock(w, "ok") /\ UNCHANGED storeVars
                ELSE \/ PutOK(k, adopted) /\ Unlock(w, "ok")
                     \/ PutFails(k, adopted) /\ Unlock(w, "failed")
          \/ /\ Running(k, j.cid) /\ ~IsMountPoint(k)
             /\ Goto(w, "mount_intent") /\ UNCHANGED storeVars
          \/ /\ ~Running(k, j.cid) \/ "node" \in Faults
             /\ Unlock(w, "failed") /\ UNCHANGED storeVars
       /\ UNCHANGED <<cluster, stack>>

\* Put(desired), before the node operation.
MountIntent(w) ==
    /\ pc[w] = "mount_intent"
    /\ \/ PutOK(job[w].key, Desired(job[w])) /\ Goto(w, "node_check")
       \/ PutFails(job[w].key, Desired(job[w])) /\ Unlock(w, "failed")
    /\ UNCHANGED <<cluster, stack>>

\* restoreDesiredMount, after a failed node operation of mount or unmount.
MountRestoreForgotten(w) ==
    /\ pc[w] = "restore" /\ Unlock(w, "failed")
    /\ UNCHANGED <<storeVars, cluster, stack>>
MountRestore(w) ==
    LET j == job[w]
    IN /\ pc[w] = "restore"
       /\ IF j.prev # None THEN Put(j.key, j.prev) ELSE Delete(j.key)
       /\ Unlock(w, "failed")
       /\ UNCHANGED <<cluster, stack>>

-----------------------------------------------------------------------------
(* linuxMounter.Mount, called by handlers and by reconcilers.              *)

NodeFailsRetrying(w) == Goto(w, "node_check")
NodeFails(w) ==
    IF w \in Handlers THEN Goto(w, "restore") ELSE Unlock(w, "failed")

\* Staging, findContainerPID, and the check that nothing is mounted there.
NodeCheck(w) ==
    LET j == job[w]
    IN /\ pc[w] = "node_check"
       /\ \/ /\ Running(j.key, j.cid) /\ ~IsMountPoint(j.key)
             /\ Goto(w, "node_attach")
          \/ /\ ~Running(j.key, j.cid) \/ IsMountPoint(j.key)
                                       \/ "node" \in Faults
             /\ NodeFails(w)
       /\ UNCHANGED <<storeVars, cluster, stack>>

\* The key behind the mount that w attaches: the one that the request showed,
\* or the one whose fingerprint was persisted.
KeyBehind(w) == IF w \in Handlers THEN job[w].shown ELSE job[w].fp

\* move_mount into the namespace, onto what the path of the target leads to.
\* When the container died since the check, the call fails or it mounts into a
\* namespace that no process uses.
NodeAttach(w) ==
    LET j == job[w]
        layer == [req |-> j.req, root |-> j.root, fp |-> KeyBehind(w)]
    IN /\ pc[w] = "node_attach"
       /\ \/ /\ Running(j.key, j.cid)
             /\ stack' = [stack EXCEPT ![Place[j.key]] = <<layer>> \o @]
             /\ Goto(w, "record")
          \/ /\ ~Running(j.key, j.cid)
             /\ Goto(w, "record") /\ UNCHANGED stack
          \/ /\ ~Running(j.key, j.cid) \/ "node" \in Faults
             /\ NodeFails(w) /\ UNCHANGED stack
       /\ UNCHANGED <<storeVars, cluster>>

\* Put with the container id.  A handler only logs the failure of this Put.
Record(w) ==
    LET j == job[w]
    IN /\ pc[w] = "record"
       /\ Put(j.key, Installed(j))
       /\ Unlock(w, "ok")
       /\ UNCHANGED <<cluster, stack>>

-----------------------------------------------------------------------------
(* Unmount requests.                                                       *)

\* Before the lock: token review, Pod and the live container id.  The PV is
\* not read.
UnmountAuthorize(w, k, v) ==
    /\ w \in Handlers /\ Idle(w)
    /\ \/ /\ AuthorizesPod(k)
          /\ pc' = [pc EXCEPT ![w] = "unmount_lock"]
          /\ job' = [job EXCEPT ![w] =
                [key |-> k, req |-> [pv |-> v, sub |-> NoSubPath], root |-> FALSE,
                 fp |-> NoKey, cid |-> status[PodOf[k]], prev |-> None,
                 shown |-> NoKey]]
       \/ pc' = [pc EXCEPT ![w] = "failed"] /\ UNCHANGED job
    /\ UNCHANGED <<storeVars, lock, cluster, stack>>

\* With the lock: an unknown target succeeds, another PV is refused, and the
\* record is deleted; the node is touched only when the record names the
\* container that the handler saw.
UnmountAdmit(w) ==
    LET j == job[w]
        k == j.key
        prev == mounts[k]
        other == prev # None /\ prev.req.pv # j.req.pv
        sameContainer == prev.cid # NoContainer /\ prev.cid = j.cid
    IN /\ pc[w] = "unmount_lock" /\ LockFree(w, k)
       /\ \/ prev = None /\ Reply(w, "ok") /\ UNCHANGED storeVars
          \/ other /\ Reply(w, "failed") /\ UNCHANGED storeVars
          \/ /\ prev # None /\ ~other /\ DeleteOK(k)
             /\ IF sameContainer
                THEN /\ Acquire(w, k)
                     /\ job' = [job EXCEPT ![w].prev = prev]
                     /\ pc' = [pc EXCEPT ![w] = "unmount_probe"]
                ELSE Reply(w, "ok")
          \/ prev # None /\ ~other /\ DeleteFails(k) /\ Reply(w, "failed")
       /\ UNCHANGED <<cluster, stack>>

\* IsMounted before Unmount.
UnmountProbe(w) ==
    LET j == job[w]
    IN /\ pc[w] = "unmount_probe"
       /\ \/ Running(j.key, j.cid) /\ ~IsMountPoint(j.key) /\ Unlock(w, "ok")
          \/ /\ Running(j.key, j.cid) /\ IsMountPoint(j.key)
             /\ Goto(w, "unmount_node")
          \/ /\ ~Running(j.key, j.cid) \/ "node" \in Faults
             /\ Goto(w, "restore")
       /\ UNCHANGED <<storeVars, cluster, stack>>

\* linuxMounter.Unmount looks for a mount point again and removes the topmost
\* mount.  When the container dies meanwhile, the call fails or it unmounts in
\* a namespace nobody uses.
UnmountNode(w) ==
    LET j == job[w]
    IN /\ pc[w] = "unmount_node"
       /\ \/ /\ Running(j.key, j.cid) /\ IsMountPoint(j.key)
             /\ stack' = [stack EXCEPT ![j.key] = Tail(@)]
             /\ Unlock(w, "ok")
          \/ /\ ~Running(j.key, j.cid)
             /\ Unlock(w, "ok") /\ UNCHANGED stack
          \/ /\ ~Running(j.key, j.cid) \/ "node" \in Faults
             /\ Goto(w, "restore") /\ UNCHANGED stack
       /\ UNCHANGED <<storeVars, cluster>>

-----------------------------------------------------------------------------
(* Reconciliation.                                                         *)

\* A reconciler takes up record mounts[k] with the container instance v that
\* its copy of the Pod shows; NoContainer: the copy is terminal or moved.
Observe(w, k, v, step) ==
    /\ w \in Reconcilers /\ Idle(w) /\ mounts[k] # None
    /\ pc' = [pc EXCEPT ![w] = step]
    /\ job' = [job EXCEPT ![w] =
          [key |-> k, req |-> mounts[k].req, root |-> mounts[k].root,
           fp |-> mounts[k].fp, cid |-> v, prev |-> mounts[k],
           shown |-> NoKey]]
    /\ UNCHANGED <<storeVars, lock, cluster, stack>>

\* Container instances that a Pod copy of the informer can show, and what a
\* live GetPod shows.
CachedViews(p) == 1..status[p] \cup (IF present[p] THEN {} ELSE {NoContainer})
LiveView(p) == IF present[p] THEN status[p] ELSE NoContainer

\* A Pod event: ListForPod through the index, the Pod copy of the event.  A
\* DELETED event goes straight to the removal of the record.
ReconcilePodEvent(w, p, k) ==
    /\ k \in byPod[p]
    /\ \/ \E v \in CachedViews(p) : Observe(w, k, v, "reconcile_lock")
       \/ ~present[p] /\ Observe(w, k, NoContainer, "stale")

\* The informer's first list: every record, with the listed Pod or, when the
\* Pod is missing from the list, with a live read.
ReconcilePodSnapshot(w, k) ==
    \/ \E v \in CachedViews(PodOf[k]) : Observe(w, k, v, "reconcile_lock")
    \/ ~present[PodOf[k]] /\ Observe(w, k, NoContainer, "stale")

\* A retry worker: Get, then a live read of the Pod (reconcileMount).
ReconcileRetry(w, k) ==
    \/ Observe(w, k, LiveView(PodOf[k]), "reconcile_lock")
    \/ ~present[PodOf[k]] /\ Observe(w, k, NoContainer, "stale")

\* The record changed since the reconciler saw it.
NeverSuperseded(j) == FALSE
Superseded(j) == mounts[j.key] = None \/ mounts[j.key] # j.prev

\* The export-root policy on a persisted record.
PolicyAdmits(rec) ==
    LET root == IsExportRoot(rec.req)
    IN IF rec.legacy THEN ~(root /\ exportKey # NoKey)
       ELSE /\ rec.root = root
            /\ root /\ exportKey # NoKey => AuthorizesFingerprint(rec.fp)

\* reconcileMountForPod up to the node operations.  It ends there when the
\* record changed, is up to date or is refused, and also when the Pod copy
\* shows no container id or the PV cannot be read.
ReconcileAdmit(w) ==
    LET j == job[w]
        k == j.key
        root == IsExportRoot(j.req)
        fp == IF root /\ exportKey # NoKey THEN j.prev.fp ELSE NoKey
        gone == j.cid = NoContainer
        upToDate == ~gone /\ j.prev.cid = j.cid
        admitted == AuthorizesPV(j.req) /\ PolicyAdmits(j.prev)
    IN /\ pc[w] = "reconcile_lock" /\ LockFree(w, k)
       /\ \/ /\ Superseded(j) \/ ~gone
             /\ Reply(w, "idle")
          \/ /\ ~Superseded(j) /\ gone
             /\ Goto(w, "stale")
          \/ /\ ~Superseded(j) /\ ~gone /\ ~upToDate /\ admitted
             /\ Acquire(w, k)
             /\ job' = [job EXCEPT ![w].root = root, ![w].fp = fp]
             /\ pc' = [pc EXCEPT ![w] = IF j.prev.cid = NoContainer
                                        THEN "reconcile_probe"
                                        ELSE "node_check"]
       /\ UNCHANGED <<storeVars, cluster, stack>>

\* A record without container id: IsMounted, and the mount is adopted.
ReconcileProbe(w) ==
    LET j == job[w]
    IN /\ pc[w] = "reconcile_probe"
       /\ \/ /\ Running(j.key, j.cid) /\ IsMountPoint(j.key)
             /\ Put(j.key, Installed(j)) /\ Unlock(w, "idle")
          \/ /\ Running(j.key, j.cid) /\ ~IsMountPoint(j.key)
             /\ Goto(w, "node_check") /\ UNCHANGED storeVars
          \/ /\ ~Running(j.key, j.cid) \/ "node" \in Faults
             /\ Unlock(w, "idle") /\ UNCHANGED storeVars
       /\ UNCHANGED <<cluster, stack>>

\* handleReconcileResult for a stale record: lock, compare, delete, unlock.
ReconcileStale(w) ==
    LET j == job[w]
    IN /\ pc[w] = "stale" /\ LockFree(w, j.key)
       /\ IF Superseded(j) THEN UNCHANGED storeVars ELSE Delete(j.key)
       /\ Reply(w, "idle")
       /\ UNCHANGED <<cluster, stack>>

-----------------------------------------------------------------------------
(* The cluster and the process.                                            *)

\* The mounts a fresh instance of the container of key k starts with.
FreshStack(k) == IF k \in spec THEN <<Foreign>> ELSE <<>>

RestartContainer(p) ==
    /\ present[p] /\ gen[p] < MaxGen
    /\ gen' = [gen EXCEPT ![p] = @ + 1]
    /\ stack' = [k \in Keys |-> IF PodOf[k] = p THEN FreshStack(k) ELSE stack[k]]
    /\ UNCHANGED <<storeVars, workers, status, present, spec, pvOK, pvRoot,
                   exportKey>>

PublishStatus(p) ==
    /\ present[p] /\ status[p] # gen[p]
    /\ status' = [status EXCEPT ![p] = gen[p]]
    /\ UNCHANGED <<storeVars, workers, gen, present, spec, pvOK, pvRoot,
                   exportKey, stack>>

DeletePod(p) ==
    /\ present[p]
    /\ present' = [present EXCEPT ![p] = FALSE]
    /\ stack' = [k \in Keys |-> IF PodOf[k] = p THEN <<>> ELSE stack[k]]
    /\ UNCHANGED <<storeVars, workers, gen, status, spec, pvOK, pvRoot,
                   exportKey>>

AlterPV(v) ==
    /\ "pv" \in Faults
    /\ \E ok, root \in BOOLEAN :
          /\ pvOK' = [pvOK EXCEPT ![v] = ok]
          /\ pvRoot' = [pvRoot EXCEPT ![v] = root]
    /\ UNCHANGED <<storeVars, workers, gen, status, present, spec, exportKey,
                   stack>>

\* The process dies and starts again: goroutines and locks are gone, the
\* store is loaded from the files, the export-root key is read again.
Crash ==
    /\ "crash" \in Faults
    /\ pc' = [w \in Workers |-> "idle"]
    /\ job' = [w \in Workers |-> None]
    /\ lock' = [s \in Stripes |-> None]
    /\ Load
    /\ exportKey' \in IF "rotate" \in Faults THEN Fingerprints ELSE {exportKey}
    /\ UNCHANGED <<gen, status, present, spec, pvOK, pvRoot, stack>>

-----------------------------------------------------------------------------

\* A target that an earlier release mounted in instance 1 and recorded in a
\* version 1 file, by a path without links.
Upgraded(k, r) ==
    /\ Place[k] = k
    /\ files[k] = LegacyRecord(PodOf[k], r, 1)
    /\ k \notin spec
    /\ stack[k] = <<[req |-> r, root |-> IsExportRoot(r), fp |-> NoKey]>>

Init ==
    /\ pc = [w \in Workers |-> "idle"]
    /\ job = [w \in Workers |-> None]
    /\ lock = [s \in Stripes |-> None]
    /\ gen = [p \in Pods |-> 1]
    /\ status = [p \in Pods |-> 1]
    /\ present = [p \in Pods |-> TRUE]
    /\ spec \in SUBSET {k \in Keys : Place[k] = k}
    /\ pvOK = [v \in PVs |-> TRUE]
    /\ pvRoot \in [PVs -> BOOLEAN]
    /\ exportKey \in Fingerprints
    /\ files \in [Keys -> {None} \cup
                  {LegacyRecord(p, r, 1) : p \in Pods, r \in Requests}]
    /\ stack \in [Keys -> {<<>>, <<Foreign>>} \cup {<<l>> : l \in OwnLayers}]
    /\ \A k \in Keys :
          \/ files[k] = None /\ stack[k] = FreshStack(k)
          \/ "legacy" \in Faults /\ \E r \in Requests : Upgraded(k, r)
    /\ mounts = [k \in Keys |-> Loaded(files[k])]
    /\ byPod = [p \in Pods |->
                   {k \in Keys : files[k] # None /\ files[k].pod = p}]

\* A new piece of work for a worker.
Begin(w) ==
    \E k \in Keys :
        \/ \E r \in Requests, provided \in Fingerprints :
              MountAuthorize(w, k, r, provided)
        \/ \E v \in PVs : UnmountAuthorize(w, k, v)
        \/ \E p \in Pods : ReconcilePodEvent(w, p, k)
        \/ ReconcilePodSnapshot(w, k)
        \/ ReconcileRetry(w, k)

\* A worker gets the target lock.
Enter(w) == MountAdmit(w) \/ UnmountAdmit(w) \/ ReconcileAdmit(w) \/ ReconcileStale(w)

\* A worker goes on under the target lock.
Advance(w) ==
    \/ MountProbe(w) \/ MountIntent(w) \/ MountRestore(w)
    \/ NodeCheck(w) \/ NodeAttach(w) \/ Record(w)
    \/ UnmountProbe(w) \/ UnmountNode(w)
    \/ ReconcileProbe(w)

Environment ==
    \/ \E p \in Pods : RestartContainer(p) \/ PublishStatus(p) \/ DeletePod(p)
    \/ \E v \in PVs : AlterPV(v)
    \/ Crash

Next ==
    \/ \E w \in Workers : Begin(w) \/ Enter(w) \/ Advance(w)
    \/ Environment

Spec == Init /\ [][Next]_vars

\* Node and store operations return (a request context bounds them), and
\* sync.Mutex lets no waiter starve: after 1 ms it is handed over in order.
Fairness == \A w \in Workers : WF_vars(Advance(w)) /\ SF_vars(Enter(w))

FairSpec == Spec /\ Fairness

-----------------------------------------------------------------------------
(* Properties that every behaviour has, crashes and failures included.     *)

\* A record that names the running container instance, in memory or on disk,
\* describes a target that is mounted there.  mount and reconcile write the
\* id only after Mount succeeded, unmount deletes the record first, and a
\* crash between any two of these steps keeps the claim: reconciliation skips
\* a record with the right id, so a false one would never be repaired.
RecordedMeansMounted ==
    \A k \in Straight : \A rec \in {mounts[k], files[k]} :
        /\ rec # None
        /\ Running(k, rec.cid)
        => IsMountPoint(k)

\* No target that is free of symbolic links ever carries two mounts: the check
\* for a mount point and the attach that follows it are two system calls, and
\* only the target lock keeps retries, concurrent requests and the reconciler
\* from stacking.
NeverStacks == \A k \in Straight : Len(stack[k]) <= 1

\* A registered target is never silently switched to another PV or sub-path:
\* as long as there is a record, in memory across restarts too, it keeps its
\* request ("unmount it first").
IntentStable ==
    [][\A k \in Keys :
          mounts[k] # None /\ mounts'[k] # None
          => mounts'[k].req = mounts[k].req]_vars

\* The layer that a step puts on top of target k, if it puts one there.
Attached(k) == Len(stack'[k]) > Len(stack[k]) /\ gen'[PodOf[k]] = gen[PodOf[k]]

\* While an export-root key is configured, no mount of an export root is
\* attached unless that very key authorised it: a request showed it, or its
\* fingerprint was persisted, before restarts and key rotations.
RootMountsKeyed ==
    [][\A k \in Keys :
          /\ Attached(k)
          /\ Head(stack'[k]).root
          /\ exportKey # NoKey
          => Head(stack'[k]).fp = exportKey]_vars

\* A mount is attached only while a target that leads there is registered with
\* the same request, in memory: no unmount, stale-record removal or other
\* mount took the record away between the decision and the system call.
AttachHasIntent ==
    [][\A k \in Keys :
          Attached(k) => \E i \in Keys :
                            /\ Place[i] = k /\ mounts[i] # None
                            /\ mounts[i].req = Head(stack'[k]).req]_vars

\* Every request gets its answer: no worker keeps a target lock for ever and
\* no waiter is passed over for ever.
EveryRequestAnswered == \A w \in Handlers : ~Idle(w) ~> Idle(w)

-----------------------------------------------------------------------------
(* Properties of a process that neither crashes nor fails to write state.  *)

\* The record of a mounted target tells what is mounted there: the topmost
\* mount is the wrapper's own, with the request of the record.
RecordNamesSource ==
    \A k \in Straight :
        mounts[k] # None /\ Running(k, mounts[k].cid)
        => stack[k] # <<>> /\ stack[k][1] # Foreign
                           /\ stack[k][1].req = mounts[k].req

\* A mount that the Pod spec put at a target stays there for the life of the
\* container instance: the wrapper neither adopts nor unmounts it.
ForeignUntouched ==
    [][\A k \in spec \cap Straight :
          /\ present'[PodOf[k]]
          /\ gen'[PodOf[k]] = gen[PodOf[k]]
          => stack'[k] = stack[k]]_vars

-----------------------------------------------------------------------------
(* The inductive invariant behind RecordedMeansMounted and NeverStacks.     *)

\* A record is truthful about target k: it belongs to the Pod of k, it is not
\* from the future, and if it names the running container instance, the
\* target is mounted there, unless there are symbolic links.
Truthful(k, rec) ==
    rec # None => /\ rec.pod = PodOf[k]
                  /\ rec.cid <= gen[PodOf[k]]
                  /\ k \in Straight /\ Running(k, rec.cid) => IsMountPoint(k)

\* What a worker knows about its own target.  It holds the lock in its
\* critical steps; container ids it read are never from the future; the
\* record it would restore is as truthful as a saved one; before it attaches
\* there is nothing at the target, afterwards there is something; and while
\* it unmounts there is no record left that the unmount could falsify.
WorkerInv(w) ==
    pc[w] \notin Done =>
    LET j == job[w]
        k == j.key
    IN /\ j.cid <= gen[PodOf[k]]
       /\ j.prev # None => j.prev.cid <= gen[PodOf[k]]
       /\ pc[w] \in Critical => lock[Stripe[k]] = w /\ Truthful(k, j.prev)
       /\ pc[w] = "node_attach" /\ k \in Straight /\ Running(k, j.cid)
          => ~IsMountPoint(k)
       /\ pc[w] = "record" /\ k \in Straight /\ Running(k, j.cid)
          => IsMountPoint(k)
       /\ pc[w] \in {"unmount_probe", "unmount_node"}
          => mounts[k] = None /\ files[k] = None

\* What holds of every target.
TargetInv(k) ==
    /\ k \in Straight => Len(stack[k]) <= 1
    /\ Truthful(k, mounts[k]) /\ Truthful(k, files[k])

\* Target locks work across crashes, restarts and failed writes: every worker
\* inside a critical section is the only one that can change its target, so
\* what it read there stays true until it acts on it.
Inv ==
    /\ TypeOK
    /\ IndexExact
    /\ \A p \in Pods : status[p] <= gen[p]
    /\ \A w \in Workers : WorkerInv(w)
    /\ \A k \in Keys : TargetInv(k)

-----------------------------------------------------------------------------
(* What the documentation says and the code does not always do.            *)

\* docs/security-model.md:52, a mount "refuses to continue when the target path
\* is already a mount point": nothing is mounted over another mount, by
\* whatever path a target is spelled.
NothingMountedOver == \A k \in Keys : Len(stack[k]) <= 1

\* mounter/client.go:98, "Unmounted reports whether the wrapper completed the
\* unmount": an unmount answered with success leaves no mount of the record
\* that it removed, when that record named the running container.
UnmountedMeansGone ==
    [][\A w \in Handlers, k \in Keys :
          /\ pc[w] = "unmount_lock" /\ pc'[w] = "ok" /\ job[w].key = k
          /\ mounts[k] # None /\ Running(k, mounts[k].cid)
          => stack'[k] = <<>>]_vars

\* docs/sdk.md, the same request repeated handles a lost answer: a repeated
\* mount of a registered target does not fail because its own mount is there.
MountIdempotent ==
    [][\A w \in Handlers :
          /\ pc[w] = "node_check" /\ pc'[w] = "restore"
          /\ job[w].prev # None
          /\ Running(job[w].key, job[w].cid) /\ IsMountPoint(job[w].key)
          => stack[job[w].key][1] = Foreign]_vars

\* docs/security-model.md:254, a failed unmount restores the intent: what it
\* restored is admitted after a restart if it was admitted before.
RestoredIntentSurvives ==
    [][\A w \in Handlers :
          /\ pc[w] = "restore" /\ pc'[w] = "failed"
          /\ job[w].prev # None /\ mounts'[job[w].key] = job[w].prev
          /\ PolicyAdmits(job[w].prev)
          => PolicyAdmits(Loaded(files'[job[w].key]))]_vars

=============================================================================
