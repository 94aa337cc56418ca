----------------------------- MODULE LinuxMounter -----------------------------
(***************************************************************************)
(* linuxMounter.Mount (internal/node/mounter_linux.go), step by step: the  *)
(* NFS source of a PV is mounted at a staging path named after the PV, a   *)
(* clone of that mount is moved to the target, and the staging path is     *)
(* cleaned up again.  A striped lock orders the calls for one PV.  The     *)
(* source belongs to the plan, the staging path only to the PV's name, and *)
(* a PV can be deleted and created again with another source.              *)
(*                                                                         *)
(* Whether a PV is staged is read from /proc/self/mountinfo, which is that *)
(* of the thread-group leader: while another call has the leader inside a  *)
(* container (NamespaceSwitch), the answer is about that container.        *)
(***************************************************************************)
EXTENDS Naturals, Sequences

CONSTANTS
    Callers,      \* goroutines inside Mount
    Targets,      \* places in container namespaces
    PVs,          \* names of PVs
    Sources,      \* NFS directories
    Stripes,      \* the mutexes linuxMounter.stagingLocks
    Stripe,       \* PV -> its mutex
    NoSource,     \* nothing mounted: the bare directory
    NoPlan, None,
    UnstageAfterMount,  \* cfg.UnstageAfterMount
    MaxLayers,    \* bound on the mounts stacked at one staging path
    Faults        \* what may happen, see below

\* "nfs": the mount command fails; "node": other node operations fail; "nosys":
\* the kernel lacks open_tree; "crash": the process dies; "busy": a staging
\* mount cannot be unmounted; "away": mountinfo is that of a container; "read":
\* mountinfo cannot be read.

ASSUME MounterAssumption ==
    /\ Stripe \in [PVs -> Stripes]
    /\ NoSource \notin Sources /\ None \notin Callers
    /\ UnstageAfterMount \in BOOLEAN /\ MaxLayers \in Nat \ {0}

Plans == [target : Targets, pv : PVs, source : Sources]

ASSUME NoPlanAssumption ==
    NoPlan \notin Plans /\ NoPlan \notin [target : Targets, source : Sources]

VARIABLES
    source,       \* PV -> the NFS directory that the API names now
    stage,        \* PV -> mounts at its staging path, the topmost first
    dirs,         \* PVs whose staging directory exists
    warned,       \* PVs that the latest cleanup warned of in the log
    lock,         \* mutex -> its holder
    target,       \* target -> source that is attached there
    pc,           \* caller -> its next step
    plan,         \* caller -> the plan it was called with
    tree,         \* caller -> the mount that its descriptor names
    done          \* callers that attached their plan

node == <<stage, dirs, warned, lock, target>>
vars == <<source, node, pc, plan, tree, done>>

Critical == {"stage", "nfs", "open", "legacy", "check", "attach", "cleanup"}

\* The types of all variables.  A call past Lock is the only one past it for
\* PVs of its mutex.
TypeOK ==
    /\ \A c \in Callers : pc[c] \in Critical => lock[Stripe[plan[c].pv]] = c
    /\ source \in [PVs -> Sources]
    /\ stage \in [PVs -> Seq(Sources)]
    /\ dirs \in SUBSET PVs /\ warned \in SUBSET PVs
    /\ lock \in [Stripes -> Callers \cup {None}]
    /\ target \in [Targets -> Sources \cup {NoSource}]
    /\ pc \in [Callers -> Critical \cup {"idle", "lock"}]
    /\ plan \in [Callers -> Plans \cup {NoPlan}]
    /\ tree \in [Callers -> Sources \cup {NoSource}]
    /\ done \in SUBSET Callers

-----------------------------------------------------------------------------

Goto(c, step) == pc' = [pc EXCEPT ![c] = step]
MayFail(fault) == fault \in Faults

\* Is there a staging mount, what isMountPoint can say of it, and what an open
\* of the staging path reaches.
Staged(v) == stage[v] # <<>>
Seen(v) == IF MayFail("away") THEN BOOLEAN ELSE {Staged(v)}
AtStagingPath(v) == IF Staged(v) THEN Head(stage[v]) ELSE NoSource

\* Mount is called with a plan that was made from the PV of now or of earlier;
\* buildMountPlan copied its attributes.  The caller holds the lock of the
\* target (server.go:155-158), so there is one call for a target at a time.
TargetLocked(t) == \E c \in Callers : plan[c] # NoPlan /\ plan[c].target = t
Call(c, t, v) ==
    /\ pc[c] = "idle" /\ ~TargetLocked(t)
    /\ Goto(c, "lock")
    /\ plan' = [plan EXCEPT ![c] = [target |-> t, pv |-> v, source |-> source[v]]]
    /\ UNCHANGED <<source, node, tree, done>>

\* The checks before the lock refuse: mounting is disabled, the context is done,
\* or the plan lacks the server, the share or the container id.
Refuse(c) ==
    /\ pc[c] = "lock" /\ MayFail("node")
    /\ Goto(c, "idle")
    /\ plan' = [plan EXCEPT ![c] = NoPlan]
    /\ UNCHANGED <<source, node, tree, done>>

\* lock.Lock() on a copy of the mutex keeps nobody out.
LockCopy(c) ==
    /\ pc[c] = "lock"
    /\ Goto(c, "stage")
    /\ UNCHANGED <<source, node, plan, tree, done>>
Lock(c) ==
    LET s == Stripe[plan[c].pv]
    IN /\ pc[c] = "lock" /\ lock[s] = None
       /\ lock' = [lock EXCEPT ![s] = c]
       /\ Goto(c, "stage")
       /\ UNCHANGED <<source, stage, dirs, warned, target, plan, tree, done>>

\* MkdirAll, and the check whether the PV is staged already.
Stage(c) ==
    LET v == plan[c].pv
    IN /\ pc[c] = "stage"
       /\ \/ /\ dirs' = dirs \cup {v}
             /\ \E mounted \in Seen(v) : Goto(c, IF mounted THEN "open" ELSE "nfs")
          \/ MayFail("read") /\ Goto(c, "cleanup") /\ dirs' = dirs \cup {v}
          \/ MayFail("node") /\ Goto(c, "cleanup") /\ UNCHANGED dirs
       /\ UNCHANGED <<source, stage, warned, lock, target, plan, tree, done>>

\* mountNFS.  The request context can kill the command after it mounted.
MountNFS(c) ==
    LET v == plan[c].pv
        room == Len(stage[v]) < MaxLayers
        mounted == room /\ stage' = [stage EXCEPT ![v] = <<plan[c].source>> \o @]
    IN /\ pc[c] = "nfs"
       /\ \/ mounted /\ Goto(c, "open")
          \/ MayFail("nfs") /\ mounted /\ Goto(c, "cleanup")
          \/ (MayFail("nfs") \/ ~room) /\ UNCHANGED stage /\ Goto(c, "cleanup")
       /\ UNCHANGED <<source, dirs, warned, lock, target, plan, tree, done>>

\* findContainerPID, then open_tree of the staging path or of the sub-path
\* below it.  A kernel without open_tree makes Mount fall back; move_mount came
\* with the same kernel.
OpenTree(c) ==
    /\ pc[c] = "open"
    /\ \/ /\ tree' = [tree EXCEPT ![c] = AtStagingPath(plan[c].pv)]
          /\ Goto(c, "check")
       \/ MayFail("nosys") /\ Goto(c, "legacy") /\ UNCHANGED tree
       \/ MayFail("node") /\ Goto(c, "cleanup") /\ UNCHANGED tree
    /\ UNCHANGED <<source, node, plan, done>>

\* openLegacyMountSource: a descriptor of the directory instead of a clone.
OpenLegacy(c) ==
    /\ pc[c] = "legacy"
    /\ \/ /\ tree' = [tree EXCEPT ![c] = AtStagingPath(plan[c].pv)]
          /\ Goto(c, "check")
       \/ MayFail("node") /\ Goto(c, "cleanup") /\ UNCHANGED tree
    /\ UNCHANGED <<source, node, plan, done>>

\* moveMountIntoContainerNamespace or legacyBindMountIntoContainerNamespace,
\* up to the second check of the target: it must not be a mount point.
CheckTargetForgotten(c) ==
    /\ pc[c] = "check"
    /\ Goto(c, "attach")
    /\ UNCHANGED <<source, node, plan, tree, done>>
CheckTarget(c) ==
    /\ pc[c] = "check"
    /\ \/ /\ target[plan[c].target] = NoSource
          /\ Goto(c, "attach") /\ UNCHANGED tree
       \/ /\ target[plan[c].target] # NoSource \/ MayFail("node")
          /\ Goto(c, "cleanup") /\ tree' = [tree EXCEPT ![c] = NoSource]
    /\ UNCHANGED <<source, node, plan, done>>

\* The namespace switch and move_mount or mount, which do not care whether
\* something is mounted at the target by then.
Attach(c) ==
    /\ pc[c] = "attach"
    /\ \/ /\ target' = [target EXCEPT ![plan[c].target] = tree[c]]
          /\ done' = done \cup {c}
       \/ MayFail("node") /\ UNCHANGED <<target, done>>
    /\ tree' = [tree EXCEPT ![c] = NoSource]
    /\ Goto(c, "cleanup")
    /\ UNCHANGED <<source, stage, dirs, warned, lock, plan>>

\* cleanupStagingPath: probe, unmount, remove.  The directory can be removed
\* when nothing is mounted there any more.  It warns when mountinfo cannot be
\* read, the mount is busy or not there, or the directory has to stay.
RemoveStagingDir(v) ==
    IF stage'[v] = <<>> THEN dirs' = dirs \ {v} /\ warned' = warned \ {v}
    ELSE warned' = warned \cup {v} /\ UNCHANGED dirs
CleanupFails(v) == warned' = warned \cup {v} /\ UNCHANGED <<stage, dirs>>
CleanedUpQuietly(v) ==
    /\ \/ Staged(v) /\ stage' = [stage EXCEPT ![v] = Tail(@)]
       \/ ~Staged(v) /\ UNCHANGED stage
    /\ dirs' = IF stage'[v] = <<>> THEN dirs \ {v} ELSE dirs
    /\ warned' = warned \ {v}
CleanedUp(v) ==
    \/ \E mounted \in Seen(v) :
          \/ mounted /\ Staged(v) /\ stage' = [stage EXCEPT ![v] = Tail(@)]
             /\ RemoveStagingDir(v)
          \/ mounted /\ (~Staged(v) \/ MayFail("busy")) /\ CleanupFails(v)
          \/ ~mounted /\ UNCHANGED stage /\ RemoveStagingDir(v)
    \/ MayFail("read") /\ CleanupFails(v)

\* The deferred calls of Mount: cleanup and unlock, on every path.
CleanupOnSuccess(c) == UnstageAfterMount /\ c \in done
CleansUp(c) == UnstageAfterMount
UnlockForgotten(c) == UNCHANGED lock
Unlock(c) == lock' = [lock EXCEPT ![Stripe[plan[c].pv]] = None]
Return(c) ==
    /\ pc[c] = "cleanup"
    /\ IF CleansUp(c) THEN CleanedUp(plan[c].pv)
       ELSE UNCHANGED <<stage, dirs, warned>>
    /\ Unlock(c)
    /\ Goto(c, "idle")
    /\ plan' = [plan EXCEPT ![c] = NoPlan]
    /\ done' = done \ {c}
    /\ UNCHANGED <<source, target, tree>>

-----------------------------------------------------------------------------

\* The PV is deleted and created again under its name.
RecreatePV(v) ==
    /\ \E s \in Sources \ {source[v]} : source' = [source EXCEPT ![v] = s]
    /\ UNCHANGED <<node, pc, plan, tree, done>>

\* The target is unmounted, or its container ends.
Detach(t) ==
    /\ target[t] # NoSource
    /\ target' = [target EXCEPT ![t] = NoSource]
    /\ UNCHANGED <<source, stage, dirs, warned, lock, pc, plan, tree, done>>

\* CleanupStagingRoot, before the server starts and before any thread enters a
\* container: all staging mounts are unmounted, except busy ones; stacked ones
\* are listed once for each layer.  Nothing is done without mountinfo.
CleanedRoot ==
    \/ \E busy \in SUBSET {v \in PVs : MayFail("busy") /\ Staged(v)} :
          /\ stage' = [v \in PVs |-> IF v \in busy THEN stage[v] ELSE <<>>]
          /\ dirs' = busy /\ warned' = busy
    \/ MayFail("read") /\ warned' = PVs /\ UNCHANGED <<stage, dirs>>

\* The process dies and starts again.  Staging mounts propagate to the host
\* and outlive it.
Restart ==
    /\ MayFail("crash")
    /\ IF UnstageAfterMount THEN CleanedRoot
       ELSE UNCHANGED <<stage, dirs, warned>>
    /\ lock' = [s \in Stripes |-> None]
    /\ pc' = [c \in Callers |-> "idle"]
    /\ plan' = [c \in Callers |-> NoPlan]
    /\ tree' = [c \in Callers |-> NoSource]
    /\ done' = {}
    /\ UNCHANGED <<source, target>>

-----------------------------------------------------------------------------

Init ==
    /\ source \in [PVs -> Sources]
    /\ stage = [v \in PVs |-> <<>>] /\ dirs = {} /\ warned = {}
    /\ lock = [s \in Stripes |-> None]
    /\ target = [t \in Targets |-> NoSource]
    /\ pc = [c \in Callers |-> "idle"]
    /\ plan = [c \in Callers |-> NoPlan]
    /\ tree = [c \in Callers |-> NoSource]
    /\ done = {}

Proceed(c) ==
    \/ Stage(c) \/ MountNFS(c) \/ OpenTree(c) \/ OpenLegacy(c)
    \/ CheckTarget(c) \/ Attach(c) \/ Return(c)

Next ==
    \/ \E c \in Callers :
          \/ \E t \in Targets, v \in PVs : Call(c, t, v)
          \/ Refuse(c) \/ Lock(c) \/ Proceed(c)
    \/ \E v \in PVs : RecreatePV(v)
    \/ \E t \in Targets : Detach(t)
    \/ Restart

Spec == Init /\ [][Next]_vars

\* Commands and system calls return: the request context kills the mount
\* command.  sync.Mutex lets no waiter starve.
Fairness == \A c \in Callers : WF_vars(Proceed(c)) /\ SF_vars(Lock(c))

FairSpec == Spec /\ Fairness

-----------------------------------------------------------------------------

\* The staging path and the PV name are invisible to the wrapper.
AbstractPlan(c) ==
    IF plan[c] = NoPlan THEN NoPlan
    ELSE [target |-> plan[c].target, source |-> plan[c].source]

Service == INSTANCE MountService WITH
    plan <- [c \in Callers |-> AbstractPlan(c)]

\* Staging is invisible: in spite of concurrent calls for one PV, killed mount
\* commands, fallbacks, deaths of the process and PVs that change their source
\* under the same name, Mount attaches the source of its plan or nothing, and
\* its answer says which.  It needs nodes on which cleanups work: nothing that
\* stayed staged is told from the source of the plan.
ImplementsService == Service!Spec

\* README.md:63, "stages an NFS PV only long enough to move or clone": when no
\* call holds the lock of a PV, neither a staging mount nor a directory of it
\* is left, after failures and deaths of the process too, unless the latest
\* cleanup of the PV put a warning into the log.
NothingStagedAtRest ==
    \A v \in PVs :
        lock[Stripe[v]] = None /\ v \notin warned => ~Staged(v) /\ v \notin dirs

\* Every call of Mount returns; the staging lock is taken while a target lock
\* is held, so a call that never returned would block the target as well.
MountReturns == \A c \in Callers : pc[c] # "idle" ~> pc[c] = "idle"

=============================================================================
