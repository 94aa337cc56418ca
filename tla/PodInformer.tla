----------------------------- MODULE PodInformer -----------------------------
(***************************************************************************)
(* How changes of a Pod reach the reconciler (internal/kube/informer.go):  *)
(* a list and a watch on the API server, the informer's cache, the three   *)
(* handlers with the filter of UpdateFunc, the queue of events, and the    *)
(* callback after the first list.  The watch can break; what it has not    *)
(* delivered is then lost and the next list makes up for it.  The wrapper  *)
(* can crash; its records survive.                                         *)
(*                                                                         *)
(* One namespace-name pair is modelled.  A Pod that is created there again *)
(* has another UID.  The cache of client-go is keyed by namespace and      *)
(* name; it and the watch are modelled from their use.  How an event is    *)
(* worked off, and its failures, are the subject of ReconcileQueue; here   *)
(* an event is worked off in one step.  A mount request (server.go) takes  *)
(* several: it reads the Pod, saves its intent without a container, mounts *)
(* and saves the container.  One is under way at a time, for one target.   *)
(***************************************************************************)
EXTENDS PodView

CONSTANTS
    MaxPods,      \* Pods created under the name, with UIDs 1, 2, ...
    MaxRestarts,  \* container restarts
    MaxLosses,    \* broken watches
    MaxCrashes    \* crashes of the wrapper

VARIABLES
    api,          \* the Pod on the API server, or None
    created,      \* Pods created so far
    starts,       \* containers started so far, the source of container IDs
    watch,        \* "down", or "up" after a list
    wire,         \* watch events that the informer has not received
    cache,        \* the informer's copy of the Pod, or None
    podEvents,    \* events that were handed on
    synced,       \* the callback after the first list has run
    records,      \* UID -> container ID of the saved intent, or None
    mounting,     \* the mount request that is under way, or None
    crossed,      \* history: UIDs of which an event was worked off while a
                  \* request was under way, and none that tells the present since
    losses, crashes

clusterVars == <<api, created, starts>>
podVars == <<watch, wire, cache, podEvents, synced>>
requestVars == <<mounting, crossed>>
informerVars == <<clusterVars, podVars, records, requestVars, losses, crashes>>

UIDs == 1..MaxPods
Target == "main"          \* the container of the intent

Place == <<"ns", "pod">>
Containers == <<[name |-> Target, env |-> {}]>>

\* What a Pod at this place reports: nothing while it is pending, later an ID
\* for the target and for a second container that never changes.
Reports(uid, id) ==
    <<[name |-> "side", id |-> <<uid, "side">>], [name |-> Target, id |-> id]>>
IDs == 1..MaxPods + MaxRestarts
NoContainer == 0          \* the empty id of an intent that is not mounted yet

Phases == {"Pending", "Running", "Failed"}
Rests == {"labels", "other labels", None}
Statuses == {<<>>} \cup {Reports(u, i) : u \in UIDs, i \in IDs}
Pods == [place : {Place}, uid : UIDs, sa : {"sa"}, node : {ThisNode}, phase : Phases,
         containers : {Containers}, statuses : Statuses, rest : Rests]

\* A request has read the Pod; with the target lock, its intent is pending and
\* then attached.  prev is the record that it found.
Mountings == [uid : UIDs, id : IDs, prev : IDs \cup {NoContainer, None},
         step : {"read", "pending", "attached"}]

Messages == [type : {"ADDED", "MODIFIED", "DELETED"}, pod : Pods]

ASSUME InformerAssumption ==
    /\ MaxPods \in Nat \ {0} /\ MaxRestarts \in Nat
    /\ MaxLosses \in Nat /\ MaxCrashes \in Nat
    /\ None # Target /\ None \notin Nat \cup Pods \cup Mountings \cup [name : {Target}, id : IDs]

NewPod(uid) ==
    [place |-> Place, uid |-> uid, sa |-> "sa", node |-> ThisNode,
     phase |-> "Pending", containers |-> Containers, statuses |-> <<>>, rest |-> "labels"]
Reporting(pod, id) ==
    [pod EXCEPT !.phase = "Running", !.statuses = Reports(pod.uid, id)]

CurrentID == LET s == selectContainerStatus(api, Target)
             IN  IF s = None THEN None ELSE s.id

-----------------------------------------------------------------------------
(* The handlers.  An object is handed on as a snapshot of the cached copy.  *)

podSnapshot(pod) == [pod EXCEPT !.rest = None]

Event(type, pod) == <<[type |-> type, pod |-> podSnapshot(pod)]>>
AddFunc(pod) == Event("ADDED", pod)
UpdateFunc(old, new) ==
    IF sameContainerState(old, new) THEN <<>> ELSE Event("MODIFIED", new)
DeleteFunc(pod) == Event("DELETED", pod)

\* client-go (external): the cache decides whether a Pod is new or updated.
Store(pod) ==
    LET new == trimPodForInformerCache(pod)
    IN  /\ cache' = new
        /\ podEvents' = podEvents \o IF cache = None THEN AddFunc(new)
                                     ELSE UpdateFunc(cache, new)
Drop(pod) ==
    /\ cache' = None
    /\ podEvents' = podEvents \o DeleteFunc(pod)

-----------------------------------------------------------------------------
InformerInit ==
    /\ api = None /\ created = 0 /\ starts = 0
    /\ watch = "down" /\ wire = <<>> /\ cache = None
    /\ podEvents = <<>> /\ synced = FALSE
    /\ records = [u \in UIDs |-> None] /\ mounting = None /\ crossed = {}
    /\ losses = 0 /\ crashes = 0

Sent(type, pod) ==
    wire' = IF watch = "up" THEN Append(wire, [type |-> type, pod |-> pod]) ELSE wire

Change(pod) ==
    /\ api' = pod
    /\ Sent("MODIFIED", pod)
    /\ UNCHANGED <<watch, cache, podEvents, synced, records, requestVars, losses, crashes>>

CreatePod ==
    /\ api = None /\ created < MaxPods
    /\ created' = created + 1
    /\ api' = NewPod(created + 1)
    /\ Sent("ADDED", api')
    /\ UNCHANGED <<starts, watch, cache, podEvents, synced, records, requestVars, losses, crashes>>

StartContainer ==
    /\ api # None /\ api.phase \notin Terminal
    /\ starts < MaxPods + MaxRestarts
    /\ starts' = starts + 1
    /\ Change(Reporting(api, starts + 1))
    /\ UNCHANGED created

\* An update that the reconciler need not hear of, and the end of the Pod.
Relabel ==
    /\ api # None /\ api.rest = "labels"
    /\ Change([api EXCEPT !.rest = "other labels"])
    /\ UNCHANGED <<created, starts>>

Terminate ==
    /\ api # None /\ api.phase = "Running"
    /\ Change([api EXCEPT !.phase = "Failed"])
    /\ UNCHANGED <<created, starts>>

RemovePod ==
    /\ api # None
    /\ api' = None
    /\ Sent("DELETED", api)
    /\ UNCHANGED <<created, starts, watch, cache, podEvents, synced, records, requestVars, losses, crashes>>

-----------------------------------------------------------------------------
\* The list of a reflector that has no watch: Replace of the whole cache.  A Pod
\* that is no longer listed is deleted as DeletedFinalStateUnknown, with the
\* cached copy.
List ==
    /\ watch = "down"
    /\ watch' = "up"
    /\ wire' = <<>>
    /\ \/ api # None /\ Store(api)
       \/ api = None /\ cache # None /\ Drop(cache)
       \/ api = None /\ cache = None /\ UNCHANGED <<cache, podEvents>>
    /\ UNCHANGED <<clusterVars, synced, records, requestVars, losses, crashes>>

Receive ==
    /\ watch = "up" /\ wire # <<>>
    /\ wire' = Tail(wire)
    /\ LET e == Head(wire)
       IN  IF e.type = "DELETED" THEN Drop(trimPodForInformerCache(e.pod))
           ELSE Store(e.pod)
    /\ UNCHANGED <<clusterVars, watch, synced, records, requestVars, losses, crashes>>

LoseWatch ==
    /\ watch = "up" /\ losses < MaxLosses
    /\ watch' = "down"
    /\ wire' = <<>>
    /\ losses' = losses + 1
    /\ UNCHANGED <<clusterVars, cache, podEvents, synced, records, requestVars, crashes>>

Stale(uid, pod) == pod = None \/ ~validatePodIdentity(pod, [place |-> pod.place, uid |-> uid])

\* The container with this ID runs.  One whose Pod is not on the API server can
\* outlive it, when the Pod was deleted by force.
Runs(uid, id) ==
    api # None /\ api.uid = uid => api.phase \notin Terminal /\ id = CurrentID

\* reconcileMountForPod with a copy of the Pod: a stale record goes, a container
\* that runs is mounted into; in one that does not run any more the mount fails.
Reconciled(uid, pod) ==
    IF records[uid] = None THEN None
    ELSE IF Stale(uid, pod) THEN None
    ELSE LET s == selectContainerStatus(pod, Target)
         IN  IF s # None /\ api # None /\ s.id = CurrentID THEN s.id ELSE records[uid]

\* The request under way is for this UID; it holds the target lock, and the
\* record will not be what a reconciliation has seen of it meanwhile.
Underway(uid) == mounting # None /\ mounting.uid = uid
Locked(uid) == Underway(uid) /\ mounting.step # "read"

\* What becomes of the record of uid after a look at it with a copy of the Pod.
Looked(uid, pod) == IF Locked(uid) THEN records[uid] ELSE Reconciled(uid, pod)

\* reconcilePodSnapshot: a record whose Pod is not in the list is checked with
\* the API server.
SyncedSkippingMissing ==
    /\ watch = "up" /\ ~synced
    /\ synced' = TRUE
    /\ records' = [u \in UIDs |->
                     IF cache # None /\ cache.uid = u THEN Looked(u, podSnapshot(cache))
                     ELSE records[u]]
    /\ crossed' = crossed \cup {u \in UIDs : Underway(u)}
    /\ UNCHANGED <<clusterVars, watch, wire, cache, podEvents, mounting, losses, crashes>>

Synced ==
    /\ watch = "up" /\ ~synced
    /\ synced' = TRUE
    /\ records' = [u \in UIDs |->
                     IF cache # None /\ cache.uid = u THEN Looked(u, podSnapshot(cache))
                     ELSE Looked(u, api)]
    /\ crossed' = crossed \cup {u \in UIDs : Underway(u)}
    /\ UNCHANGED <<clusterVars, watch, wire, cache, podEvents, mounting, losses, crashes>>

\* An event that tells the present of its Pod.
TellsPresent(e) ==
    IF e.type = "DELETED" THEN TRUE
    ELSE api # None /\ api.uid = e.pod.uid /\ sameContainerState(e.pod, api)

\* reconcilePodEvent: only the records of the Pod's own UID are looked at.
WorkOffEvent ==
    LET e == Head(podEvents)
        u == e.pod.uid
    IN  /\ podEvents # <<>>
        /\ podEvents' = Tail(podEvents)
        /\ records' = [records EXCEPT ![u] =
                         IF e.type # "DELETED" THEN Looked(u, e.pod)
                         ELSE IF Locked(u) THEN @ ELSE None]
        /\ crossed' = IF Underway(u) THEN crossed \cup {u}
                      ELSE IF TellsPresent(e) THEN crossed \ {u} ELSE crossed
        /\ UNCHANGED <<clusterVars, watch, wire, cache, synced, mounting, losses, crashes>>

-----------------------------------------------------------------------------
(* A mount request: Server.mount.                                          *)

otherVars == <<clusterVars, podVars, crossed, losses, crashes>>

\* authorizedMountPlan reads the Pod, before the lock.
MountReads ==
    /\ mounting = None /\ api # None /\ api.phase = "Running"
    /\ mounting' = [uid |-> api.uid, id |-> CurrentID, prev |-> None, step |-> "read"]
    /\ UNCHANGED <<otherVars, records>>

\* With the lock.  The request is refused, fails or finds its mount there; it
\* adopts the mount that an intent without container has; or it saves such an
\* intent, before it mounts.
MountAdmits ==
    LET prev == records[mounting.uid]
    IN  /\ mounting # None /\ mounting.step = "read"
        /\ \/ mounting' = None /\ UNCHANGED records
           \/ /\ prev = NoContainer /\ Runs(mounting.uid, mounting.id)
              /\ records' = [records EXCEPT ![mounting.uid] = mounting.id]
              /\ mounting' = None
           \/ /\ records' = [records EXCEPT ![mounting.uid] = NoContainer]
              /\ mounting' = [mounting EXCEPT !.prev = prev, !.step = "pending"]
        /\ UNCHANGED otherVars

\* The mount, or restoreDesiredMount after it failed.
MountAttaches ==
    /\ mounting # None /\ mounting.step = "pending"
    /\ \/ /\ Runs(mounting.uid, mounting.id)
          /\ mounting' = [mounting EXCEPT !.step = "attached"]
          /\ UNCHANGED records
       \/ /\ records' = [records EXCEPT ![mounting.uid] = mounting.prev]
          /\ mounting' = None
    /\ UNCHANGED otherVars

\* The second Put.  Its failure is only logged, so it leaves the first.
MountRecords ==
    /\ mounting # None /\ mounting.step = "attached"
    /\ records' = [records EXCEPT ![mounting.uid] = mounting.id]
    /\ mounting' = None
    /\ UNCHANGED otherVars

CrashWrapper ==
    /\ crashes < MaxCrashes
    /\ crashes' = crashes + 1
    /\ watch' = "down" /\ wire' = <<>> /\ cache' = None
    /\ podEvents' = <<>> /\ synced' = FALSE
    /\ mounting' = None /\ crossed' = {}
    /\ UNCHANGED <<clusterVars, records, losses>>

InformerNext ==
    \/ CreatePod \/ StartContainer \/ Relabel \/ Terminate \/ RemovePod
    \/ List \/ Receive \/ LoseWatch \/ Synced \/ WorkOffEvent
    \/ MountReads \/ MountAdmits \/ MountAttaches \/ MountRecords \/ CrashWrapper

InformerSpec == InformerInit /\ [][InformerNext]_informerVars

-----------------------------------------------------------------------------
(* A Pod on the API server, on the wire, in the cache or in an event was    *)
(* created; the cached copy carries no more than the checks need; a record  *)
(* and a request are of a Pod that was created and name a container that    *)
(* was started, if any.                                                     *)
InformerTypeOK ==
    /\ created \in 0..MaxPods /\ starts \in 0..MaxPods + MaxRestarts
    /\ api \in Pods \cup {None} /\ cache \in Pods \cup {None}
    /\ watch \in {"up", "down"} /\ synced \in BOOLEAN
    /\ wire \in Seq(Messages) /\ podEvents \in Seq(Messages)
    /\ \A pod \in {api, cache} \ {None} : pod.uid <= created
    /\ \A i \in DOMAIN wire : wire[i].pod.uid <= created
    /\ \A i \in DOMAIN podEvents : podEvents[i].pod.uid <= created
    /\ cache # None => cache.rest = None
    /\ records \in [UIDs -> IDs \cup {NoContainer, None}]
    /\ mounting \in Mountings \cup {None} /\ crossed \in SUBSET UIDs
    /\ mounting # None => mounting.uid <= created /\ mounting.id <= starts
                     /\ (mounting.prev # None => mounting.prev <= starts)
    /\ \A u \in UIDs : records[u] # None => u <= created /\ records[u] <= starts
    /\ losses \in 0..MaxLosses /\ crashes \in 0..MaxCrashes

\* Nothing is on its way, and no request is under way.
Quiet == watch = "up" /\ wire = <<>> /\ podEvents = <<>> /\ synced /\ mounting = None

(* Once all that is on its way has been worked off, the intent of the Pod   *)
(* is mounted in the container that runs, whatever the filter of UpdateFunc *)
(* held back, the watch lost, a crash erased or left half done.  It need    *)
(* not be if an event was worked off while a mount request was under way    *)
(* and none that tells the present after it (reconciler.go:280).            *)
QuietMeansPlaced ==
    /\ Quiet /\ api # None /\ api.uid \notin crossed
    /\ records[api.uid] # None /\ api.phase \notin Terminal
    => CurrentID # None /\ records[api.uid] = CurrentID

PodGone(u) == u <= created /\ (api = None \/ api.uid # u)

(* A Pod that has ended keeps no intent, since sameContainerState lets its  *)
(* end pass; nor does, as long as the watch holds, a Pod that is gone, even *)
(* if it went while the wrapper was down (reconcilePodSnapshot); unless its *)
(* last event was worked off while a mount request was under way.           *)
QuietMeansForgotten ==
    Quiet =>
        /\ api # None /\ api.phase \in Terminal /\ api.uid \notin crossed
           => records[api.uid] = None
        /\ losses = 0 => \A u \in UIDs \ crossed : PodGone(u) => records[u] = None
=============================================================================
