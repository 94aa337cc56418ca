------------------------------- MODULE MCLive -------------------------------
(***************************************************************************)
(* What must happen: the handlers of the wrapper answer, a retry ends and  *)
(* a restarted container gets its mounts back, the Mount of the node       *)
(* mounter returns, and so does the call of the SDK.  Each module stands   *)
(* for what the others answer by a choice, so a behaviour exercises one of *)
(* them and leaves the others in an initial state.                         *)
(***************************************************************************)
EXTENDS ReconcileQueue, MounterClient

CONSTANTS
    Callers, Targets, PVs, Sources, Stripes, NoSource, NoPlan,  \* of LinuxMounter
    Handlers, Reconcilers, Volumes, Foreign, NoKey, NoSubPath   \* of Wrapper

VARIABLES
    part,
    source, stage, dirs, warned, stagingLock, target, mounterPC, plan, tree,
    done,
    mounts, byPod, files, workerPC, workerJob, targetLock, instance, shows,
    exists, stack, spec, pvOK, pvRoot, exportKey

SDK(t, d) == [by |-> "sdk", timeout |-> t, disable |-> d]
Command(t) == [by |-> "command", timeout |-> t, disable |-> FALSE]

Mounter == INSTANCE LinuxMounter WITH
    Stripe <- [v \in PVs |-> CHOOSE s \in Stripes : TRUE],
    UnstageAfterMount <- TRUE, MaxLayers <- 2,
    Faults <- {"nfs", "node", "nosys", "crash", "busy", "away", "read"},
    lock <- stagingLock, pc <- mounterPC

\* One Pod whose targets share a mutex, and node operations that fail.
Wrap == INSTANCE Wrapper WITH
    Pods <- {"pod"}, PVs <- Volumes, SubPaths <- {NoSubPath}, ExportKeys <- {},
    PodOf <- [k \in Keys |-> "pod"], Place <- [k \in Keys |-> k],
    Stripe <- [k \in Keys |-> CHOOSE s \in Stripes : TRUE], Faults <- {"node"},
    pc <- workerPC, job <- workerJob, lock <- targetLock, gen <- instance,
    status <- shows, present <- exists

MCConfigs ==
    {SDK(-1, FALSE), SDK(0, FALSE), SDK(0, TRUE), SDK(20, FALSE),
     Command(-1), Command(0), Command(20)}

ASSUME PartAssumptions == Mounter!MounterAssumption /\ Wrap!WrapperAssumption

mounterVars == <<source, stage, dirs, warned, stagingLock, target, mounterPC,
                 plan, tree, done>>
wrapVars == <<mounts, byPod, files, workerPC, workerJob, targetLock, instance,
              shows, exists, stack, spec, pvOK, pvRoot, exportKey>>
liveVars == <<part, vars, mounterVars, clientVars, wrapVars>>

SomeSource == CHOOSE s \in Sources : TRUE

LiveInit ==
    /\ part \in {"queue", "mounter", "client", "wrapper"}
    /\ Wrap!Init /\ \A v \in Volumes : ~pvRoot[v]
    /\ part # "wrapper" => spec = {}
    /\ Init /\ (part # "queue" => attached = {})
    /\ Mounter!Init
    /\ part # "mounter" => \A v \in PVs : source[v] = SomeSource
    /\ ClientInit
    /\ part # "client" => config = SDK(0, FALSE) /\ tokenPresent /\ keyFile = "unset"

LiveNext ==
    /\ UNCHANGED part
    /\ \/ /\ part = "queue" /\ Next
          /\ UNCHANGED <<mounterVars, clientVars, wrapVars>>
       \/ /\ part = "mounter" /\ Mounter!Next
          /\ UNCHANGED <<vars, clientVars, wrapVars>>
       \/ /\ part = "client" /\ ClientNext
          /\ UNCHANGED <<vars, mounterVars, wrapVars>>
       \/ /\ part = "wrapper" /\ Wrap!Next
          /\ UNCHANGED <<vars, mounterVars, clientVars>>

\* The queue has work in its initial state, the other parts have not.
QueueFairness ==
    /\ \A a \in Actors : /\ WF_vars(part = "queue" /\ Advance(a))
                         /\ SF_vars(part = "queue" /\ Enter(a))
    /\ WF_vars(part = "queue" /\ PublishStatus)

LiveSpec ==
    /\ LiveInit /\ [][LiveNext]_liveVars
    /\ QueueFairness /\ Mounter!Fairness /\ ClientFairness /\ Wrap!Fairness

-----------------------------------------------------------------------------

\* docs/security-model.md:259, "Reconciliation is event-driven but still
\* eventually consistent": without requests and with one failure, a desired
\* mount is attached in the end, unless it is given up or its Pod ends.
RecoversAlone == part = "queue" => EventuallyConsistent

\* Every mark in Server.retrying is removed again, after a bounded number of
\* attempts even if none can succeed (processReconcileRetries).
EveryRetryEnds == part = "queue" => RetriesEnd

\* Every call of linuxMounter.Mount returns, whatever fails and whatever stays
\* staged; it holds the staging lock, and its caller a target lock, meanwhile.
MountReturns == part = "mounter" => Mounter!MountReturns

\* Every call of the SDK and the command returns, with an answer or with an
\* error of its own (mounter/client.go).
EveryCallReturns == part = "client" => CallsReturn

\* Every mount and unmount request is answered, with shared mutexes, a
\* reconciler beside the handlers and node operations that fail (server.go).
EveryRequestAnswered == part = "wrapper" => Wrap!EveryRequestAnswered

\* A PV stays staged after its mounts only where the log or the result says so,
\* with cleanups that fail, or whose probe fails or does not see the staging
\* mount (linuxMounter.Mount, cleanupStagingPath).
NothingStagedAtRest == Mounter!NothingStagedAtRest
=============================================================================
