------------------------------- MODULE MCPods -------------------------------
(***************************************************************************)
(* How the wrapper follows its Pods: the informer, and the queues of the   *)
(* reconciler behind it, once with several targets and once with requests  *)
(* that change the records meanwhile.  The informer hands its events to a  *)
(* queue that ReconcileQueue starts from, so a behaviour exercises one of  *)
(* the two and leaves the other in its initial state.  The target of the   *)
(* requests is one of Keys, so that RetryMarksExact covers it too.         *)
(***************************************************************************)
EXTENDS ReconcileQueue, PodInformer

CONSTANTS RequestKey, RequestClient

VARIABLE part

Requests == INSTANCE ReconcileQueue WITH
    Keys <- {RequestKey}, Clients <- {RequestClient},
    Operations <- {"mount", "unmount"}

ASSUME PartAssumptions == RequestKey \in Keys /\ Requests!QueueAssumption

PodsInit ==
    /\ part \in {"targets", "requests", "informer"}
    /\ IF part = "requests" THEN Requests!Init ELSE Init
    /\ part = "informer" => attached = {}
    /\ InformerInit

PodsNext ==
    /\ UNCHANGED part
    /\ \/ part = "targets" /\ Next /\ UNCHANGED informerVars
       \/ part = "requests" /\ Requests!Next /\ UNCHANGED informerVars
       \/ part = "informer" /\ InformerNext /\ UNCHANGED vars

PodsSpec == PodsInit /\ [][PodsNext]_<<part, vars, informerVars>>

-----------------------------------------------------------------------------

\* The type invariants of the parts.
TypesOK ==
    /\ part = "targets" => TypeOK
    /\ part = "requests" => Requests!TypeOK
    /\ part = "informer" => InformerTypeOK
=============================================================================
