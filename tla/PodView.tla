------------------------------- MODULE PodView -------------------------------
(***************************************************************************)
(* What the wrapper reads off a Pod, a token review and a PV: the checks   *)
(* of internal/wrapper/authz.go, and the reduced copy of a Pod that the    *)
(* informer keeps (internal/kube/informer.go).  Constant operators only.   *)
(*                                                                         *)
(* A Pod is [place, uid, sa, node, phase, containers, statuses, rest]:     *)
(* place is its namespace and name, containers the containers of the spec  *)
(* with their environment, statuses the reported container IDs, rest all   *)
(* that no check looks at (labels, volumes, owners).  None is the empty    *)
(* string, a missing annotation and an absent object.                      *)
(***************************************************************************)
EXTENDS Naturals, Sequences, FiniteSetsExt

CONSTANTS
    ThisNode,     \* cfg.NodeName, or None
    None

Marker == "SANDBOX_MAIN_CONTAINER"
TrueWords == {"true", "TRUE"}        \* what EqualFold(value, "true") accepts
Terminal == {"Succeeded", "Failed"}

First(S) == IF S = {} THEN 0 ELSE Min(S)

-----------------------------------------------------------------------------
(* Which container a request is about.  None: there is no answer.           *)

sandboxMainContainerName(pod) ==
    LET marked == {i \in DOMAIN pod.containers :
                     \E e \in pod.containers[i].env :
                        e.name = Marker /\ e.value \in TrueWords}
    IN  IF marked = {} THEN None ELSE pod.containers[First(marked)].name

StatusAt(pod, i) ==
    IF i = 0 \/ pod.statuses[i].id = None THEN None ELSE pod.statuses[i]

containerStatusByName(pod, name) ==
    StatusAt(pod, First({i \in DOMAIN pod.statuses : pod.statuses[i].name = name}))

FirstUnlessMarked(pod, requested) ==
    CASE requested # None -> containerStatusByName(pod, requested)
      [] requested = None /\ sandboxMainContainerName(pod) # None ->
            containerStatusByName(pod, sandboxMainContainerName(pod))
      [] OTHER -> StatusAt(pod, First(DOMAIN pod.statuses))

selectContainerStatus(pod, requested) ==
    LET name == IF requested # None THEN requested
                ELSE sandboxMainContainerName(pod)
    IN  IF name # None THEN containerStatusByName(pod, name)
        ELSE IF Len(pod.statuses) # 1 THEN None
        ELSE StatusAt(pod, 1)

-----------------------------------------------------------------------------
(* Who asks.  A token review is [authenticated, user, audience, names,      *)
(* uids]: the service account as a pair, whether the audiences hold the     *)
(* wrapper's, and the values of the two Pod keys.                           *)

Namespace(place) == place[1]

authorizeToken(status, place) ==
    /\ status.authenticated
    /\ status.user[1] = Namespace(place)
    /\ status.audience

PlaceAndPhaseOnly(pod, request) ==
    /\ pod.place = request.place
    /\ pod.phase \notin Terminal

validatePodIdentity(pod, request) ==
    /\ pod.place = request.place
    /\ pod.uid = request.uid
    /\ pod.phase \notin Terminal

requireTokenPodExtra(values, expected) == values = <<expected>>

authorizePod(status, pod, request) ==
    /\ validatePodIdentity(pod, request)
    /\ status.user = <<Namespace(request.place), pod.sa>>
    /\ requireTokenPodExtra(status.names, request.place)
    /\ requireTokenPodExtra(status.uids, request.uid)

validatePodNode(pod) == ThisNode # None => pod.node = ThisNode

-----------------------------------------------------------------------------
(* Which PV.  An allowlist is the sequence of its trimmed entries; the      *)
(* empty sequence is the empty annotation.                                  *)

Blank == "blank"
Star == "*"

AllowlistFirstMatch(entries, identity) ==
    LET after[i \in 0..Len(entries)] ==
            IF i = 0 THEN "no"
            ELSE IF after[i - 1] # "no" THEN after[i - 1]
            ELSE IF entries[i] \in {Blank, Star} THEN "invalid"
            ELSE IF entries[i] = identity THEN "yes" ELSE "no"
    IN  after[Len(entries)]

\* The loop over the entries: an invalid one ends it.
Allowlist(entries, identity) ==
    LET after[i \in 0..Len(entries)] ==
            IF i = 0 THEN "no"
            ELSE IF after[i - 1] = "invalid" THEN "invalid"
            ELSE IF entries[i] \in {Blank, Star} THEN "invalid"
            ELSE IF entries[i] = identity THEN "yes" ELSE after[i - 1]
    IN  after[Len(entries)]

authorizePVAnnotation(annotation, identity) ==
    \/ annotation = None
    \/ annotation # <<>> /\ Allowlist(annotation, identity) = "yes"

authorizePVForPod(pod, pv) ==
    /\ pv.ours                      \* a CSI PV of this driver
    /\ authorizePVAnnotation(pv.allowNamespace, Namespace(pod.place))
    /\ authorizePVAnnotation(pv.allowServiceAccount, pod.sa)

-----------------------------------------------------------------------------
(* What the informer keeps of a Pod, what it hands on, and which updates it *)
(* keeps to itself.                                                         *)

trimPodForInformerCache(pod) ==
    [pod EXCEPT !.containers = [i \in DOMAIN pod.containers |->
                                 [pod.containers[i] EXCEPT !.env =
                                    {e \in @ : e.name = Marker}]],
                !.rest = None]

SameNames(left, right) ==
    /\ left.phase = right.phase
    /\ Len(left.statuses) = Len(right.statuses)
    /\ \A i \in DOMAIN right.statuses : \E j \in DOMAIN left.statuses :
          left.statuses[j].name = right.statuses[i].name

sameContainerState(left, right) ==
    /\ left.phase = right.phase
    /\ Len(left.statuses) = Len(right.statuses)
    /\ \A i \in DOMAIN right.statuses : \E j \in DOMAIN left.statuses :
          left.statuses[j] = right.statuses[i]
=============================================================================
