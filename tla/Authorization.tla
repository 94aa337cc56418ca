---------------------------- MODULE Authorization ----------------------------
(***************************************************************************)
(* How the wrapper decides about one call (internal/wrapper/server.go,     *)
(* authz.go, internal/kube/client.go): normalise the request, review the   *)
(* token, get the Pod, get the PV, pick the container, build the plan.     *)
(* The three lookups are separate requests to the API server.  Between     *)
(* any two of them the Pod can be deleted and created again under its      *)
(* name, a container can restart, and the PV can be edited or replaced.    *)
(*                                                                         *)
(* An unmount ends with the container: it does not look at the PV.         *)
(***************************************************************************)
EXTENDS PodView

CONSTANTS
    Places,       \* namespace-name pairs
    UIDs,
    Specs,        \* Pod specs: [sa, node, containers]
    PVs,          \* versions of the PV: [ours, allowNamespace, allowServiceAccount, source]
    Requested,    \* container names a request gives, None among them
    MaxRestarts,  \* container restarts, all Pods together
    MaxEdits,     \* PV edits
    Outage        \* {"outage"} if lookups may fail, {} if they cannot

ContainerSpecs == [name : STRING, env : SUBSET [name : STRING, value : STRING]]

\* The API server admits no two containers of one name in a Pod.
ASSUME AuthorizationAssumption ==
    /\ None \notin UIDs \cup [place : Places, spec : Specs] /\ None \in Requested
    /\ MaxRestarts \in Nat /\ MaxEdits \in Nat
    /\ Outage \subseteq {"outage"}
    /\ Specs \subseteq [sa : STRING, node : STRING, containers : Seq(ContainerSpecs)]
    /\ \A spec \in Specs : \A i, j \in DOMAIN spec.containers :
          spec.containers[i].name = spec.containers[j].name => i = j
    /\ \A v \in PVs : \A list \in {v.allowNamespace, v.allowServiceAccount} :
          list # None => list \in Seq(STRING)

VARIABLES
    pods,         \* place -> the Pod there, or None
    born,         \* UID -> the place and spec it was created with, or None
    restarts,
    pv,           \* the PV as the API server has it, or None
    edits,
    call,         \* the call: step, operation, request, token, what it read
    during        \* the versions of the PV since the call began

vars == <<pods, born, restarts, pv, edits, call, during>>

-----------------------------------------------------------------------------
(* Tokens: issued to a Pod, either not bound to it or for another audience, *)
(* or neither fault; or no valid token at all.                              *)

Tokens == {t \in [uid : UIDs, bound : BOOLEAN, audience : BOOLEAN] : t.bound \/ t.audience}
          \cup {None}

Requests == [place : Places, uid : UIDs, container : Requested]

NoReview == [authenticated |-> FALSE, user |-> <<None, None>>, audience |-> FALSE,
             names |-> <<>>, uids |-> <<>>]

\* TokenReview (external): a bound token lives as long as its Pod.
Review(token) ==
    IF token = None \/ born[token.uid] = None THEN NoReview
    ELSE LET b == born[token.uid]
         IN  IF token.bound /\ ~(pods[b.place] # None /\ pods[b.place].uid = token.uid)
             THEN NoReview
             ELSE [authenticated |-> TRUE,
                   user |-> <<Namespace(b.place), b.spec.sa>>,
                   audience |-> token.audience,
                   names |-> IF token.bound THEN <<b.place>> ELSE <<>>,
                   uids |-> IF token.bound THEN <<token.uid>> ELSE <<>>]

Idle == [step |-> "idle", op |-> None, request |-> None, token |-> None,
         review |-> NoReview, pod |-> None, code |-> 0, plan |-> None]

Arrived(op, request, token) ==
    [Idle EXCEPT !.step = "review", !.op = op, !.request = request, !.token = token]

Answered(c, code) == [c EXCEPT !.step = "answered", !.code = code]

\* The plan: what is done, in which container of which Pod.
Planned(c, pod, status, v) ==
    [c EXCEPT !.pod = pod,
              !.plan = [podUID |-> pod.uid, container |-> status.name,
                        id |-> status.id, pv |-> v]]

\* requestErrorStatus: what is neither a bad request nor a node error.
ErrorStatus == 403
LookupFails == call' = Answered(call, ErrorStatus)

-----------------------------------------------------------------------------
Init ==
    /\ pods = [p \in Places |-> None]
    /\ born = [u \in UIDs |-> None]
    /\ restarts = 0
    /\ pv \in PVs \cup {None}
    /\ edits = 0
    /\ call = Idle
    /\ during = {pv}

\* A call arrives; normalizeMountRequest has let its request through or not.
Begin(op, request, token) ==
    /\ call.step = "idle"
    /\ \/ call' = Arrived(op, request, token)
       \/ call' = Answered(Arrived(op, request, token), 400)
    /\ during' = {pv}
    /\ UNCHANGED <<pods, born, restarts, pv, edits>>

ReviewToken ==
    /\ call.step = "review"
    /\ LET status == Review(call.token)
       IN  call' = IF authorizeToken(status, call.request.place)
                   THEN [call EXCEPT !.step = "pod", !.review = status]
                   ELSE Answered(call, ErrorStatus)
    /\ UNCHANGED <<pods, born, restarts, pv, edits, during>>

\* An unmount is authorised here, a mount goes on to the PV.
Selected(pod) ==
    LET status == selectContainerStatus(pod, call.request.container)
    IN  IF status = None THEN Answered(call, 400)
        ELSE Planned(Answered(call, 200), pod, status, None)

GetPod ==
    /\ call.step = "pod"
    /\ LET pod == pods[call.request.place]
       IN  call' = IF \/ pod = None                        \* 404
                      \/ ~authorizePod(call.review, pod, call.request)
                      \/ ~validatePodNode(pod)
                   THEN Answered(call, ErrorStatus)
                   ELSE IF call.op = "unmount" THEN Selected(pod)
                   ELSE [call EXCEPT !.step = "pv", !.pod = pod]
    /\ UNCHANGED <<pods, born, restarts, pv, edits, during>>

\* mountPlanForPod, with the Pod as it was read before.
GetPersistentVolume ==
    /\ call.step = "pv"
    /\ LET status == selectContainerStatus(call.pod, call.request.container)
       IN  call' = IF pv = None \/ ~authorizePVForPod(call.pod, pv)
                   THEN Answered(call, ErrorStatus)
                   ELSE IF status = None THEN Answered(call, 400)
                   ELSE IF pv.source = None THEN Answered(call, ErrorStatus)
                   ELSE Planned(Answered(call, 200), call.pod, status, pv)
    /\ UNCHANGED <<pods, born, restarts, pv, edits, during>>

\* The API server cannot be reached, answers 5xx, or the call times out.
LookupUnavailable ==
    /\ Outage # {}
    /\ call.step \in {"review", "pod", "pv"}
    /\ LookupFails
    /\ UNCHANGED <<pods, born, restarts, pv, edits, during>>

Forget ==
    /\ call.step = "answered"
    /\ call' = Idle
    /\ UNCHANGED <<pods, born, restarts, pv, edits, during>>

-----------------------------------------------------------------------------
(* The cluster.  A container ID is unique to its Pod and to the start.      *)

StatusOf(uid, spec, n) ==
    [i \in DOMAIN spec.containers |->
       [name |-> spec.containers[i].name, id |-> <<uid, spec.containers[i].name, n>>]]

CreatePod(place, uid, spec) ==
    /\ pods[place] = None
    /\ born[uid] = None
    /\ pods' = [pods EXCEPT ![place] =
                  [place |-> place, uid |-> uid, sa |-> spec.sa, node |-> spec.node,
                   phase |-> "Running", containers |-> spec.containers,
                   statuses |-> StatusOf(uid, spec, 0), rest |-> "labels"]]
    /\ born' = [born EXCEPT ![uid] = [place |-> place, spec |-> spec]]
    /\ UNCHANGED <<restarts, pv, edits, call, during>>

\* The kubelet reports a restarted container, first without an ID.
ReportContainer(place, i, id) ==
    /\ pods[place] # None /\ i \in DOMAIN pods[place].statuses
    /\ restarts < MaxRestarts
    /\ restarts' = restarts + 1
    /\ pods' = [pods EXCEPT ![place].statuses[i].id = id]
    /\ UNCHANGED <<born, pv, edits, call, during>>

EndPod(place) ==
    /\ pods[place] # None
    /\ \/ pods' = [pods EXCEPT ![place] = None]
       \/ \E phase \in Terminal : pods' = [pods EXCEPT ![place].phase = phase]
    /\ UNCHANGED <<born, restarts, pv, edits, call, during>>

EditPV(new) ==
    /\ edits < MaxEdits
    /\ new # pv
    /\ pv' = new
    /\ edits' = edits + 1
    /\ during' = during \cup {new}
    /\ UNCHANGED <<pods, born, restarts, call>>

Next ==
    \/ \E op \in {"mount", "unmount"}, r \in Requests, t \in Tokens : Begin(op, r, t)
    \/ ReviewToken
    \/ GetPod
    \/ GetPersistentVolume
    \/ LookupUnavailable
    \/ Forget
    \/ \E p \in Places, u \in UIDs, s \in Specs : CreatePod(p, u, s)
    \/ \E p \in Places : pods[p] # None /\ \E i \in DOMAIN pods[p].statuses :
          \E id \in {None, <<pods[p].uid, pods[p].statuses[i].name, restarts + 1>>} :
             ReportContainer(p, i, id)
    \/ \E p \in Places : EndPod(p)
    \/ \E new \in PVs \cup {None} : EditPV(new)

Spec == Init /\ [][Next]_vars

-----------------------------------------------------------------------------
Granted == call.step = "answered" /\ call.code = 200

(* A granted call acts for the Pod whose token it carried, and only in a    *)
(* container of that very Pod: the three lookups never mix two Pods that    *)
(* had one name after each other, nor a token for another audience or       *)
(* without a Pod (authorizedPodForRequest).                                 *)
GrantsCallersPod ==
    Granted =>
        LET t == call.token
        IN  /\ t # None /\ t.bound /\ t.audience
            /\ call.plan.podUID = t.uid
            /\ call.plan.id[1] = t.uid
            /\ call.request.place = born[t.uid].place
            /\ call.request.container # None => call.plan.container = call.request.container

OnAllowlist(annotation, identity) ==
    annotation = None \/
    /\ identity \in {annotation[i] : i \in DOMAIN annotation}
    /\ {Blank, Star} \cap {annotation[i] : i \in DOMAIN annotation} = {}

(* A granted mount reads its source from a version of the PV that was       *)
(* current during the call and whose allowlists, if it has any, name the    *)
(* Pod's namespace and service account, and hold neither a blank nor a      *)
(* wildcard in any entry, also after the one that names them                *)
(* (authorizePVAnnotation, authorizePVForPod).                              *)
GrantsAllowedPV ==
    Granted /\ call.op = "mount" =>
        LET b == born[call.token.uid]
        IN  /\ call.plan.pv \in during \ {None}
            /\ call.plan.pv.ours /\ call.plan.pv.source # None
            /\ OnAllowlist(call.plan.pv.allowNamespace, Namespace(b.place))
            /\ OnAllowlist(call.plan.pv.allowServiceAccount, b.spec.sa)

Reversed(s) == [i \in DOMAIN s |-> s[Len(s) + 1 - i]]

(* The container does not depend on the order in which the kubelet lists    *)
(* the statuses (selectContainerStatus): a request without a container      *)
(* name never falls to whichever container comes first.                     *)
ChoiceIgnoresOrder ==
    \A p \in Places, name \in Requested : pods[p] # None =>
        selectContainerStatus(pods[p], name) =
        selectContainerStatus([pods[p] EXCEPT !.statuses = Reversed(@)], name)
=============================================================================
