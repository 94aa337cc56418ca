------------------------- MODULE AuthorizationProofs -------------------------
(***************************************************************************)
(* Proofs about the authorisation of a call: for any Pods, tokens, PVs and *)
(* requests, and whatever happens between the lookups, a granted call acts *)
(* for the Pod of its token, with a PV whose allowlists name that Pod, and *)
(* the choice of the container does not depend on the order of statuses.   *)
(***************************************************************************)
EXTENDS Authorization, SequenceTheorems, WellFoundedInduction, TLAPS

-----------------------------------------------------------------------------
(* Least elements, and what the loops over lists compute.                  *)

LEMMA LeastNat ==
    ASSUME NEW T, T \subseteq Nat, T # {}
    PROVE  \E x \in T : \A y \in T : x <= y
  <1>1. PICK x \in T : \A y \in T : ~(<<y, x>> \in OpToRel(<, Nat))
    BY NatLessThanWellFounded, WFMin
  <1>2. ASSUME NEW y \in T PROVE x <= y
    <2>1. x \in Nat /\ y \in Nat
      OBVIOUS
    <2>2. ~(y < x)
      BY <1>1, <2>1 DEF OpToRel
    <2> QED  BY <2>1, <2>2
  <1> QED  BY <1>2

\* First is the least element of a set of positions.
LEMMA FirstIsLeast ==
    ASSUME NEW S, S \subseteq Nat \ {0}
    PROVE  /\ S = {} => First(S) = 0
           /\ S # {} => First(S) \in S /\ First(S) # 0
  <1>1. ASSUME S # {} PROVE First(S) \in S
    <2>1. \E x \in S : \A y \in S : x <= y
      BY <1>1, LeastNat
    <2> QED  BY <1>1, <2>1 DEF First, Min
  <1> QED  BY <1>1 DEF First

\* What the loop of the allowlist has found after n entries.
Found(entries, identity, n) ==
    IF \E j \in 1..n : entries[j] \in {Blank, Star} THEN "invalid"
    ELSE IF \E j \in 1..n : entries[j] = identity THEN "yes" ELSE "no"

LEMMA AllowlistFinds ==
    ASSUME NEW entries, NEW identity, Len(entries) \in Nat
    PROVE  Allowlist(entries, identity) = Found(entries, identity, Len(entries))
  <1> DEFINE n == Len(entries)
             step(f, i) ==
                IF i = 0 THEN "no"
                ELSE IF f[i - 1] = "invalid" THEN "invalid"
                ELSE IF entries[i] \in {Blank, Star} THEN "invalid"
                ELSE IF entries[i] = identity THEN "yes" ELSE f[i - 1]
             after == CHOOSE f : f = [i \in 0..n |-> step(f, i)]
             found == [i \in 0..n |-> Found(entries, identity, i)]
  <1>1. Allowlist(entries, identity) = after[n]
    BY DEF Allowlist
  <1>2. ASSUME NEW i \in 0..n PROVE found[i] = step(found, i)
    <2>1. CASE i = 0
      BY <2>1 DEF Found
    <2>2. CASE i # 0
      <3>1. i - 1 \in 0..n /\ i \in Nat /\ \A j \in 1..i : j = i \/ j \in 1..(i - 1)
        BY <2>2
      <3>2. found[i - 1] = Found(entries, identity, i - 1)
        BY <3>1
      <3> HIDE DEF found
      <3>3. Found(entries, identity, i) = step(found, i)
        BY <2>2, <3>1, <3>2 DEF Found
      <3> QED  BY <3>3 DEF found
    <2> QED  BY <2>1, <2>2
  <1>3. found = [i \in 0..n |-> step(found, i)]
    BY <1>2
  <1> HIDE DEF step, found
  <1>4. after = [i \in 0..n |-> step(after, i)]
    BY <1>3
  <1> HIDE DEF after
  <1>5. \A i \in 0..n : after[i] = found[i]
    <2> DEFINE T == {i \in 0..n : after[i] # found[i]}
    <2> SUFFICES ASSUME T # {} PROVE FALSE
      OBVIOUS
    <2>1. PICK m \in T : \A k \in T : m <= k
      <3>1. T \subseteq Nat
        OBVIOUS
      <3> QED  BY <3>1, LeastNat
    <2>2. CASE m = 0
      BY <2>1, <2>2, <1>2, <1>4 DEF step
    <2>3. CASE m # 0
      <3>1. m \in 0..n /\ m - 1 \in 0..n /\ m - 1 \notin T
        BY <2>1, <2>3
      <3>2. step(after, m) = step(found, m)
        BY <3>1 DEF step
      <3> QED  BY <3>1, <3>2, <1>2, <1>4, <2>1
    <2> QED  BY <2>2, <2>3
  <1> QED  BY <1>1, <1>5 DEF found

\* authorizePVAnnotation admits whom the annotation names, and nobody by way of
\* a list with a blank or a wildcard in it.
LEMMA AnnotationNames ==
    ASSUME NEW annotation, NEW identity,
           annotation # None => annotation \in Seq(STRING),
           authorizePVAnnotation(annotation, identity)
    PROVE  OnAllowlist(annotation, identity)
  <1>1. CASE annotation = None
    BY <1>1 DEF OnAllowlist
  <1>2. CASE annotation # None
    <2>1. /\ Len(annotation) \in Nat /\ DOMAIN annotation = 1..Len(annotation)
          /\ Allowlist(annotation, identity) = "yes"
      BY <1>2, LenProperties DEF authorizePVAnnotation
    <2>2. Found(annotation, identity, Len(annotation)) = "yes"
      BY <2>1, AllowlistFinds
    <2> QED  BY <2>1, <2>2 DEF Found, OnAllowlist
  <1> QED  BY <1>1, <1>2

-----------------------------------------------------------------------------
(* The choice of the container.                                            *)

Statuses == [name : STRING, id : {None} \cup UIDs \X STRING \X Nat]

\* The statuses of one Pod: IDs are of its containers, names are different.
OwnStatuses(statuses, uid) ==
    /\ statuses \in Seq(Statuses)
    /\ \A i \in DOMAIN statuses : statuses[i].id # None => statuses[i].id[1] = uid
    /\ \A i, j \in DOMAIN statuses : statuses[i].name = statuses[j].name => i = j

LEMMA SeqDomain ==
    ASSUME NEW S, NEW s \in Seq(S)
    PROVE  /\ Len(s) \in Nat /\ DOMAIN s = 1..Len(s)
           /\ DOMAIN s \subseteq Nat \ {0} /\ \A i \in DOMAIN s : s[i] \in S
  BY LenProperties, ElementOfSeq

\* What containerStatusByName finds, it finds under the name.
LEMMA FoundByName ==
    ASSUME NEW pod, NEW name, pod.statuses \in Seq(Statuses),
           containerStatusByName(pod, name) # None
    PROVE  \E i \in DOMAIN pod.statuses :
              /\ containerStatusByName(pod, name) = pod.statuses[i]
              /\ pod.statuses[i].name = name /\ pod.statuses[i].id # None
  <1> DEFINE S == {i \in DOMAIN pod.statuses : pod.statuses[i].name = name}
  <1>1. S \subseteq Nat \ {0}
    BY SeqDomain
  <1>2. containerStatusByName(pod, name) = StatusAt(pod, First(S))
    BY DEF containerStatusByName
  <1>3. First(S) # 0 /\ pod.statuses[First(S)].id # None
        /\ StatusAt(pod, First(S)) = pod.statuses[First(S)]
    BY <1>2 DEF StatusAt
  <1>4. First(S) \in S
    BY <1>1, <1>3, FirstIsLeast
  <1> QED  BY <1>2, <1>3, <1>4

LEMMA SelectsOwn ==
    ASSUME NEW pod, NEW name, NEW uid, OwnStatuses(pod.statuses, uid),
           selectContainerStatus(pod, name) # None
    PROVE  LET status == selectContainerStatus(pod, name)
           IN  /\ status \in Statuses /\ status.id # None /\ status.id[1] = uid
               /\ name # None => status.name = name
  <1>1. pod.statuses \in Seq(Statuses)
    BY DEF OwnStatuses
  <1>2. \E i \in DOMAIN pod.statuses :
           /\ selectContainerStatus(pod, name) = pod.statuses[i]
           /\ pod.statuses[i].id # None
           /\ name # None => pod.statuses[i].name = name
    <2>1. CASE name # None
      BY <1>1, <2>1, FoundByName DEF selectContainerStatus
    <2>2. CASE name = None /\ sandboxMainContainerName(pod) # None
      BY <1>1, <2>2, FoundByName DEF selectContainerStatus
    <2>3. CASE name = None /\ sandboxMainContainerName(pod) = None
      <3>1. Len(pod.statuses) = 1 /\ selectContainerStatus(pod, name) = StatusAt(pod, 1)
        BY <2>3 DEF selectContainerStatus
      <3>2. 1 \in DOMAIN pod.statuses
        BY <1>1, <3>1, SeqDomain
      <3> QED  BY <2>3, <3>1, <3>2 DEF StatusAt
    <2> QED  BY <2>1, <2>2, <2>3
  <1> QED  BY <1>1, <1>2, SeqDomain DEF OwnStatuses

\* With different names, the one status of a name is found in either order.
LEMMA FoundInAnyOrder ==
    ASSUME NEW pod, NEW name, NEW uid, OwnStatuses(pod.statuses, uid),
           NEW other, other.statuses = Reversed(pod.statuses)
    PROVE  /\ Len(other.statuses) = Len(pod.statuses)
           /\ containerStatusByName(other, name) = containerStatusByName(pod, name)
           /\ Len(pod.statuses) = 1 => other.statuses[1] = pod.statuses[1]
  <1> DEFINE s == pod.statuses
             r == other.statuses
             n == Len(s)
             S == {i \in DOMAIN s : s[i].name = name}
             R == {i \in DOMAIN r : r[i].name = name}
  <1>1. /\ n \in Nat /\ DOMAIN s = 1..n /\ S \subseteq Nat \ {0}
    BY SeqDomain DEF OwnStatuses
  <1>2. /\ DOMAIN r = 1..n /\ \A i \in 1..n : n + 1 - i \in 1..n /\ r[i] = s[n + 1 - i]
    BY <1>1 DEF Reversed
  <1>3. Len(r) = n /\ R \subseteq Nat \ {0} /\ (n = 1 => r[1] = s[1])
    BY <1>1, <1>2
  <1>4. /\ containerStatusByName(pod, name) = StatusAt(pod, First(S))
        /\ containerStatusByName(other, name) = StatusAt(other, First(R))
    BY DEF containerStatusByName
  <1>5. CASE S = {}
    <2>1. R = {}
      BY <1>1, <1>2, <1>5
    <2>2. First(S) = 0 /\ First(R) = 0
      BY <1>5, <2>1 DEF First
    <2> QED  BY <1>3, <1>4, <2>2 DEF StatusAt
  <1>6. CASE S # {}
    <2>1. PICK i \in S : TRUE
      BY <1>6
    <2>2. n + 1 - i \in R
      <3>1. i \in 1..n /\ n + 1 - i \in 1..n /\ n + 1 - (n + 1 - i) = i
        BY <1>1, <2>1
      <3> QED  BY <1>2, <2>1, <3>1
    <2>3. First(S) \in S /\ First(S) # 0 /\ First(R) \in R /\ First(R) # 0
      BY <1>1, <1>3, <1>6, <2>2, FirstIsLeast
    <2>4. s[n + 1 - First(R)] = r[First(R)] /\ n + 1 - First(R) \in S
      BY <1>1, <1>2, <2>3
    <2>5. n + 1 - First(R) = First(S)
      BY <2>3, <2>4 DEF OwnStatuses
    <2>6. StatusAt(other, First(R)) = StatusAt(pod, First(S))
      BY <2>3, <2>4, <2>5 DEF StatusAt
    <2> QED  BY <1>3, <1>4, <2>6
  <1> QED  BY <1>5, <1>6

-----------------------------------------------------------------------------
(* The inductive invariant, as conditions on the births b, the versions d  *)
(* of the PV during the call, and the call c.                              *)

Births == [place : Places, spec : Specs]
Pods == [place : Places, uid : UIDs, sa : STRING, node : STRING,
         phase : {"Running"} \cup Terminal, containers : Seq(ContainerSpecs),
         statuses : Seq(Statuses), rest : {"labels"}]
Reviews == [authenticated : BOOLEAN, audience : BOOLEAN,
            user : {<<None, None>>} \cup {<<Namespace(p), s.sa>> : p \in Places, s \in Specs},
            names : Seq(Places), uids : Seq(UIDs)]
Plans == [podUID : UIDs, container : STRING, id : UIDs \X STRING \X Nat,
          pv : PVs \cup {None}]
Steps == {"idle", "review", "pod", "pv", "answered"}
Ops == {None, "mount", "unmount"}
Codes == {0, 200, 400, 403}
MaybePods == Pods \cup {None}
MaybePlans == Plans \cup {None}
MaybeRequests == Requests \cup {None}
CallRecords == [step : Steps, op : Ops, request : MaybeRequests, token : Tokens,
                review : Reviews, pod : MaybePods, code : Codes, plan : MaybePlans]

\* Pod p was created under its UID at its place, and reports its own containers.
Genuine(b, p) ==
    /\ p \in Pods /\ b[p.uid] # None
    /\ b[p.uid].place = p.place /\ b[p.uid].spec.sa = p.sa
    /\ OwnStatuses(p.statuses, p.uid)

\* The review names the Pod that the token was issued to.
Reviewed(b, c) ==
    LET t == c.token
    IN  /\ t # None /\ b[t.uid] # None /\ t.audience
        /\ c.review.user = <<Namespace(b[t.uid].place), b[t.uid].spec.sa>>
        /\ c.review.names = IF t.bound THEN <<b[t.uid].place>> ELSE <<>>
        /\ c.review.uids = IF t.bound THEN <<t.uid>> ELSE <<>>

\* The Pod that was read is the one the token is bound to.
Authorized(b, c, pod) ==
    /\ Genuine(b, pod)
    /\ c.token # None /\ c.token.bound /\ c.token.audience
    /\ pod.uid = c.token.uid /\ pod.place = c.request.place

\* The allowlists of the PV name the Pod of the token.
Allowed(b, d, c, v) ==
    LET birth == b[c.token.uid]
    IN  /\ v \in d \ {None} /\ v.ours /\ v.source # None
        /\ OnAllowlist(v.allowNamespace, Namespace(birth.place))
        /\ OnAllowlist(v.allowServiceAccount, birth.spec.sa)

\* The plan of a granted call.
PlanOK(b, d, c) ==
    /\ c.token # None /\ c.token.bound /\ c.token.audience
    /\ b[c.token.uid] # None /\ c.request.place = b[c.token.uid].place
    /\ c.plan.podUID = c.token.uid /\ c.plan.id[1] = c.token.uid
    /\ c.request.container # None => c.plan.container = c.request.container
    /\ c.op = "mount" => Allowed(b, d, c, c.plan.pv)

CallOK(b, d, c) ==
    /\ c \in CallRecords
    /\ c.step # "idle" => c.request \in Requests
    /\ c.step \in {"pod", "pv"} => Reviewed(b, c)
    /\ c.step = "pv" => Authorized(b, c, c.pod)
    /\ c.step = "answered" /\ c.code = 200 => PlanOK(b, d, c)

ClusterOK ==
    /\ pods \in [Places -> Pods \cup {None}]
    /\ \A p \in Places : pods[p] # None => Genuine(born, pods[p]) /\ pods[p].place = p
    /\ born \in [UIDs -> Births \cup {None}]
    /\ restarts \in Nat
    /\ pv \in PVs \cup {None} /\ pv \in during

Inv == ClusterOK /\ CallOK(born, during, call)

\* A Pod that was created stays the one that was created, and versions of the PV
\* only come to the others: what was true of a call stays true.
Grows(b, c) == \A u \in UIDs : b[u] # None => c[u] = b[u]

LEMMA TokenUID ==
    ASSUME NEW t \in Tokens, t # None
    PROVE  t.uid \in UIDs /\ t.bound \in BOOLEAN /\ t.audience \in BOOLEAN
  BY DEF Tokens

LEMMA GenuineStays ==
    ASSUME NEW b, NEW c, Grows(b, c), NEW p, Genuine(b, p)
    PROVE  Genuine(c, p)
  BY DEF Grows, Genuine, Pods

LEMMA CallStaysOK ==
    ASSUME NEW b, NEW c, Grows(b, c), NEW d, NEW e, d \subseteq e,
           NEW k, CallOK(b, d, k)
    PROVE  CallOK(c, e, k)
  <1>1. k \in CallRecords /\ k.token \in Tokens
    BY DEF CallOK, CallRecords
  <1>2. k.token # None => k.token.uid \in UIDs
    BY <1>1, TokenUID
  <1>3. ASSUME Reviewed(b, k) PROVE Reviewed(c, k)
    BY <1>2, <1>3 DEF Reviewed, Grows
  <1>4. ASSUME Authorized(b, k, k.pod) PROVE Authorized(c, k, k.pod)
    BY <1>4, GenuineStays DEF Authorized
  <1>5. ASSUME PlanOK(b, d, k) PROVE PlanOK(c, e, k)
    <2>1. c[k.token.uid] = b[k.token.uid]
      BY <1>2, <1>5 DEF PlanOK, Grows
    <2> QED  BY <1>5, <2>1 DEF PlanOK, Allowed
  <1> QED  BY <1>3, <1>4, <1>5 DEF CallOK

\* A step of the call leaves the cluster alone.
LEMMA CallStep ==
    ASSUME Inv, UNCHANGED <<pods, born, restarts, pv, edits, during>>,
           CallOK(born, during, call')
    PROVE  Inv'
  BY DEF Inv, ClusterOK

\* Answering a call leaves what it has read as it was.
LEMMA AnsweredFields ==
    ASSUME NEW k \in CallRecords, NEW code \in Codes
    PROVE  LET a == Answered(k, code)
           IN  /\ a \in CallRecords /\ a.step = "answered" /\ a.code = code
               /\ a.op = k.op /\ a.request = k.request /\ a.token = k.token
               /\ a.review = k.review /\ a.pod = k.pod /\ a.plan = k.plan
  <1> DEFINE a == Answered(k, code)
  <1>1. /\ a.step = "answered" /\ a.code = code
        /\ a.op = k.op /\ a.request = k.request /\ a.token = k.token
        /\ a.review = k.review /\ a.pod = k.pod /\ a.plan = k.plan
    BY DEF CallRecords, Answered
  <1>2. "answered" \in Steps
    BY DEF Steps
  <1>3. a \in CallRecords
    BY <1>2 DEF CallRecords, Answered
  <1> QED  BY <1>1, <1>3

LEMMA PlannedFields ==
    ASSUME NEW k \in CallRecords, NEW pod \in Pods, NEW v \in PVs \cup {None},
           NEW status \in Statuses, status.id # None
    PROVE  LET a == Planned(k, pod, status, v)
           IN  /\ a \in CallRecords /\ a.step = k.step /\ a.code = k.code
               /\ a.op = k.op /\ a.request = k.request /\ a.token = k.token
               /\ a.review = k.review /\ a.plan.podUID = pod.uid
               /\ a.plan.container = status.name /\ a.plan.id = status.id
               /\ a.plan.pv = v
  <1> DEFINE a == Planned(k, pod, status, v)
             plan == [podUID |-> pod.uid, container |-> status.name,
                      id |-> status.id, pv |-> v]
  <1>1. pod.uid \in UIDs /\ status.name \in STRING /\ status.id \in UIDs \X STRING \X Nat
    BY DEF Pods, Statuses
  <1>2. plan \in MaybePlans /\ pod \in MaybePods
    BY <1>1 DEF MaybePlans, Plans, MaybePods
  <1>3. /\ plan.podUID = pod.uid /\ plan.container = status.name /\ plan.id = status.id
        /\ plan.pv = v
    OBVIOUS
  <1>4. a = [k EXCEPT !.pod = pod, !.plan = plan]
    BY DEF Planned
  <1> HIDE DEF plan, a
  <1>5. /\ a \in CallRecords /\ a.step = k.step /\ a.code = k.code
        /\ a.op = k.op /\ a.request = k.request /\ a.token = k.token
        /\ a.review = k.review /\ a.plan = plan
    BY <1>2, <1>4 DEF CallRecords
  <1> QED  BY <1>3, <1>5 DEF a

\* A refusal, whatever has been read.
LEMMA RefusalOK ==
    ASSUME Inv, call.step # "idle", NEW code \in {400, 403},
           call' = Answered(call, code)
    PROVE  CallOK(born, during, call')
  <1>1. call \in CallRecords /\ call.request \in Requests /\ code \in Codes
    BY DEF Inv, CallOK, Codes
  <1>2. call' \in CallRecords /\ call'.code = code /\ call'.step = "answered"
        /\ call'.request = call.request
    BY <1>1, AnsweredFields
  <1> QED  BY <1>1, <1>2 DEF CallOK

\* The steps of a call.
LEMMA IdleFields ==
    /\ Idle \in CallRecords
    /\ Idle.step = "idle" /\ Idle.code = 0
  <1>1. NoReview \in Reviews
    BY DEF NoReview, Reviews
  <1>2. /\ "idle" \in Steps /\ None \in Ops /\ None \in MaybeRequests /\ None \in Tokens
        /\ None \in MaybePods /\ 0 \in Codes /\ None \in MaybePlans
    BY DEF Steps, Ops, MaybeRequests, Tokens, MaybePods, Codes, MaybePlans
  <1> QED  BY <1>1, <1>2 DEF Idle, CallRecords

LEMMA IdleOK == CallOK(born, during, Idle)
  BY IdleFields DEF CallOK

LEMMA ArrivedFields ==
    ASSUME NEW op \in {"mount", "unmount"}, NEW r \in Requests, NEW t \in Tokens
    PROVE  LET k == Arrived(op, r, t)
           IN  k \in CallRecords /\ k.request = r /\ k.step = "review"
  <1>1. "review" \in Steps /\ op \in Ops /\ r \in MaybeRequests
    BY DEF Steps, Ops, MaybeRequests
  <1>2. ASSUME NEW i \in CallRecords, NEW k,
               k = [i EXCEPT !.step = "review", !.op = op, !.request = r, !.token = t]
        PROVE  k \in CallRecords /\ k.request = r /\ k.step = "review"
    BY <1>1, <1>2 DEF CallRecords
  <1> DEFINE k == Arrived(op, r, t)
  <1>3. k = [Idle EXCEPT !.step = "review", !.op = op, !.request = r, !.token = t]
    BY DEF Arrived
  <1> HIDE DEF k
  <1>4. k \in CallRecords /\ k.request = r /\ k.step = "review"
    BY <1>2, <1>3, IdleFields, Zenon
  <1> QED  BY <1>4 DEF k

LEMMA BeginInv ==
    ASSUME Inv, NEW op \in {"mount", "unmount"}, NEW r \in Requests, NEW t \in Tokens,
           Begin(op, r, t)
    PROVE  Inv'
  <1>1. /\ call' \in CallRecords /\ call'.request = r
        /\ call'.step = "review" \/ (call'.step = "answered" /\ call'.code = 400)
    <2>1. 400 \in Codes
      BY DEF Codes
    <2>2. CASE call' = Arrived(op, r, t)
      <3>1. /\ Arrived(op, r, t) \in CallRecords /\ Arrived(op, r, t).request = r
            /\ Arrived(op, r, t).step = "review"
        BY ArrivedFields
      <3> QED  BY <2>2, <3>1
    <2>3. CASE call' = Answered(Arrived(op, r, t), 400)
      BY <2>1, <2>3, ArrivedFields, AnsweredFields
    <2> QED  BY <2>2, <2>3 DEF Begin
  <1>2. ClusterOK'
    BY DEF Inv, ClusterOK, Begin
  <1>3. CallOK(born, during', call')
    BY <1>1 DEF CallOK
  <1> QED  BY <1>2, <1>3 DEF Inv, Begin

\* A review that passes is that of the token's Pod.
LEMMA ReviewTells ==
    ASSUME Inv, NEW t \in Tokens, NEW place, authorizeToken(Review(t), place)
    PROVE  /\ t # None /\ born[t.uid] # None /\ t.audience /\ Review(t) \in Reviews
           /\ Review(t).user = <<Namespace(born[t.uid].place), born[t.uid].spec.sa>>
           /\ Review(t).names = IF t.bound THEN <<born[t.uid].place>> ELSE <<>>
           /\ Review(t).uids = IF t.bound THEN <<t.uid>> ELSE <<>>
  <1>1. Review(t) # NoReview
    BY DEF authorizeToken, NoReview
  <1>2. t # None /\ born[t.uid] # None
    BY <1>1 DEF Review
  <1> DEFINE b == born[t.uid]
  <1>3. Review(t) = [authenticated |-> TRUE,
                     user |-> <<Namespace(b.place), b.spec.sa>>,
                     audience |-> t.audience,
                     names |-> IF t.bound THEN <<b.place>> ELSE <<>>,
                     uids |-> IF t.bound THEN <<t.uid>> ELSE <<>>]
    BY <1>1, <1>2 DEF Review
  <1>4. t.audience
    BY <1>3 DEF authorizeToken
  <1>5. t.uid \in UIDs /\ t.bound \in BOOLEAN /\ t.audience \in BOOLEAN
    BY <1>2, TokenUID
  <1>6. b \in Births
    BY <1>2, <1>5 DEF Inv, ClusterOK
  <1>7. b.place \in Places /\ b.spec \in Specs
    BY <1>6 DEF Births
  <1>8. /\ <<b.place>> \in Seq(Places) /\ <<t.uid>> \in Seq(UIDs)
        /\ <<>> \in Seq(Places) /\ <<>> \in Seq(UIDs)
    BY <1>5, <1>7
  <1>9. Review(t) \in Reviews
    BY <1>3, <1>5, <1>7, <1>8 DEF Reviews
  <1> HIDE DEF b
  <1>10. /\ Review(t).user = <<Namespace(b.place), b.spec.sa>>
         /\ Review(t).names = IF t.bound THEN <<b.place>> ELSE <<>>
         /\ Review(t).uids = IF t.bound THEN <<t.uid>> ELSE <<>>
    BY <1>3
  <1> QED  BY <1>2, <1>4, <1>9, <1>10 DEF b

LEMMA ReviewTokenInv == Inv /\ ReviewToken => Inv'
  <1> SUFFICES ASSUME Inv, ReviewToken PROVE Inv'
    OBVIOUS
  <1> DEFINE status == Review(call.token)
  <1>1. /\ call \in CallRecords /\ call.step = "review" /\ call.request \in Requests
        /\ call.token \in Tokens
    BY DEF Inv, CallOK, CallRecords, ReviewToken
  <1>2. CallOK(born, during, call')
    <2>1. CASE authorizeToken(status, call.request.place)
      <3>1. call' = [call EXCEPT !.step = "pod", !.review = status]
        BY <2>1 DEF ReviewToken
      <3>2. /\ call.token # None /\ born[call.token.uid] # None /\ call.token.audience
            /\ status \in Reviews
            /\ status.user = <<Namespace(born[call.token.uid].place),
                               born[call.token.uid].spec.sa>>
            /\ status.names = IF call.token.bound THEN <<born[call.token.uid].place>> ELSE <<>>
            /\ status.uids = IF call.token.bound THEN <<call.token.uid>> ELSE <<>>
        BY <1>1, <2>1, ReviewTells
      <3> HIDE DEF status
      <3>3. "pod" \in Steps
        BY DEF Steps
      <3>4. /\ call' \in CallRecords /\ call'.step = "pod" /\ call'.review = status
            /\ call'.request = call.request /\ call'.token = call.token
        BY <1>1, <3>1, <3>2, <3>3 DEF CallRecords
      <3>5. Reviewed(born, call')
        BY <3>2, <3>4 DEF Reviewed
      <3> QED  BY <1>1, <3>4, <3>5 DEF CallOK
    <2>2. CASE ~authorizeToken(status, call.request.place)
      <3>1. call' = Answered(call, 403)
        BY <2>2 DEF ReviewToken, ErrorStatus
      <3> QED  BY <1>1, <3>1, RefusalOK
    <2> QED  BY <2>1, <2>2
  <1> QED  BY <1>2, CallStep DEF ReviewToken

\* The Pod that GetPod lets through is the one the token is bound to.
LEMMA PodTells ==
    ASSUME Inv, call.step = "pod", NEW pod, pod = pods[call.request.place], pod # None,
           authorizePod(call.review, pod, call.request)
    PROVE  Authorized(born, call, pod)
  <1>1. /\ call \in CallRecords /\ call.request \in Requests /\ Reviewed(born, call)
        /\ call.token \in Tokens
    BY DEF Inv, CallOK, CallRecords
  <1>2. call.request.place \in Places /\ call.request.uid \in UIDs
    BY <1>1 DEF Requests
  <1>3. Genuine(born, pod) /\ pod.place = call.request.place /\ pod.uid = call.request.uid
    BY <1>2 DEF Inv, ClusterOK, authorizePod, validatePodIdentity
  <1>4. call.token # None /\ call.token.audience /\ call.token.bound \in BOOLEAN
    BY <1>1, TokenUID DEF Reviewed
  <1>5. call.review.uids = <<call.request.uid>>
    BY DEF authorizePod, requireTokenPodExtra
  <1>6. call.review.uids = IF call.token.bound THEN <<call.token.uid>> ELSE <<>>
    BY <1>1 DEF Reviewed
  <1>7. call.token.bound
    <2> SUFFICES ASSUME ~call.token.bound PROVE FALSE
      OBVIOUS
    <2>1. <<call.request.uid>> = <<>>
      BY <1>5, <1>6
    <2> QED  BY <2>1
  <1>8. call.token.uid = call.request.uid
    BY <1>5, <1>6, <1>7
  <1> QED  BY <1>3, <1>4, <1>7, <1>8 DEF Authorized

\* The plan of a call that is granted with the Pod of its token.
LEMMA GrantOK ==
    ASSUME Inv, call.step \in {"pod", "pv"}, NEW pod, Authorized(born, call, pod),
           NEW v \in PVs \cup {None},
           NEW status, status = selectContainerStatus(pod, call.request.container),
           status # None,
           call.op = "mount" => Allowed(born, during, call, v),
           call' = Planned(Answered(call, 200), pod, status, v)
    PROVE  CallOK(born, during, call')
  <1>1. /\ call \in CallRecords /\ call.request \in Requests /\ Reviewed(born, call)
        /\ 200 \in Codes
    BY DEF Inv, CallOK, Codes
  <1>2. /\ Genuine(born, pod) /\ pod \in Pods /\ OwnStatuses(pod.statuses, pod.uid)
        /\ born[pod.uid] # None /\ born[pod.uid].place = pod.place
        /\ call.token # None /\ call.token.bound /\ call.token.audience
        /\ pod.uid = call.token.uid /\ pod.place = call.request.place
    BY DEF Authorized, Genuine
  <1>3. /\ status \in Statuses /\ status.id # None /\ status.id[1] = pod.uid
        /\ call.request.container # None => status.name = call.request.container
    BY <1>2, SelectsOwn
  <1> DEFINE a == Answered(call, 200)
  <1>4. /\ a \in CallRecords /\ a.step = "answered" /\ a.code = 200
        /\ a.op = call.op /\ a.request = call.request /\ a.token = call.token
    BY <1>1, AnsweredFields
  <1> HIDE DEF a
  <1>5. /\ call' \in CallRecords /\ call'.step = a.step /\ call'.code = a.code
        /\ call'.op = a.op /\ call'.request = a.request /\ call'.token = a.token
        /\ call'.plan.podUID = pod.uid /\ call'.plan.container = status.name
        /\ call'.plan.id = status.id /\ call'.plan.pv = v
    BY <1>2, <1>3, <1>4, PlannedFields DEF a
  <1>6. call'.op = "mount" => Allowed(born, during, call', call'.plan.pv)
    BY <1>4, <1>5 DEF Allowed
  <1>7. PlanOK(born, during, call')
    BY <1>2, <1>3, <1>4, <1>5, <1>6 DEF PlanOK
  <1> QED  BY <1>1, <1>4, <1>5, <1>7 DEF CallOK

LEMMA GetPodInv == Inv /\ GetPod => Inv'
  <1> SUFFICES ASSUME Inv, GetPod PROVE Inv'
    OBVIOUS
  <1> DEFINE pod == pods[call.request.place]
             status == selectContainerStatus(pod, call.request.container)
  <1>1. call \in CallRecords /\ call.step = "pod" /\ call.request \in Requests
        /\ Reviewed(born, call)
    BY DEF Inv, CallOK, GetPod
  <1>2. CASE pod = None \/ ~authorizePod(call.review, pod, call.request) \/ ~validatePodNode(pod)
    <2>1. call' = Answered(call, 403)
      BY <1>2 DEF GetPod, ErrorStatus
    <2>2. CallOK(born, during, call')
      BY <1>1, <2>1, RefusalOK
    <2> QED  BY <2>2, CallStep DEF GetPod
  <1>3. CASE pod # None /\ authorizePod(call.review, pod, call.request) /\ validatePodNode(pod)
    <2>1. Authorized(born, call, pod)
      BY <1>1, <1>3, PodTells
    <2>2. CASE call.op = "unmount"
      <3>1. call' = Selected(pod)
        BY <1>3, <2>2 DEF GetPod
      <3>2. CASE status = None
        <4>1. call' = Answered(call, 400)
          BY <3>1, <3>2 DEF Selected
        <4>2. CallOK(born, during, call')
          BY <1>1, <4>1, RefusalOK
        <4> QED  BY <4>2, CallStep DEF GetPod
      <3>3. CASE status # None
        <4>1. call' = Planned(Answered(call, 200), pod, status, None)
          BY <3>1, <3>3 DEF Selected
        <4>2. call.op # "mount"
          BY <2>2
        <4> HIDE DEF pod
        <4>3. CallOK(born, during, call')
          BY <1>1, <2>1, <3>3, <4>1, <4>2, GrantOK
        <4> QED  BY <4>3, CallStep DEF GetPod
      <3> QED  BY <3>2, <3>3
    <2>3. CASE call.op # "unmount"
      <3>1. call' = [call EXCEPT !.step = "pv", !.pod = pod]
        BY <1>3, <2>3 DEF GetPod
      <3>2. pod \in MaybePods /\ "pv" \in Steps
        BY <2>1 DEF Authorized, Genuine, MaybePods, Steps
      <3> HIDE DEF pod
      <3>3. /\ call' \in CallRecords /\ call'.step = "pv" /\ call'.pod = pod
            /\ call'.request = call.request /\ call'.token = call.token
            /\ call'.review = call.review
        BY <1>1, <3>1, <3>2 DEF CallRecords
      <3>4. Reviewed(born, call')
        BY <1>1, <3>3 DEF Reviewed
      <3>5. Authorized(born, call', call'.pod)
        BY <2>1, <3>3 DEF Authorized
      <3>6. CallOK(born, during, call')
        BY <1>1, <3>3, <3>4, <3>5 DEF CallOK
      <3> QED  BY <3>6, CallStep DEF GetPod
    <2> QED  BY <2>2, <2>3
  <1> QED  BY <1>2, <1>3

\* authorizePVForPod lets a PV through whose lists name the Pod of the token.
LEMMA PVTells ==
    ASSUME Inv, call.step = "pv", pv # None, authorizePVForPod(call.pod, pv),
           pv.source # None
    PROVE  Allowed(born, during, call, pv)
  <1>1. /\ Authorized(born, call, call.pod) /\ pv \in PVs /\ pv \in during
    BY DEF Inv, CallOK, ClusterOK
  <1>2. /\ born[call.token.uid].place = call.pod.place
        /\ born[call.token.uid].spec.sa = call.pod.sa
    BY <1>1 DEF Authorized, Genuine
  <1>3. /\ pv.allowNamespace # None => pv.allowNamespace \in Seq(STRING)
        /\ pv.allowServiceAccount # None => pv.allowServiceAccount \in Seq(STRING)
    BY <1>1, AuthorizationAssumption
  <1>4. /\ pv.ours
        /\ authorizePVAnnotation(pv.allowNamespace, Namespace(call.pod.place))
        /\ authorizePVAnnotation(pv.allowServiceAccount, call.pod.sa)
    BY DEF authorizePVForPod
  <1>5. /\ OnAllowlist(pv.allowNamespace, Namespace(call.pod.place))
        /\ OnAllowlist(pv.allowServiceAccount, call.pod.sa)
    BY <1>3, <1>4, AnnotationNames
  <1> QED  BY <1>1, <1>2, <1>4, <1>5 DEF Allowed

LEMMA GetPersistentVolumeInv == Inv /\ GetPersistentVolume => Inv'
  <1> SUFFICES ASSUME Inv, GetPersistentVolume PROVE Inv'
    OBVIOUS
  <1> DEFINE status == selectContainerStatus(call.pod, call.request.container)
  <1>1. call \in CallRecords /\ call.step = "pv" /\ Authorized(born, call, call.pod)
        /\ pv \in PVs \cup {None}
    BY DEF Inv, ClusterOK, CallOK, GetPersistentVolume
  <1>2. \/ call' = Answered(call, 403)
        \/ call' = Answered(call, 400)
        \/ /\ pv # None /\ authorizePVForPod(call.pod, pv) /\ pv.source # None
           /\ status # None
           /\ call' = Planned(Answered(call, 200), call.pod, status, pv)
    BY DEF GetPersistentVolume, ErrorStatus
  <1>3. CASE call' = Answered(call, 403) \/ call' = Answered(call, 400)
    <2>1. CallOK(born, during, call')
      BY <1>1, <1>3, RefusalOK
    <2> QED  BY <2>1, CallStep DEF GetPersistentVolume
  <1>4. CASE /\ pv # None /\ authorizePVForPod(call.pod, pv) /\ pv.source # None
             /\ status # None
             /\ call' = Planned(Answered(call, 200), call.pod, status, pv)
    <2>1. Allowed(born, during, call, pv)
      BY <1>1, <1>4, PVTells
    <2>2. CallOK(born, during, call')
      BY <1>1, <1>4, <2>1, GrantOK
    <2> QED  BY <2>2, CallStep DEF GetPersistentVolume
  <1> QED  BY <1>2, <1>3, <1>4

LEMMA LookupUnavailableInv == Inv /\ LookupUnavailable => Inv'
  <1> SUFFICES ASSUME Inv, LookupUnavailable PROVE Inv'
    OBVIOUS
  <1>1. call.step # "idle" /\ call' = Answered(call, 403)
    BY DEF LookupUnavailable, LookupFails, ErrorStatus
  <1>2. CallOK(born, during, call')
    BY <1>1, RefusalOK
  <1> QED  BY <1>2, CallStep DEF LookupUnavailable

LEMMA ForgetInv == Inv /\ Forget => Inv'
  <1> SUFFICES ASSUME Inv, Forget PROVE Inv'
    OBVIOUS
  <1>1. CallOK(born, during, call')
    BY IdleOK DEF Forget
  <1> QED  BY <1>1, CallStep DEF Forget

-----------------------------------------------------------------------------
(* The cluster.                                                            *)

\* A step of the cluster leaves the call alone.
LEMMA ClusterStep ==
    ASSUME Inv, UNCHANGED call, Grows(born, born'), during \subseteq during', ClusterOK'
    PROVE  Inv'
  <1>1. CallOK(born', during', call)
    BY CallStaysOK DEF Inv
  <1> QED  BY <1>1 DEF Inv

\* One Pod is replaced by a genuine one, or by none.
LEMMA ReplacedPod ==
    ASSUME ClusterOK, NEW place \in Places, NEW pod,
           pod = None \/ (Genuine(born', pod) /\ pod.place = place),
           pods' = [pods EXCEPT ![place] = pod],
           born' \in [UIDs -> Births \cup {None}], Grows(born, born'),
           restarts' \in Nat, UNCHANGED <<pv, during>>
    PROVE  ClusterOK'
  <1>1. pods' \in [Places -> Pods \cup {None}]
    BY DEF ClusterOK, Genuine
  <1>2. ASSUME NEW p \in Places, pods'[p] # None
        PROVE  Genuine(born', pods'[p]) /\ pods'[p].place = p
    <2>1. CASE p = place
      BY <1>2, <2>1 DEF ClusterOK
    <2>2. CASE p # place
      <3>1. pods'[p] = pods[p]
        BY <2>2 DEF ClusterOK
      <3> QED  BY <1>2, <3>1, GenuineStays DEF ClusterOK
    <2> QED  BY <2>1, <2>2
  <1> QED  BY <1>1, <1>2 DEF ClusterOK

LEMMA StatusesOfSpec ==
    ASSUME NEW uid \in UIDs, NEW spec \in Specs
    PROVE  OwnStatuses(StatusOf(uid, spec, 0), uid)
  <1> DEFINE s == StatusOf(uid, spec, 0)
             n == Len(spec.containers)
  <1>1. /\ spec.containers \in Seq(ContainerSpecs)
        /\ \A i, j \in DOMAIN spec.containers :
              spec.containers[i].name = spec.containers[j].name => i = j
    BY AuthorizationAssumption
  <1>2. /\ n \in Nat /\ DOMAIN spec.containers = 1..n
        /\ \A i \in 1..n : spec.containers[i].name \in STRING
    <2>1. /\ n \in Nat /\ DOMAIN spec.containers = 1..n
          /\ \A i \in 1..n : spec.containers[i] \in ContainerSpecs
      BY <1>1, SeqDomain
    <2>2. ASSUME NEW i \in 1..n PROVE spec.containers[i].name \in STRING
      BY <2>1 DEF ContainerSpecs
    <2> QED  BY <2>1, <2>2
  <1>3. DOMAIN s = 1..n /\ \A i \in 1..n :
           s[i] = [name |-> spec.containers[i].name,
                   id |-> <<uid, spec.containers[i].name, 0>>]
    BY <1>2 DEF StatusOf
  <1>4. ASSUME NEW i \in 1..n
        PROVE  /\ s[i] \in Statuses /\ s[i].name = spec.containers[i].name
               /\ s[i].id = <<uid, spec.containers[i].name, 0>>
    <2>1. /\ spec.containers[i].name \in STRING
          /\ s[i] = [name |-> spec.containers[i].name,
                     id |-> <<uid, spec.containers[i].name, 0>>]
      BY <1>2, <1>3
    <2> HIDE DEF s
    <2>2. <<uid, spec.containers[i].name, 0>> \in UIDs \X STRING \X Nat
      BY <2>1
    <2> QED  BY <2>1, <2>2 DEF Statuses
  <1>5. s = [i \in 1..n |-> s[i]]
    BY <1>2 DEF StatusOf
  <1> HIDE DEF s
  <1>6. s \in [1..n -> Statuses]
    BY <1>4, <1>5
  <1>7. s \in Seq(Statuses)
    BY <1>2, <1>6
  <1>8. OwnStatuses(s, uid)
    BY <1>1, <1>2, <1>3, <1>4, <1>7 DEF OwnStatuses
  <1> QED  BY <1>8 DEF s

LEMMA CreatePodInv ==
    ASSUME Inv, NEW place \in Places, NEW uid \in UIDs, NEW spec \in Specs,
           CreatePod(place, uid, spec)
    PROVE  Inv'
  <1> DEFINE statuses == StatusOf(uid, spec, 0)
             pod == [place |-> place, uid |-> uid, sa |-> spec.sa, node |-> spec.node,
                     phase |-> "Running", containers |-> spec.containers,
                     statuses |-> statuses, rest |-> "labels"]
             birth == [place |-> place, spec |-> spec]
  <1>1. /\ pods' = [pods EXCEPT ![place] = pod] /\ born' = [born EXCEPT ![uid] = birth]
        /\ born[uid] = None
    BY DEF CreatePod
  <1>2. born \in [UIDs -> Births \cup {None}]
    BY DEF Inv, ClusterOK
  <1>3. birth \in Births
    BY DEF Births
  <1>4. born' \in [UIDs -> Births \cup {None}] /\ born'[uid] = birth
    BY <1>1, <1>2, <1>3
  <1>5. Grows(born, born')
    BY <1>1, <1>2 DEF Grows
  <1>6. birth # None
    BY <1>3, AuthorizationAssumption DEF Births
  <1>7. OwnStatuses(statuses, uid) /\ statuses \in Seq(Statuses)
    BY StatusesOfSpec DEF OwnStatuses
  <1>8. /\ spec.sa \in STRING /\ spec.node \in STRING
        /\ spec.containers \in Seq(ContainerSpecs)
    BY AuthorizationAssumption
  <1> HIDE DEF statuses
  <1>9. pod \in Pods
    BY <1>7, <1>8 DEF Pods
  <1>10. Genuine(born', pod) /\ pod.place = place
    BY <1>4, <1>6, <1>7, <1>9 DEF Genuine
  <1> HIDE DEF pod, birth
  <1>11. ClusterOK'
    BY <1>1, <1>4, <1>5, <1>10, ReplacedPod DEF Inv, ClusterOK, CreatePod
  <1> QED  BY <1>5, <1>11, ClusterStep DEF CreatePod

\* One status gets another ID.
LEMMA ReportedStatuses ==
    ASSUME NEW s, NEW uid, OwnStatuses(s, uid), NEW i \in DOMAIN s,
           NEW id \in {None} \cup UIDs \X STRING \X Nat, id # None => id[1] = uid
    PROVE  OwnStatuses([s EXCEPT ![i].id = id], uid)
  <1> DEFINE new == [s[i] EXCEPT !.id = id]
             t == [s EXCEPT ![i] = new]
  <1>1. s \in Seq(Statuses) /\ s[i] \in Statuses
    BY SeqDomain DEF OwnStatuses
  <1>2. new \in Statuses /\ new.name = s[i].name /\ new.id = id
    BY <1>1 DEF Statuses
  <1>3. [s EXCEPT ![i].id = id] = t
    OBVIOUS
  <1> HIDE DEF new
  <1>4. t \in Seq(Statuses) /\ DOMAIN t = DOMAIN s
    BY <1>1, <1>2, ExceptSeq
  <1>5. \A j \in DOMAIN s : t[j] = IF j = i THEN new ELSE s[j]
    OBVIOUS
  <1> HIDE DEF t
  <1>6. \A j \in DOMAIN s : t[j].name = s[j].name
    BY <1>2, <1>5
  <1>7. OwnStatuses(t, uid)
    BY <1>2, <1>4, <1>5, <1>6 DEF OwnStatuses
  <1> QED  BY <1>3, <1>7

LEMMA ReportContainerInv ==
    ASSUME Inv, NEW place \in Places, pods[place] # None,
           NEW i \in DOMAIN pods[place].statuses,
           NEW id \in {None, <<pods[place].uid, pods[place].statuses[i].name, restarts + 1>>},
           ReportContainer(place, i, id)
    PROVE  Inv'
  <1> DEFINE old == pods[place]
             s == [old.statuses EXCEPT ![i].id = id]
             pod == [old EXCEPT !.statuses = s]
  <1>1. /\ Genuine(born, old) /\ old \in Pods /\ old.place = place
        /\ pods \in [Places -> Pods \cup {None}] /\ restarts \in Nat
    BY DEF Inv, ClusterOK, Genuine
  <1>2. OwnStatuses(old.statuses, old.uid) /\ old.uid \in UIDs
    BY <1>1 DEF Genuine, Pods
  <1>3. old.statuses[i] \in Statuses
    BY <1>2, SeqDomain DEF OwnStatuses
  <1>4. /\ id \in {None} \cup UIDs \X STRING \X Nat
        /\ id # None => id[1] = old.uid
    <2>1. old.statuses[i].name \in STRING /\ restarts + 1 \in Nat
      BY <1>1, <1>3 DEF Statuses
    <2> HIDE DEF old
    <2>2. <<old.uid, old.statuses[i].name, restarts + 1>> \in UIDs \X STRING \X Nat
      BY <1>2, <2>1
    <2>3. id = None \/ id = <<old.uid, old.statuses[i].name, restarts + 1>>
      BY DEF old
    <2> QED  BY <2>2, <2>3
  <1>5. OwnStatuses(s, old.uid) /\ s \in Seq(Statuses)
    <2> HIDE DEF old
    <2>1. i \in DOMAIN old.statuses
      BY DEF old
    <2>2. OwnStatuses(s, old.uid)
      BY <1>2, <1>4, <2>1, ReportedStatuses, Zenon
    <2> QED  BY <2>2 DEF OwnStatuses
  <1>6. pods' = [pods EXCEPT ![place] = pod]
    BY <1>1 DEF ReportContainer
  <1> HIDE DEF s, old
  <1>7. pod \in Pods /\ pod.place = old.place /\ pod.uid = old.uid /\ pod.sa = old.sa
        /\ pod.statuses = s
    BY <1>1, <1>5 DEF Pods
  <1>8. Genuine(born, pod)
    BY <1>1, <1>5, <1>7 DEF Genuine
  <1> HIDE DEF pod
  <1>9. Grows(born, born') /\ born' = born /\ restarts' \in Nat
    BY <1>1 DEF ReportContainer, Grows
  <1>10. ClusterOK'
    <2>1. Genuine(born', pod) /\ pod.place = place /\ UNCHANGED <<pv, during>>
      BY <1>1, <1>7, <1>8, <1>9 DEF ReportContainer
    <2> QED  BY <1>6, <1>9, <2>1, ReplacedPod DEF Inv, ClusterOK
  <1> QED  BY <1>9, <1>10, ClusterStep DEF ReportContainer

LEMMA EndPodInv ==
    ASSUME Inv, NEW place \in Places, EndPod(place)
    PROVE  Inv'
  <1> DEFINE old == pods[place]
  <1>1. /\ Genuine(born, old) /\ old \in Pods /\ old.place = place
        /\ pods \in [Places -> Pods \cup {None}] /\ restarts \in Nat
    BY DEF Inv, ClusterOK, Genuine, EndPod
  <1>2. PICK pod : /\ pods' = [pods EXCEPT ![place] = pod]
                   /\ pod = None \/ (Genuine(born, pod) /\ pod.place = place)
    <2>1. CASE pods' = [pods EXCEPT ![place] = None]
      <3> WITNESS None
      <3> QED  BY <2>1
    <2>2. CASE \E phase \in Terminal : pods' = [pods EXCEPT ![place].phase = phase]
      <3>1. PICK phase \in Terminal : pods' = [pods EXCEPT ![place].phase = phase]
        BY <2>2
      <3> DEFINE pod == [old EXCEPT !.phase = phase]
      <3>2. pods' = [pods EXCEPT ![place] = pod]
        BY <1>1, <3>1
      <3> HIDE DEF old
      <3>3. phase \in {"Running"} \cup Terminal
        OBVIOUS
      <3>4. pod \in Pods /\ pod.place = old.place /\ pod.uid = old.uid /\ pod.sa = old.sa
            /\ pod.statuses = old.statuses
        BY <1>1, <3>3 DEF Pods
      <3>5. Genuine(born, pod) /\ pod.place = place
        BY <1>1, <3>4 DEF Genuine
      <3> WITNESS pod
      <3> QED  BY <3>2, <3>5
    <2> QED  BY <2>1, <2>2 DEF EndPod
  <1>3. Grows(born, born') /\ born' = born /\ restarts' \in Nat /\ UNCHANGED <<pv, during>>
    BY <1>1 DEF EndPod, Grows
  <1>4. ClusterOK'
    BY <1>2, <1>3, ReplacedPod DEF Inv, ClusterOK
  <1> QED  BY <1>3, <1>4, ClusterStep DEF EndPod

LEMMA EditPVInv ==
    ASSUME Inv, NEW new \in PVs \cup {None}, EditPV(new)
    PROVE  Inv'
  <1>1. Grows(born, born') /\ during \subseteq during'
    BY DEF EditPV, Grows
  <1>2. ClusterOK'
    BY DEF Inv, ClusterOK, EditPV
  <1> QED  BY <1>1, <1>2, ClusterStep DEF EditPV

-----------------------------------------------------------------------------
LEMMA InitInv == Init => Inv
  <1> SUFFICES ASSUME Init PROVE Inv
    OBVIOUS
  <1>1. CallOK(born, during, call)
    BY IdleOK DEF Init
  <1>2. ClusterOK
    BY DEF Init, ClusterOK
  <1> QED  BY <1>1, <1>2 DEF Inv

LEMMA NextInv == Inv /\ [Next]_vars => Inv'
  <1> SUFFICES ASSUME Inv, [Next]_vars PROVE Inv'
    OBVIOUS
  <1>1. CASE \E op \in {"mount", "unmount"}, r \in Requests, t \in Tokens : Begin(op, r, t)
    BY <1>1, BeginInv
  <1>2. CASE ReviewToken
    BY <1>2, ReviewTokenInv
  <1>3. CASE GetPod
    BY <1>3, GetPodInv
  <1>4. CASE GetPersistentVolume
    BY <1>4, GetPersistentVolumeInv
  <1>5. CASE LookupUnavailable
    BY <1>5, LookupUnavailableInv
  <1>6. CASE Forget
    BY <1>6, ForgetInv
  <1>7. CASE \E p \in Places, u \in UIDs, s \in Specs : CreatePod(p, u, s)
    BY <1>7, CreatePodInv
  <1>8. CASE \E p \in Places : pods[p] # None /\ \E i \in DOMAIN pods[p].statuses :
                \E id \in {None, <<pods[p].uid, pods[p].statuses[i].name, restarts + 1>>} :
                   ReportContainer(p, i, id)
    BY <1>8, ReportContainerInv
  <1>9. CASE \E p \in Places : EndPod(p)
    BY <1>9, EndPodInv
  <1>10. CASE \E new \in PVs \cup {None} : EditPV(new)
    BY <1>10, EditPVInv
  <1>11. CASE UNCHANGED vars
    BY <1>11 DEF vars, Inv, ClusterOK
  <1> QED  BY <1>1, <1>2, <1>3, <1>4, <1>5, <1>6, <1>7, <1>8, <1>9, <1>10, <1>11 DEF Next

(* Whatever happens to the Pod, its containers and the PV between the       *)
(* lookups of a call, what each lookup has established stays true of the    *)
(* Pod the token was issued to.                                             *)
THEOREM LookupsAgree == Spec => []Inv
  BY InitInv, NextInv, PTL DEF Spec

(* authorizedPodForRequest: a granted call acts for the Pod whose bound     *)
(* token it carried, in a container of that very Pod, for any number of     *)
(* Pods that had its name before or after.                                  *)
THEOREM CallsActForTheirPod == Spec => []GrantsCallersPod
  <1>1. Inv => GrantsCallersPod
    BY DEF Inv, CallOK, PlanOK, GrantsCallersPod, Granted
  <1> QED  BY <1>1, LookupsAgree, PTL

(* authorizePVAnnotation and authorizePVForPod, for every PV and Pod: a     *)
(* granted mount takes its source from a version of the PV whose allowlists *)
(* name the Pod's namespace and service account and are valid throughout.   *)
THEOREM MountsAreAllowed == Spec => []GrantsAllowedPV
  <1>1. Inv => GrantsAllowedPV
    BY DEF Inv, CallOK, PlanOK, Allowed, GrantsAllowedPV, Granted
  <1> QED  BY <1>1, LookupsAgree, PTL

(* selectContainerStatus: of every Pod that can exist, the container that   *)
(* a request chooses is the same in whichever order statuses are listed.    *)
THEOREM ContainerChoiceIsOrderFree == Spec => []ChoiceIgnoresOrder
  <1>1. ASSUME Inv PROVE ChoiceIgnoresOrder
    <2> SUFFICES ASSUME NEW p \in Places, NEW name \in Requested, pods[p] # None
                 PROVE  selectContainerStatus(pods[p], name) =
                        selectContainerStatus([pods[p] EXCEPT !.statuses = Reversed(@)], name)
      BY DEF ChoiceIgnoresOrder
    <2> DEFINE pod == pods[p]
               other == [pod EXCEPT !.statuses = Reversed(@)]
    <2>1. pod \in Pods /\ OwnStatuses(pod.statuses, pod.uid)
      BY <1>1 DEF Inv, ClusterOK, Genuine
    <2> HIDE DEF pod
    <2>2. other.statuses = Reversed(pod.statuses) /\ other.containers = pod.containers
      BY <2>1 DEF Pods
    <2> HIDE DEF other
    <2>3. /\ Len(other.statuses) = Len(pod.statuses)
          /\ \A n : containerStatusByName(other, n) = containerStatusByName(pod, n)
          /\ Len(pod.statuses) = 1 => other.statuses[1] = pod.statuses[1]
      BY <2>1, <2>2, FoundInAnyOrder
    <2>4. sandboxMainContainerName(other) = sandboxMainContainerName(pod)
      BY <2>2 DEF sandboxMainContainerName
    <2>5. Len(pod.statuses) = 1 => StatusAt(other, 1) = StatusAt(pod, 1)
      BY <2>3 DEF StatusAt
    <2>6. selectContainerStatus(pod, name) = selectContainerStatus(other, name)
      BY <2>3, <2>4, <2>5 DEF selectContainerStatus
    <2> QED  BY <2>6 DEF pod, other
  <1> QED  BY <1>1, LookupsAgree, PTL
=============================================================================
