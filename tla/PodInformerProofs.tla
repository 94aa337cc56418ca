-------------------------- MODULE PodInformerProofs --------------------------
(***************************************************************************)
(* Proofs about the informer: for any number of Pods under one name,       *)
(* container restarts, broken watches and crashes, an intent that is out   *)
(* of date has something on its way that will bring it up to date, and the *)
(* intent of a Pod that is gone has something that will remove it.         *)
(***************************************************************************)
EXTENDS PodInformer, SequenceTheorems, TLAPS

-----------------------------------------------------------------------------
(* The inductive invariant.                                                *)

\* A copy of a Pod of which c were created, with n containers started.
Copy(p, c, n) ==
    /\ p \in Pods /\ p.uid <= c
    /\ p.phase = "Pending" => p.statuses = <<>>
    /\ p.phase # "Pending" => \E i \in 1..n : p.statuses = Reports(p.uid, i)

Copies ==
    /\ api # None => Copy(api, created, starts)
    /\ cache # None => Copy(cache, created, starts)
    /\ \A i \in DOMAIN wire : Copy(wire[i].pod, created, starts)
    /\ \A i \in DOMAIN podEvents : Copy(podEvents[i].pod, created, starts)

\* The last message on the wire is about the Pod as it is, and when all are
\* received, so is the cache.
Current ==
    watch = "up" =>
        /\ wire = <<>> => cache = IF api = None THEN None ELSE trimPodForInformerCache(api)
        /\ wire # <<>> =>
              LET last == wire[Len(wire)]
              IN  IF api = None THEN last.type = "DELETED"
                  ELSE last.type # "DELETED" /\ last.pod = api

\* An ended Pod stays ended: a copy of it cannot be ahead of it.
NotAhead(p) == p.uid = api.uid /\ p.phase = "Failed" => api.phase = "Failed"
EndsLast ==
    api # None => /\ cache # None => NotAhead(cache)
                  /\ \A i \in DOMAIN wire : NotAhead(wire[i].pod)

Pending ==
    api # None /\ api.phase = "Pending" => records[api.uid] = None /\ ~Underway(api.uid)

\* A message about Pod p, in the state that p is in.
About(m, type, p) ==
    /\ m.type = type /\ m.pod.uid = p.uid
    /\ m.pod.phase = p.phase /\ m.pod.statuses = p.statuses
Tells(m, p) == \E type \in {"ADDED", "MODIFIED"} : About(m, type, p)

\* A container that runs; a record that is where it should be, or none.
Fits(id) == id = CurrentID /\ CurrentID # None /\ api.phase \notin Terminal
SettledBy(r) == r = None \/ Fits(r)
Settled == SettledBy(records[api.uid])

\* The cache differs from the Pod in what the filter compares; or an event that
\* describes the Pod waits.
Unaware == cache = None \/ ~sameContainerState(cache, api)
Told == \E i \in DOMAIN podEvents : Tells(podEvents[i], api)
OnItsWay == Unaware \/ Told

\* Unless an event was worked off at a bad moment, the intent is settled or will
\* be, if no request holds it; and a request puts or leaves it where it will be.
Awaited ==
    api # None /\ api.uid \notin crossed /\ ~Locked(api.uid) => Settled \/ OnItsWay
Requested ==
    api # None /\ api.uid \notin crossed /\ Underway(api.uid) =>
        /\ Fits(mounting.id) \/ OnItsWay
        /\ Locked(api.uid) => SettledBy(mounting.prev) \/ OnItsWay

\* What the informer knows of a Pod that is gone is followed by its removal.
Removes(m, u) == m.type = "DELETED" /\ m.pod.uid = u
Leaving ==
    watch = "up" =>
        /\ cache # None /\ PodGone(cache.uid) =>
              \E j \in DOMAIN wire : Removes(wire[j], cache.uid)
        /\ \A i \in DOMAIN wire :
              wire[i].type # "DELETED" /\ PodGone(wire[i].pod.uid) =>
                 \E j \in DOMAIN wire : j > i /\ Removes(wire[j], wire[i].pod.uid)

FirstList == losses = 0 /\ watch = "down" => ~synced

\* There is an intent, or a request that may save one.
Intended(u) == records[u] # None \/ Underway(u)

Forgetting ==
    losses = 0 => \A u \in UIDs \ crossed : PodGone(u) /\ Intended(u) =>
        \/ ~synced
        \/ \E i \in DOMAIN podEvents : Removes(podEvents[i], u)
        \/ \E j \in DOMAIN wire : Removes(wire[j], u)

InformerInv ==
    /\ InformerTypeOK /\ Copies /\ Current /\ EndsLast /\ Pending
    /\ Awaited /\ Requested /\ Leaving /\ FirstList /\ Forgetting

-----------------------------------------------------------------------------
(* Queues.                                                                 *)

LEMMA MessageSeq ==
    ASSUME NEW s \in Seq(Messages)
    PROVE  /\ Len(s) \in Nat /\ DOMAIN s = 1..Len(s)
           /\ \A i \in DOMAIN s : s[i] \in Messages
           /\ s = <<>> <=> Len(s) = 0
  BY LenProperties, ElementOfSeq, EmptySeq

LEMMA Appended ==
    ASSUME NEW s \in Seq(Messages), NEW m \in Messages, NEW t, t = Append(s, m)
    PROVE  /\ t \in Seq(Messages) /\ t # <<>> /\ t[Len(t)] = m /\ Len(t) \in DOMAIN t
           /\ \A i \in DOMAIN s : i \in DOMAIN t /\ t[i] = s[i] /\ Len(t) > i
           /\ \A i \in DOMAIN t : i = Len(t) \/ i \in DOMAIN s
  <1>1. Len(s) \in Nat /\ DOMAIN s = 1..Len(s)
    BY MessageSeq
  <1>2. /\ t \in Seq(Messages) /\ t # <<>> /\ Len(t) = Len(s) + 1 /\ t[Len(s) + 1] = m
        /\ \A i \in 1..Len(s) : t[i] = s[i]
    BY AppendProperties
  <1>3. DOMAIN t = 1..Len(t)
    BY <1>2, MessageSeq
  <1> QED  BY <1>1, <1>2, <1>3

\* An event that is handed on goes to the end of the queue.
LEMMA Joined ==
    ASSUME NEW s \in Seq(Messages), NEW m \in Messages, NEW t, t = s \o <<m>>
    PROVE  /\ t \in Seq(Messages) /\ t[Len(t)] = m /\ Len(t) \in DOMAIN t
           /\ \A i \in DOMAIN s : i \in DOMAIN t /\ t[i] = s[i]
           /\ \A i \in DOMAIN t : i = Len(t) \/ i \in DOMAIN s
  <1>1. <<m>> \in Seq(Messages) /\ Len(<<m>>) = 1
    OBVIOUS
  <1>2. t = Append(s, m)
    BY <1>1, AppendIsConcat
  <1> QED  BY <1>2, Appended

LEMMA Tailed ==
    ASSUME NEW s \in Seq(Messages), s # <<>>
    PROVE  LET t == Tail(s)
           IN  /\ t \in Seq(Messages) /\ Head(s) = s[1] /\ 1 \in DOMAIN s
               /\ \A i \in DOMAIN t : i + 1 \in DOMAIN s /\ t[i] = s[i + 1]
               /\ \A i \in DOMAIN s : i = 1 \/ (i - 1 \in DOMAIN t /\ t[i - 1] = s[i])
               /\ t # <<>> => t[Len(t)] = s[Len(s)]
               /\ t = <<>> => Len(s) = 1
  <1>0. PICK t : t = Tail(s)
    OBVIOUS
  <1>1. Len(s) \in Nat /\ DOMAIN s = 1..Len(s) /\ Len(s) # 0
    BY MessageSeq
  <1>2. /\ t \in Seq(Messages) /\ Len(t) = Len(s) - 1 /\ Head(s) = s[1]
        /\ \A i \in 1..Len(t) : t[i] = s[i + 1]
    BY <1>0, HeadTailProperties
  <1>3. Len(t) \in Nat /\ DOMAIN t = 1..Len(t) /\ (t = <<>> <=> Len(t) = 0)
    BY <1>2, MessageSeq
  <1>4. ASSUME NEW i \in DOMAIN s, i # 1 PROVE i - 1 \in DOMAIN t /\ t[i - 1] = s[i]
    <2>1. i - 1 \in 1..Len(t) /\ (i - 1) + 1 = i
      BY <1>1, <1>2, <1>4
    <2> QED  BY <1>2, <1>3, <2>1
  <1>5. ASSUME t # <<>> PROVE t[Len(t)] = s[Len(s)]
    <2>1. Len(t) \in 1..Len(t) /\ Len(t) + 1 = Len(s)
      BY <1>1, <1>2, <1>3, <1>5
    <2> QED  BY <1>2, <2>1
  <1> QED  BY <1>0, <1>1, <1>2, <1>3, <1>4, <1>5

-----------------------------------------------------------------------------
(* Pods and their copies.                                                  *)

\* The transform of the cache and the snapshot keep what the checks look at.
LEMMA TrimKeeps ==
    ASSUME NEW p \in Pods
    PROVE  LET t == trimPodForInformerCache(p)
           IN  /\ t \in Pods /\ t.uid = p.uid /\ t.phase = p.phase
               /\ t.statuses = p.statuses /\ t.rest = None
  <1> DEFINE c == [i \in DOMAIN p.containers |->
                     [p.containers[i] EXCEPT !.env = {e \in @ : e.name = Marker}]]
  <1>1. p.containers = Containers
    BY DEF Pods
  <1>2. c = Containers
    <2>1. DOMAIN Containers = 1..1 /\ Containers[1] = [name |-> Target, env |-> {}]
          /\ Len(Containers) = 1
      BY DEF Containers
    <2>2. [Containers[1] EXCEPT !.env = {e \in @ : e.name = Marker}] = Containers[1]
      BY <2>1
    <2>3. \A i \in DOMAIN Containers : i = 1
      BY <2>1
    <2>4. c = [i \in DOMAIN Containers |-> Containers[i]]
      BY <1>1, <2>2, <2>3
    <2>5. Containers = [i \in DOMAIN Containers |-> Containers[i]]
      BY DEF Containers
    <2> QED  BY <2>4, <2>5
  <1>3. trimPodForInformerCache(p) = [p EXCEPT !.containers = Containers, !.rest = None]
    BY <1>2 DEF trimPodForInformerCache
  <1>4. None \in Rests /\ Containers \in {Containers}
    BY DEF Rests
  <1>6. [p EXCEPT !.containers = Containers, !.rest = None] \in Pods
    BY <1>4 DEF Pods
  <1>7. /\ [p EXCEPT !.containers = Containers, !.rest = None].uid = p.uid
        /\ [p EXCEPT !.containers = Containers, !.rest = None].phase = p.phase
        /\ [p EXCEPT !.containers = Containers, !.rest = None].statuses = p.statuses
        /\ [p EXCEPT !.containers = Containers, !.rest = None].rest = None
    BY DEF Pods
  <1> QED  BY <1>3, <1>6, <1>7

LEMMA SnapshotKeeps ==
    ASSUME NEW p \in Pods
    PROVE  LET t == podSnapshot(p)
           IN  /\ t \in Pods /\ t.uid = p.uid /\ t.phase = p.phase
               /\ t.statuses = p.statuses
  <1>1. None \in Rests
    BY DEF Rests
  <1> QED  BY <1>1 DEF Pods, podSnapshot

\* What is selected for the target depends on the statuses alone.
LEMMA SelectsTarget ==
    ASSUME NEW p, NEW i, i # None,
           p.statuses = <<>> \/ \E u : p.statuses = Reports(u, i)
    PROVE  selectContainerStatus(p, Target) =
           IF p.statuses = <<>> THEN None ELSE [name |-> Target, id |-> i]
  <1> DEFINE S == {k \in DOMAIN p.statuses : p.statuses[k].name = Target}
  <1>1. selectContainerStatus(p, Target) = StatusAt(p, First(S))
    BY InformerAssumption DEF selectContainerStatus, containerStatusByName
  <1>2. CASE p.statuses = <<>>
    <2>1. S = {}
      BY <1>2
    <2> QED  BY <1>1, <1>2, <2>1 DEF First, StatusAt
  <1>3. CASE p.statuses # <<>>
    <2>1. PICK u : p.statuses = Reports(u, i)
      BY <1>3
    <2>2. /\ DOMAIN p.statuses = 1..2 /\ p.statuses[1].name = "side"
          /\ p.statuses[2].name = Target /\ p.statuses[2].id = i
          /\ p.statuses[2] = [name |-> Target, id |-> i]
      BY <2>1 DEF Reports
    <2>3. \A k \in 1..2 : k = 1 \/ k = 2
      OBVIOUS
    <2>4. S = {2}
      BY <2>2, <2>3 DEF Target
    <2>5. First(S) = 2
      BY <2>4 DEF First, Min
    <2>6. StatusAt(p, 2) = p.statuses[2]
      BY <2>2 DEF StatusAt
    <2> HIDE DEF S
    <2>7. selectContainerStatus(p, Target) = p.statuses[2]
      BY <1>1, <2>5, <2>6
    <2> QED  BY <1>3, <2>2, <2>7
  <1> QED  BY <1>2, <1>3

\* For copies, the filter compares phase and statuses.
LEMMA SameIsEqual ==
    ASSUME NEW p, NEW q, NEW c, NEW n, Copy(p, c, n), Copy(q, c, n)
    PROVE  sameContainerState(p, q) <=> p.phase = q.phase /\ p.statuses = q.statuses
  <1>1. ASSUME p.phase = q.phase, p.statuses = q.statuses PROVE sameContainerState(p, q)
    BY <1>1 DEF sameContainerState
  <1>2. ASSUME sameContainerState(p, q) PROVE p.phase = q.phase /\ p.statuses = q.statuses
    <2>1. p.phase = q.phase
      BY <1>2 DEF sameContainerState
    <2>2. CASE p.phase = "Pending"
      BY <2>1, <2>2 DEF Copy
    <2>3. CASE p.phase # "Pending"
      <3>1. PICK i \in 1..n : p.statuses = Reports(p.uid, i)
        BY <2>3 DEF Copy
      <3>2. PICK j \in 1..n : q.statuses = Reports(q.uid, j)
        BY <2>1, <2>3 DEF Copy
      <3>3. \A k \in 1..2 : \E l \in 1..2 : p.statuses[l] = q.statuses[k]
        <4>1. DOMAIN p.statuses = 1..2 /\ DOMAIN q.statuses = 1..2
          BY <3>1, <3>2 DEF Reports
        <4> QED  BY <1>2, <4>1 DEF sameContainerState
      <3>4. \A k \in 1..2 : k = 1 \/ k = 2
        OBVIOUS
      <3>5. /\ p.statuses[1].name = "side" /\ q.statuses[1].name = "side"
            /\ p.statuses[2].name = "main" /\ q.statuses[2].name = "main"
            /\ p.statuses[1].id = <<p.uid, "side">> /\ q.statuses[1].id = <<q.uid, "side">>
            /\ p.statuses[2].id = i /\ q.statuses[2].id = j
        BY <3>1, <3>2 DEF Target, Reports
      <3>6. p.statuses[1] = q.statuses[1] /\ p.statuses[2] = q.statuses[2]
        BY <3>3, <3>4, <3>5
      <3>7. <<p.uid, "side">> = <<q.uid, "side">> /\ i = j
        BY <3>5, <3>6
      <3>8. p.uid = q.uid
        BY <3>7
      <3> QED  BY <2>1, <3>1, <3>2, <3>7, <3>8
    <2> QED  BY <2>2, <2>3
  <1> QED  BY <1>1, <1>2

LEMMA CopySelects ==
    ASSUME NEW p, NEW c, NEW n \in 0..(MaxPods + MaxRestarts), Copy(p, c, n)
    PROVE  LET s == selectContainerStatus(p, Target)
           IN  /\ p.phase = "Pending" => s = None
               /\ p.phase # "Pending" => /\ s # None /\ s.id # None /\ s.id \in 1..n
                                         /\ p.statuses = Reports(p.uid, s.id)
  <1>1. CASE p.phase = "Pending"
    <2>1. p.statuses = <<>>
      BY <1>1 DEF Copy
    <2>2. 0 # None
      BY InformerAssumption
    <2>3. selectContainerStatus(p, Target) = None
      BY <2>1, <2>2, SelectsTarget
    <2> QED  BY <1>1, <2>3
  <1>2. CASE p.phase # "Pending"
    <2>1. PICK i \in 1..n : p.statuses = Reports(p.uid, i)
      BY <1>2 DEF Copy
    <2>2. i \in IDs /\ i \in Nat
      BY InformerAssumption DEF IDs
    <2>3. i # None /\ [name |-> Target, id |-> i] # None
      <3>1. [name |-> Target, id |-> i] \in [name : {Target}, id : IDs]
        BY <2>2
      <3> QED  BY <2>2, <3>1, InformerAssumption
    <2>4. p.statuses # <<>>
      BY <2>1 DEF Reports
    <2>5. selectContainerStatus(p, Target) = [name |-> Target, id |-> i]
      BY <2>1, <2>3, <2>4, SelectsTarget
    <2>6. selectContainerStatus(p, Target).id = i
      BY <2>5
    <2> QED  BY <1>2, <2>1, <2>3, <2>5, <2>6
  <1> QED  BY <1>1, <1>2

\* The container ID is determined by the statuses.
LEMMA CurrentTarget ==
    ASSUME InformerInv, api # None
    PROVE  /\ api.phase = "Pending" => CurrentID = None
           /\ api.phase # "Pending" =>
                 /\ CurrentID # None /\ CurrentID \in 1..starts
                 /\ api.statuses = Reports(api.uid, CurrentID)
  <1>1. Copy(api, created, starts) /\ starts \in 0..(MaxPods + MaxRestarts)
    BY DEF InformerInv, Copies, InformerTypeOK
  <1> QED  BY <1>1, CopySelects DEF CurrentID

LEMMA CopyGrows ==
    ASSUME NEW p, NEW c \in Nat, NEW n \in Nat, NEW d \in Nat, NEW m \in Nat, c <= d, n <= m,
           Copy(p, c, n)
    PROVE  Copy(p, d, m)
  <1>1. p.uid \in Nat
    BY DEF Copy, Pods, UIDs
  <1>2. \A i \in 1..n : i \in 1..m
    OBVIOUS
  <1> QED  BY <1>1, <1>2 DEF Copy

\* Copies of copies.
LEMMA TrimCopy ==
    ASSUME NEW p, NEW c, NEW n, Copy(p, c, n)
    PROVE  /\ Copy(trimPodForInformerCache(p), c, n) /\ Copy(podSnapshot(p), c, n)
           /\ trimPodForInformerCache(p) # None
  <1>1. p \in Pods
    BY DEF Copy
  <1>2. trimPodForInformerCache(p) # None
    BY <1>1, TrimKeeps, InformerAssumption
  <1>3. Copy(trimPodForInformerCache(p), c, n)
    BY <1>1, TrimKeeps DEF Copy
  <1>4. Copy(podSnapshot(p), c, n)
    BY <1>1, SnapshotKeeps DEF Copy
  <1> QED  BY <1>2, <1>3, <1>4

\* An event is a message about the copy it was made of.
LEMMA EventOf ==
    ASSUME NEW type \in {"ADDED", "MODIFIED", "DELETED"}, NEW p, NEW c, NEW n, Copy(p, c, n)
    PROVE  LET m == [type |-> type, pod |-> podSnapshot(p)]
           IN  /\ Event(type, p) = <<m>> /\ m \in Messages /\ m.type = type
               /\ Copy(m.pod, c, n) /\ m.pod.uid = p.uid /\ m.pod.phase = p.phase
               /\ m.pod.statuses = p.statuses
  <1> DEFINE m == [type |-> type, pod |-> podSnapshot(p)]
  <1>1. p \in Pods
    BY DEF Copy
  <1>2. /\ podSnapshot(p) \in Pods /\ podSnapshot(p).uid = p.uid
        /\ podSnapshot(p).phase = p.phase /\ podSnapshot(p).statuses = p.statuses
    BY <1>1, SnapshotKeeps
  <1>3. m \in Messages /\ m.type = type /\ m.pod = podSnapshot(p)
    BY <1>2 DEF Messages
  <1>4. Event(type, p) = <<m>>
    BY DEF Event
  <1>5. Copy(podSnapshot(p), c, n)
    BY TrimCopy
  <1> HIDE DEF m
  <1>6. /\ Copy(m.pod, c, n) /\ m.pod.uid = p.uid /\ m.pod.phase = p.phase
        /\ m.pod.statuses = p.statuses
    BY <1>2, <1>3, <1>5
  <1> QED  BY <1>3, <1>4, <1>6 DEF m

-----------------------------------------------------------------------------
(* What the handlers of the informer hand on.                              *)

LEMMA HandedOn ==
    ASSUME InformerInv, NEW type \in {"ADDED", "MODIFIED", "DELETED"}, NEW p,
           Copy(p, created, starts), podEvents' = podEvents \o Event(type, p)
    PROVE  /\ podEvents' \in Seq(Messages)
           /\ \A i \in DOMAIN podEvents : i \in DOMAIN podEvents' /\ podEvents'[i] = podEvents[i]
           /\ \A i \in DOMAIN podEvents' : Copy(podEvents'[i].pod, created, starts)
           /\ \E i \in DOMAIN podEvents' : About(podEvents'[i], type, p)
  <1> DEFINE m == [type |-> type, pod |-> podSnapshot(p)]
  <1>1. /\ Event(type, p) = <<m>> /\ m \in Messages /\ m.type = type
        /\ Copy(m.pod, created, starts) /\ m.pod.uid = p.uid /\ m.pod.phase = p.phase
        /\ m.pod.statuses = p.statuses
    BY EventOf
  <1> HIDE DEF m
  <1>2. podEvents \in Seq(Messages)
        /\ \A i \in DOMAIN podEvents : Copy(podEvents[i].pod, created, starts)
    BY DEF InformerInv, InformerTypeOK, Copies
  <1>3. podEvents' = podEvents \o <<m>>
    BY <1>1
  <1>4. /\ podEvents' \in Seq(Messages) /\ podEvents'[Len(podEvents')] = m /\ Len(podEvents') \in DOMAIN podEvents'
        /\ \A i \in DOMAIN podEvents : i \in DOMAIN podEvents' /\ podEvents'[i] = podEvents[i]
        /\ \A i \in DOMAIN podEvents' : i = Len(podEvents') \/ i \in DOMAIN podEvents
    BY <1>1, <1>2, <1>3, Joined
  <1>5. \A i \in DOMAIN podEvents' : Copy(podEvents'[i].pod, created, starts)
    BY <1>1, <1>2, <1>4
  <1>6. \E i \in DOMAIN podEvents' : About(podEvents'[i], type, p)
    BY <1>1, <1>4 DEF About
  <1> QED  BY <1>4, <1>5, <1>6

\* A Pod that is stored is in the cache, and unless the cache had it in the same
\* state, an event describes it.
LEMMA Stored ==
    ASSUME InformerInv, NEW p, Copy(p, created, starts), Store(p)
    PROVE  /\ cache' = trimPodForInformerCache(p) /\ cache' # None
           /\ Copy(cache', created, starts) /\ cache'.rest = None
           /\ cache'.uid = p.uid /\ cache'.phase = p.phase /\ cache'.statuses = p.statuses
           /\ podEvents' \in Seq(Messages)
           /\ \A i \in DOMAIN podEvents : i \in DOMAIN podEvents' /\ podEvents'[i] = podEvents[i]
           /\ \A i \in DOMAIN podEvents' : Copy(podEvents'[i].pod, created, starts)
           /\ \/ cache # None /\ cache.phase = p.phase /\ cache.statuses = p.statuses
              \/ \E i \in DOMAIN podEvents' :
                    Tells(podEvents'[i], p)
  <1>0. PICK new : new = trimPodForInformerCache(p)
    OBVIOUS
  <1>1. p \in Pods
    BY DEF Copy
  <1>2. /\ new \in Pods /\ new.uid = p.uid /\ new.phase = p.phase
        /\ new.statuses = p.statuses /\ new.rest = None
    BY <1>0, <1>1, TrimKeeps
  <1>3. Copy(new, created, starts) /\ new # None
    BY <1>0, TrimCopy
  <1>4. cache' = new /\ podEvents' = podEvents \o IF cache = None THEN AddFunc(new)
                                                   ELSE UpdateFunc(cache, new)
    BY <1>0 DEF Store
  <1>5. podEvents \in Seq(Messages)
        /\ (\A i \in DOMAIN podEvents : Copy(podEvents[i].pod, created, starts))
        /\ (cache # None => Copy(cache, created, starts))
    BY DEF InformerInv, InformerTypeOK, Copies
  <1>6. CASE cache = None
    <2>1. podEvents' = podEvents \o Event("ADDED", new)
      BY <1>4, <1>6 DEF AddFunc
    <2>2. /\ podEvents' \in Seq(Messages)
          /\ \A i \in DOMAIN podEvents : i \in DOMAIN podEvents' /\ podEvents'[i] = podEvents[i]
          /\ \A i \in DOMAIN podEvents' : Copy(podEvents'[i].pod, created, starts)
          /\ \E i \in DOMAIN podEvents' :
                About(podEvents'[i], "ADDED", new)
      BY <1>3, <2>1, HandedOn
    <2>3. \E i \in DOMAIN podEvents' : Tells(podEvents'[i], p)
      BY <1>2, <2>2 DEF Tells, About
    <2> QED  BY <1>0, <1>2, <1>3, <1>4, <2>2, <2>3
  <1>7. CASE cache # None /\ ~sameContainerState(cache, new)
    <2>1. podEvents' = podEvents \o Event("MODIFIED", new)
      BY <1>4, <1>7 DEF UpdateFunc
    <2>2. /\ podEvents' \in Seq(Messages)
          /\ \A i \in DOMAIN podEvents : i \in DOMAIN podEvents' /\ podEvents'[i] = podEvents[i]
          /\ \A i \in DOMAIN podEvents' : Copy(podEvents'[i].pod, created, starts)
          /\ \E i \in DOMAIN podEvents' :
                About(podEvents'[i], "MODIFIED", new)
      BY <1>3, <2>1, HandedOn
    <2>3. \E i \in DOMAIN podEvents' : Tells(podEvents'[i], p)
      BY <1>2, <2>2 DEF Tells, About
    <2> QED  BY <1>0, <1>2, <1>3, <1>4, <2>2, <2>3
  <1>8. CASE cache # None /\ sameContainerState(cache, new)
    <2>1. podEvents' = podEvents \o <<>>
      BY <1>4, <1>8 DEF UpdateFunc
    <2>2. podEvents' = podEvents
      BY <1>5, <2>1, ConcatEmptySeq
    <2>3. cache.phase = new.phase /\ cache.statuses = new.statuses
      BY <1>3, <1>5, <1>8, SameIsEqual
    <2> QED  BY <1>0, <1>2, <1>3, <1>4, <1>5, <1>8, <2>2, <2>3
  <1> QED  BY <1>6, <1>7, <1>8

LEMMA Dropped ==
    ASSUME InformerInv, NEW p, Copy(p, created, starts), Drop(p)
    PROVE  /\ cache' = None
           /\ podEvents' \in Seq(Messages)
           /\ \A i \in DOMAIN podEvents : i \in DOMAIN podEvents' /\ podEvents'[i] = podEvents[i]
           /\ \A i \in DOMAIN podEvents' : Copy(podEvents'[i].pod, created, starts)
           /\ \E i \in DOMAIN podEvents' : Removes(podEvents'[i], p.uid)
  <1>1. cache' = None /\ podEvents' = podEvents \o Event("DELETED", p)
    BY DEF Drop, DeleteFunc
  <1>2. /\ podEvents' \in Seq(Messages)
        /\ \A i \in DOMAIN podEvents : i \in DOMAIN podEvents' /\ podEvents'[i] = podEvents[i]
        /\ \A i \in DOMAIN podEvents' : Copy(podEvents'[i].pod, created, starts)
        /\ \E i \in DOMAIN podEvents' :
              About(podEvents'[i], "DELETED", p)
    BY <1>1, HandedOn
  <1> QED  BY <1>1, <1>2 DEF Removes, About

-----------------------------------------------------------------------------
(* Steps of the cluster.                                                   *)

LEMMA SentOn ==
    ASSUME InformerInv, NEW type \in {"ADDED", "MODIFIED", "DELETED"}, NEW p \in Pods,
           Sent(type, p)
    PROVE  /\ wire' \in Seq(Messages)
           /\ \A i \in DOMAIN wire : i \in DOMAIN wire' /\ wire'[i] = wire[i]
           /\ \A i \in DOMAIN wire' :
                 \/ i \in DOMAIN wire
                 \/ wire'[i].type = type /\ wire'[i].pod = p
           /\ watch = "up" =>
                 /\ wire' # <<>> /\ Len(wire') \in DOMAIN wire'
                 /\ wire'[Len(wire')].type = type /\ wire'[Len(wire')].pod = p
                 /\ \A i \in DOMAIN wire : Len(wire') > i
  <1> DEFINE m == [type |-> type, pod |-> p]
  <1>1. wire \in Seq(Messages)
    BY DEF InformerInv, InformerTypeOK
  <1>2. m \in Messages /\ m.type = type /\ m.pod = p
    BY DEF Messages
  <1>3. wire' = IF watch = "up" THEN Append(wire, m) ELSE wire
    BY DEF Sent
  <1> HIDE DEF m
  <1>4. CASE watch = "up"
    <2>1. wire' = Append(wire, m)
      BY <1>3, <1>4
    <2>2. /\ wire' \in Seq(Messages) /\ wire' # <<>> /\ wire'[Len(wire')] = m
          /\ Len(wire') \in DOMAIN wire'
          /\ \A i \in DOMAIN wire : i \in DOMAIN wire' /\ wire'[i] = wire[i] /\ Len(wire') > i
          /\ \A i \in DOMAIN wire' : i = Len(wire') \/ i \in DOMAIN wire
      BY <1>1, <1>2, <2>1, Appended
    <2> QED  BY <1>2, <2>2
  <1>5. CASE watch # "up"
    BY <1>1, <1>3, <1>5
  <1> QED  BY <1>4, <1>5

\* The request under way, when more Pods are created and containers started.
LEMMA RequestGrows ==
    ASSUME InformerInv, NEW c \in Nat, created <= c, NEW n \in Nat, starts <= n,
           mounting # None
    PROVE  /\ mounting \in Mountings /\ mounting.uid \in UIDs
           /\ mounting.uid <= c /\ mounting.id <= n
           /\ mounting.prev # None => mounting.prev <= n
  <1>1. /\ mounting \in Mountings /\ mounting.uid <= created /\ mounting.id <= starts
        /\ mounting.prev # None => mounting.prev <= starts
        /\ created \in Nat /\ starts \in Nat
    BY InformerAssumption DEF InformerInv, InformerTypeOK
  <1>2. /\ mounting.uid \in UIDs /\ mounting.id \in IDs
        /\ mounting.prev \in IDs \cup {NoContainer, None}
    BY <1>1 DEF Mountings
  <1>3. /\ mounting.uid \in Nat /\ mounting.id \in Nat
        /\ mounting.prev # None => mounting.prev \in Nat
    BY <1>2, InformerAssumption DEF UIDs, IDs, NoContainer
  <1> QED  BY <1>1, <1>2, <1>3

\* A Pod that stays the same Pod changes.
LEMMA ChangeInv ==
    ASSUME InformerInv, api # None, NEW p, Copy(p, created, starts'), p.uid = api.uid,
           starts' \in Nat, starts' >= starts, starts' <= MaxPods + MaxRestarts,
           UNCHANGED created, Change(p),
           api.phase = "Failed" => p.phase = "Failed",
           p.phase = "Pending" => api.phase = "Pending",
           Awaited', Requested'
    PROVE  InformerInv'
  <1>1. /\ api' = p /\ Sent("MODIFIED", p)
        /\ UNCHANGED <<watch, cache, podEvents, synced, records, mounting, crossed, losses,
                       crashes, created>>
    BY DEF Change, requestVars
  <1>2. p \in Pods /\ p # None
    BY InformerAssumption DEF Copy
  <1>3. /\ wire' \in Seq(Messages)
        /\ \A i \in DOMAIN wire : i \in DOMAIN wire' /\ wire'[i] = wire[i]
        /\ \A i \in DOMAIN wire' :
              \/ i \in DOMAIN wire
              \/ wire'[i].type = "MODIFIED" /\ wire'[i].pod = p
        /\ watch = "up" =>
              /\ wire' # <<>> /\ Len(wire') \in DOMAIN wire'
              /\ wire'[Len(wire')].type = "MODIFIED" /\ wire'[Len(wire')].pod = p
              /\ \A i \in DOMAIN wire : Len(wire') > i
    BY <1>1, <1>2, SentOn
  <1>4. created \in Nat /\ starts \in Nat
    BY InformerAssumption DEF InformerInv, InformerTypeOK
  <1>5. InformerTypeOK'
    <2>1. p.uid <= created
      BY DEF Copy
    <2>2. \A i \in DOMAIN wire' : wire'[i].pod.uid <= created
      BY <1>3, <2>1 DEF InformerInv, InformerTypeOK
    <2>3. records \in [UIDs -> IDs \cup {NoContainer, None}]
          /\ \A u \in UIDs : records[u] # None => records[u] \in Nat /\ records[u] <= starts
      BY InformerAssumption DEF InformerInv, InformerTypeOK, IDs, NoContainer
    <2>4. \A u \in UIDs : records[u] # None => records[u] <= starts'
      BY <1>4, <2>3
    <2>5. mounting # None => /\ mounting.uid <= created /\ mounting.id <= starts'
                             /\ mounting.prev # None => mounting.prev <= starts'
      BY <1>4, RequestGrows
    <2> QED  BY <1>1, <1>2, <1>3, <2>1, <2>2, <2>4, <2>5 DEF InformerInv, InformerTypeOK
  <1>6. Copies'
    <2>1. \A q : Copy(q, created, starts) => Copy(q, created, starts')
      BY <1>4, CopyGrows
    <2>2. \A i \in DOMAIN wire' : Copy(wire'[i].pod, created, starts')
      BY <1>3, <2>1 DEF InformerInv, Copies
    <2> QED  BY <1>1, <2>1, <2>2 DEF InformerInv, Copies
  <1>7. Current'
    BY <1>1, <1>2, <1>3 DEF Current
  <1>8. EndsLast'
    <2>1. \A q : NotAhead(q) => (q.uid = p.uid /\ q.phase = "Failed" => p.phase = "Failed")
      BY DEF NotAhead
    <2>2. \A i \in DOMAIN wire' :
             wire'[i].pod.uid = p.uid /\ wire'[i].pod.phase = "Failed" => p.phase = "Failed"
      BY <1>3, <2>1 DEF InformerInv, EndsLast
    <2>3. cache # None => (cache.uid = p.uid /\ cache.phase = "Failed" => p.phase = "Failed")
      BY <2>1 DEF InformerInv, EndsLast
    <2> QED  BY <1>1, <2>2, <2>3 DEF EndsLast, NotAhead
  <1>9. Pending' /\ FirstList'
    BY <1>1 DEF InformerInv, Pending, Underway, FirstList
  <1>10. Awaited' /\ Requested'
    OBVIOUS
  <1>11. \A u : PodGone(u)' <=> PodGone(u)
    BY <1>1, <1>2 DEF PodGone
  <1>12. Leaving'
    <2> SUFFICES ASSUME watch = "up"
                 PROVE  /\ cache # None /\ PodGone(cache.uid) =>
                              \E j \in DOMAIN wire' : Removes(wire'[j], cache.uid)
                        /\ \A i \in DOMAIN wire' :
                              wire'[i].type # "DELETED" /\ PodGone(wire'[i].pod.uid) =>
                                 \E j \in DOMAIN wire' : j > i /\ Removes(wire'[j], wire'[i].pod.uid)
      BY <1>1, <1>11 DEF Leaving
    <2>1. ~PodGone(p.uid)
      BY DEF PodGone
    <2> QED  BY <1>3, <2>1 DEF InformerInv, Leaving
  <1>13. Forgetting'
    <2> SUFFICES ASSUME losses = 0, NEW u \in UIDs \ crossed, PodGone(u), Intended(u), synced,
                        ~\E i \in DOMAIN podEvents : Removes(podEvents[i], u)
                 PROVE  \E j \in DOMAIN wire' : Removes(wire'[j], u)
      BY <1>1, <1>11 DEF Forgetting, Intended, Underway
    <2> QED  BY <1>3 DEF InformerInv, Forgetting
  <1> QED  BY <1>5, <1>6, <1>7, <1>8, <1>9, <1>10, <1>12, <1>13 DEF InformerInv

\* The statuses of a copy name its Pod and the container that was started.
LEMMA ReportsDiffer ==
    ASSUME NEW u, NEW v, NEW i, NEW j, Reports(u, i) = Reports(v, j)
    PROVE  u = v /\ i = j
  <1>1. /\ Reports(u, i)[1].id = <<u, "side">> /\ Reports(v, j)[1].id = <<v, "side">>
        /\ Reports(u, i)[2].id = i /\ Reports(v, j)[2].id = j
    BY DEF Reports
  <1>2. <<u, "side">> = <<v, "side">> /\ i = j
    BY <1>1
  <1> QED  BY <1>2

LEMMA StartContainerInv == InformerInv /\ StartContainer => InformerInv'
  <1> SUFFICES ASSUME InformerInv, StartContainer PROVE InformerInv'
    OBVIOUS
  <1> DEFINE n == starts + 1
  <1>0. PICK p : p = Reporting(api, n)
    OBVIOUS
  <1>1. /\ api # None /\ api.phase \notin Terminal /\ starts' = n /\ UNCHANGED created
        /\ starts < MaxPods + MaxRestarts /\ Change(p)
    BY <1>0 DEF StartContainer
  <1>2. /\ api \in Pods /\ Copy(api, created, starts) /\ created \in Nat /\ starts \in Nat
        /\ MaxPods + MaxRestarts \in Nat
    BY <1>1, InformerAssumption DEF InformerInv, InformerTypeOK, Copies
  <1>3. n \in 1..starts' /\ n \in IDs /\ n \in Nat /\ starts' \in Nat /\ n > starts
        /\ starts' >= starts /\ starts' <= MaxPods + MaxRestarts
    BY <1>1, <1>2 DEF IDs
  <1> HIDE DEF n
  <1>4. api.uid \in UIDs /\ api.uid <= created /\ "Running" \in Phases
        /\ Reports(api.uid, n) \in Statuses
    BY <1>2, <1>3 DEF Copy, Pods, Phases, Statuses
  <1>5. p \in Pods /\ p.uid = api.uid /\ p.phase = "Running" /\ p.statuses = Reports(api.uid, n)
    BY <1>0, <1>2, <1>4 DEF Reporting, Pods
  <1>6. Copy(p, created, starts')
    BY <1>3, <1>4, <1>5 DEF Copy
  <1>7. Unaware'
    <2> SUFFICES ASSUME cache # None PROVE ~sameContainerState(cache, p)
      BY <1>1 DEF Unaware, Change
    <2>1. Copy(cache, created, starts)
      BY DEF InformerInv, Copies
    <2>2. Copy(cache, created, starts')
      BY <1>2, <1>3, <2>1, CopyGrows
    <2>3. ASSUME cache.phase = p.phase PROVE cache.statuses # p.statuses
      <3>1. PICK i \in 1..starts : cache.statuses = Reports(cache.uid, i)
        BY <1>5, <2>1, <2>3 DEF Copy
      <3>2. i # n
        BY <1>2, <1>3
      <3> QED  BY <1>5, <3>1, <3>2, ReportsDiffer
    <2> QED  BY <1>6, <2>2, <2>3, SameIsEqual
  <1>8. api.phase # "Failed"
    BY <1>1 DEF Terminal
  <1>9. Awaited' /\ Requested'
    BY <1>7 DEF Awaited, Requested, OnItsWay
  <1> QED  BY <1>1, <1>3, <1>5, <1>6, <1>8, <1>9, ChangeInv

\* A change of the labels alone: the informer need not hear of it.
LEMMA RelabelInv == InformerInv /\ Relabel => InformerInv'
  <1> SUFFICES ASSUME InformerInv, Relabel PROVE InformerInv'
    OBVIOUS
  <1>0. PICK p : p = [api EXCEPT !.rest = "other labels"]
    OBVIOUS
  <1>1. api # None /\ UNCHANGED <<created, starts>> /\ Change(p)
    BY <1>0 DEF Relabel
  <1>2. /\ api \in Pods /\ Copy(api, created, starts) /\ starts \in Nat
        /\ starts <= MaxPods + MaxRestarts
    BY <1>1, InformerAssumption DEF InformerInv, InformerTypeOK, Copies
  <1>3. "other labels" \in Rests
    BY DEF Rests
  <1>4. /\ p \in Pods /\ p.uid = api.uid /\ p.phase = api.phase
        /\ p.statuses = api.statuses
    BY <1>0, <1>2, <1>3 DEF Pods
  <1>5. Copy(p, created, starts')
    BY <1>1, <1>2, <1>4 DEF Copy
  <1>6. api' = p /\ UNCHANGED <<cache, podEvents, records, mounting, crossed>>
    BY <1>1 DEF Change, requestVars
  <1>7. Awaited' /\ Requested'
    <2>1. selectContainerStatus(p, Target) = selectContainerStatus(api, Target)
      BY <1>4, InformerAssumption DEF selectContainerStatus, containerStatusByName, StatusAt
    <2>2. CurrentID' = CurrentID
      BY <1>6, <2>1 DEF CurrentID
    <2>3. \A r : Fits(r) => Fits(r)'
      BY <1>4, <1>6, <2>2 DEF Fits
    <2>4. Unaware => Unaware'
      BY <1>4, <1>6 DEF Unaware, sameContainerState
    <2>5. Told => Told'
      BY <1>4, <1>6 DEF Told, Tells, About
    <2>6. Awaited'
      BY <1>1, <1>4, <1>6, <2>3, <2>4, <2>5
         DEF InformerInv, Awaited, Settled, SettledBy, OnItsWay, Locked, Underway
    <2>7. Requested'
      BY <1>1, <1>4, <1>6, <2>3, <2>4, <2>5
         DEF InformerInv, Requested, SettledBy, OnItsWay, Locked, Underway
    <2> QED  BY <2>6, <2>7
  <1> QED  BY <1>1, <1>2, <1>4, <1>5, <1>7, ChangeInv

\* The end of the Pod: no copy is ahead of it, so the cache differs.
LEMMA TerminateInv == InformerInv /\ Terminate => InformerInv'
  <1> SUFFICES ASSUME InformerInv, Terminate PROVE InformerInv'
    OBVIOUS
  <1>0. PICK p : p = [api EXCEPT !.phase = "Failed"]
    OBVIOUS
  <1>1. api # None /\ api.phase = "Running" /\ UNCHANGED <<created, starts>> /\ Change(p)
    BY <1>0 DEF Terminate
  <1>2. /\ api \in Pods /\ Copy(api, created, starts) /\ starts \in Nat
        /\ starts <= MaxPods + MaxRestarts
    BY <1>1, InformerAssumption DEF InformerInv, InformerTypeOK, Copies
  <1>3. "Failed" \in Phases
    BY DEF Phases
  <1>4. /\ p \in Pods /\ p.uid = api.uid /\ p.phase = "Failed"
        /\ p.statuses = api.statuses
    BY <1>0, <1>2, <1>3 DEF Pods
  <1>5. Copy(p, created, starts) /\ Copy(p, created, starts')
    BY <1>1, <1>2, <1>4 DEF Copy
  <1>6. Unaware'
    <2> SUFFICES ASSUME cache # None PROVE ~sameContainerState(cache, p)
      BY <1>1 DEF Unaware, Change
    <2>1. Copy(cache, created, starts) /\ NotAhead(cache)
      BY <1>1 DEF InformerInv, Copies, EndsLast
    <2>2. ASSUME cache.phase = "Failed", cache.statuses = p.statuses PROVE FALSE
      <3>1. PICK i \in 1..starts : cache.statuses = Reports(cache.uid, i)
        BY <2>1, <2>2 DEF Copy
      <3>2. PICK j \in 1..starts : api.statuses = Reports(api.uid, j)
        BY <1>1, <1>2 DEF Copy
      <3>3. Reports(cache.uid, i) = Reports(api.uid, j)
        BY <1>4, <2>2, <3>1, <3>2
      <3>4. cache.uid = api.uid
        BY <3>3, ReportsDiffer
      <3> QED  BY <1>1, <2>1, <2>2, <3>4 DEF NotAhead
    <2> QED  BY <1>4, <1>5, <2>1, <2>2, SameIsEqual
  <1>7. Awaited' /\ Requested'
    BY <1>6 DEF Awaited, Requested, OnItsWay
  <1> QED  BY <1>1, <1>2, <1>4, <1>5, <1>7, ChangeInv

LEMMA RemovePodInv == InformerInv /\ RemovePod => InformerInv'
  <1> SUFFICES ASSUME InformerInv, RemovePod PROVE InformerInv'
    OBVIOUS
  <1>1. /\ api # None /\ api' = None /\ Sent("DELETED", api)
        /\ UNCHANGED <<created, starts, watch, cache, podEvents, synced, records,
                       mounting, crossed, losses, crashes>>
    BY DEF RemovePod, requestVars
  <1>2. api \in Pods /\ Copy(api, created, starts)
    BY <1>1 DEF InformerInv, InformerTypeOK, Copies
  <1>3. /\ wire' \in Seq(Messages)
        /\ \A i \in DOMAIN wire : i \in DOMAIN wire' /\ wire'[i] = wire[i]
        /\ \A i \in DOMAIN wire' :
              \/ i \in DOMAIN wire
              \/ wire'[i].type = "DELETED" /\ wire'[i].pod = api
        /\ watch = "up" =>
              /\ wire' # <<>> /\ Len(wire') \in DOMAIN wire'
              /\ wire'[Len(wire')].type = "DELETED" /\ wire'[Len(wire')].pod = api
              /\ \A i \in DOMAIN wire : Len(wire') > i
    BY <1>1, <1>2, SentOn
  <1>4. InformerTypeOK'
    <2>1. \A i \in DOMAIN wire' : wire'[i].pod.uid <= created
      BY <1>2, <1>3 DEF InformerInv, InformerTypeOK, Copy
    <2> QED  BY <1>1, <1>3, <2>1 DEF InformerInv, InformerTypeOK
  <1>5. Copies'
    <2>1. \A i \in DOMAIN wire' : Copy(wire'[i].pod, created, starts)
      BY <1>2, <1>3 DEF InformerInv, Copies
    <2> QED  BY <1>1, <2>1 DEF InformerInv, Copies
  <1>6. Current'
    BY <1>1, <1>3 DEF Current
  <1>7. EndsLast' /\ Pending' /\ Awaited' /\ Requested' /\ FirstList'
    BY <1>1 DEF InformerInv, EndsLast, Pending, Awaited, Requested, FirstList
  <1>8. \A u : PodGone(u)' => PodGone(u) \/ u = api.uid
    BY <1>1 DEF PodGone
  <1>9. watch = "up" => Removes(wire'[Len(wire')], api.uid)
    BY <1>3 DEF Removes
  <1>10. Leaving'
    <2> SUFFICES ASSUME watch = "up"
                 PROVE  /\ cache # None /\ cache.uid <= created =>
                              \E j \in DOMAIN wire' : Removes(wire'[j], cache.uid)
                        /\ \A i \in DOMAIN wire' :
                              wire'[i].type # "DELETED" /\ wire'[i].pod.uid <= created =>
                                 \E j \in DOMAIN wire' : j > i /\ Removes(wire'[j], wire'[i].pod.uid)
      BY <1>1 DEF Leaving, PodGone
    <2>1. ASSUME cache # None, cache.uid <= created
          PROVE  \E j \in DOMAIN wire' : Removes(wire'[j], cache.uid)
      <3>1. PodGone(cache.uid) \/ cache.uid = api.uid
        BY <1>1, <2>1 DEF PodGone
      <3> QED  BY <1>3, <1>9, <2>1, <3>1 DEF InformerInv, Leaving
    <2>2. ASSUME NEW i \in DOMAIN wire', wire'[i].type # "DELETED", wire'[i].pod.uid <= created
          PROVE  \E j \in DOMAIN wire' : j > i /\ Removes(wire'[j], wire'[i].pod.uid)
      <3>1. i \in DOMAIN wire /\ wire'[i] = wire[i]
        BY <1>3, <2>2
      <3>2. PodGone(wire[i].pod.uid) \/ wire[i].pod.uid = api.uid
        BY <1>1, <2>2, <3>1 DEF PodGone
      <3> QED  BY <1>3, <1>9, <2>2, <3>1, <3>2 DEF InformerInv, Leaving
    <2> QED  BY <2>1, <2>2
  <1>11. Forgetting'
    <2> SUFFICES ASSUME losses = 0, NEW u \in UIDs \ crossed, PodGone(u)', Intended(u), synced,
                        ~\E i \in DOMAIN podEvents : Removes(podEvents[i], u)
                 PROVE  \E j \in DOMAIN wire' : Removes(wire'[j], u)
      BY <1>1 DEF Forgetting, Intended, Underway
    <2>1. watch = "up"
      BY DEF InformerInv, FirstList, InformerTypeOK
    <2>2. CASE u = api.uid
      BY <1>3, <1>9, <2>1, <2>2
    <2>3. CASE u # api.uid
      <3>1. PodGone(u)
        BY <1>1, <2>3 DEF PodGone
      <3> QED  BY <1>3, <3>1 DEF InformerInv, Forgetting
    <2> QED  BY <2>2, <2>3
  <1> QED  BY <1>4, <1>5, <1>6, <1>7, <1>10, <1>11 DEF InformerInv

LEMMA CreatePodInv == InformerInv /\ CreatePod => InformerInv'
  <1> SUFFICES ASSUME InformerInv, CreatePod PROVE InformerInv'
    OBVIOUS
  <1>0. PICK p : p = NewPod(created + 1)
    OBVIOUS
  <1>1. /\ api = None /\ api' = p /\ Sent("ADDED", p) /\ created' = created + 1
        /\ created < MaxPods
        /\ UNCHANGED <<starts, watch, cache, podEvents, synced, records, mounting, crossed,
                       losses, crashes>>
    BY <1>0 DEF CreatePod, requestVars
  <1>2. created \in Nat /\ starts \in Nat /\ MaxPods \in Nat
    BY InformerAssumption DEF InformerInv, InformerTypeOK
  <1>3. created + 1 \in UIDs
    BY <1>1, <1>2 DEF UIDs
  <1>4. "Pending" \in Phases /\ "labels" \in Rests /\ <<>> \in Statuses
    BY DEF Phases, Rests, Statuses
  <1>5. p \in Pods /\ p.uid = created + 1 /\ p.phase = "Pending" /\ p.statuses = <<>>
    BY <1>0, <1>3, <1>4 DEF NewPod, Pods
  <1>6. p # None /\ Copy(p, created', starts)
    BY <1>1, <1>2, <1>5, InformerAssumption DEF Copy
  <1>7. /\ wire' \in Seq(Messages)
        /\ \A i \in DOMAIN wire : i \in DOMAIN wire' /\ wire'[i] = wire[i]
        /\ \A i \in DOMAIN wire' :
              \/ i \in DOMAIN wire
              \/ wire'[i].type = "ADDED" /\ wire'[i].pod = p
        /\ watch = "up" =>
              /\ wire' # <<>> /\ Len(wire') \in DOMAIN wire'
              /\ wire'[Len(wire')].type = "ADDED" /\ wire'[Len(wire')].pod = p
              /\ \A i \in DOMAIN wire : Len(wire') > i
    BY <1>1, <1>5, SentOn
  <1>8. \A q : Copy(q, created, starts) => Copy(q, created', starts) /\ q.uid # p.uid
    <2>1. \A q : Copy(q, created, starts) => Copy(q, created', starts)
      BY <1>1, <1>2, CopyGrows
    <2>2. ASSUME NEW q, Copy(q, created, starts) PROVE q.uid # p.uid
      <3>1. q.uid \in Nat /\ q.uid <= created
        BY <2>2 DEF Copy, Pods, UIDs
      <3> QED  BY <1>2, <1>5, <3>1
    <2> QED  BY <2>1, <2>2
  <1>9. Copies'
    <2>1. \A i \in DOMAIN wire' : Copy(wire'[i].pod, created', starts)
      BY <1>6, <1>7, <1>8 DEF InformerInv, Copies
    <2> QED  BY <1>1, <1>6, <1>8, <2>1 DEF InformerInv, Copies
  <1>10. records[p.uid] = None
    BY <1>2, <1>3, <1>5 DEF InformerInv, InformerTypeOK
  <1>11. InformerTypeOK'
    <2>1. /\ \A i \in DOMAIN wire' : wire'[i].pod.uid <= created'
          /\ \A i \in DOMAIN podEvents : podEvents[i].pod.uid <= created'
          /\ \A q \in {p, cache} \ {None} : q.uid <= created'
      BY <1>1, <1>6, <1>9 DEF Copies, Copy
    <2>2. \A u \in UIDs : records[u] # None => u <= created' /\ records[u] <= starts
      BY <1>1, <1>2 DEF InformerInv, InformerTypeOK, UIDs
    <2>3. created' \in 0..MaxPods
      BY <1>1, <1>2
    <2>4. mounting # None => /\ mounting.uid <= created' /\ mounting.id <= starts
                             /\ mounting.prev # None => mounting.prev <= starts
      BY <1>1, <1>2, RequestGrows
    <2> QED  BY <1>1, <1>5, <1>7, <2>1, <2>2, <2>3, <2>4 DEF InformerInv, InformerTypeOK
  <1>12. Current'
    BY <1>1, <1>6, <1>7 DEF Current
  <1>13. EndsLast'
    <2>1. \A i \in DOMAIN wire' : wire'[i].pod.uid = p.uid => wire'[i].pod.phase # "Failed"
      BY <1>5, <1>7, <1>8 DEF InformerInv, Copies
    <2>2. cache # None => cache.uid # p.uid
      BY <1>8 DEF InformerInv, Copies
    <2> QED  BY <1>1, <2>1, <2>2 DEF EndsLast, NotAhead
  <1>14. Pending' /\ Awaited' /\ Requested' /\ FirstList'
    <2>1. ~(mounting # None /\ mounting.uid = p.uid)
      <3>1. mounting # None => mounting.uid \in Nat /\ mounting.uid <= created
        BY <1>2, RequestGrows DEF UIDs
      <3> QED  BY <1>2, <1>5, <3>1
    <2>2. ~Underway(api.uid)'
      BY <1>1, <2>1 DEF Underway
    <2> QED  BY <1>1, <1>10, <2>2 DEF InformerInv, Pending, Awaited, Requested, Settled,
                                      SettledBy, FirstList
  <1>15. ASSUME NEW u \in Nat, PodGone(u)' PROVE PodGone(u)
    BY <1>1, <1>2, <1>5, <1>6, <1>15 DEF PodGone
  <1>16. Leaving'
    <2> SUFFICES ASSUME watch = "up"
                 PROVE  /\ cache # None =>
                              \E j \in DOMAIN wire' : Removes(wire'[j], cache.uid)
                        /\ \A i \in DOMAIN wire' :
                              wire'[i].type # "DELETED" /\ wire'[i].pod.uid # p.uid =>
                                 \E j \in DOMAIN wire' : j > i /\ Removes(wire'[j], wire'[i].pod.uid)
      BY <1>1, <1>6 DEF Leaving, PodGone
    <2>1. ASSUME cache # None
          PROVE  \E j \in DOMAIN wire' : Removes(wire'[j], cache.uid)
      <3>1. PodGone(cache.uid)
        <4>1. cache.uid \in Nat /\ cache.uid <= created
          BY <2>1 DEF InformerInv, Copies, Copy, Pods, UIDs
        <4> QED  BY <1>1, <4>1 DEF PodGone
      <3> QED  BY <1>7, <2>1, <3>1 DEF InformerInv, Leaving
    <2>2. ASSUME NEW i \in DOMAIN wire', wire'[i].type # "DELETED", wire'[i].pod.uid # p.uid
          PROVE  \E j \in DOMAIN wire' : j > i /\ Removes(wire'[j], wire'[i].pod.uid)
      <3>1. wire'[i].pod # p
        BY <2>2
      <3>2. i \in DOMAIN wire /\ wire'[i] = wire[i]
        BY <1>7, <3>1
      <3>3. Copy(wire[i].pod, created, starts)
        BY <3>2 DEF InformerInv, Copies
      <3>4. PodGone(wire[i].pod.uid)
        BY <1>1, <3>3 DEF PodGone, Copy
      <3> QED  BY <1>7, <2>2, <3>2, <3>4 DEF InformerInv, Leaving
    <2> QED  BY <2>1, <2>2
  <1>17. Forgetting'
    <2> SUFFICES ASSUME losses = 0, NEW u \in UIDs \ crossed, PodGone(u)', Intended(u), synced,
                        ~\E i \in DOMAIN podEvents : Removes(podEvents[i], u)
                 PROVE  \E j \in DOMAIN wire' : Removes(wire'[j], u)
      BY <1>1 DEF Forgetting, Intended, Underway
    <2>1. PodGone(u)
      BY <1>15 DEF UIDs
    <2> QED  BY <1>7, <2>1 DEF InformerInv, Forgetting
  <1> QED  BY <1>9, <1>11, <1>12, <1>13, <1>14, <1>16, <1>17 DEF InformerInv

-----------------------------------------------------------------------------
(* Steps of the informer.                                                  *)

\* What has been on its way for a Pod that reports its containers still is.
LEMMA OnItsWayEnough ==
    ASSUME InformerInv, UNCHANGED <<api, records, mounting, crossed>>,
           api # None /\ api.phase # "Pending" /\ OnItsWay => OnItsWay'
    PROVE  Awaited' /\ Requested'
  <1>1. CurrentID' = CurrentID
    BY DEF CurrentID
  <1>2. \A r : SettledBy(r)' <=> SettledBy(r)
    BY <1>1 DEF SettledBy, Fits
  <1>3. Awaited'
    <2> SUFFICES ASSUME api # None, api.uid \notin crossed, ~Locked(api.uid)
                 PROVE  Settled' \/ OnItsWay'
      BY DEF Awaited, Locked, Underway
    <2>1. CASE Settled
      BY <1>2, <2>1 DEF Settled
    <2>2. CASE ~Settled
      <3>1. api.phase # "Pending"
        BY <2>2 DEF InformerInv, Pending, Settled, SettledBy
      <3> QED  BY <2>2, <3>1 DEF InformerInv, Awaited
    <2> QED  BY <2>1, <2>2
  <1>4. Requested'
    <2> SUFFICES ASSUME api # None, api.uid \notin crossed, Underway(api.uid)
                 PROVE  /\ Fits(mounting.id)' \/ OnItsWay'
                        /\ Locked(api.uid) => SettledBy(mounting.prev)' \/ OnItsWay'
      BY DEF Requested, Locked, Underway
    <2>1. api.phase # "Pending"
      BY DEF InformerInv, Pending
    <2>2. /\ Fits(mounting.id) \/ OnItsWay
          /\ Locked(api.uid) => SettledBy(mounting.prev) \/ OnItsWay
      BY DEF InformerInv, Requested
    <2>3. Fits(mounting.id) => Fits(mounting.id)'
      BY <1>1 DEF Fits
    <2>4. SettledBy(mounting.prev) => SettledBy(mounting.prev)'
      BY <1>1 DEF SettledBy, Fits
    <2> QED  BY <2>1, <2>2, <2>3, <2>4
  <1> QED  BY <1>3, <1>4

LEMMA ListInv == InformerInv /\ List => InformerInv'
  <1> SUFFICES ASSUME InformerInv, List PROVE InformerInv'
    OBVIOUS
  <1>1. /\ watch = "down" /\ watch' = "up" /\ wire' = <<>>
        /\ UNCHANGED <<api, created, starts, synced, records, mounting, crossed, losses, crashes>>
    BY DEF List, clusterVars, requestVars
  <1>2. wire' \in Seq(Messages) /\ DOMAIN wire' = {}
    BY <1>1
  <1>3. api # None => Copy(api, created, starts)
    BY DEF InformerInv, Copies
  <1>4. /\ api = None => cache' = None
        /\ api # None => /\ cache' = trimPodForInformerCache(api) /\ cache' # None
                         /\ Copy(cache', created, starts) /\ cache'.rest = None
                         /\ cache'.uid = api.uid /\ cache'.phase = api.phase
        /\ podEvents' \in Seq(Messages)
        /\ \A i \in DOMAIN podEvents : i \in DOMAIN podEvents' /\ podEvents'[i] = podEvents[i]
        /\ \A i \in DOMAIN podEvents' : Copy(podEvents'[i].pod, created, starts)
        /\ api # None =>
              \/ cache # None /\ cache.phase = api.phase /\ cache.statuses = api.statuses
              \/ \E i \in DOMAIN podEvents' : Tells(podEvents'[i], api)
    <2>1. CASE api # None /\ Store(api)
      BY <1>3, <2>1, Stored
    <2>2. CASE api = None /\ cache # None /\ Drop(cache)
      <3>1. Copy(cache, created, starts)
        BY <2>2 DEF InformerInv, Copies
      <3> QED  BY <2>2, <3>1, Dropped
    <2>3. CASE api = None /\ cache = None /\ UNCHANGED <<cache, podEvents>>
      BY <2>3 DEF InformerInv, InformerTypeOK, Copies
    <2> QED  BY <2>1, <2>2, <2>3 DEF List
  <1>5. Copies'
    BY <1>1, <1>2, <1>4 DEF InformerInv, Copies
  <1>6. InformerTypeOK'
    <2>1. /\ \A q \in {api, cache'} \ {None} : q.uid <= created
          /\ \A i \in DOMAIN podEvents' : podEvents'[i].pod.uid <= created
          /\ cache' \in Pods \cup {None}
      BY <1>1, <1>4, <1>5 DEF Copies, Copy
    <2> QED  BY <1>1, <1>2, <1>4, <2>1 DEF InformerInv, InformerTypeOK
  <1>7. Current'
    BY <1>1, <1>4 DEF Current
  <1>8. EndsLast' /\ Pending' /\ FirstList'
    BY <1>1, <1>2, <1>4 DEF InformerInv, EndsLast, NotAhead, Pending, Underway, FirstList
  <1>9. Awaited' /\ Requested'
    <2> SUFFICES ASSUME api # None, OnItsWay PROVE OnItsWay'
      BY <1>1, OnItsWayEnough
    <2>1. CASE Unaware
      <3>1. ~(cache # None /\ cache.phase = api.phase /\ cache.statuses = api.statuses)
        <4>1. cache # None => Copy(cache, created, starts)
          BY DEF InformerInv, Copies
        <4> QED  BY <1>3, <2>1, <4>1, SameIsEqual DEF Unaware
      <3>2. \E i \in DOMAIN podEvents' : Tells(podEvents'[i], api)
        BY <1>4, <3>1
      <3> QED  BY <1>1, <3>2 DEF Told, OnItsWay
    <2>2. CASE Told
      <3>1. \E i \in DOMAIN podEvents' : Tells(podEvents'[i], api)
        BY <1>4, <2>2 DEF Told
      <3> QED  BY <1>1, <3>1 DEF Told, OnItsWay
    <2> QED  BY <2>1, <2>2 DEF OnItsWay
  <1>10. Leaving'
    <2>1. cache' # None => ~PodGone(cache'.uid)
      BY <1>4 DEF PodGone
    <2> QED  BY <1>1, <1>2, <1>4 DEF Leaving, PodGone
  <1>11. Forgetting'
    BY <1>1 DEF InformerInv, FirstList, Forgetting
  <1> QED  BY <1>5, <1>6, <1>7, <1>8, <1>9, <1>10, <1>11 DEF InformerInv

LEMMA LoseWatchInv == InformerInv /\ LoseWatch => InformerInv'
  <1> SUFFICES ASSUME InformerInv, LoseWatch PROVE InformerInv'
    OBVIOUS
  <1>1. /\ watch' = "down" /\ wire' = <<>> /\ losses' = losses + 1 /\ losses < MaxLosses
        /\ UNCHANGED <<api, created, starts, cache, podEvents, synced, records, mounting,
                       crossed, crashes>>
    BY DEF LoseWatch, clusterVars, requestVars
  <1>2. wire' \in Seq(Messages) /\ DOMAIN wire' = {}
    BY <1>1
  <1>3. losses' \in 0..MaxLosses /\ losses' # 0
    BY <1>1, InformerAssumption DEF InformerInv, InformerTypeOK
  <1>4. InformerTypeOK'
    BY <1>1, <1>2, <1>3 DEF InformerInv, InformerTypeOK
  <1>5. Copies' /\ EndsLast' /\ Pending'
    BY <1>1, <1>2 DEF InformerInv, Copies, EndsLast, NotAhead, Pending, Underway
  <1>6. Awaited' /\ Requested'
    <2>1. OnItsWay => OnItsWay'
      BY <1>1 DEF OnItsWay, Unaware, Told
    <2> QED  BY <1>1, <2>1, OnItsWayEnough
  <1>7. Current' /\ Leaving' /\ FirstList' /\ Forgetting'
    BY <1>1, <1>3 DEF Current, Leaving, FirstList, Forgetting
  <1> QED  BY <1>4, <1>5, <1>6, <1>7 DEF InformerInv

LEMMA CrashWrapperInv == InformerInv /\ CrashWrapper => InformerInv'
  <1> SUFFICES ASSUME InformerInv, CrashWrapper PROVE InformerInv'
    OBVIOUS
  <1>1. /\ watch' = "down" /\ wire' = <<>> /\ cache' = None /\ podEvents' = <<>>
        /\ synced' = FALSE /\ crashes' = crashes + 1 /\ crashes < MaxCrashes
        /\ mounting' = None /\ crossed' = {}
        /\ UNCHANGED <<api, created, starts, records, losses>>
    BY DEF CrashWrapper, clusterVars
  <1>2. /\ wire' \in Seq(Messages) /\ DOMAIN wire' = {}
        /\ podEvents' \in Seq(Messages) /\ DOMAIN podEvents' = {}
    BY <1>1
  <1>3. crashes' \in 0..MaxCrashes
    BY <1>1, InformerAssumption DEF InformerInv, InformerTypeOK
  <1>4. InformerTypeOK'
    BY <1>1, <1>2, <1>3 DEF InformerInv, InformerTypeOK
  <1>5. Copies' /\ EndsLast' /\ Pending'
    BY <1>1, <1>2 DEF InformerInv, Copies, EndsLast, Pending, Underway
  <1>6. Awaited' /\ Requested' /\ Current' /\ Leaving' /\ FirstList' /\ Forgetting'
    BY <1>1 DEF Awaited, Requested, OnItsWay, Unaware, Current, Leaving, FirstList, Forgetting
  <1> QED  BY <1>4, <1>5, <1>6 DEF InformerInv

\* A copy in the state of a Pod that reports its containers is of that Pod.
LEMMA SameStateSamePod ==
    ASSUME InformerInv, api # None, api.phase # "Pending", NEW p, Copy(p, created, starts),
           p.phase = api.phase, p.statuses = api.statuses
    PROVE  p.uid = api.uid
  <1>2. Copy(api, created, starts)
    BY DEF InformerInv, Copies
  <1>3. PICK i \in 1..starts : api.statuses = Reports(api.uid, i)
    BY <1>2 DEF Copy
  <1>4. PICK j \in 1..starts : p.statuses = Reports(p.uid, j)
    BY DEF Copy
  <1>5. Reports(p.uid, j) = Reports(api.uid, i)
    BY <1>3, <1>4
  <1> QED  BY <1>5, ReportsDiffer

LEMMA ReceiveInv == InformerInv /\ Receive => InformerInv'
  <1> SUFFICES ASSUME InformerInv, Receive PROVE InformerInv'
    OBVIOUS
  <1>1. /\ watch = "up" /\ wire # <<>> /\ wire' = Tail(wire)
        /\ UNCHANGED <<api, created, starts, watch, synced, records, mounting, crossed, losses,
                       crashes>>
    BY DEF Receive, clusterVars, requestVars
  <1>2. PICK e : e = wire[1]
    OBVIOUS
  <1>3. PICK p : p = e.pod
    OBVIOUS
  <1>4. wire \in Seq(Messages)
    BY DEF InformerInv, InformerTypeOK
  <1>5. /\ wire' \in Seq(Messages) /\ Head(wire) = e /\ 1 \in DOMAIN wire
        /\ \A i \in DOMAIN wire' : i + 1 \in DOMAIN wire /\ wire'[i] = wire[i + 1]
        /\ \A i \in DOMAIN wire : i = 1 \/ (i - 1 \in DOMAIN wire' /\ wire'[i - 1] = wire[i])
        /\ wire' # <<>> => wire'[Len(wire')] = wire[Len(wire)]
        /\ wire' = <<>> => Len(wire) = 1
    <2>1. PICK q : q = Tail(wire)
      OBVIOUS
    <2>2. /\ q \in Seq(Messages) /\ Head(wire) = wire[1] /\ 1 \in DOMAIN wire
          /\ \A i \in DOMAIN q : i + 1 \in DOMAIN wire /\ q[i] = wire[i + 1]
          /\ \A i \in DOMAIN wire : i = 1 \/ (i - 1 \in DOMAIN q /\ q[i - 1] = wire[i])
          /\ q # <<>> => q[Len(q)] = wire[Len(wire)]
          /\ q = <<>> => Len(wire) = 1
      BY <1>1, <1>4, <2>1, Tailed
    <2> QED  BY <1>1, <1>2, <2>1, <2>2
  <1>6. /\ DOMAIN wire \subseteq Nat /\ DOMAIN wire' \subseteq Nat
    BY <1>4, <1>5, MessageSeq
  <1>7. Copy(p, created, starts) /\ p \in Pods
    BY <1>2, <1>3, <1>5 DEF InformerInv, Copies, Copy
  <1>8. IF e.type = "DELETED" THEN Drop(trimPodForInformerCache(p)) ELSE Store(p)
    BY <1>3, <1>5 DEF Receive
  <1>9. trimPodForInformerCache(p).uid = p.uid
        /\ Copy(trimPodForInformerCache(p), created, starts)
    BY <1>7, TrimKeeps, TrimCopy
  <1>10. /\ podEvents' \in Seq(Messages)
         /\ \A i \in DOMAIN podEvents : i \in DOMAIN podEvents' /\ podEvents'[i] = podEvents[i]
         /\ \A i \in DOMAIN podEvents' : Copy(podEvents'[i].pod, created, starts)
    BY <1>7, <1>8, <1>9, Stored, Dropped
  <1>11. e.type = "DELETED" =>
            cache' = None /\ \E i \in DOMAIN podEvents' : Removes(podEvents'[i], p.uid)
    <2> SUFFICES ASSUME e.type = "DELETED"
                 PROVE  cache' = None /\ \E i \in DOMAIN podEvents' : Removes(podEvents'[i], p.uid)
      OBVIOUS
    <2>1. Drop(trimPodForInformerCache(p))
      BY <1>8
    <2> QED  BY <1>9, <2>1, Dropped
  <1>12. e.type # "DELETED" =>
            /\ cache' = trimPodForInformerCache(p) /\ cache' # None
            /\ Copy(cache', created, starts) /\ cache'.rest = None
            /\ cache'.uid = p.uid /\ cache'.phase = p.phase /\ cache'.statuses = p.statuses
            /\ \/ cache # None /\ cache.phase = p.phase /\ cache.statuses = p.statuses
               \/ \E i \in DOMAIN podEvents' : Tells(podEvents'[i], p)
    BY <1>7, <1>8, Stored
  <1>13. Copies'
    <2>1. cache' # None => Copy(cache', created, starts)
      BY <1>11, <1>12
    <2>2. \A i \in DOMAIN wire' : Copy(wire'[i].pod, created, starts)
      BY <1>5 DEF InformerInv, Copies
    <2> QED  BY <1>1, <1>10, <2>1, <2>2 DEF InformerInv, Copies
  <1>14. InformerTypeOK'
    <2>1. /\ \A q \in {api, cache'} \ {None} : q.uid <= created
          /\ \A i \in DOMAIN podEvents' : podEvents'[i].pod.uid <= created
          /\ \A i \in DOMAIN wire' : wire'[i].pod.uid <= created
          /\ cache' \in Pods \cup {None} /\ (cache' # None => cache'.rest = None)
      BY <1>1, <1>11, <1>12, <1>13 DEF Copies, Copy
    <2> QED  BY <1>1, <1>5, <1>10, <2>1 DEF InformerInv, InformerTypeOK
  <1>15. Current'
    <2>1. ASSUME wire' = <<>>
          PROVE  cache' = IF api = None THEN None ELSE trimPodForInformerCache(api)
      <3>1. wire[Len(wire)] = e
        BY <1>2, <1>5, <2>1
      <3>2. IF api = None THEN e.type = "DELETED" ELSE e.type # "DELETED" /\ p = api
        BY <1>1, <1>3, <3>1 DEF InformerInv, Current
      <3> QED  BY <1>11, <1>12, <3>2
    <2>2. ASSUME wire' # <<>>
          PROVE  IF api = None THEN wire'[Len(wire')].type = "DELETED"
                 ELSE wire'[Len(wire')].type # "DELETED" /\ wire'[Len(wire')].pod = api
      BY <1>1, <1>5, <2>2 DEF InformerInv, Current
    <2> QED  BY <1>1, <2>1, <2>2 DEF Current
  <1>16. EndsLast'
    <2> SUFFICES ASSUME api # None
                 PROVE  /\ cache' # None => (cache'.uid = api.uid /\ cache'.phase = "Failed"
                                               => api.phase = "Failed")
                        /\ \A i \in DOMAIN wire' :
                              wire'[i].pod.uid = api.uid /\ wire'[i].pod.phase = "Failed"
                                 => api.phase = "Failed"
      BY <1>1 DEF EndsLast, NotAhead
    <2>1. \A i \in DOMAIN wire : NotAhead(wire[i].pod)
      BY DEF InformerInv, EndsLast
    <2>2. NotAhead(p)
      BY <1>2, <1>3, <1>5, <2>1
    <2> QED  BY <1>5, <1>11, <1>12, <2>1, <2>2 DEF NotAhead
  <1>17. Pending' /\ FirstList'
    BY <1>1 DEF InformerInv, Pending, Underway, FirstList
  <1>18. Awaited' /\ Requested'
    <2> SUFFICES ASSUME api # None, api.phase # "Pending", OnItsWay PROVE OnItsWay'
      BY <1>1, OnItsWayEnough
    <2>1. CASE Told
      <3>1. \E i \in DOMAIN podEvents' : Tells(podEvents'[i], api)
        BY <1>10, <2>1 DEF Told
      <3> QED  BY <1>1, <3>1 DEF Told, OnItsWay
    <2>2. CASE Unaware
      <3>1. CASE e.type = "DELETED"
        BY <1>11, <3>1 DEF Unaware, OnItsWay
      <3>2. CASE e.type # "DELETED" /\ ~(p.phase = api.phase /\ p.statuses = api.statuses)
        <4>1. Copy(api, created, starts) /\ Copy(cache', created, starts)
          BY <1>12, <3>2 DEF InformerInv, Copies
        <4>2. ~sameContainerState(cache', api)
          BY <1>12, <3>2, <4>1, SameIsEqual
        <4> QED  BY <1>1, <4>2 DEF Unaware, OnItsWay
      <3>3. CASE e.type # "DELETED" /\ p.phase = api.phase /\ p.statuses = api.statuses
        <4>1. p.uid = api.uid
          BY <1>7, <3>3, SameStateSamePod
        <4>2. ~(cache # None /\ cache.phase = p.phase /\ cache.statuses = p.statuses)
          <5>1. Copy(api, created, starts) /\ (cache # None => Copy(cache, created, starts))
            BY DEF InformerInv, Copies
          <5> QED  BY <2>2, <3>3, <5>1, SameIsEqual DEF Unaware
        <4>3. PICK i \in DOMAIN podEvents' : Tells(podEvents'[i], p)
          BY <1>12, <3>3, <4>2
        <4>4. Tells(podEvents'[i], api)
          BY <3>3, <4>1, <4>3 DEF Tells, About
        <4> QED  BY <1>1, <4>4 DEF Told, OnItsWay
      <3> QED  BY <3>1, <3>2, <3>3
    <2> QED  BY <2>1, <2>2 DEF OnItsWay
  <1>19. Leaving'
    <2>1. ASSUME cache' # None, PodGone(p.uid)
          PROVE  \E j \in DOMAIN wire' : Removes(wire'[j], p.uid)
      <3>1. e.type # "DELETED"
        BY <1>11, <2>1
      <3>2. PICK j \in DOMAIN wire : j > 1 /\ Removes(wire[j], p.uid)
        BY <1>1, <1>2, <1>3, <1>5, <2>1, <3>1 DEF InformerInv, Leaving
      <3>3. j - 1 \in DOMAIN wire' /\ wire'[j - 1] = wire[j]
        BY <1>5, <1>6, <3>2
      <3> QED  BY <3>2, <3>3
    <2>2. ASSUME NEW i \in DOMAIN wire', wire'[i].type # "DELETED", PodGone(wire[i + 1].pod.uid)
          PROVE  \E j \in DOMAIN wire' : j > i /\ Removes(wire'[j], wire'[i].pod.uid)
      <3>1. i + 1 \in DOMAIN wire /\ wire'[i] = wire[i + 1] /\ i \in Nat
        BY <1>5, <1>6
      <3>2. PICK j \in DOMAIN wire : j > i + 1 /\ Removes(wire[j], wire[i + 1].pod.uid)
        BY <1>1, <2>2, <3>1 DEF InformerInv, Leaving
      <3>3. j \in Nat /\ j # 1 /\ j - 1 > i
        BY <1>6, <3>1, <3>2
      <3>4. j - 1 \in DOMAIN wire' /\ wire'[j - 1] = wire[j]
        BY <1>5, <3>3
      <3> QED  BY <3>1, <3>2, <3>3, <3>4
    <2>3. cache' # None => cache'.uid = p.uid
      BY <1>11, <1>12
    <2> QED  BY <1>1, <1>5, <2>1, <2>2, <2>3 DEF Leaving, PodGone
  <1>20. Forgetting'
    <2> SUFFICES ASSUME losses = 0, NEW u \in UIDs \ crossed, PodGone(u), Intended(u), synced
                 PROVE  \/ \E i \in DOMAIN podEvents' : Removes(podEvents'[i], u)
                        \/ \E j \in DOMAIN wire' : Removes(wire'[j], u)
      BY <1>1 DEF Forgetting, PodGone, Intended, Underway
    <2>1. CASE \E i \in DOMAIN podEvents : Removes(podEvents[i], u)
      BY <1>10, <2>1
    <2>2. CASE \E j \in DOMAIN wire : Removes(wire[j], u)
      <3>1. PICK j \in DOMAIN wire : Removes(wire[j], u)
        BY <2>2
      <3>2. CASE j = 1
        BY <1>2, <1>3, <1>11, <3>1, <3>2 DEF Removes
      <3>3. CASE j # 1
        BY <1>5, <3>1, <3>3
      <3> QED  BY <3>2, <3>3
    <2> QED  BY <2>1, <2>2 DEF InformerInv, Forgetting
  <1> QED  BY <1>13, <1>14, <1>15, <1>16, <1>17, <1>18, <1>19, <1>20 DEF InformerInv

-----------------------------------------------------------------------------
(* Steps that change the records.                                          *)

\* A request of a Pod that was created, for a container that was started.
RequestBounds(m) ==
    /\ m \in Mountings \cup {None}
    /\ m # None => /\ m.uid <= created /\ m.id <= starts
                   /\ m.prev # None => m.prev <= starts

LEMMA RecordsInv ==
    ASSUME InformerInv, UNCHANGED <<api, created, starts, watch, wire, cache, losses, crashes>>,
           podEvents' \in Seq(Messages),
           \A i \in DOMAIN podEvents' : Copy(podEvents'[i].pod, created, starts),
           synced' \in BOOLEAN, records' \in [UIDs -> IDs \cup {NoContainer, None}],
           \A u \in UIDs : records'[u] # None => u <= created /\ records'[u] <= starts,
           RequestBounds(mounting'), crossed' \in SUBSET UIDs,
           Pending', Awaited', Requested', FirstList', Forgetting'
    PROVE  InformerInv'
  <1>1. Copies' /\ Current' /\ EndsLast'
    BY DEF InformerInv, Copies, Current, EndsLast, NotAhead
  <1>2. InformerTypeOK'
    <2>1. \A i \in DOMAIN podEvents' : podEvents'[i].pod.uid <= created
      BY DEF Copy
    <2> QED  BY <2>1 DEF InformerInv, InformerTypeOK, RequestBounds
  <1>3. Leaving'
    BY DEF InformerInv, Leaving, PodGone
  <1> QED  BY <1>1, <1>2, <1>3 DEF InformerInv

\* A reconciliation keeps an intent, removes it, or places it where it belongs.
LEMMA ReconcilesWell ==
    ASSUME InformerInv, NEW u \in UIDs, NEW p, p = None \/ Copy(p, created, starts),
           NEW r, r = Reconciled(u, p), r # None
    PROVE  /\ records[u] # None /\ p # None /\ p.uid = u
           /\ \/ r = records[u]
              \/ api # None /\ r = CurrentID
  <1>1. records[u] # None /\ ~Stale(u, p)
    BY DEF Reconciled
  <1>2. p # None /\ p.uid = u
    BY <1>1 DEF Stale, validatePodIdentity
  <1>3. r = records[u] \/ (api # None /\ r = CurrentID)
    BY <1>1 DEF Reconciled
  <1> QED  BY <1>1, <1>2, <1>3

\* One that sees the Pod as it is settles its intent.
LEMMA CurrentCopySettles ==
    ASSUME InformerInv, api # None, NEW m, Tells(m, api),
           Copy(m.pod, created, starts)
    PROVE  LET r == Reconciled(api.uid, m.pod)
           IN  SettledBy(r)
  <1>0. PICK p : p = m.pod
    OBVIOUS
  <1>1. p.uid = api.uid /\ p.phase = api.phase /\ p.statuses = api.statuses
    BY <1>0 DEF Tells, About
  <1>2. CASE records[api.uid] = None \/ Stale(api.uid, p)
    BY <1>0, <1>2 DEF Reconciled, SettledBy
  <1>3. CASE records[api.uid] # None /\ ~Stale(api.uid, p)
    <2>1. api.phase \notin Terminal /\ api.phase # "Pending"
      BY <1>1, <1>3 DEF Stale, validatePodIdentity, InformerInv, Pending
    <2>2. CurrentID # None
      BY <2>1, CurrentTarget
    <2>3. selectContainerStatus(p, Target) = selectContainerStatus(api, Target)
      BY <1>1, InformerAssumption DEF selectContainerStatus, containerStatusByName, StatusAt
    <2>4. /\ selectContainerStatus(api, Target) # None
          /\ selectContainerStatus(api, Target).id = CurrentID
      BY <2>2 DEF CurrentID
    <2>5. Reconciled(api.uid, p) = CurrentID
      BY <1>3, <2>3, <2>4 DEF Reconciled
    <2> QED  BY <1>0, <2>1, <2>2, <2>5 DEF SettledBy, Fits
  <1> QED  BY <1>2, <1>3

\* Bounds on what is recorded.
LEMMA RecordBounds ==
    ASSUME InformerInv, NEW u \in UIDs, u <= created, NEW r,
           \/ r = None \/ r = records[u] \/ (api # None /\ r = CurrentID)
    PROVE  r \in IDs \cup {NoContainer, None} /\ (r # None => r <= starts)
  <1>1. /\ records[u] \in IDs \cup {NoContainer, None} /\ (records[u] # None => records[u] <= starts)
        /\ starts \in 0..(MaxPods + MaxRestarts)
    BY DEF InformerInv, InformerTypeOK
  <1>2. ASSUME api # None, r = CurrentID, r # None PROVE r \in IDs /\ r <= starts
    <2>1. CurrentID \in 1..starts
      BY <1>2, CurrentTarget
    <2> QED  BY <1>1, <1>2, <2>1, InformerAssumption DEF IDs
  <1> QED  BY <1>1, <1>2

\* What a step makes of one record: all of them keep to this.
Kept(u, r) ==
    /\ r # None => records[u] # None
    /\ \/ r = None \/ r = records[u] \/ (api # None /\ r = CurrentID)

\* A record that was where it belongs stays there.
LEMMA KeptSettled ==
    ASSUME api # None, Settled, NEW r, Kept(api.uid, r)
    PROVE  SettledBy(r)
  BY DEF Settled, SettledBy, Fits, Kept

LEMMA KeptBounds ==
    ASSUME InformerInv, NEW u \in UIDs, NEW r, Kept(u, r)
    PROVE  r \in IDs \cup {NoContainer, None} /\ (r # None => u <= created /\ r <= starts)
  <1>1. CASE r = None
    BY <1>1
  <1>2. CASE r # None
    <2>1. u <= created
      BY <1>2 DEF Kept, InformerInv, InformerTypeOK
    <2>2. r = None \/ r = records[u] \/ (api # None /\ r = CurrentID)
      BY DEF Kept
    <2> QED  BY <2>1, <2>2, RecordBounds
  <1> QED  BY <1>1, <1>2

LEMMA ReconcilesKept ==
    ASSUME InformerInv, NEW u \in UIDs, NEW p, p = None \/ Copy(p, created, starts)
    PROVE  Kept(u, Reconciled(u, p))
  <1>0. PICK r : r = Reconciled(u, p)
    OBVIOUS
  <1>1. CASE r = None
    BY <1>0, <1>1 DEF Kept
  <1>2. CASE r # None
    BY <1>0, <1>2, ReconcilesWell DEF Kept
  <1> QED  BY <1>1, <1>2

\* So does a look at a record, which the target lock can forbid.
LEMMA LooksKept ==
    ASSUME InformerInv, NEW u \in UIDs, NEW p, p = None \/ Copy(p, created, starts)
    PROVE  /\ Kept(u, Looked(u, p))
           /\ ~Locked(u) => Looked(u, p) = Reconciled(u, p)
  <1>1. Kept(u, Reconciled(u, p)) /\ Kept(u, records[u])
    BY ReconcilesKept DEF Kept
  <1> QED  BY <1>1 DEF Looked

LEMMA SyncedInv == InformerInv /\ Synced => InformerInv'
  <1> SUFFICES ASSUME InformerInv, Synced PROVE InformerInv'
    OBVIOUS
  <1>1. /\ watch = "up" /\ synced' = TRUE
        /\ UNCHANGED <<api, created, starts, watch, wire, cache, podEvents, mounting,
                       losses, crashes>>
        /\ crossed' = crossed \cup {u \in UIDs : Underway(u)}
    BY DEF Synced, clusterVars
  <1> DEFINE Seen(u) == IF cache # None /\ cache.uid = u THEN podSnapshot(cache) ELSE api
  <1>2. \A u \in UIDs : Seen(u) = None \/ Copy(Seen(u), created, starts)
    BY TrimCopy DEF InformerInv, Copies
  <1>3. records' = [u \in UIDs |-> Looked(u, Seen(u))]
    <2>1. records' = [u \in UIDs |->
                        IF cache # None /\ cache.uid = u THEN Looked(u, podSnapshot(cache))
                        ELSE Looked(u, api)]
      BY DEF Synced
    <2>2. \A u \in UIDs :
             (IF cache # None /\ cache.uid = u THEN Looked(u, podSnapshot(cache))
              ELSE Looked(u, api)) = Looked(u, Seen(u))
      OBVIOUS
    <2> QED  BY <2>1, <2>2
  <1> HIDE DEF Seen
  <1>4. \A u \in UIDs : /\ records'[u] = Looked(u, Seen(u)) /\ Kept(u, records'[u])
                        /\ ~Locked(u) => records'[u] = Reconciled(u, Seen(u))
    BY <1>2, <1>3, LooksKept
  <1>5. /\ records' \in [UIDs -> IDs \cup {NoContainer, None}]
        /\ \A u \in UIDs : records'[u] # None => u <= created /\ records'[u] <= starts
    BY <1>3, <1>4, KeptBounds
  <1>6. api # None => api.uid \in UIDs
    BY DEF InformerInv, InformerTypeOK, Pods
  <1>7. Pending'
    <2> SUFFICES ASSUME api # None, api.phase = "Pending"
                 PROVE  records'[api.uid] = None /\ ~Underway(api.uid)
      BY <1>1 DEF Pending, Underway
    <2>1. records[api.uid] = None /\ ~Underway(api.uid)
      BY DEF InformerInv, Pending
    <2> QED  BY <1>4, <1>6, <2>1 DEF Kept
  <1>8. Awaited'
    <2> SUFFICES ASSUME api # None, api.uid \notin crossed, ~Locked(api.uid)
                 PROVE  Settled' \/ OnItsWay'
      BY <1>1 DEF Awaited, Locked, Underway
    <2>1. CurrentID' = CurrentID
      BY <1>1 DEF CurrentID
    <2>2. CASE Settled
      <3>1. SettledBy(records'[api.uid])
        BY <1>4, <1>6, <2>2, KeptSettled
      <3> QED  BY <1>1, <2>1, <3>1 DEF Settled, SettledBy, Fits
    <2>3. CASE OnItsWay
      BY <1>1, <2>3 DEF OnItsWay, Unaware, Told
    <2> QED  BY <2>2, <2>3 DEF InformerInv, Awaited
  <1>9. Requested'
    BY <1>1, <1>6 DEF Requested, Underway
  <1>10. FirstList'
    BY <1>1 DEF FirstList
  <1>11. Forgetting'
    <2> SUFFICES ASSUME NEW u \in UIDs, ~Underway(u), PodGone(u), records'[u] # None
                 PROVE  \E j \in DOMAIN wire : Removes(wire[j], u)
      BY <1>1 DEF Forgetting, PodGone, Intended, Underway
    <2>1. Seen(u) # None /\ Seen(u).uid = u
      <3>1. PICK r : r = records'[u]
        OBVIOUS
      <3>2. r = Reconciled(u, Seen(u))
        BY <1>4, <3>1 DEF Locked
      <3> QED  BY <1>2, <3>1, <3>2, ReconcilesWell
    <2>2. cache # None /\ cache.uid = u
      BY <2>1 DEF Seen, PodGone
    <2> QED  BY <1>1, <2>2 DEF InformerInv, Leaving
  <1>12. podEvents' \in Seq(Messages)
         /\ \A i \in DOMAIN podEvents' : Copy(podEvents'[i].pod, created, starts)
    BY <1>1 DEF InformerInv, InformerTypeOK, Copies
  <1>13. RequestBounds(mounting') /\ crossed' \in SUBSET UIDs
    BY <1>1 DEF InformerInv, InformerTypeOK, RequestBounds
  <1> QED  BY <1>1, <1>5, <1>7, <1>8, <1>9, <1>10, <1>11, <1>12, <1>13, RecordsInv

\* An event that tells the present of the Pod, and is not its deletion.
LEMMA PresentTells ==
    ASSUME InformerInv, api # None, NEW m \in Messages, Copy(m.pod, created, starts),
           m.pod.uid = api.uid, m.type # "DELETED", TellsPresent(m)
    PROVE  Tells(m, api)
  <1>1. sameContainerState(m.pod, api) /\ Copy(api, created, starts)
    BY DEF TellsPresent, InformerInv, Copies
  <1>2. m.pod.phase = api.phase /\ m.pod.statuses = api.statuses
    BY <1>1, SameIsEqual
  <1>3. m.type \in {"ADDED", "MODIFIED"}
    BY DEF Messages
  <1> QED  BY <1>2, <1>3 DEF Tells, About

LEMMA WorkOffEventInv == InformerInv /\ WorkOffEvent => InformerInv'
  <1> SUFFICES ASSUME InformerInv, WorkOffEvent PROVE InformerInv'
    OBVIOUS
  <1>1. /\ podEvents # <<>> /\ podEvents' = Tail(podEvents)
        /\ UNCHANGED <<api, created, starts, watch, wire, cache, synced, mounting,
                       losses, crashes>>
    BY DEF WorkOffEvent, clusterVars
  <1>2. PICK m : m = podEvents[1]
    OBVIOUS
  <1>3. podEvents \in Seq(Messages)
    BY DEF InformerInv, InformerTypeOK
  <1>4. /\ podEvents' \in Seq(Messages) /\ Head(podEvents) = m /\ 1 \in DOMAIN podEvents
        /\ \A i \in DOMAIN podEvents' :
              i + 1 \in DOMAIN podEvents /\ podEvents'[i] = podEvents[i + 1]
        /\ \A i \in DOMAIN podEvents :
              i = 1 \/ (i - 1 \in DOMAIN podEvents' /\ podEvents'[i - 1] = podEvents[i])
    <2>1. PICK q : q = Tail(podEvents)
      OBVIOUS
    <2>2. /\ q \in Seq(Messages) /\ Head(podEvents) = podEvents[1] /\ 1 \in DOMAIN podEvents
          /\ \A i \in DOMAIN q : i + 1 \in DOMAIN podEvents /\ q[i] = podEvents[i + 1]
          /\ \A i \in DOMAIN podEvents :
                i = 1 \/ (i - 1 \in DOMAIN q /\ q[i - 1] = podEvents[i])
      BY <1>1, <1>3, <2>1, Tailed
    <2> QED  BY <1>1, <1>2, <2>1, <2>2
  <1>5. Copy(m.pod, created, starts) /\ m.pod.uid \in UIDs /\ m \in Messages
    <2>1. Copy(m.pod, created, starts) /\ m \in Messages
      BY <1>2, <1>3, <1>4, MessageSeq DEF InformerInv, Copies
    <2> QED  BY <2>1 DEF Copy, Pods
  <1>6. \A i \in DOMAIN podEvents' : Copy(podEvents'[i].pod, created, starts)
    BY <1>4 DEF InformerInv, Copies
  <1>7. PICK u : u = m.pod.uid
    OBVIOUS
  <1>8. PICK r : r = IF m.type # "DELETED" THEN Looked(u, m.pod)
                     ELSE IF Locked(u) THEN records[u] ELSE None
    OBVIOUS
  <1>9. /\ records' = [records EXCEPT ![u] = r]
        /\ records \in [UIDs -> IDs \cup {NoContainer, None}]
    BY <1>4, <1>7, <1>8 DEF WorkOffEvent, InformerInv, InformerTypeOK
  <1>10. /\ Underway(u) => crossed' = crossed \cup {u}
         /\ ~Underway(u) /\ TellsPresent(m) => crossed' = crossed \ {u}
         /\ ~Underway(u) /\ ~TellsPresent(m) => crossed' = crossed
    BY <1>4, <1>7 DEF WorkOffEvent
  <1>11. Kept(u, r)
    <2>1. CASE m.type = "DELETED"
      BY <1>8, <2>1 DEF Kept
    <2>2. CASE m.type # "DELETED"
      BY <1>5, <1>7, <1>8, <2>2, LooksKept
    <2> QED  BY <2>1, <2>2
  <1>12. \A v \in UIDs : Kept(v, records'[v])
    BY <1>5, <1>9, <1>11 DEF Kept
  <1>13. /\ records' \in [UIDs -> IDs \cup {NoContainer, None}]
         /\ \A v \in UIDs : records'[v] # None => v <= created /\ records'[v] <= starts
    <2>1. \A v \in UIDs : records'[v] \in IDs \cup {NoContainer, None}
                          /\ (records'[v] # None => v <= created /\ records'[v] <= starts)
      BY <1>12, KeptBounds
    <2>2. r \in IDs \cup {NoContainer, None}
      BY <1>5, <1>7, <1>11, KeptBounds
    <2> QED  BY <1>9, <2>1, <2>2
  <1>14. api # None => api.uid \in UIDs
    BY DEF InformerInv, InformerTypeOK, Pods
  <1>15. Pending'
    <2> SUFFICES ASSUME api # None, api.phase = "Pending"
                 PROVE  records'[api.uid] = None /\ ~Underway(api.uid)
      BY <1>1 DEF Pending, Underway
    <2>1. records[api.uid] = None /\ ~Underway(api.uid)
      BY DEF InformerInv, Pending
    <2> QED  BY <1>12, <1>14, <2>1 DEF Kept
  <1>16. CurrentID' = CurrentID
    BY <1>1 DEF CurrentID
  <1>17. Unaware => Unaware'
    BY <1>1 DEF Unaware
  <1>18. ASSUME api # None, ~Tells(m, api), Told PROVE Told'
    <2>1. PICK i \in DOMAIN podEvents : Tells(podEvents[i], api)
      BY <1>18 DEF Told
    <2>2. i # 1
      BY <1>2, <1>18, <2>1
    <2>3. i - 1 \in DOMAIN podEvents' /\ Tells(podEvents'[i - 1], api)
      BY <1>4, <2>1, <2>2
    <2> QED  BY <1>1, <2>3 DEF Told
  <1>19. Awaited'
    <2> SUFFICES ASSUME api # None, api.uid \notin crossed', ~Locked(api.uid)
                 PROVE  Settled' \/ OnItsWay'
      BY <1>1 DEF Awaited, Locked, Underway
    <2>1. SettledBy(records'[api.uid]) => Settled'
      BY <1>1, <1>16 DEF Settled, SettledBy, Fits
    <2>2. CASE u = api.uid /\ m.type = "DELETED"
      <3>1. records'[api.uid] = None
        BY <1>8, <1>9, <1>14, <2>2
      <3> QED  BY <2>1, <3>1 DEF SettledBy
    <2>3. CASE Tells(m, api)
      <3>1. u = api.uid /\ m.type # "DELETED"
        BY <1>7, <2>3 DEF Tells, About
      <3>2. r = Reconciled(api.uid, m.pod)
        BY <1>5, <1>8, <1>14, <3>1, LooksKept
      <3>3. SettledBy(r)
        BY <1>5, <2>3, <3>2, CurrentCopySettles
      <3>4. records'[api.uid] = r
        BY <1>9, <1>14, <3>1
      <3> QED  BY <2>1, <3>3, <3>4
    <2>4. CASE ~(u = api.uid /\ m.type = "DELETED") /\ ~Tells(m, api)
      <3>1. api.uid \notin crossed
        <4>1. CASE u = api.uid
          BY <1>5, <1>7, <1>10, <2>4, <4>1, PresentTells
        <4>2. CASE u # api.uid
          BY <1>10, <4>2
        <4> QED  BY <4>1, <4>2
      <3>2. CASE Settled
        BY <1>12, <1>14, <2>1, <3>2, KeptSettled
      <3>3. CASE OnItsWay
        BY <1>17, <1>18, <2>4, <3>3 DEF OnItsWay
      <3> QED  BY <3>1, <3>2, <3>3 DEF InformerInv, Awaited
    <2> QED  BY <2>2, <2>3, <2>4
  <1>20. Requested'
    <2> SUFFICES ASSUME api # None, api.uid \notin crossed', Underway(api.uid)
                 PROVE  /\ Fits(mounting.id)' \/ OnItsWay'
                        /\ Locked(api.uid) => SettledBy(mounting.prev)' \/ OnItsWay'
      BY <1>1 DEF Requested, Locked, Underway
    <2>1. u # api.uid
      BY <1>10
    <2>2. api.uid \notin crossed
      BY <1>10, <2>1
    <2>3. ~Tells(m, api)
      BY <1>7, <2>1 DEF Tells, About
    <2>4. OnItsWay => OnItsWay'
      BY <1>17, <1>18, <2>3 DEF OnItsWay
    <2>5. /\ Fits(mounting.id) => Fits(mounting.id)'
          /\ SettledBy(mounting.prev) => SettledBy(mounting.prev)'
      BY <1>1, <1>16 DEF SettledBy, Fits
    <2>6. /\ Fits(mounting.id) \/ OnItsWay
          /\ Locked(api.uid) => SettledBy(mounting.prev) \/ OnItsWay
      BY <2>2 DEF InformerInv, Requested
    <2> QED  BY <2>4, <2>5, <2>6
  <1>21. FirstList'
    BY <1>1 DEF InformerInv, FirstList
  <1>22. Forgetting'
    <2> SUFFICES ASSUME losses = 0, NEW v \in UIDs, v \notin crossed', PodGone(v), synced,
                        records'[v] # None \/ Underway(v)
                 PROVE  \/ \E i \in DOMAIN podEvents' : Removes(podEvents'[i], v)
                        \/ \E j \in DOMAIN wire : Removes(wire[j], v)
      BY <1>1 DEF Forgetting, PodGone, Intended, Underway
    <2>1. v = u => m.type # "DELETED" /\ ~TellsPresent(m)
      <3> SUFFICES ASSUME v = u PROVE m.type # "DELETED" /\ ~TellsPresent(m)
        OBVIOUS
      <3>1. ~Underway(u) /\ records'[u] # None
        BY <1>10
      <3>2. m.type # "DELETED"
        BY <1>5, <1>7, <1>8, <1>9, <3>1 DEF Locked
      <3> QED  BY <1>7, <3>2 DEF TellsPresent, PodGone
    <2>2. v \notin crossed /\ Intended(v)
      BY <1>10, <1>12, <2>1 DEF Kept, Intended
    <2>3. CASE \E i \in DOMAIN podEvents : Removes(podEvents[i], v)
      <3>1. PICK i \in DOMAIN podEvents : Removes(podEvents[i], v)
        BY <2>3
      <3>2. i # 1
        BY <1>2, <1>7, <2>1, <3>1 DEF Removes
      <3> QED  BY <1>4, <3>1, <3>2
    <2> QED  BY <2>2, <2>3 DEF InformerInv, Forgetting
  <1>23. synced' \in BOOLEAN
    BY <1>1 DEF InformerInv, InformerTypeOK
  <1>24. RequestBounds(mounting') /\ crossed' \in SUBSET UIDs
    <2>1. crossed' \in SUBSET UIDs
      BY <1>5, <1>7, <1>10 DEF InformerInv, InformerTypeOK
    <2> QED  BY <1>1, <2>1 DEF InformerInv, InformerTypeOK, RequestBounds
  <1> QED  BY <1>1, <1>4, <1>6, <1>13, <1>15, <1>19, <1>20, <1>21, <1>22, <1>23, <1>24,
              RecordsInv

-----------------------------------------------------------------------------
(* Steps of a mount request.                                               *)

\* A step of the request of Pod u, which leaves r in the record: of a Pod that is
\* still there it leaves what fits, or what is on its way, in record and request.
LEMMA RequestInv ==
    ASSUME InformerInv,
           UNCHANGED <<api, created, starts, watch, wire, cache, podEvents, synced, crossed,
                       losses, crashes>>,
           NEW u \in UIDs, u <= created, NEW r \in IDs \cup {NoContainer, None},
           r # None => r <= starts, records' = [records EXCEPT ![u] = r],
           RequestBounds(mounting'),
           mounting # None => mounting.uid = u, mounting' # None => mounting'.uid = u,
           Underway(u) \/ (api # None /\ api.uid = u),
           api # None /\ api.uid = u => api.phase # "Pending",
           api # None /\ api.uid = u /\ u \notin crossed =>
              /\ ~Locked(u)' => SettledBy(r) \/ OnItsWay
              /\ Underway(u)' => Fits(mounting'.id) \/ OnItsWay
              /\ Locked(u)' => SettledBy(mounting'.prev) \/ OnItsWay
    PROVE  InformerInv'
  <1>1. /\ records \in [UIDs -> IDs \cup {NoContainer, None}] /\ podEvents \in Seq(Messages)
        /\ \A v \in UIDs : records[v] # None => v <= created /\ records[v] <= starts
        /\ \A i \in DOMAIN podEvents : Copy(podEvents[i].pod, created, starts)
        /\ synced \in BOOLEAN /\ crossed \in SUBSET UIDs
        /\ api # None => api.uid \in UIDs
    BY DEF InformerInv, InformerTypeOK, Copies, Pods
  <1>2. records'[u] = r /\ \A v \in UIDs : v # u => records'[v] = records[v]
    BY <1>1
  <1>3. /\ records' \in [UIDs -> IDs \cup {NoContainer, None}]
        /\ \A v \in UIDs : records'[v] # None => v <= created /\ records'[v] <= starts
    BY <1>1, <1>2
  <1>4. \A v : v # u => ~Underway(v) /\ ~Underway(v)'
    BY DEF Underway
  <1>5. CurrentID' = CurrentID
    BY DEF CurrentID
  <1>6. OnItsWay' <=> OnItsWay
    BY DEF OnItsWay, Unaware, Told
  <1>7. Pending'
    <2> SUFFICES ASSUME api # None, api.phase = "Pending"
                 PROVE  records'[api.uid] = None /\ ~Underway(api.uid)'
      BY DEF Pending, Underway
    <2> QED  BY <1>1, <1>2, <1>4 DEF InformerInv, Pending
  <1>8. Awaited'
    <2> SUFFICES ASSUME api # None, api.uid \notin crossed, ~Locked(api.uid)'
                 PROVE  Settled' \/ OnItsWay
      BY <1>6 DEF Awaited, Locked, Underway
    <2>1. SettledBy(records'[api.uid]) \/ OnItsWay
      <3>1. CASE api.uid = u
        BY <1>2, <3>1
      <3>2. CASE api.uid # u
        BY <1>1, <1>2, <1>4, <3>2 DEF InformerInv, Awaited, Locked, Settled
      <3> QED  BY <3>1, <3>2
    <2> QED  BY <1>5, <2>1 DEF Settled, SettledBy, Fits
  <1>9. Requested'
    <2> SUFFICES ASSUME api # None, api.uid \notin crossed, Underway(api.uid)'
                 PROVE  /\ Fits(mounting.id)' \/ OnItsWay
                        /\ Locked(api.uid)' => SettledBy(mounting.prev)' \/ OnItsWay
      BY <1>6 DEF Requested, Locked, Underway
    <2>1. api.uid = u
      BY <1>4
    <2>2. /\ Fits(mounting'.id) => Fits(mounting.id)'
          /\ SettledBy(mounting'.prev) => SettledBy(mounting.prev)'
      BY <1>5 DEF SettledBy, Fits
    <2> QED  BY <2>1, <2>2
  <1>10. FirstList'
    BY DEF InformerInv, FirstList
  <1>11. Forgetting'
    <2> SUFFICES ASSUME losses = 0, NEW v \in UIDs \ crossed, PodGone(v), Intended(v)'
                 PROVE  \/ ~synced
                        \/ \E i \in DOMAIN podEvents : Removes(podEvents[i], v)
                        \/ \E j \in DOMAIN wire : Removes(wire[j], v)
      BY DEF Forgetting, PodGone
    <2>1. CASE v = u
      BY <2>1 DEF InformerInv, Forgetting, Intended, PodGone
    <2>2. CASE v # u
      BY <1>2, <1>4, <2>2 DEF InformerInv, Forgetting, Intended
    <2> QED  BY <2>1, <2>2
  <1> QED  BY <1>1, <1>3, <1>7, <1>8, <1>9, <1>10, <1>11, RecordsInv

\* The request under way: whose it is, and what it may leave behind.
LEMMA RequestOf ==
    ASSUME InformerInv, mounting # None
    PROVE  LET u == mounting.uid
           IN  /\ u \in UIDs /\ u <= created /\ Underway(u) /\ RequestBounds(mounting)
               /\ mounting.id \in IDs /\ mounting.id <= starts /\ mounting.id # None
               /\ mounting.prev \in IDs \cup {NoContainer, None}
               /\ mounting.prev # None => mounting.prev <= starts
               /\ records[u] \in IDs \cup {NoContainer, None}
               /\ records[u] # None => records[u] <= starts
               /\ api # None /\ api.uid = u => api.phase # "Pending"
               /\ api # None /\ api.uid = u /\ u \notin crossed =>
                     /\ ~Locked(u) => SettledBy(records[u]) \/ OnItsWay
                     /\ Fits(mounting.id) \/ OnItsWay
                     /\ Locked(u) => SettledBy(mounting.prev) \/ OnItsWay
  <1>0. PICK u : u = mounting.uid
    OBVIOUS
  <1>1. /\ mounting \in Mountings /\ u <= created /\ mounting.id <= starts
        /\ mounting.prev # None => mounting.prev <= starts
        /\ records \in [UIDs -> IDs \cup {NoContainer, None}]
        /\ \A v \in UIDs : records[v] # None => v <= created /\ records[v] <= starts
    BY <1>0 DEF InformerInv, InformerTypeOK
  <1>2. /\ u \in UIDs /\ mounting.id \in IDs
        /\ mounting.prev \in IDs \cup {NoContainer, None}
    BY <1>0, <1>1 DEF Mountings
  <1>3. mounting.id # None
    BY <1>2, InformerAssumption DEF IDs
  <1>4. Underway(u)
    BY <1>0 DEF Underway
  <1>5. RequestBounds(mounting)
    BY <1>0, <1>1 DEF RequestBounds
  <1>6. api # None /\ api.uid = u => api.phase # "Pending"
    BY <1>4 DEF InformerInv, Pending
  <1>7. ASSUME api # None, api.uid = u, u \notin crossed
        PROVE  /\ ~Locked(u) => SettledBy(records[u]) \/ OnItsWay
               /\ Fits(mounting.id) \/ OnItsWay
               /\ Locked(u) => SettledBy(mounting.prev) \/ OnItsWay
    BY <1>4, <1>7 DEF InformerInv, Awaited, Requested, Settled
  <1> QED  BY <1>0, <1>1, <1>2, <1>3, <1>4, <1>5, <1>6, <1>7

\* A request that ends, with r in the record.
LEMMA RequestEnds ==
    ASSUME InformerInv, mounting # None, UNCHANGED otherVars, mounting' = None,
           NEW r, records' = [records EXCEPT ![mounting.uid] = r],
           \/ ~Locked(mounting.uid) /\ r = records[mounting.uid]
           \/ Locked(mounting.uid) /\ r = mounting.prev
           \/ r = mounting.id
    PROVE  InformerInv'
  <1>0. PICK u : u = mounting.uid
    OBVIOUS
  <1>1. UNCHANGED <<api, created, starts, watch, wire, cache, podEvents, synced, crossed,
                    losses, crashes>>
    BY DEF otherVars, clusterVars, podVars
  <1>2. /\ u \in UIDs /\ u <= created /\ Underway(u)
        /\ r \in IDs \cup {NoContainer, None} /\ (r # None => r <= starts)
        /\ api # None /\ api.uid = u => api.phase # "Pending"
    BY <1>0, RequestOf
  <1>3. ASSUME api # None, api.uid = u, u \notin crossed PROVE SettledBy(r) \/ OnItsWay
    <2>1. /\ ~Locked(u) => SettledBy(records[u]) \/ OnItsWay
          /\ Fits(mounting.id) \/ OnItsWay
          /\ Locked(u) => SettledBy(mounting.prev) \/ OnItsWay
      BY <1>0, <1>3, RequestOf
    <2>2. Fits(mounting.id) => SettledBy(mounting.id)
      BY DEF SettledBy
    <2> QED  BY <1>0, <2>1, <2>2
  <1>4. ~Underway(u)' /\ ~Locked(u)' /\ RequestBounds(mounting')
    BY DEF Underway, Locked, RequestBounds
  <1> QED  BY <1>0, <1>1, <1>2, <1>3, <1>4, RequestInv

\* A request that goes on, with r in the record.
LEMMA RequestGoesOn ==
    ASSUME InformerInv, mounting # None, UNCHANGED otherVars,
           NEW p, NEW s \in {"pending", "attached"},
           mounting' = [mounting EXCEPT !.prev = p, !.step = s],
           NEW r \in {records[mounting.uid], NoContainer},
           records' = [records EXCEPT ![mounting.uid] = r],
           \/ ~Locked(mounting.uid) /\ p = records[mounting.uid]
           \/ Locked(mounting.uid) /\ p = mounting.prev
    PROVE  InformerInv'
  <1>0. PICK u : u = mounting.uid
    OBVIOUS
  <1>1. UNCHANGED <<api, created, starts, watch, wire, cache, podEvents, synced, crossed,
                    losses, crashes>>
    BY DEF otherVars, clusterVars, podVars
  <1>2. /\ u \in UIDs /\ u <= created /\ Underway(u)
        /\ r \in IDs \cup {NoContainer, None} /\ (r # None => r <= starts)
        /\ api # None /\ api.uid = u => api.phase # "Pending"
    <2>1. NoContainer <= starts
      BY InformerAssumption DEF InformerInv, InformerTypeOK, NoContainer
    <2> QED  BY <1>0, <2>1, RequestOf
  <1>3. /\ mounting \in Mountings /\ RequestBounds(mounting)
        /\ p \in IDs \cup {NoContainer, None} /\ (p # None => p <= starts)
    BY <1>0, RequestOf DEF RequestBounds
  <1>4. /\ mounting' \in Mountings /\ mounting' # None
        /\ mounting'.uid = u /\ mounting'.id = mounting.id /\ mounting'.prev = p
        /\ mounting'.step = s
    <2>1. /\ mounting' \in Mountings
          /\ mounting'.uid = u /\ mounting'.id = mounting.id /\ mounting'.prev = p
          /\ mounting'.step = s
      BY <1>0, <1>3 DEF Mountings
    <2> QED  BY <2>1, InformerAssumption
  <1>5. RequestBounds(mounting')
    BY <1>1, <1>2, <1>3, <1>4 DEF RequestBounds
  <1>6. Underway(u)' /\ Locked(u)'
    BY <1>4 DEF Underway, Locked
  <1>7. ASSUME api # None, api.uid = u, u \notin crossed
        PROVE  /\ Fits(mounting'.id) \/ OnItsWay
               /\ SettledBy(mounting'.prev) \/ OnItsWay
    <2>1. /\ ~Locked(u) => SettledBy(records[u]) \/ OnItsWay
          /\ Fits(mounting.id) \/ OnItsWay
          /\ Locked(u) => SettledBy(mounting.prev) \/ OnItsWay
      BY <1>0, <1>7, RequestOf
    <2> QED  BY <1>0, <1>4, <2>1
  <1> QED  BY <1>0, <1>1, <1>2, <1>4, <1>5, <1>6, <1>7, RequestInv

LEMMA MountReadsInv == InformerInv /\ MountReads => InformerInv'
  <1> SUFFICES ASSUME InformerInv, MountReads PROVE InformerInv'
    OBVIOUS
  <1>1. /\ mounting = None /\ api # None /\ api.phase = "Running"
        /\ mounting' = [uid |-> api.uid, id |-> CurrentID, prev |-> None, step |-> "read"]
        /\ UNCHANGED <<api, created, starts, watch, wire, cache, podEvents, synced, crossed,
                       losses, crashes, records>>
    BY DEF MountReads, otherVars, clusterVars, podVars
  <1>2. /\ api.uid \in UIDs /\ api.uid <= created /\ starts \in 0..(MaxPods + MaxRestarts)
        /\ records \in [UIDs -> IDs \cup {NoContainer, None}]
        /\ \A u \in UIDs : records[u] # None => records[u] <= starts
    BY <1>1 DEF InformerInv, InformerTypeOK, Pods
  <1>3. CurrentID # None /\ CurrentID \in IDs /\ CurrentID <= starts
    <2>1. CurrentID # None /\ CurrentID \in 1..starts
      BY <1>1, CurrentTarget
    <2> QED  BY <1>2, <2>1, InformerAssumption DEF IDs
  <1>4. /\ mounting' \in Mountings /\ mounting' # None /\ mounting'.uid = api.uid
        /\ mounting'.id = CurrentID /\ mounting'.prev = None /\ mounting'.step = "read"
    <2>1. mounting' \in Mountings
      BY <1>1, <1>2, <1>3 DEF Mountings
    <2> QED  BY <1>1, <2>1, InformerAssumption
  <1>5. RequestBounds(mounting')
    BY <1>1, <1>2, <1>3, <1>4 DEF RequestBounds
  <1>6. ~Locked(api.uid) /\ ~Locked(api.uid)'
    BY <1>1, <1>4 DEF Locked, Underway
  <1>7. Fits(mounting'.id)
    BY <1>1, <1>3, <1>4 DEF Fits, Terminal
  <1>8. api.uid \notin crossed => SettledBy(records[api.uid]) \/ OnItsWay
    BY <1>1, <1>6 DEF InformerInv, Awaited, Settled
  <1>9. PICK u \in UIDs : u = api.uid
    BY <1>2
  <1>10. PICK r \in IDs \cup {NoContainer, None} : r = records[u]
    BY <1>2
  <1>11. records' = [records EXCEPT ![u] = r]
    BY <1>1, <1>2, <1>10
  <1> QED  BY <1>1, <1>2, <1>4, <1>5, <1>6, <1>7, <1>8, <1>9, <1>10, <1>11, RequestInv

LEMMA MountAdmitsInv == InformerInv /\ MountAdmits => InformerInv'
  <1> SUFFICES ASSUME InformerInv, MountAdmits PROVE InformerInv'
    OBVIOUS
  <1>0. PICK u : u = mounting.uid
    OBVIOUS
  <1>1. /\ mounting # None /\ ~Locked(u) /\ UNCHANGED otherVars
        /\ u \in UIDs /\ records \in [UIDs -> IDs \cup {NoContainer, None}]
    BY <1>0, RequestOf DEF MountAdmits, Locked, InformerInv, InformerTypeOK
  <1>2. CASE mounting' = None /\ UNCHANGED records
    <2>1. records' = [records EXCEPT ![u] = records[u]]
      BY <1>1, <1>2
    <2> QED  BY <1>0, <1>1, <1>2, <2>1, RequestEnds
  <1>3. CASE records' = [records EXCEPT ![u] = mounting.id] /\ mounting' = None
    BY <1>0, <1>1, <1>3, RequestEnds
  <1>4. CASE /\ records' = [records EXCEPT ![u] = NoContainer]
             /\ mounting' = [mounting EXCEPT !.prev = records[u], !.step = "pending"]
    BY <1>0, <1>1, <1>4, RequestGoesOn
  <1> QED  BY <1>0, <1>2, <1>3, <1>4 DEF MountAdmits

LEMMA MountAttachesInv == InformerInv /\ MountAttaches => InformerInv'
  <1> SUFFICES ASSUME InformerInv, MountAttaches PROVE InformerInv'
    OBVIOUS
  <1>0. PICK u : u = mounting.uid
    OBVIOUS
  <1>1. /\ mounting # None /\ Locked(u) /\ UNCHANGED otherVars
        /\ u \in UIDs /\ records \in [UIDs -> IDs \cup {NoContainer, None}]
    BY <1>0, RequestOf DEF MountAttaches, Locked, InformerInv, InformerTypeOK
  <1>2. CASE UNCHANGED records /\ mounting' = [mounting EXCEPT !.step = "attached"]
    <2>1. records' = [records EXCEPT ![u] = records[u]]
      BY <1>1, <1>2
    <2>2. mounting \in Mountings
      BY <1>1 DEF InformerInv, InformerTypeOK
    <2>3. mounting' = [mounting EXCEPT !.prev = mounting.prev, !.step = "attached"]
      BY <1>2, <2>2 DEF Mountings
    <2> QED  BY <1>0, <1>1, <2>1, <2>3, RequestGoesOn
  <1>3. CASE records' = [records EXCEPT ![u] = mounting.prev] /\ mounting' = None
    BY <1>0, <1>1, <1>3, RequestEnds
  <1> QED  BY <1>0, <1>2, <1>3 DEF MountAttaches

LEMMA MountRecordsInv == InformerInv /\ MountRecords => InformerInv'
  BY RequestEnds DEF MountRecords

-----------------------------------------------------------------------------
LEMMA InitInv == InformerInit => InformerInv
  <1> SUFFICES ASSUME InformerInit PROVE InformerInv
    OBVIOUS
  <1>1. InformerTypeOK
    <2>1. <<>> \in Seq(Messages) /\ DOMAIN <<>> = {} /\ {None, None} \ {None} = {}
      OBVIOUS
    <2>2. records \in [UIDs -> IDs \cup {NoContainer, None}] /\ \A u \in UIDs : records[u] = None
      BY DEF InformerInit
    <2>3. /\ created \in 0..MaxPods /\ starts \in 0..MaxPods + MaxRestarts
          /\ losses \in 0..MaxLosses /\ crashes \in 0..MaxCrashes
      BY InformerAssumption DEF InformerInit
    <2>4. api = None /\ cache = None /\ wire = <<>> /\ podEvents = <<>> /\ watch = "down"
          /\ synced = FALSE /\ mounting = None /\ crossed = {}
      BY DEF InformerInit
    <2> QED  BY <2>1, <2>2, <2>3, <2>4 DEF InformerTypeOK
  <1>2. /\ Copies /\ Current /\ EndsLast /\ Pending /\ Awaited /\ Requested /\ Leaving
        /\ FirstList /\ Forgetting
    BY DEF InformerInit, Copies, Current, EndsLast, Pending, Awaited, Requested, Leaving,
           FirstList, Forgetting
  <1> QED  BY <1>1, <1>2 DEF InformerInv

LEMMA StutterInv == InformerInv /\ UNCHANGED informerVars => InformerInv'
  <1> SUFFICES ASSUME InformerInv, UNCHANGED informerVars PROVE InformerInv'
    OBVIOUS
  <1>1. UNCHANGED <<api, created, starts, watch, wire, cache, podEvents, synced, records,
                    mounting, crossed, losses, crashes>>
    BY DEF informerVars, clusterVars, podVars, requestVars
  <1>2. Pending' /\ FirstList' /\ Forgetting'
    BY <1>1 DEF InformerInv, Pending, FirstList, Forgetting, PodGone, Intended, Underway
  <1>3. Awaited' /\ Requested'
    <2>1. OnItsWay => OnItsWay'
      BY <1>1 DEF OnItsWay, Unaware, Told
    <2> QED  BY <1>1, <2>1, OnItsWayEnough
  <1>4. /\ podEvents' \in Seq(Messages) /\ synced' \in BOOLEAN /\ crossed' \in SUBSET UIDs
        /\ \A i \in DOMAIN podEvents' : Copy(podEvents'[i].pod, created, starts)
        /\ records' \in [UIDs -> IDs \cup {NoContainer, None}]
        /\ \A u \in UIDs : records'[u] # None => u <= created /\ records'[u] <= starts
        /\ RequestBounds(mounting')
    BY <1>1 DEF InformerInv, InformerTypeOK, Copies, RequestBounds
  <1> QED  BY <1>1, <1>2, <1>3, <1>4, RecordsInv

(* An intent that is not where its Pod's container runs has something on    *)
(* its way that will correct it: the cache still differs from the Pod in    *)
(* what the filter of UpdateFunc compares, or an event that describes the   *)
(* Pod as it is waits.  And the intent of a Pod that is gone, or a request  *)
(* that may save one, has a deletion on its way, or the callback after the  *)
(* first list, as long as no watch broke.  Both but for a Pod of which an   *)
(* event was worked off while a request was under way (server.go:147-203,   *)
(* reconciler.go:280) and none that tells the present since.                *)
THEOREM IntentsFollowPods == InformerSpec => []InformerInv
  <1>1. InformerInv /\ [InformerNext]_informerVars => InformerInv'
    BY CreatePodInv, StartContainerInv, RelabelInv, TerminateInv, RemovePodInv, ListInv,
       ReceiveInv, LoseWatchInv, SyncedInv, WorkOffEventInv, MountReadsInv, MountAdmitsInv,
       MountAttachesInv, MountRecordsInv, CrashWrapperInv, StutterInv DEF InformerNext
  <1> QED  BY InitInv, <1>1, PTL DEF InformerSpec

\* When nothing is on its way, the Pod's own intent is settled.
LEMMA QuietSettles ==
    ASSUME InformerInv, Quiet, api # None, api.uid \notin crossed
    PROVE  Settled
  <1>1. watch = "up" /\ wire = <<>> /\ podEvents = <<>> /\ mounting = None
    BY DEF Quiet
  <1>2. cache = trimPodForInformerCache(api) /\ Copy(api, created, starts)
    BY <1>1 DEF InformerInv, Current, Copies
  <1>3. api \in Pods /\ cache # None /\ Copy(cache, created, starts)
    BY <1>2, TrimCopy DEF Copy
  <1>4. cache.phase = api.phase /\ cache.statuses = api.statuses
    BY <1>2, <1>3, TrimKeeps
  <1>5. ~Unaware
    BY <1>2, <1>3, <1>4, SameIsEqual DEF Unaware
  <1>6. ~Told
    BY <1>1 DEF Told
  <1> QED  BY <1>1, <1>5, <1>6 DEF InformerInv, Awaited, OnItsWay, Locked, Underway

(* For any number of Pods, restarts, lost watches and crashes, and with a   *)
(* mount request between any two steps: once all that is on its way has     *)
(* been worked off, the intent of the Pod is mounted in the container that  *)
(* runs.  The filter of UpdateFunc holds back no update that matters, and a *)
(* list makes up for what a watch lost.  An event that was worked off while *)
(* a request was under way does not (server.go:147-203, reconciler.go:280), *)
(* until one that tells the present follows it.                             *)
THEOREM PlacedWhenQuiet == InformerSpec => []QuietMeansPlaced
  <1>1. InformerInv => QuietMeansPlaced
    BY QuietSettles DEF QuietMeansPlaced, Settled, SettledBy, Fits
  <1> QED  BY IntentsFollowPods, <1>1, PTL

(* And then a Pod that has ended has no intent, nor has, as long as no      *)
(* watch broke, one that is gone: not even if it went while the wrapper was *)
(* down, since reconcilePodSnapshot asks the API server about every record  *)
(* that the list does not name.  Here too a Pod is excepted whose event was *)
(* worked off while a request was under way: the request can save the       *)
(* intent after the event that would have removed it.                       *)
THEOREM ForgottenWhenQuiet == InformerSpec => []QuietMeansForgotten
  <1>1. ASSUME InformerInv, Quiet, api # None, api.phase \in Terminal, api.uid \notin crossed
        PROVE  records[api.uid] = None
    BY <1>1, QuietSettles DEF Settled, SettledBy, Fits
  <1>2. ASSUME InformerInv, Quiet, losses = 0, NEW u \in UIDs \ crossed, PodGone(u)
        PROVE  records[u] = None
    <2>1. synced /\ DOMAIN wire = {} /\ DOMAIN podEvents = {}
      BY <1>2 DEF Quiet
    <2> QED  BY <1>2, <2>1 DEF InformerInv, Forgetting, Intended
  <1>3. InformerInv => QuietMeansForgotten
    BY <1>1, <1>2 DEF QuietMeansForgotten
  <1> QED  BY IntentsFollowPods, <1>3, PTL
=============================================================================
