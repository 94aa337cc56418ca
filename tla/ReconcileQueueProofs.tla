------------------------ MODULE ReconcileQueueProofs ------------------------
(***************************************************************************)
(* Proofs about the queue of retries: every mark in Server.retrying has    *)
(* exactly one retry behind it, for any number of goroutines, targets and  *)
(* queue slots.                                                            *)
(*                                                                         *)
(* The argument: Inv says who can be at which step, and that the retry of  *)
(* a marked target is one thing, a value in the channel or a goroutine     *)
(* that carries it (OneCarrier).  A step hands it on, takes it up together *)
(* with the mark or drops it together with the mark, and a step on another *)
(* target does not touch it.                                               *)
(***************************************************************************)
EXTENDS ReconcileQueue, FiniteSetTheorems, TLAPS

-----------------------------------------------------------------------------
(* The inductive invariant.                                                *)

\* Steps at which a goroutine has no target, or is done with it.
Between == {"idle", "list", "next"}

\* Which goroutine can be at which step; it has a target there, and a retry
\* that is requeued has an attempt left.
Placed(a) ==
    /\ a \in RetryWorkers => pc[a] \in {"idle", "wait", "view", "enter", "node",
                                   "record", "stale", "requeue", "unmark"}
    /\ a \in {Loop, Lister} => pc[a] \in {"idle", "list", "next", "enter", "node",
                                          "record", "stale", "mark", "send",
                                          "unmark"}
    /\ a \in Clients => pc[a] \in {"idle", "mount", "node", "record", "unmount",
                                   "detach"}
    /\ pc[a] \notin Between => job[a].key \in Keys
    /\ pc[a] = "requeue" => job[a].attempt + 1 < MaxAttempts

\* The goroutines that carry a retry.
Carries(a) == (a \in RetryWorkers /\ pc[a] # "idle") \/ pc[a] \in {"send", "unmark"}

\* The retry of a marked target is one value in the channel or one goroutine;
\* a target without a mark has none.
OneCarrier(k) ==
    IF k \in retrying
    THEN \/ Queued(k) = {} /\ \E a \in Actors : Holders(k) = {a}
         \/ Holders(k) = {} /\ \E i \in 1..Len(retries) : Queued(k) = {i}
    ELSE Holders(k) = {} /\ Queued(k) = {}

Inv ==
    /\ TypeOK
    /\ \A a \in Actors : Placed(a)
    /\ \A k \in Keys : OneCarrier(k)

-----------------------------------------------------------------------------
(* Steps of one goroutine.                                                 *)

Moves(a) ==
    /\ pc' \in [Actors -> Steps] /\ job' \in [Actors -> Jobs]
    /\ \A b \in Actors \ {a} : pc'[b] = pc[b] /\ job'[b] = job[b]

\* What is left of TypeOK when the goroutines are typed.
DataOK ==
    /\ gen \in 1..MaxGen /\ status \in 1..MaxGen /\ present \in BOOLEAN
    /\ attached \in SUBSET Keys
    /\ rec \in [Keys -> NoRecord..MaxGen]
    /\ lock \in [Keys -> Actors \cup {Nil}]
    /\ events \in Seq(Gone..MaxGen)
    /\ retries \in Seq(Retries) /\ Len(retries) <= RetryCap
    /\ retrying \in SUBSET Keys
    /\ faults \in 0..MaxFaults

LEMMA NoJobType == NoJob \in Jobs
<1>1. 0 \in 0..MaxAttempts - 1 /\ NoRecord \in NoRecord..MaxGen /\ Gone \in Gone..MaxGen
  BY QueueAssumption DEF NoRecord, Gone
<1> QED BY <1>1 DEF NoJob, Jobs

LEMMA GotoMoves ==
    ASSUME TypeOK, NEW a \in Actors, NEW step \in Steps, Goto(a, step)
    PROVE  /\ Moves(a) /\ pc'[a] = step
           /\ step = "idle" => job'[a] = NoJob
           /\ step # "idle" => job'[a] = job[a]
<1>1. pc \in [Actors -> Steps] /\ job \in [Actors -> Jobs]
  BY DEF TypeOK
<1>2. CASE step = "idle"
  BY <1>1, <1>2, NoJobType DEF Goto, Moves
<1>3. CASE step # "idle"
  BY <1>1, <1>3 DEF Goto, Moves
<1> QED BY <1>2, <1>3

LEMMA JobMoves ==
    ASSUME TypeOK, NEW a \in Actors, NEW step \in Steps, NEW j \in Jobs,
           pc' = [pc EXCEPT ![a] = step], job' = [job EXCEPT ![a] = j]
    PROVE  Moves(a) /\ pc'[a] = step /\ job'[a] = j
BY DEF TypeOK, Moves

\* A step that neither queues nor marks, and after which its goroutine carries
\* what it carried before.
LEMMA KeepsInv ==
    ASSUME Inv, DataOK', NEW a \in Actors, Moves(a), Placed(a)',
           UNCHANGED <<retries, retrying>>, Carries(a)' <=> Carries(a),
           Carries(a) => job'[a].key = job[a].key
    PROVE  Inv'
<1>1. TypeOK'
  BY DEF Moves, DataOK, TypeOK
<1>2. ASSUME NEW b \in Actors PROVE Placed(b)'
  BY DEF Inv, Moves, Placed
<1>3. ASSUME NEW k \in Keys PROVE OneCarrier(k)'
  <2>1. Holders(k)' = Holders(k)
    BY DEF Holders, Carries, Moves
  <2>2. Queued(k)' = Queued(k)
    BY DEF Queued
  <2> QED BY <2>1, <2>2 DEF Inv, OneCarrier
<1> QED BY <1>1, <1>2, <1>3 DEF Inv

\* A step that changes the carrier of the target of goroutine a.
LEMMA HandsOn ==
    ASSUME Inv, DataOK', NEW a \in Actors, Moves(a), Placed(a)',
           NEW key \in Keys, OneCarrier(key)',
           \A k \in Keys \ {key} : /\ k \in retrying' <=> k \in retrying
                                   /\ Holders(k)' = Holders(k)
                                   /\ Queued(k)' = Queued(k),
           Len(retries') >= Len(retries)
    PROVE  Inv'
<1>1. TypeOK'
  BY DEF Moves, DataOK, TypeOK
<1>2. ASSUME NEW b \in Actors PROVE Placed(b)'
  BY DEF Inv, Moves, Placed
<1>3. ASSUME NEW k \in Keys, k # key PROVE OneCarrier(k)'
  <2>1. \A i \in 1..Len(retries) : i \in 1..Len(retries')
    BY <1>1 DEF Inv, TypeOK
  <2> QED BY <1>3, <2>1 DEF Inv, OneCarrier
<1> QED BY <1>1, <1>2, <1>3 DEF Inv

LEMMA Typed ==
    ASSUME Inv, NEW a \in Actors
    PROVE  /\ TypeOK /\ DataOK /\ pc[a] \in Steps /\ job[a] \in Jobs /\ Placed(a)
           /\ job \in [Actors -> Jobs] /\ pc \in [Actors -> Steps]
           /\ a \in RetryWorkers \/ a \in Clients \/ a \in {Loop, Lister}
           /\ ~(a \in RetryWorkers /\ a \in Clients)
           /\ ~(a \in RetryWorkers /\ a \in {Loop, Lister})
           /\ ~(a \in Clients /\ a \in {Loop, Lister})
BY QueueAssumption DEF Inv, TypeOK, DataOK, Actors

\* Between the decision to reconcile and its result.
Reconciling == {"view", "enter", "node", "record", "stale"}

LEMMA ReconcileStep ==
    ASSUME Inv, DataOK', NEW a \in Actors, pc[a] \in Reconciling,
           NEW step \in {Settles(a), Fails(a)} \cup
                        (IF pc[a] = "enter" THEN {"node"} ELSE {}) \cup
                        (IF pc[a] = "node" THEN {"record"} ELSE {}),
           Goto(a, step), UNCHANGED <<retries, retrying>>
    PROVE  Inv'
<1>1. /\ TypeOK /\ Placed(a) /\ job[a].attempt \in Int /\ MaxAttempts \in Int
      /\ a \in RetryWorkers \/ a \in Clients \/ a \in {Loop, Lister}
      /\ ~(a \in RetryWorkers /\ a \in Clients)
      /\ ~(a \in RetryWorkers /\ a \in {Loop, Lister})
      /\ ~(a \in Clients /\ a \in {Loop, Lister})
  BY Typed, QueueAssumption DEF Jobs
<1>2. job[a].key \in Keys
  BY <1>1 DEF Placed, Reconciling, Between
<1>3. CASE a \in RetryWorkers
  <2>1. /\ step \in {"unmark", "requeue", "node", "record"}
        /\ step = "requeue" => job[a].attempt + 1 < MaxAttempts
    BY <1>1, <1>3 DEF Settles, Fails, LastAttempt
  <2>2. Moves(a) /\ pc'[a] = step /\ job'[a] = job[a]
    BY <1>1, <2>1, GotoMoves DEF Steps
  <2>3. Placed(a)'
    BY <1>1, <1>2, <1>3, <2>1, <2>2 DEF Placed
  <2>4. Carries(a) /\ Carries(a)'
    BY <1>3, <2>1, <2>2 DEF Carries, Reconciling
  <2> QED BY <2>2, <2>3, <2>4, KeepsInv
<1>4. CASE a \in {Loop, Lister}
  <2>1. step \in {"next", "mark", "node", "record"}
    BY <1>1, <1>4 DEF Settles, Fails
  <2>2. Moves(a) /\ pc'[a] = step /\ job'[a] = job[a]
    BY <1>1, <2>1, GotoMoves DEF Steps
  <2>3. Placed(a)'
    BY <1>1, <1>2, <1>4, <2>1, <2>2 DEF Placed
  <2>4. ~Carries(a) /\ ~Carries(a)'
    BY <1>1, <1>4, <2>1, <2>2 DEF Carries, Reconciling
  <2> QED BY <2>2, <2>3, <2>4, KeepsInv
<1>5. CASE a \in Clients
  <2>1. /\ pc[a] \in {"node", "record"}
        /\ step \in {"idle", "node", "record"} /\ (step = "node" => FALSE)
    BY <1>1, <1>5 DEF Settles, Fails, Placed, Reconciling
  <2>2. Moves(a) /\ pc'[a] = step /\ (step # "idle" => job'[a] = job[a])
    BY <1>1, <2>1, GotoMoves DEF Steps
  <2>3. Placed(a)'
    BY <1>1, <1>2, <1>5, <2>1, <2>2 DEF Placed, Between
  <2>4. ~Carries(a) /\ ~Carries(a)'
    BY <1>1, <1>5, <2>1, <2>2 DEF Carries
  <2> QED BY <2>2, <2>3, <2>4, KeepsInv
<1> QED BY <1>1, <1>3, <1>4, <1>5

-----------------------------------------------------------------------------
(* One lemma per action.                                                   *)

LEMMA ReconcileEnterInv ==
    ASSUME Inv, NEW a \in Actors, ReconcileEnter(a)
    PROVE  Inv'
<1>1. pc[a] = "enter" /\ UNCHANGED <<cluster, attached, rec, queues>>
  BY DEF ReconcileEnter
<1>2. job[a].key \in Keys /\ DataOK
  BY <1>1, Typed DEF Placed, Between
<1>3. lock' \in [Keys -> Actors \cup {Nil}] /\ faults' \in 0..MaxFaults
  BY <1>2, QueueAssumption DEF ReconcileEnter, Acquire, Fault, NoFault, DataOK
<1>4. DataOK'
  BY <1>1, <1>2, <1>3 DEF DataOK, cluster, queues
<1>5. PICK step \in {Settles(a), Fails(a), "node"} : Goto(a, step)
  BY DEF ReconcileEnter
<1> QED BY <1>1, <1>4, <1>5, ReconcileStep DEF Reconciling, queues

LEMMA NodeMountInv ==
    ASSUME Inv, NEW a \in Actors, NodeMount(a)
    PROVE  Inv'
<1>1. pc[a] = "node" /\ UNCHANGED <<cluster, queues>>
  BY DEF NodeMount
<1>2. job[a].key \in Keys /\ DataOK /\ job[a].seen \in NoRecord..MaxGen
  BY <1>1, Typed DEF Placed, Between, Jobs
<1>3. faults' \in 0..MaxFaults
  BY <1>2, QueueAssumption DEF NodeMount, Fault, NoFault, DataOK
<1>4. /\ attached' \in SUBSET Keys /\ rec' \in [Keys -> NoRecord..MaxGen]
      /\ lock' \in [Keys -> Actors \cup {Nil}]
  BY <1>2 DEF NodeMount, Release, DataOK
<1>5. DataOK'
  BY <1>1, <1>2, <1>3, <1>4 DEF DataOK, cluster, queues
<1>6. PICK step \in {Fails(a), "record"} : Goto(a, step)
  BY DEF NodeMount
<1> QED BY <1>1, <1>5, <1>6, ReconcileStep DEF Reconciling, queues

LEMMA RecordContainerInv ==
    ASSUME Inv, NEW a \in Actors, RecordContainer(a)
    PROVE  Inv'
<1>1. pc[a] = "record" /\ UNCHANGED <<cluster, attached, queues>>
  BY DEF RecordContainer
<1>2. /\ job[a].key \in Keys /\ DataOK
      /\ job[a].view \in NoRecord..MaxGen
  BY <1>1, Typed, QueueAssumption DEF Placed, Between, Jobs, NoRecord, Gone
<1>3. faults' \in 0..MaxFaults
  BY <1>2, QueueAssumption DEF RecordContainer, Fault, NoFault, DataOK
<1>4. /\ rec' \in [Keys -> NoRecord..MaxGen]
      /\ lock' \in [Keys -> Actors \cup {Nil}]
  BY <1>2 DEF RecordContainer, Release, DataOK
<1>5. DataOK'
  BY <1>1, <1>2, <1>3, <1>4 DEF DataOK, cluster, queues
<1>6. PICK step \in {Fails(a), Settles(a)} : Goto(a, step)
  BY DEF RecordContainer
<1> QED BY <1>1, <1>5, <1>6, ReconcileStep DEF Reconciling, queues

LEMMA RemoveStaleInv ==
    ASSUME Inv, NEW a \in Actors, RemoveStale(a)
    PROVE  Inv'
<1>1. pc[a] = "stale" /\ UNCHANGED <<cluster, attached, lock, queues>>
  BY DEF RemoveStale
<1>2. /\ job[a].key \in Keys /\ DataOK /\ NoRecord \in NoRecord..MaxGen
  BY <1>1, Typed, QueueAssumption DEF Placed, Between, NoRecord
<1>3. faults' \in 0..MaxFaults
  BY <1>2, QueueAssumption DEF RemoveStale, Fault, NoFault, DataOK
<1>4. rec' \in [Keys -> NoRecord..MaxGen]
  BY <1>2 DEF RemoveStale, DataOK
<1>5. DataOK'
  BY <1>1, <1>2, <1>3, <1>4 DEF DataOK, cluster, queues
<1>6. Goto(a, Settles(a))
  BY DEF RemoveStale
<1> QED BY <1>1, <1>5, <1>6, ReconcileStep DEF Reconciling, queues

LEMMA FaultType ==
    ASSUME DataOK, Fault \/ NoFault
    PROVE  faults' \in 0..MaxFaults
BY QueueAssumption DEF DataOK, Fault, NoFault

\* What is received from a channel, and what stays in it.
LEMMA FirstAndRest ==
    ASSUME NEW S, NEW s \in Seq(S), s # <<>>
    PROVE  /\ Head(s) \in S /\ Head(s) = s[1] /\ Len(s) \in Nat \ {0}
           /\ Tail(s) \in Seq(S) /\ Len(Tail(s)) = Len(s) - 1
           /\ \A i \in 1..Len(s) - 1 : Tail(s)[i] = s[i + 1]
OBVIOUS

LEMMA AppendType ==
    ASSUME NEW S, NEW s \in Seq(S), NEW x \in S
    PROVE  Append(s, x) \in Seq(S) /\ <<x>> \in Seq(S) /\ <<>> \in Seq(S)
OBVIOUS

\* What a goroutine reads of the Pod and of the records is well-typed.
LEMMA ReadTypes ==
    ASSUME DataOK
    PROVE  /\ View \in Gone..MaxGen
           /\ Listed \in SUBSET (Keys \X (Pending..MaxGen))
<1>1. View \in Gone..MaxGen
  BY QueueAssumption DEF DataOK, View, Gone
<1>2. ASSUME NEW k \in Keys, rec[k] # NoRecord
      PROVE  rec[k] \in Pending..MaxGen
  BY <1>2, QueueAssumption DEF DataOK, NoRecord, Pending
<1> QED BY <1>1, <1>2 DEF Listed

LEMMA TakeEventInv ==
    ASSUME Inv, TakeEvent
    PROVE  Inv'
<1>1. /\ Loop \in Actors /\ Placed(Loop) /\ TypeOK /\ DataOK /\ pc[Loop] = "idle"
      /\ job[Loop] \in Jobs /\ job \in [Actors -> Jobs] /\ Loop \notin RetryWorkers
      /\ Loop \notin Clients /\ events # <<>>
  BY Typed, QueueAssumption DEF TakeEvent, Actors
<1>2. Head(events) \in Gone..MaxGen /\ events' \in Seq(Gone..MaxGen)
  <2>1. events \in Seq(Gone..MaxGen) /\ events # <<>> /\ events' = Tail(events)
    BY <1>1 DEF DataOK, TakeEvent
  <2> QED BY <2>1, FirstAndRest
<1>3. DataOK' /\ UNCHANGED <<retries, retrying>>
  BY <1>1, <1>2 DEF TakeEvent, DataOK, cluster
<1> DEFINE j == [job[Loop] EXCEPT !.view = Head(events), !.todo = Listed]
<1>4. j \in Jobs
  BY <1>1, <1>2, ReadTypes DEF Jobs
<1>5. job' = [job EXCEPT ![Loop] = j] /\ pc' = [pc EXCEPT ![Loop] = "next"]
  BY <1>1 DEF TakeEvent
<1> HIDE DEF j
<1>6. Moves(Loop) /\ pc'[Loop] = "next"
  BY <1>1, <1>4, <1>5, JobMoves DEF Steps
<1>7. Placed(Loop)' /\ ~Carries(Loop) /\ ~Carries(Loop)'
  BY <1>1, <1>6 DEF Placed, Carries, Between
<1> QED BY <1>1, <1>3, <1>6, <1>7, KeepsInv

LEMMA ListPodsInv ==
    ASSUME Inv, ListPods
    PROVE  Inv'
<1>1. /\ Lister \in Actors /\ Placed(Lister) /\ TypeOK /\ DataOK
      /\ pc[Lister] = "list" /\ job[Lister] \in Jobs /\ job \in [Actors -> Jobs]
      /\ Lister \notin RetryWorkers /\ Lister \notin Clients
  BY Typed, QueueAssumption DEF ListPods, Actors
<1>2. DataOK' /\ UNCHANGED <<retries, retrying>>
  BY <1>1 DEF ListPods, DataOK, cluster, queues
<1> DEFINE j == [job[Lister] EXCEPT !.view = View, !.todo = Listed]
<1>3. j \in Jobs
  BY <1>1, ReadTypes DEF Jobs
<1>4. job' = [job EXCEPT ![Lister] = j] /\ pc' = [pc EXCEPT ![Lister] = "next"]
  BY <1>1 DEF ListPods
<1> HIDE DEF j
<1>5. Moves(Lister) /\ pc'[Lister] = "next"
  BY <1>1, <1>3, <1>4, JobMoves DEF Steps
<1>6. Placed(Lister)' /\ ~Carries(Lister) /\ ~Carries(Lister)'
  BY <1>1, <1>5 DEF Placed, Carries, Between
<1> QED BY <1>1, <1>2, <1>5, <1>6, KeepsInv

LEMMA NextRecordInv ==
    ASSUME Inv, NEW a \in Actors, NextRecord(a)
    PROVE  Inv'
<1>1. /\ pc[a] = "next" /\ TypeOK /\ DataOK /\ job[a] \in Jobs
      /\ job \in [Actors -> Jobs] /\ a \in {Loop, Lister} /\ a \notin RetryWorkers
      /\ a \notin Clients
  BY Typed DEF NextRecord, Placed
<1>2. faults' \in 0..MaxFaults /\ UNCHANGED <<cluster, attached, rec, lock, queues>>
  <2>1. Fault \/ NoFault
    BY DEF NextRecord
  <2> QED BY <1>1, <2>1, FaultType DEF NextRecord
<1>3. DataOK' /\ UNCHANGED <<retries, retrying>>
  BY <1>1, <1>2 DEF DataOK, cluster, queues
<1>4. CASE Goto(a, "idle")
  <2>1. Moves(a) /\ pc'[a] = "idle"
    BY <1>1, <1>4, GotoMoves DEF Steps
  <2>2. Placed(a)' /\ ~Carries(a) /\ ~Carries(a)'
    BY <1>1, <2>1 DEF Placed, Carries, Between
  <2> QED BY <1>3, <2>1, <2>2, KeepsInv
<1>5. ASSUME NEW item \in job[a].todo, NEW step \in {"stale", "enter", "mark"},
             job' = [job EXCEPT ![a].key = item[1], ![a].seen = item[2],
                                ![a].todo = @ \ {item}],
             pc' = [pc EXCEPT ![a] = step]
      PROVE  Inv'
  <2> DEFINE j == [job[a] EXCEPT !.key = item[1], !.seen = item[2],
                                 !.todo = @ \ {item}]
  <2>1. item[1] \in Keys /\ item[2] \in NoRecord..MaxGen
    BY <1>1, QueueAssumption DEF Jobs, NoRecord, Pending
  <2>2. j \in Jobs /\ j.key = item[1]
    BY <1>1, <2>1 DEF Jobs
  <2>3. job' = [job EXCEPT ![a] = j]
    BY <1>1, <1>5
  <2> HIDE DEF j
  <2>4. Moves(a) /\ pc'[a] = step /\ job'[a] = j
    BY <1>1, <1>5, <2>2, <2>3, JobMoves DEF Steps
  <2>5. Placed(a)' /\ ~Carries(a) /\ ~Carries(a)'
    BY <1>1, <2>1, <2>2, <2>4 DEF Placed, Carries
  <2> QED BY <1>3, <2>4, <2>5, KeepsInv
<1> QED BY <1>4, <1>5 DEF NextRecord, AfterPick

LEMMA GetRecordInv ==
    ASSUME Inv, NEW a \in Actors, GetRecord(a)
    PROVE  Inv'
<1>1. /\ pc[a] = "wait" /\ TypeOK /\ DataOK /\ job[a] \in Jobs /\ Placed(a)
      /\ job \in [Actors -> Jobs] /\ a \in RetryWorkers /\ a \notin Clients
      /\ a \notin {Loop, Lister} /\ job[a].key \in Keys
  BY Typed DEF GetRecord, Placed, Between
<1>2. DataOK' /\ UNCHANGED <<retries, retrying>>
  BY <1>1 DEF GetRecord, DataOK, cluster, queues
<1> DEFINE j == [job[a] EXCEPT !.seen = rec[job[a].key]]
<1>3. j \in Jobs /\ j.key = job[a].key
  BY <1>1 DEF Jobs, DataOK
<1>4. PICK step \in {"unmark", "view"} :
         job' = [job EXCEPT ![a] = j] /\ pc' = [pc EXCEPT ![a] = step]
  BY <1>1 DEF GetRecord
<1> HIDE DEF j
<1>5. Moves(a) /\ pc'[a] = step /\ job'[a] = j
  BY <1>1, <1>3, <1>4, JobMoves DEF Steps
<1>6. Placed(a)' /\ Carries(a) /\ Carries(a)'
  BY <1>1, <1>3, <1>5 DEF Placed, Carries
<1> QED BY <1>2, <1>3, <1>5, <1>6, KeepsInv

LEMMA GetPodInv ==
    ASSUME Inv, NEW a \in Actors, GetPod(a)
    PROVE  Inv'
<1>1. /\ pc[a] = "view" /\ TypeOK /\ DataOK /\ job[a] \in Jobs /\ Placed(a)
      /\ job \in [Actors -> Jobs] /\ a \in RetryWorkers /\ a \notin Clients
      /\ a \notin {Loop, Lister} /\ job[a].key \in Keys
  BY Typed DEF GetPod, Placed, Between
<1>2. (Fault \/ NoFault) /\ UNCHANGED <<cluster, attached, rec, lock, queues>>
  BY DEF GetPod
<1>3. DataOK' /\ UNCHANGED <<retries, retrying>>
  <2>1. faults' \in 0..MaxFaults
    BY <1>1, <1>2, FaultType
  <2> QED BY <1>1, <1>2, <2>1 DEF DataOK, cluster, queues
<1>4. CASE Goto(a, Fails(a))
  BY <1>1, <1>3, <1>4, ReconcileStep DEF Reconciling
<1>5. ASSUME NEW step \in {"enter", "stale"}, pc' = [pc EXCEPT ![a] = step],
             job' = [job EXCEPT ![a].view = View]
      PROVE  Inv'
  <2> DEFINE j == [job[a] EXCEPT !.view = View]
  <2>1. j \in Jobs /\ j.key = job[a].key /\ job' = [job EXCEPT ![a] = j]
    BY <1>1, <1>5, ReadTypes DEF Jobs
  <2> HIDE DEF j
  <2>2. Moves(a) /\ pc'[a] = step /\ job'[a] = j
    BY <1>1, <1>5, <2>1, JobMoves DEF Steps
  <2>3. Placed(a)' /\ Carries(a) /\ Carries(a)'
    BY <1>1, <2>1, <2>2 DEF Placed, Carries
  <2> QED BY <1>3, <2>1, <2>2, <2>3, KeepsInv
<1> QED BY <1>4, <1>5 DEF GetPod

-----------------------------------------------------------------------------
(* The steps that take up, hand on and drop retries.                       *)

\* The goroutine that carries a retry is the only one, and the channel has none.
LEMMA CarrierAlone ==
    ASSUME Inv, NEW a \in Actors, Carries(a)
    PROVE  /\ job[a].key \in Keys /\ job[a].key \in retrying
           /\ Holders(job[a].key) = {a} /\ Queued(job[a].key) = {}
<1>1. job[a].key \in Keys
  BY Typed DEF Carries, Placed, Between
<1>2. a \in Holders(job[a].key)
  BY DEF Holders, Carries
<1> QED BY <1>1, <1>2 DEF Inv, OneCarrier

\* The holders of other targets do not change with what goroutine a does on
\* its own, and its own are a and nobody else.
LEMMA OtherHolders ==
    ASSUME Inv, NEW a \in Actors, Moves(a), NEW key,
           Carries(a) => job[a].key = key, Carries(a)' => job'[a].key = key
    PROVE  /\ \A k \in Keys \ {key} : Holders(k)' = Holders(k)
           /\ Holders(key) \in {{}, {a}}
              => Holders(key)' = IF Carries(a)' THEN {a} ELSE {}
<1>1. ASSUME NEW k \in Keys \ {key} PROVE Holders(k)' = Holders(k)
  BY DEF Holders, Carries, Moves
<1>2. ASSUME Holders(key) \in {{}, {a}}
      PROVE  Holders(key)' = IF Carries(a)' THEN {a} ELSE {}
  <2>1. ASSUME NEW b \in Actors, b # a PROVE b \notin Holders(key)'
    BY <1>2, <2>1 DEF Holders, Moves
  <2>2. a \in Holders(key)' <=> Carries(a)'
    BY DEF Holders, Carries
  <2>3. Holders(key)' \subseteq Actors
    BY DEF Holders
  <2> QED BY <2>1, <2>2, <2>3
<1> QED BY <1>1, <1>2

LEMMA MarkRetryInv ==
    ASSUME Inv, NEW a \in Actors, MarkRetry(a)
    PROVE  Inv'
<1>1. /\ pc[a] = "mark" /\ TypeOK /\ DataOK /\ job[a] \in Jobs /\ Placed(a)
      /\ a \in {Loop, Lister} /\ a \notin RetryWorkers /\ a \notin Clients
  BY Typed DEF MarkRetry, Placed
<1>2. PICK key \in Keys : key = job[a].key
  BY <1>1 DEF Placed, Between
<1>3. /\ retrying' = retrying \cup {key} /\ UNCHANGED <<retries, events>>
      /\ Goto(a, IF key \in retrying THEN "next" ELSE "send")
      /\ UNCHANGED <<cluster, attached, rec, lock, faults>>
  BY <1>2 DEF MarkRetry
<1>4. DataOK'
  BY <1>1, <1>2, <1>3 DEF DataOK, cluster
<1>5. ~Carries(a)
  BY <1>1 DEF Carries
<1>6. CASE key \in retrying
  <2>1. Moves(a) /\ pc'[a] = "next" /\ UNCHANGED <<retries, retrying>>
    BY <1>1, <1>3, <1>6, GotoMoves DEF Steps
  <2>2. Placed(a)' /\ ~Carries(a)'
    BY <1>1, <2>1 DEF Placed, Carries, Between
  <2> QED BY <1>4, <1>5, <2>1, <2>2, KeepsInv
<1>7. CASE key \notin retrying
  <2>1. Moves(a) /\ pc'[a] = "send" /\ job'[a] = job[a]
    BY <1>1, <1>3, <1>7, GotoMoves DEF Steps
  <2>2. Placed(a)' /\ Carries(a)'
    BY <1>1, <1>2, <2>1 DEF Placed, Carries
  <2>3. Holders(key) = {} /\ Queued(key) = {}
    BY <1>7 DEF Inv, OneCarrier
  <2>4. \A k : Queued(k)' = Queued(k)
    BY <1>3 DEF Queued
  <2>5. Holders(key)' = {a} /\ \A k \in Keys \ {key} : Holders(k)' = Holders(k)
    BY <1>2, <1>5, <2>1, <2>2, <2>3, OtherHolders
  <2>6. OneCarrier(key)'
    BY <1>3, <2>3, <2>4, <2>5 DEF OneCarrier
  <2>7. Len(retries') >= Len(retries)
    BY <1>1, <1>3 DEF DataOK
  <2> QED BY <1>3, <1>4, <2>1, <2>2, <2>4, <2>5, <2>6, <2>7, HandsOn
<1> QED BY <1>6, <1>7

LEMMA UnmarkInv ==
    ASSUME Inv, NEW a \in Actors, Unmark(a)
    PROVE  Inv'
<1>1. /\ pc[a] = "unmark" /\ TypeOK /\ DataOK /\ Placed(a) /\ a \notin Clients
      /\ a \in {Loop, Lister} <=> a \notin RetryWorkers
  BY Typed DEF Unmark, Placed
<1>2. Carries(a)
  BY <1>1 DEF Carries
<1>3. PICK key \in Keys : key = job[a].key
  BY <1>1 DEF Placed, Between
<1>4. Holders(key) = {a} /\ Queued(key) = {}
  BY <1>2, <1>3, CarrierAlone
<1>5. /\ retrying' = retrying \ {key} /\ UNCHANGED <<retries, events>>
      /\ Goto(a, IF a \in RetryWorkers THEN "idle" ELSE "next")
      /\ UNCHANGED <<cluster, attached, rec, lock, faults>>
  BY <1>3 DEF Unmark
<1>6. DataOK'
  BY <1>1, <1>5 DEF DataOK, cluster
<1>7. Moves(a) /\ pc'[a] = IF a \in RetryWorkers THEN "idle" ELSE "next"
  BY <1>1, <1>5, GotoMoves DEF Steps
<1>8. Placed(a)' /\ ~Carries(a)'
  BY <1>1, <1>7 DEF Placed, Carries, Between
<1>9. Holders(key)' = {} /\ \A k \in Keys \ {key} : Holders(k)' = Holders(k)
  BY <1>2, <1>3, <1>4, <1>7, <1>8, OtherHolders
<1>10. \A k : Queued(k)' = Queued(k)
  BY <1>5 DEF Queued
<1>11. OneCarrier(key)'
  BY <1>4, <1>5, <1>9, <1>10 DEF OneCarrier
<1>12. Len(retries') >= Len(retries)
  BY <1>1, <1>5 DEF DataOK
<1> QED BY <1>5, <1>6, <1>7, <1>8, <1>9, <1>10, <1>11, <1>12, HandsOn

\* A goroutine hands its retry to the channel, or finds it full.
LEMMA EnqueueInv ==
    ASSUME Inv, NEW a \in Actors, Carries(a), a \notin Clients,
           NEW retry \in Retries, retry.key = job[a].key,
           NEW then \in {"idle", "next"}, Enqueue(a, retry, then),
           then = "idle" <=> a \in RetryWorkers
    PROVE  Inv'
<1>1. TypeOK /\ DataOK /\ (a \in {Loop, Lister} <=> a \notin RetryWorkers)
  BY Typed
<1>2. PICK key \in Keys : key = job[a].key
  BY CarrierAlone
<1>3. key \in retrying /\ Holders(key) = {a} /\ Queued(key) = {}
  BY <1>2, CarrierAlone
<1>4. UNCHANGED <<cluster, attached, rec, lock, events, retrying, faults>>
  BY DEF Enqueue
<1>5. /\ retries \in Seq(Retries) /\ Len(retries) \in Nat
      /\ Len(retries) <= RetryCap /\ RetryCap \in Nat
  BY <1>1, QueueAssumption DEF DataOK
<1>6. CASE ~(Len(retries) < RetryCap)
  <2>1. Goto(a, "unmark") /\ UNCHANGED <<retries, retrying>>
    BY <1>4, <1>6 DEF Enqueue, AfterFull
  <2>2. DataOK'
    BY <1>1, <1>4, <2>1 DEF DataOK, cluster
  <2>3. Moves(a) /\ pc'[a] = "unmark" /\ job'[a] = job[a]
    BY <1>1, <2>1, GotoMoves DEF Steps
  <2>4. Placed(a)' /\ Carries(a)'
    BY <1>1, <1>2, <2>3 DEF Placed, Carries
  <2> QED BY <2>1, <2>2, <2>3, <2>4, KeepsInv
<1>7. CASE Len(retries) < RetryCap
  <2>1. retries' = Append(retries, retry) /\ Goto(a, then)
    BY <1>7 DEF Enqueue
  <2>2. /\ retries' \in Seq(Retries) /\ Len(retries') = Len(retries) + 1
        /\ retries'[Len(retries) + 1] = retry
        /\ \A i \in 1..Len(retries) : retries'[i] = retries[i]
    BY <1>5, <2>1
  <2>3. DataOK'
    BY <1>1, <1>4, <1>5, <1>7, <2>2 DEF DataOK, cluster
  <2>4. Moves(a) /\ pc'[a] = then
    BY <1>1, <2>1, GotoMoves DEF Steps
  <2>5. Placed(a)' /\ ~Carries(a)'
    BY <1>1, <2>4 DEF Placed, Carries, Between
  <2>6. Holders(key)' = {} /\ \A k \in Keys \ {key} : Holders(k)' = Holders(k)
    BY <1>2, <1>3, <2>4, <2>5, OtherHolders
  <2>7. ASSUME NEW k \in Keys, k # key PROVE Queued(k)' = Queued(k)
    BY <1>2, <1>5, <2>2, <2>7 DEF Queued
  <2>8. Queued(key)' = {Len(retries) + 1}
    BY <1>2, <1>3, <1>5, <2>2 DEF Queued
  <2>9. OneCarrier(key)'
    BY <1>3, <1>4, <1>5, <2>2, <2>6, <2>8 DEF OneCarrier
  <2> QED BY <1>4, <1>5, <2>2, <2>3, <2>4, <2>5, <2>6, <2>7, <2>9, HandsOn
<1> QED BY <1>6, <1>7

LEMMA SendRetryInv ==
    ASSUME Inv, NEW a \in Actors, SendRetry(a)
    PROVE  Inv'
<1>1. /\ pc[a] = "send" /\ a \notin RetryWorkers /\ a \notin Clients /\ Placed(a)
  BY Typed DEF SendRetry, Placed
<1>2. Carries(a) /\ job[a].key \in Keys
  BY <1>1 DEF Carries, Placed, Between
<1>3. PICK retry \in Retries : retry.key = job[a].key /\ Enqueue(a, retry, "next")
  BY <1>2, QueueAssumption DEF SendRetry, Retries
<1> QED BY <1>1, <1>2, <1>3, EnqueueInv

LEMMA RequeueInv ==
    ASSUME Inv, NEW a \in Actors, Requeue(a)
    PROVE  Inv'
<1>1. /\ pc[a] = "requeue" /\ a \in RetryWorkers /\ a \notin Clients /\ Placed(a)
      /\ job[a] \in Jobs
  BY Typed DEF Requeue, Placed
<1>2. /\ Carries(a) /\ job[a].key \in Keys
      /\ job[a].attempt + 1 < MaxAttempts /\ job[a].attempt \in Nat
  BY <1>1 DEF Carries, Placed, Between, Jobs
<1>3. NextAttempt(job[a].attempt) \in 0..MaxAttempts - 1
  BY <1>2, QueueAssumption DEF NextAttempt
<1>4. PICK retry \in Retries : retry.key = job[a].key /\ Enqueue(a, retry, "idle")
  BY <1>2, <1>3 DEF Requeue, Retries
<1> QED BY <1>1, <1>2, <1>4, EnqueueInv

\* A value leaves the channel: its target is carried by the worker from now on,
\* the other values move up.
LEMMA TakeRetryInv ==
    ASSUME Inv, NEW a \in Actors, TakeRetry(a)
    PROVE  Inv'
<1>1. /\ pc[a] = "idle" /\ TypeOK /\ DataOK /\ a \in RetryWorkers /\ a \notin Clients
      /\ a \notin {Loop, Lister} /\ job[a] \in Jobs /\ job \in [Actors -> Jobs]
      /\ retries # <<>> /\ retries' = Tail(retries)
  BY Typed DEF TakeRetry
<1>2. UNCHANGED <<cluster, attached, rec, lock, events, retrying, faults>>
  BY DEF TakeRetry
<1>3. PICK first : first = Head(retries)
  OBVIOUS
<1>4. retries \in Seq(Retries) /\ Len(retries) <= RetryCap /\ RetryCap \in Nat
  BY <1>1, QueueAssumption DEF DataOK
<1>5. /\ first \in Retries /\ first = retries[1] /\ Len(retries) \in Nat \ {0}
      /\ retries' \in Seq(Retries) /\ Len(retries') = Len(retries) - 1
      /\ \A i \in 1..Len(retries) - 1 : retries'[i] = retries[i + 1]
  BY <1>1, <1>3, <1>4, FirstAndRest
<1>6. DataOK'
  BY <1>1, <1>2, <1>4, <1>5 DEF DataOK, cluster
<1> DEFINE j == [job[a] EXCEPT !.key = first.key, !.attempt = first.attempt]
<1>7. PICK key \in Keys : key = first.key
  BY <1>5 DEF Retries
<1>8. j \in Jobs /\ j.key = key
  BY <1>1, <1>5, <1>7 DEF Jobs, Retries
<1>9. job' = [job EXCEPT ![a] = j] /\ pc' = [pc EXCEPT ![a] = "wait"]
  BY <1>1, <1>3 DEF TakeRetry
<1> HIDE DEF j
<1>10. Moves(a) /\ pc'[a] = "wait" /\ job'[a].key = key
  BY <1>1, <1>8, <1>9, JobMoves DEF Steps
<1>11. Placed(a)' /\ ~Carries(a) /\ Carries(a)'
  BY <1>1, <1>10 DEF Placed, Carries
<1>12. /\ key \in retrying /\ Holders(key) = {} /\ Queued(key) = {1}
  <2>1. 1 \in Queued(key)
    BY <1>5, <1>7 DEF Queued
  <2> QED BY <2>1 DEF Inv, OneCarrier
<1>13. Holders(key)' = {a} /\ \A k \in Keys \ {key} : Holders(k)' = Holders(k)
  BY <1>10, <1>11, <1>12, OtherHolders
<1>14. ASSUME NEW k \in Keys, NEW i \in 1..Len(retries')
       PROVE  i \in Queued(k)' <=> i + 1 \in Queued(k)
  BY <1>5 DEF Queued
<1>15. OneCarrier(key)'
  <2>1. ASSUME NEW i \in 1..Len(retries') PROVE i \notin Queued(key)'
    <3>1. i + 1 # 1
      BY <1>5
    <3> QED BY <1>12, <1>14, <3>1
  <2>2. Queued(key)' \subseteq 1..Len(retries')
    BY DEF Queued
  <2>3. Queued(key)' = {}
    BY <2>1, <2>2
  <2> QED BY <1>2, <1>12, <1>13, <2>3 DEF OneCarrier
<1>16. ASSUME NEW k \in Keys, k # key PROVE OneCarrier(k)'
  <2>1. 1 \notin Queued(k)
    BY <1>5, <1>7, <1>16 DEF Queued
  <2>2. Queued(k)' \subseteq 1..Len(retries')
    BY DEF Queued
  <2>3. OneCarrier(k) /\ Holders(k)' = Holders(k) /\ (k \in retrying' <=> k \in retrying)
    BY <1>2, <1>13, <1>16 DEF Inv
  <2>4. CASE Queued(k) = {}
    <3>1. Queued(k)' = {}
      BY <1>14, <2>2, <2>4
    <3> QED BY <2>3, <2>4, <3>1 DEF OneCarrier
  <2>5. ASSUME NEW i \in 1..Len(retries), Queued(k) = {i}
        PROVE  OneCarrier(k)'
    <3>1. i \in Nat /\ i # 1 /\ i - 1 \in 1..Len(retries') /\ (i - 1) + 1 = i
      BY <1>5, <2>1, <2>5
    <3>2. i - 1 \in Queued(k)'
      BY <1>14, <2>5, <3>1
    <3>3. ASSUME NEW x \in Queued(k)' PROVE x = i - 1
      <4>1. x \in 1..Len(retries') /\ x + 1 \in Queued(k)
        BY <1>14, <2>2
      <4>2. x + 1 = i /\ x \in Int
        BY <1>5, <2>5, <4>1
      <4> QED BY <3>1, <4>2
    <3>4. Queued(k)' = {i - 1}
      BY <3>2, <3>3
    <3>5. k \in retrying /\ Holders(k) = {}
      BY <2>3, <2>5 DEF OneCarrier
    <3> QED BY <2>3, <3>1, <3>4, <3>5 DEF OneCarrier
  <2> QED BY <2>3, <2>4, <2>5 DEF OneCarrier
<1>17. TypeOK'
  BY <1>6, <1>10 DEF Moves, DataOK, TypeOK
<1>18. ASSUME NEW b \in Actors PROVE Placed(b)'
  BY <1>10, <1>11 DEF Inv, Moves, Placed
<1> QED BY <1>15, <1>16, <1>17, <1>18 DEF Inv

-----------------------------------------------------------------------------
(* Requests carry no retry.                                                *)

\* A step of a client.
LEMMA ClientStep ==
    ASSUME Inv, DataOK', NEW a \in Clients, Moves(a),
           pc'[a] \in {"idle", "mount", "node", "unmount", "detach"},
           pc'[a] # "idle" => job'[a].key \in Keys,
           UNCHANGED <<retries, retrying>>
    PROVE  Inv'
<1>1. /\ a \in Actors /\ Placed(a) /\ a \notin RetryWorkers /\ a \notin {Loop, Lister}
  BY Typed DEF Actors
<1>2. Placed(a)' /\ ~Carries(a) /\ ~Carries(a)'
  BY <1>1 DEF Placed, Carries, Between
<1> QED BY <1>1, <1>2, KeepsInv

LEMMA BeginRequestInv ==
    ASSUME Inv, NEW a \in Clients, NEW k \in Keys, NEW operation \in Operations,
           BeginRequest(a, k, operation)
    PROVE  Inv'
<1>1. /\ a \in Actors /\ TypeOK /\ DataOK /\ job[a] \in Jobs
      /\ job \in [Actors -> Jobs] /\ operation \in {"mount", "unmount"}
  BY Typed, QueueAssumption DEF Actors
<1>2. DataOK' /\ UNCHANGED <<retries, retrying>>
  BY <1>1 DEF BeginRequest, DataOK, cluster, queues
<1> DEFINE j == [job[a] EXCEPT !.key = k, !.view = status]
<1>3. status \in Gone..MaxGen
  BY <1>1, QueueAssumption DEF DataOK, Gone
<1>4. j \in Jobs /\ j.key = k
  BY <1>1, <1>3 DEF Jobs
<1>5. job' = [job EXCEPT ![a] = j] /\ pc' = [pc EXCEPT ![a] = operation]
  BY <1>1 DEF BeginRequest
<1> HIDE DEF j
<1>6. Moves(a) /\ pc'[a] = operation /\ job'[a].key = k
  BY <1>1, <1>4, <1>5, JobMoves DEF Steps
<1> QED BY <1>1, <1>2, <1>6, ClientStep

\* Take the lock and go on, with the record that was there.
LEMMA RequestGoesOn ==
    ASSUME Inv, DataOK', NEW a \in Clients, job[a].key \in Keys,
           NEW step \in {"node", "detach"}, pc' = [pc EXCEPT ![a] = step],
           job' = [job EXCEPT ![a].seen = rec[job[a].key]],
           UNCHANGED <<retries, retrying>>
    PROVE  Inv'
<1>1. /\ a \in Actors /\ TypeOK /\ DataOK /\ job[a] \in Jobs
      /\ job \in [Actors -> Jobs]
  BY Typed DEF Actors
<1> DEFINE j == [job[a] EXCEPT !.seen = rec[job[a].key]]
<1>2. j \in Jobs /\ j.key = job[a].key /\ job' = [job EXCEPT ![a] = j]
  BY <1>1 DEF Jobs, DataOK
<1> HIDE DEF j
<1>3. Moves(a) /\ pc'[a] = step /\ job'[a].key = job[a].key
  BY <1>1, <1>2, JobMoves DEF Steps
<1> QED BY <1>3, ClientStep

LEMMA RequestEnds ==
    ASSUME Inv, DataOK', NEW a \in Clients, Goto(a, "idle"),
           UNCHANGED <<retries, retrying>>
    PROVE  Inv'
<1>1. a \in Actors /\ TypeOK
  BY Typed DEF Actors
<1>2. Moves(a) /\ pc'[a] = "idle"
  BY <1>1, GotoMoves DEF Steps
<1> QED BY <1>2, ClientStep

LEMMA RequestInv ==
    ASSUME Inv, NEW a \in Actors, MountEnter(a) \/ UnmountEnter(a) \/ Detach(a)
    PROVE  Inv'
<1>1. /\ pc[a] \in {"mount", "unmount", "detach"} /\ DataOK /\ job[a] \in Jobs
      /\ a \in Clients /\ job[a].key \in Keys
  BY Typed DEF MountEnter, UnmountEnter, Detach, Placed, Between
<1>2. /\ {NoRecord, Pending, job[a].view, job[a].seen} \subseteq NoRecord..MaxGen
  BY <1>1, QueueAssumption DEF Jobs, NoRecord, Pending, Gone
<1>3. Fault \/ NoFault
  BY DEF MountEnter, UnmountEnter, Detach
<1>4. UNCHANGED <<cluster, queues>>
  BY DEF MountEnter, UnmountEnter, Detach
<1>5. attached' \in SUBSET Keys
  BY <1>1 DEF MountEnter, UnmountEnter, Detach, DataOK
<1>6. rec' \in [Keys -> NoRecord..MaxGen]
  <2>1. rec' = rec \/ \E c \in NoRecord..MaxGen : rec' = [rec EXCEPT ![job[a].key] = c]
    BY <1>2 DEF MountEnter, UnmountEnter, Detach
  <2> QED BY <1>1, <2>1 DEF DataOK
<1>7. lock' \in [Keys -> Actors \cup {Nil}]
  <2>1. lock' = lock \/ \E b \in {a, Nil} : lock' = [lock EXCEPT ![job[a].key] = b]
    BY DEF MountEnter, UnmountEnter, Detach, Acquire, Release
  <2> QED BY <1>1, <2>1 DEF DataOK
<1>8. DataOK'
  <2>1. faults' \in 0..MaxFaults
    BY <1>1, <1>3, FaultType
  <2> QED BY <1>1, <1>4, <1>5, <1>6, <1>7, <2>1 DEF DataOK, cluster, queues
<1>9. \/ Goto(a, "idle")
      \/ /\ job' = [job EXCEPT ![a].seen = rec[job[a].key]]
         /\ \E step \in {"node", "detach"} : pc' = [pc EXCEPT ![a] = step]
  BY DEF MountEnter, UnmountEnter, Detach
<1> QED BY <1>1, <1>4, <1>8, <1>9, RequestEnds, RequestGoesOn DEF queues

-----------------------------------------------------------------------------
(* The cluster, the process, and all steps together.                       *)

LEMMA ClusterInv ==
    ASSUME Inv, RestartContainer \/ PublishStatus \/ DeletePod
    PROVE  Inv'
<1>1. DataOK /\ TypeOK
  BY DEF Inv, TypeOK, DataOK
<1>2. UNCHANGED <<rec, lock, retries, retrying, pc, job, faults>>
  BY DEF RestartContainer, PublishStatus, DeletePod, queues
<1>3. /\ gen' \in 1..MaxGen /\ status' \in 1..MaxGen /\ present' \in BOOLEAN
      /\ attached' \in SUBSET Keys
  <2>1. CASE RestartContainer
    BY <1>1, <2>1, QueueAssumption DEF RestartContainer, DataOK
  <2>2. CASE PublishStatus
    BY <1>1, <2>2 DEF PublishStatus, DataOK
  <2>3. CASE DeletePod
    BY <1>1, <2>3 DEF DeletePod, DataOK
  <2> QED BY <2>1, <2>2, <2>3
<1>4. events' \in Seq(Gone..MaxGen)
  <2>1. {Gone, gen} \subseteq Gone..MaxGen /\ events \in Seq(Gone..MaxGen)
    BY <1>1, QueueAssumption DEF DataOK, Gone
  <2>2. events' = events \/ \E v \in {Gone, gen} : events' = Append(events, v)
    BY DEF RestartContainer, PublishStatus, DeletePod, queues
  <2>3. ASSUME NEW v \in Gone..MaxGen PROVE Append(events, v) \in Seq(Gone..MaxGen)
    BY <2>1, AppendType
  <2> QED BY <2>1, <2>2, <2>3
<1>5. TypeOK'
  BY <1>1, <1>2, <1>3, <1>4 DEF TypeOK, DataOK
<1>6. \A a \in Actors : Placed(a)'
  BY <1>2 DEF Inv, Placed
<1>7. ASSUME NEW k \in Keys PROVE OneCarrier(k)'
  BY <1>2 DEF Inv, OneCarrier, Holders, Queued
<1> QED BY <1>5, <1>6, <1>7 DEF Inv

\* A process that starts has no marks and no retries.
Fresh ==
    /\ retries = <<>> /\ retrying = {} /\ job \in [Actors -> Jobs]
    /\ pc = [a \in Actors |-> IF a = Lister THEN "list" ELSE "idle"]

LEMMA NothingCarried ==
    Fresh => /\ pc \in [Actors -> Steps]
             /\ \A a \in Actors : Placed(a)
             /\ \A k \in Keys : OneCarrier(k)
<1> SUFFICES ASSUME Fresh
             PROVE  /\ pc \in [Actors -> Steps]
                    /\ \A a \in Actors : Placed(a)
                    /\ \A k \in Keys : OneCarrier(k)
  OBVIOUS
<1>1. ASSUME NEW a \in Actors PROVE Placed(a) /\ ~Carries(a)
  <2>1. pc[a] \in {"list", "idle"} /\ (pc[a] = "list" => a = Lister)
    BY DEF Fresh
  <2>2. pc[a] = "list" => a \notin RetryWorkers /\ a \notin Clients
    BY <2>1, QueueAssumption
  <2> QED BY <2>1, <2>2 DEF Placed, Carries, Between
<1>2. ASSUME NEW k \in Keys PROVE OneCarrier(k)
  BY <1>1 DEF Holders, Carries, Queued, Fresh, OneCarrier
<1>3. pc \in [Actors -> Steps]
  BY DEF Fresh, Steps
<1> QED BY <1>1, <1>2, <1>3

LEMMA CrashInv ==
    ASSUME Inv, Crash
    PROVE  Inv'
<1>1. DataOK /\ Fault /\ UNCHANGED <<cluster, attached, rec>> /\ Started
  BY DEF Inv, TypeOK, DataOK, Crash
<1>2. faults' \in 0..MaxFaults
  BY <1>1, FaultType
<1>3. events' \in Seq(Gone..MaxGen)
  <2>1. status \in Gone..MaxGen
    BY <1>1, QueueAssumption DEF DataOK, Gone
  <2>2. events' \in {<<status>>, <<>>}
    BY <1>1 DEF Started
  <2>3. <<status>> \in Seq(Gone..MaxGen) /\ <<>> \in Seq(Gone..MaxGen)
    BY <2>1
  <2> QED BY <2>2, <2>3
<1>4. /\ retries' \in Seq(Retries) /\ Len(retries') <= RetryCap
      /\ retrying' \in SUBSET Keys /\ lock' \in [Keys -> Actors \cup {Nil}]
  BY <1>1, QueueAssumption DEF Started
<1>5. DataOK'
  BY <1>1, <1>2, <1>3, <1>4 DEF DataOK, cluster
<1>6. Fresh'
  BY <1>1, NoJobType DEF Started, Fresh
<1>7. /\ (pc \in [Actors -> Steps])'
      /\ (\A a \in Actors : Placed(a))'
      /\ (\A k \in Keys : OneCarrier(k))'
  BY <1>6, NothingCarried, PTL
<1> QED BY <1>5, <1>6, <1>7 DEF Inv, TypeOK, DataOK, Fresh

LEMMA InitInv ==
    ASSUME Init
    PROVE  Inv
<1>1. job \in [Actors -> Jobs]
  BY NoJobType DEF Init
<1>2. rec \in [Keys -> NoRecord..MaxGen]
  BY QueueAssumption DEF Init, NoRecord
<1>3. events \in Seq(Gone..MaxGen)
  <2>1. 1 \in Gone..MaxGen
    BY QueueAssumption DEF Gone
  <2> QED BY <2>1 DEF Init
<1>4. retries \in Seq(Retries) /\ Len(retries) <= RetryCap /\ retrying \in SUBSET Keys
  BY QueueAssumption DEF Init
<1>5. gen \in 1..MaxGen /\ status \in 1..MaxGen /\ faults \in 0..MaxFaults
  BY QueueAssumption DEF Init
<1>6. present \in BOOLEAN /\ attached \in SUBSET Keys /\ lock \in [Keys -> Actors \cup {Nil}]
  BY DEF Init
<1>7. /\ pc \in [Actors -> Steps]
      /\ \A a \in Actors : Placed(a)
      /\ \A k \in Keys : OneCarrier(k)
  BY <1>1, NothingCarried DEF Init, Fresh
<1> QED BY <1>1, <1>2, <1>3, <1>4, <1>5, <1>6, <1>7 DEF Inv, TypeOK

LEMMA NextInv ==
    ASSUME Inv, [Next]_vars
    PROVE  Inv'
<1>1. CASE UNCHANGED vars
  <2>1. TypeOK' /\ \A a \in Actors : Placed(a)'
    BY <1>1 DEF Inv, vars, cluster, queues, TypeOK, Placed
  <2>2. ASSUME NEW k \in Keys PROVE OneCarrier(k)'
    BY <1>1 DEF Inv, vars, queues, OneCarrier, Holders, Queued
  <2> QED BY <2>1, <2>2 DEF Inv
<1>2. ASSUME NEW a \in Actors, Enter(a) PROVE Inv'
  BY <1>2, ReconcileEnterInv, RemoveStaleInv, RequestInv DEF Enter
<1>3. ASSUME NEW a \in Actors, Advance(a) PROVE Inv'
  BY <1>3, TakeEventInv, ListPodsInv, NextRecordInv, TakeRetryInv, GetRecordInv,
     GetPodInv, NodeMountInv, RecordContainerInv, MarkRetryInv, SendRetryInv,
     RequeueInv, UnmarkInv, RequestInv DEF Advance
<1>4. ASSUME NEW a \in Clients, NEW k \in Keys, NEW operation \in Operations,
             BeginRequest(a, k, operation)
      PROVE  Inv'
  BY <1>4, BeginRequestInv
<1>5. CASE RestartContainer \/ PublishStatus \/ DeletePod \/ Crash
  BY <1>5, ClusterInv, CrashInv
<1> QED BY <1>1, <1>2, <1>3, <1>4, <1>5 DEF Next

LEMMA InvHolds == Spec => []Inv
<1>1. Init => Inv
  BY InitInv
<1>2. Inv /\ [Next]_vars => Inv'
  BY NextInv
<1> QED BY <1>1, <1>2, PTL DEF Spec

-----------------------------------------------------------------------------

\* The variables of the queues keep their types: the channel never holds more
\* than reconcileRetryQueueSize values, and no retry has an attempt too many.
THEOREM TypeCorrect == Spec => []TypeOK
<1>1. Inv => TypeOK
  BY DEF Inv
<1> QED BY <1>1, InvHolds, PTL

\* A mark in Server.retrying has exactly one retry behind it, and no target has
\* a retry without its mark, also when the channel is full, when requests
\* remove the record that a retry is about, and after a crash.
THEOREM MarksAreExact == Spec => []RetryMarksExact
<1>1. Inv => RetryMarksExact
  <2> SUFFICES ASSUME Inv, NEW k \in Keys
               PROVE  Cardinality(Holders(k)) + Cardinality(Queued(k))
                          = IF k \in retrying THEN 1 ELSE 0
    BY DEF RetryMarksExact
  <2>1. OneCarrier(k)
    BY DEF Inv
  <2>2. Cardinality({}) = 0 /\ \A x : Cardinality({x}) = 1
    BY FS_EmptySet, FS_Singleton
  <2>3. CASE k \notin retrying
    BY <2>1, <2>2, <2>3 DEF OneCarrier
  <2>4. CASE k \in retrying
    <3>1. PICK x : \/ Queued(k) = {} /\ Holders(k) = {x}
                   \/ Holders(k) = {} /\ Queued(k) = {x}
      BY <2>1, <2>4 DEF OneCarrier
    <3>2. Cardinality({x}) = 1 /\ 0 + 1 = 1 /\ 1 + 0 = 1
      BY <2>2
    <3> QED BY <2>2, <2>4, <3>1, <3>2
  <2> QED BY <2>3, <2>4
<1> QED BY <1>1, InvHolds, PTL

=============================================================================
