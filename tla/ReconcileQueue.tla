---------------------------- MODULE ReconcileQueue ----------------------------
(***************************************************************************)
(* How the reconciler learns that work is due, and how work can get lost:  *)
(* the queue of Pod events, the bounded queue of retries with the marks    *)
(* that keep one retry per target, and the goroutines around them          *)
(* (internal/wrapper/reconciler.go): the event loop, the first list of the *)
(* informer, and the retry workers.  Clients whose requests change the     *)
(* same records (server.go) run beside them.                               *)
(*                                                                         *)
(* There is one Pod; rec[k] is the container id of the record of target k. *)
(* What a record asks for, and who may ask, is the subject of Wrapper.     *)
(***************************************************************************)
EXTENDS Integers, Sequences, FiniteSets

CONSTANTS
    Keys,         \* targets of the Pod
    Loop,         \* the goroutine of processPodWatchEvents
    Lister,       \* the goroutine that runs reconcilePodSnapshot
    RetryWorkers, \* the goroutines of processReconcileRetries
    Clients,      \* goroutines that serve requests
    Operations,   \* what clients ask for, a subset of {"mount", "unmount"}
    Nil,          \* no holder of a lock, no target
    MaxGen,       \* bound on the instances of the target container
    MaxFaults,    \* bound on failures of the API, the node, the disk, the process
    MaxAttempts,  \* len(reconcileRetryDelays)
    RetryCap      \* reconcileRetryQueueSize

Actors == {Loop, Lister} \cup RetryWorkers \cup Clients

NoRecord == -1    \* no record
Pending == 0      \* a record without a container id
Gone == 0         \* what an observer of the Pod sees when it was deleted

ASSUME QueueAssumption ==
    /\ MaxGen \in Nat \ {0} /\ MaxFaults \in Nat
    /\ MaxAttempts \in Nat \ {0} /\ RetryCap \in Nat \ {0}
    /\ Loop # Lister /\ {Loop, Lister} \cap (RetryWorkers \cup Clients) = {}
    /\ RetryWorkers \cap Clients = {} /\ Nil \notin Actors
    /\ Operations \subseteq {"mount", "unmount"}

VARIABLES
    gen,          \* the container instance that runs
    status,       \* the instance that the API shows
    present,      \* the Pod exists
    attached,     \* targets that are mounted in the running instance
    rec,          \* target -> container id of its record
    lock,         \* target -> holder of its lock
    events,       \* Pod copies on their way to the event loop
    retries,      \* the channel of reconcileRetry values
    retrying,     \* Server.retrying: the marked targets
    pc, job,      \* next step and local variables of every goroutine
    faults        \* failures so far

cluster == <<gen, status, present>>
queues == <<events, retries, retrying>>
vars == <<cluster, attached, rec, lock, queues, pc, job, faults>>

Retries == [key : Keys, attempt : 0..MaxAttempts - 1]

\* Locals: a target, the record seen there, the Pod copy, the attempt of a
\* retry, and the records that the loop over List or ListForPod still has.
Jobs == [key : Keys \cup {Nil}, seen : NoRecord..MaxGen, view : Gone..MaxGen,
         attempt : 0..MaxAttempts - 1, todo : SUBSET (Keys \X (Pending..MaxGen))]
NoJob == [key |-> Nil, seen |-> NoRecord, view |-> Gone, attempt |-> 0,
          todo |-> {}]

Steps == {"idle", "list", "next", "wait", "view", "enter", "node", "record",
          "stale", "mark", "send", "requeue", "unmark", "mount", "unmount",
          "detach"}

\* The types of all variables.
TypeOK ==
    /\ gen \in 1..MaxGen /\ status \in 1..MaxGen /\ present \in BOOLEAN
    /\ attached \in SUBSET Keys
    /\ rec \in [Keys -> NoRecord..MaxGen]
    /\ lock \in [Keys -> Actors \cup {Nil}]
    /\ events \in Seq(Gone..MaxGen)
    /\ retries \in Seq(Retries) /\ Len(retries) <= RetryCap
    /\ retrying \in SUBSET Keys
    /\ pc \in [Actors -> Steps] /\ job \in [Actors -> Jobs]
    /\ faults \in 0..MaxFaults

-----------------------------------------------------------------------------

Goto(a, step) ==
    /\ pc' = [pc EXCEPT ![a] = step]
    /\ job' = IF step = "idle" THEN [job EXCEPT ![a] = NoJob] ELSE job

Fault == faults < MaxFaults /\ faults' = faults + 1
NoFault == UNCHANGED faults

LockFree(k) == lock[k] = Nil
Acquire(a) == lock' = [lock EXCEPT ![job[a].key] = a]
Release(a) == lock' = [lock EXCEPT ![job[a].key] = Nil]

Running(c) == present /\ gen = c
View == IF present THEN status ELSE Gone

\* The records that List and ListForPod return.
Listed == {<<k, rec[k]>> : k \in {x \in Keys : rec[x] # NoRecord}}

\* Where a goroutine goes on after a result that needs no retry: nil, stale.
Settles(a) ==
    IF a \in RetryWorkers THEN "unmark" ELSE IF a \in Clients THEN "idle" ELSE "next"

\* Is this the last attempt, and the attempt that a requeued retry carries.
OneAttemptMore(n) == n >= MaxAttempts
LastAttempt(n) == n + 1 >= MaxAttempts
SameAttempt(n) == n
NextAttempt(n) == n + 1

\* Where it goes on after any other error.
DropsFailure(a) == IF a \in RetryWorkers THEN "unmark" ELSE Settles(a)
Fails(a) ==
    IF a \in RetryWorkers
    THEN IF LastAttempt(job[a].attempt) THEN "unmark" ELSE "requeue"
    ELSE IF a \in Clients THEN "idle" ELSE "mark"

-----------------------------------------------------------------------------
(* The sources of work.                                                    *)

\* The event loop takes a Pod event and lists the records of the Pod.
TakeEvent ==
    /\ pc[Loop] = "idle" /\ events # <<>>
    /\ events' = Tail(events)
    /\ pc' = [pc EXCEPT ![Loop] = "next"]
    /\ job' = [job EXCEPT ![Loop].view = Head(events), ![Loop].todo = Listed]
    /\ UNCHANGED <<cluster, attached, rec, lock, retries, retrying, faults>>

\* The first list of the informer, and all records.
ListPods ==
    /\ pc[Lister] = "list"
    /\ pc' = [pc EXCEPT ![Lister] = "next"]
    /\ job' = [job EXCEPT ![Lister].view = View, ![Lister].todo = Listed]
    /\ UNCHANGED <<cluster, attached, rec, lock, queues, faults>>

\* The next record of the loop in reconcilePodEvent or reconcilePodSnapshot.
\* A deleted Pod makes it stale; the lister asks the API first, which may fail.
AfterPick(a) == IF job[a].view = Gone THEN "stale" ELSE "enter"
NextRecord(a) ==
    /\ pc[a] = "next"
    /\ \/ job[a].todo = {} /\ Goto(a, "idle") /\ NoFault
       \/ \E item \in job[a].todo :
             /\ job' = [job EXCEPT ![a].key = item[1], ![a].seen = item[2],
                                   ![a].todo = @ \ {item}]
             /\ \/ pc' = [pc EXCEPT ![a] = AfterPick(a)] /\ NoFault
                \/ /\ a = Lister /\ job[a].view = Gone /\ Fault
                   /\ pc' = [pc EXCEPT ![a] = "mark"]
    /\ UNCHANGED <<cluster, attached, rec, lock, queues>>

\* A retry worker takes a retry and waits for its delay.
TakeRetry(a) ==
    /\ a \in RetryWorkers /\ pc[a] = "idle" /\ retries # <<>>
    /\ retries' = Tail(retries)
    /\ pc' = [pc EXCEPT ![a] = "wait"]
    /\ job' = [job EXCEPT ![a].key = Head(retries).key,
                          ![a].attempt = Head(retries).attempt]
    /\ UNCHANGED <<cluster, attached, rec, lock, events, retrying, faults>>

\* After the delay: Get.  A record that is gone ends the retry.
GetRecord(a) ==
    /\ pc[a] = "wait"
    /\ job' = [job EXCEPT ![a].seen = rec[job[a].key]]
    /\ pc' = [pc EXCEPT ![a] =
                 IF rec[job[a].key] = NoRecord THEN "unmark" ELSE "view"]
    /\ UNCHANGED <<cluster, attached, rec, lock, queues, faults>>

\* reconcileMount: a live read of the Pod.
GetPod(a) ==
    /\ pc[a] = "view"
    /\ \/ /\ pc' = [pc EXCEPT ![a] = IF present THEN "enter" ELSE "stale"]
          /\ job' = [job EXCEPT ![a].view = View]
          /\ NoFault
       \/ Fault /\ Goto(a, Fails(a))
    /\ UNCHANGED <<cluster, attached, rec, lock, queues>>

-----------------------------------------------------------------------------
(* Reconciling one record.                                                 *)

\* The record changed since it was listed; "return nil".
Superseded(a) == rec[job[a].key] # job[a].seen
UpToDate(a) == job[a].seen = job[a].view

\* reconcileMountForPod up to the node operations.
ReconcileEnter(a) ==
    /\ pc[a] = "enter" /\ LockFree(job[a].key)
    /\ \/ /\ Superseded(a) \/ UpToDate(a)
          /\ Goto(a, Settles(a)) /\ NoFault /\ UNCHANGED lock
       \/ /\ ~Superseded(a) /\ ~UpToDate(a)
          /\ Goto(a, "node") /\ Acquire(a) /\ NoFault
       \/ /\ ~Superseded(a) /\ Fault
          /\ Goto(a, Fails(a)) /\ UNCHANGED lock
    /\ UNCHANGED <<cluster, attached, rec, queues>>

\* IsMounted and Mount.  A record without a container id adopts the mount that
\* is there.  A failed mount request restores the record that it replaced, a
\* failed reconciliation has not replaced it.
NodeMount(a) ==
    LET k == job[a].key
        adopts == a \notin Clients /\ job[a].seen = Pending
    IN /\ pc[a] = "node"
       /\ \/ /\ Running(job[a].view) /\ (k \notin attached \/ adopts)
             /\ attached' = attached \cup {k}
             /\ Goto(a, "record") /\ NoFault /\ UNCHANGED <<rec, lock>>
          \/ /\ \/ ~Running(job[a].view) /\ NoFault
                \/ k \in attached /\ ~adopts /\ NoFault
                \/ Fault
             /\ rec' = [rec EXCEPT ![k] = job[a].seen]
             /\ Goto(a, Fails(a)) /\ Release(a) /\ UNCHANGED attached
       /\ UNCHANGED <<cluster, queues>>

\* Put with the container id that has the mount.
RecordContainer(a) ==
    /\ pc[a] = "record"
    /\ \/ /\ rec' = [rec EXCEPT ![job[a].key] = job[a].view]
          /\ Goto(a, Settles(a)) /\ NoFault
       \/ Goto(a, Fails(a)) /\ Fault /\ UNCHANGED rec
    /\ Release(a)
    /\ UNCHANGED <<cluster, attached, queues>>

\* handleReconcileResult of a stale record.  A failing Delete is only logged.
RemoveStale(a) ==
    /\ pc[a] = "stale" /\ LockFree(job[a].key)
    /\ \/ /\ rec' = IF Superseded(a) THEN rec
                     ELSE [rec EXCEPT ![job[a].key] = NoRecord]
          /\ NoFault
       \/ ~Superseded(a) /\ Fault /\ UNCHANGED rec
    /\ Goto(a, Settles(a))
    /\ UNCHANGED <<cluster, attached, lock, queues>>

-----------------------------------------------------------------------------
(* Retries.                                                                *)

\* scheduleReconcileRetry: LoadOrStore, then a send that does not block.
MarkRetry(a) ==
    /\ pc[a] = "mark"
    /\ retrying' = retrying \cup {job[a].key}
    /\ Goto(a, IF job[a].key \in retrying THEN "next" ELSE "send")
    /\ UNCHANGED <<cluster, attached, rec, lock, events, retries, faults>>

\* The channel is full: the retry is dropped, and so is its mark.
AfterFullKeepingMark(a) == IF a \in RetryWorkers THEN "idle" ELSE "next"
AfterFull(a) == "unmark"

Enqueue(a, retry, then) ==
    /\ IF Len(retries) < RetryCap
       THEN retries' = Append(retries, retry) /\ Goto(a, then)
       ELSE Goto(a, AfterFull(a)) /\ UNCHANGED retries
    /\ UNCHANGED <<cluster, attached, rec, lock, events, retrying, faults>>

SendRetry(a) ==
    /\ pc[a] = "send"
    /\ Enqueue(a, [key |-> job[a].key, attempt |-> 0], "next")

Requeue(a) ==
    /\ pc[a] = "requeue"
    /\ Enqueue(a, [key |-> job[a].key, attempt |-> NextAttempt(job[a].attempt)],
               "idle")

\* retrying.Delete, by a worker that is done or by who found the queue full.
Unmark(a) ==
    /\ pc[a] = "unmark"
    /\ retrying' = retrying \ {job[a].key}
    /\ Goto(a, IF a \in RetryWorkers THEN "idle" ELSE "next")
    /\ UNCHANGED <<cluster, attached, rec, lock, events, retries, faults>>

-----------------------------------------------------------------------------
(* Requests.                                                               *)

\* Authorised, with the container id of a live read of the Pod.
BeginRequest(a, k, operation) ==
    /\ a \in Clients /\ pc[a] = "idle" /\ present
    /\ pc' = [pc EXCEPT ![a] = operation]
    /\ job' = [job EXCEPT ![a].key = k, ![a].view = status]
    /\ UNCHANGED <<cluster, attached, rec, lock, queues, faults>>

\* Server.mount under the lock: a repeated request probes and adopts, any
\* other writes its intent without a container id.  The probe and the write may
\* fail.
MountEnter(a) ==
    LET k == job[a].key
        repeats == rec[k] \in {Pending, job[a].view}
    IN /\ pc[a] = "mount" /\ LockFree(k)
       /\ \/ /\ repeats /\ Running(job[a].view) /\ k \in attached
             /\ rec' = [rec EXCEPT ![k] = job[a].view]
             /\ Goto(a, "idle") /\ NoFault /\ UNCHANGED lock
          \/ /\ (repeats /\ ~Running(job[a].view) /\ NoFault) \/ Fault
             /\ Goto(a, "idle") /\ UNCHANGED <<rec, lock>>
          \/ /\ ~repeats \/ (Running(job[a].view) /\ k \notin attached)
             /\ rec' = [rec EXCEPT ![k] = Pending]
             /\ Acquire(a) /\ NoFault
             /\ pc' = [pc EXCEPT ![a] = "node"]
             /\ job' = [job EXCEPT ![a].seen = rec[k]]
       /\ UNCHANGED <<cluster, attached, queues>>

\* Server.unmount under the lock: the record goes first, and the node is
\* touched when the record names the container that the request saw.  Delete may
\* fail.
UnmountEnter(a) ==
    LET k == job[a].key
        same == rec[k] \notin {NoRecord, Pending} /\ rec[k] = job[a].view
    IN /\ pc[a] = "unmount" /\ LockFree(k)
       /\ \/ /\ rec' = [rec EXCEPT ![k] = NoRecord] /\ NoFault
             /\ IF same
                THEN /\ Acquire(a)
                     /\ pc' = [pc EXCEPT ![a] = "detach"]
                     /\ job' = [job EXCEPT ![a].seen = rec[k]]
                ELSE Goto(a, "idle") /\ UNCHANGED lock
          \/ Fault /\ Goto(a, "idle") /\ UNCHANGED <<rec, lock>>
       /\ UNCHANGED <<cluster, attached, queues>>

\* IsMounted and Unmount; the record comes back when they fail.
Detach(a) ==
    LET k == job[a].key
    IN /\ pc[a] = "detach"
       /\ \/ /\ Running(job[a].view) /\ NoFault
             /\ attached' = attached \ {k} /\ UNCHANGED rec
          \/ /\ (~Running(job[a].view) /\ NoFault) \/ Fault
             /\ rec' = [rec EXCEPT ![k] = job[a].seen] /\ UNCHANGED attached
       /\ Goto(a, "idle") /\ Release(a)
       /\ UNCHANGED <<cluster, queues>>

-----------------------------------------------------------------------------
(* The cluster and the process.                                            *)

RestartContainer ==
    /\ present /\ gen < MaxGen
    /\ gen' = gen + 1 /\ attached' = {}
    /\ UNCHANGED <<status, present, rec, lock, queues, pc, job, faults>>

\* The kubelet reports the instance; sameContainerState lets the event pass.
PublishStatus ==
    /\ present /\ status # gen
    /\ status' = gen /\ events' = Append(events, gen)
    /\ UNCHANGED <<gen, present, attached, rec, lock, retries, retrying, pc, job,
                   faults>>

DeletePod ==
    /\ present
    /\ present' = FALSE /\ attached' = {} /\ events' = Append(events, Gone)
    /\ UNCHANGED <<gen, status, rec, lock, retries, retrying, pc, job, faults>>

\* What a starting process finds: queues and marks are empty, the informer
\* lists, and an existing Pod is delivered as an ADDED event too.
Started ==
    /\ events' = IF present THEN <<status>> ELSE <<>>
    /\ retries' = <<>> /\ retrying' = {}
    /\ lock' = [k \in Keys |-> Nil]
    /\ pc' = [a \in Actors |-> IF a = Lister THEN "list" ELSE "idle"]
    /\ job' = [a \in Actors |-> NoJob]

Crash == Fault /\ Started /\ UNCHANGED <<cluster, attached, rec>>

-----------------------------------------------------------------------------

\* The start of the process, with targets mounted and recorded before.
Init ==
    /\ gen = 1 /\ status = 1 /\ present = TRUE
    /\ rec \in [Keys -> {NoRecord, 1}]
    /\ attached = {k \in Keys : rec[k] = 1}
    /\ lock = [k \in Keys |-> Nil]
    /\ events = <<1>> /\ retries = <<>> /\ retrying = {}
    /\ pc = [a \in Actors |-> IF a = Lister THEN "list" ELSE "idle"]
    /\ job = [a \in Actors |-> NoJob]
    /\ faults = 0

\* Steps that wait for a target lock.
Enter(a) == ReconcileEnter(a) \/ RemoveStale(a) \/ MountEnter(a) \/ UnmountEnter(a)

\* All other steps of the program itself.
Advance(a) ==
    \/ a = Loop /\ TakeEvent
    \/ a = Lister /\ ListPods
    \/ NextRecord(a) \/ TakeRetry(a) \/ GetRecord(a) \/ GetPod(a)
    \/ NodeMount(a) \/ RecordContainer(a)
    \/ MarkRetry(a) \/ SendRetry(a) \/ Requeue(a) \/ Unmark(a)
    \/ Detach(a)

Next ==
    \/ \E a \in Actors : Enter(a) \/ Advance(a)
    \/ \E a \in Clients, k \in Keys, operation \in Operations :
          BeginRequest(a, k, operation)
    \/ RestartContainer \/ PublishStatus \/ DeletePod \/ Crash

Spec == Init /\ [][Next]_vars

\* Goroutines are scheduled, calls return, mutexes are handed over in order,
\* and the kubelet reports in the end.
Fairness ==
    /\ \A a \in Actors : WF_vars(Advance(a)) /\ SF_vars(Enter(a))
    /\ WF_vars(PublishStatus)

FairSpec == Spec /\ Fairness

-----------------------------------------------------------------------------

\* What carries the retry of target k: values in the channel and goroutines
\* between taking or marking it and giving it up.
Holders(k) ==
    {a \in Actors : job[a].key = k
                    /\ \/ a \in RetryWorkers /\ pc[a] # "idle"
                       \/ pc[a] \in {"send", "unmark"}}
Queued(k) == {i \in 1..Len(retries) : retries[i].key = k}

\* A marked target has exactly one retry under way, an unmarked one has none:
\* a mark without a retry would shut the target out of retries for the life of
\* the process, and two retries would run against each other.
RetryMarksExact ==
    \A k \in Keys :
        Cardinality(Holders(k)) + Cardinality(Queued(k))
            = IF k \in retrying THEN 1 ELSE 0

\* Every retry ends: what is marked is unmarked again, after a bounded number
\* of attempts even when it can never succeed.
RetriesEnd == \A k \in Keys : k \in retrying ~> k \notin retrying

\* docs/security-model.md:259, "Reconciliation is event-driven but still
\* eventually consistent": a desired mount is attached in the end, unless it is
\* given up or its Pod ends.
EventuallyConsistent ==
    \A k \in Keys :
        rec[k] # NoRecord ~> k \in attached \/ rec[k] = NoRecord \/ ~present

=============================================================================
