------------------------ MODULE WrapperIntentProofs ------------------------
(***************************************************************************)
(* Theorems of Wrapper about intents and about what the records say.       *)
(*                                                                         *)
(* The first part needs nothing of the faults: IntentInv adds to Inv what  *)
(* a worker under the target lock knows of the registered request and of   *)
(* the export-root key, and that memory and file agree on the request.     *)
(*                                                                         *)
(* The second part is about a process that neither crashes nor fails to    *)
(* write state (Steady).  SteadyInv adds to Inv that a record without a    *)
(* container id exists only while a handler works on its target, so that   *)
(* nobody ever adopts a mount, and that a record of the running container  *)
(* names the topmost mount.                                                *)
(***************************************************************************)
EXTENDS WrapperProofs

-----------------------------------------------------------------------------
(* Intents.                                                                *)

\* Steps of a mount between the lock and its first write, and steps of mount
\* and reconcile between the intent and the record of the container.
Deciding == {"mount_probe", "mount_intent"}
Acting == {"node_check", "node_attach", "record", "reconcile_probe"}

\* What a worker that is about to mount knows of the intent: the record, if
\* there is one, and the record it would restore are about its own request;
\* while it acts, there is one; and an export root has the key in force: the
\* request showed it, or the record that is reconciled has its fingerprint.
IntentOf(w) ==
    LET j == job[w]
        k == j.key
    IN /\ pc[w] \in Deciding /\ mounts[k] # None => mounts[k].req = j.req
       /\ pc[w] \in Acting => mounts[k] # None /\ mounts[k].req = j.req
       /\ pc[w] \in Deciding \cup Acting \cup {"reconcile_lock"} /\ j.prev # None
          => j.prev.req = j.req
       /\ pc[w] = "restore" /\ mounts[k] # None /\ j.prev # None
          => j.prev.req = mounts[k].req
       /\ pc[w] = "reconcile_lock" => w \notin Handlers
       /\ pc[w] \in Deciding \cup Acting \cup {"mount_lock"}
          => (j.root /\ exportKey # NoKey
              => exportKey = IF w \in Handlers THEN j.shown ELSE j.fp)

\* A crash does not change the intent: file and memory, if there are both, are
\* about the same request.
SameIntent(k) ==
    mounts[k] # None /\ files[k] # None => files[k].req = mounts[k].req

IntentInv ==
    /\ Inv
    /\ \A w \in Workers : IntentOf(w)
    /\ \A k \in Keys : SameIntent(k)

\* What a step may do to the record of target k.
Writes(k) ==
    \/ UNCHANGED <<mounts, files>>
    \/ \E r \in Records : /\ PutOK(k, r) \/ PutFails(k, r)
                          /\ mounts[k] # None => r.req = mounts[k].req
    \/ DeleteOK(k) \/ DeleteFails(k)

KeepsIntent ==
    \A k \in Keys : mounts[k] # None /\ mounts'[k] # None
                    => mounts'[k].req = mounts[k].req

LEMMA WritesIntent ==
    ASSUME Base, NEW k \in Keys, SameIntent(k), Writes(k)
    PROVE  /\ SameIntent(k)'
           /\ mounts[k] # None /\ mounts'[k] # None => mounts'[k].req = mounts[k].req
<1>1. CASE UNCHANGED <<mounts, files>>
  BY <1>1 DEF SameIntent
<1>2. ASSUME NEW r \in Records, PutOK(k, r) \/ PutFails(k, r),
             mounts[k] # None => r.req = mounts[k].req
      PROVE  /\ SameIntent(k)'
             /\ mounts[k] # None /\ mounts'[k] # None
                => mounts'[k].req = mounts[k].req
  <2>1. Written(r).req = r.req
    BY DEF Written, Records
  <2>2. CASE PutOK(k, r)
    <3>1. mounts'[k] = r /\ files'[k] = Written(r)
      BY <2>2 DEF PutOK, writeMount, putInMemory, Base, TypeOK, StoreTypeOK
    <3> QED BY <1>2, <2>1, <3>1 DEF SameIntent
  <2>3. CASE PutFails(k, r)
    <3>1. mounts'[k] = mounts[k] /\ files'[k] \in {files[k], Written(r)}
      BY <2>3 DEF PutFails, writeMount, Base, TypeOK, StoreTypeOK
    <3> QED BY <1>2, <2>1, <3>1 DEF SameIntent
  <2> QED BY <1>2, <2>2, <2>3
<1>3. CASE DeleteOK(k) \/ DeleteFails(k)
  <2>1. /\ mounts'[k] \in {mounts[k], None}
        /\ files'[k] \in {files[k], None}
    BY <1>3, DeleteFrame
  <2> QED BY <2>1 DEF SameIntent
<1> QED BY <1>1, <1>2, <1>3 DEF Writes

\* The step of one worker on its target leaves the intents of others alone.
LEMMA TouchesIntent ==
    ASSUME IntentInv, Inv', NEW w \in Workers, NEW k \in Keys, Touches(w, k),
           UNCHANGED exportKey, Writes(k), IntentOf(w)'
    PROVE  IntentInv' /\ KeepsIntent
<1>1. Base
  BY InvBase DEF IntentInv
<1>2. SameIntent(k)' /\ (mounts[k] # None /\ mounts'[k] # None
                         => mounts'[k].req = mounts[k].req)
  BY <1>1, WritesIntent DEF IntentInv
<1>3. ASSUME NEW i \in Keys, i # k
      PROVE  SameIntent(i)' /\ mounts'[i] = mounts[i]
  BY <1>3 DEF IntentInv, SameIntent, Touches
<1>4. ASSUME NEW v \in Workers, v # w
      PROVE  IntentOf(v)'
  <2>1. IntentOf(v) /\ pc'[v] = pc[v] /\ job'[v] = job[v]
    BY <1>4 DEF IntentInv, Touches
  <2>2. CASE pc[v] \notin Critical
    <3>1. pc[v] \notin Deciding /\ pc[v] \notin Acting /\ pc[v] # "restore"
      BY <2>2 DEF Critical, Deciding, Acting
    <3> QED BY <2>1, <3>1 DEF IntentOf
  <2>3. CASE pc[v] \in Critical
    <3>1. job[v].key \in Keys /\ lock[Stripe[job[v].key]] = v
      BY <2>3, StepNames, AtWork DEF IntentInv, WorkerInv
    <3>2. job[v].key # k
      BY <1>4, <3>1, WrapperAssumption DEF Touches
    <3>3. mounts'[job[v].key] = mounts[job[v].key]
      BY <3>1, <3>2 DEF Touches
    <3> QED BY <2>1, <3>3 DEF IntentOf
  <2> QED BY <2>2, <2>3
<1>5. IntentInv'
  BY <1>2, <1>3, <1>4 DEF IntentInv
<1>6. KeepsIntent
  BY <1>2, <1>3 DEF KeepsIntent
<1> QED BY <1>5, <1>6

\* The steps of Begin, and those of the cluster.
LEMMA QuietIntent ==
    ASSUME IntentInv, Inv', UNCHANGED <<mounts, files, exportKey>>,
           \A v \in Workers : \/ pc'[v] = pc[v] /\ job'[v] = job[v]
                              \/ IntentOf(v)'
    PROVE  IntentInv' /\ KeepsIntent
<1>1. \A v \in Workers : IntentOf(v)'
  BY DEF IntentInv, IntentOf
<1>2. \A k \in Keys : SameIntent(k)'
  BY DEF IntentInv, SameIntent
<1> QED BY <1>1, <1>2 DEF IntentInv, KeepsIntent

\* A worker that has answered intends nothing.
LEMMA DoneIntent ==
    ASSUME NEW w \in Workers, pc'[w] \in Done
    PROVE  IntentOf(w)'
<1>1. /\ pc'[w] \notin Deciding /\ pc'[w] \notin Acting
      /\ pc'[w] \notin {"restore", "reconcile_lock", "mount_lock"}
  BY DEF Done, Deciding, Acting
<1> QED BY <1>1 DEF IntentOf

\* A critical step that unlocks.
LEMMA UnlockIntent ==
    ASSUME IntentInv, Inv', NEW w \in Workers, pc[w] \in Critical,
           NEW result \in Done, Unlock(w, result),
           NEW k \in Keys, k = job[w].key, Writes(k),
           \A i \in Keys \ {k} : i \in Straight => stack'[i] = stack[i],
           UNCHANGED cluster
    PROVE  IntentInv' /\ KeepsIntent
<1>1. Base
  BY InvBase DEF IntentInv
<1>2. \A i \in Keys \ {k} : mounts'[i] = mounts[i] /\ files'[i] = files[i]
  BY <1>1, PutFrame, DeleteFrame DEF Writes
<1>3. Touches(w, k)
  BY <1>2, CriticalTouches DEF IntentInv
<1>4. IntentOf(w)'
  BY InvBase, UnlockFrame, DoneIntent DEF IntentInv
<1> QED BY <1>3, <1>4, TouchesIntent DEF cluster

\* A critical step that goes on and writes nothing.
LEMMA GotoIntent ==
    ASSUME IntentInv, Inv', NEW w \in Workers, pc[w] \in Critical,
           NEW step \in Critical, Goto(w, step),
           NEW k \in Keys, k = job[w].key, UNCHANGED <<storeVars, cluster>>,
           \A i \in Keys \ {k} : i \in Straight => stack'[i] = stack[i],
           \/ pc[w] \in Deciding /\ step \in Deciding
           \/ pc[w] \in Acting /\ step \in Acting \cup {"restore"}
           \/ mounts[k] = None /\ step \notin Deciding \cup Acting
    PROVE  IntentInv' /\ KeepsIntent
<1>1. Touches(w, k)
  BY CriticalTouches DEF IntentInv, storeVars
<1>2. pc'[w] = step /\ job'[w] = job[w]
  BY InvBase, GotoFrame DEF IntentInv
<1>3. IntentOf(w) /\ UNCHANGED <<mounts, exportKey>>
  BY DEF IntentInv, storeVars, cluster
<1>4. CASE pc[w] \in Deciding /\ step \in Deciding
  <2>1. step \notin Acting /\ step \notin {"restore", "reconcile_lock"}
    BY <1>4 DEF Deciding, Acting
  <2> QED BY <1>1, <1>2, <1>3, <1>4, <2>1, TouchesIntent DEF IntentOf, Writes, storeVars
<1>5. CASE pc[w] \in Acting /\ step \in Acting
  <2>1. step \notin Deciding /\ step \notin {"restore", "reconcile_lock"}
    BY <1>5 DEF Deciding, Acting
  <2> QED BY <1>1, <1>2, <1>3, <1>5, <2>1, TouchesIntent DEF IntentOf, Writes, storeVars
<1>6. CASE pc[w] \in Acting /\ step = "restore"
  <2>1. step \notin Deciding \cup Acting \cup {"mount_lock", "reconcile_lock"}
    BY <1>6 DEF Deciding, Acting
  <2> QED BY <1>1, <1>2, <1>3, <1>6, <2>1, TouchesIntent DEF IntentOf, Writes, storeVars
<1>7. CASE mounts[k] = None /\ step \notin Deciding \cup Acting
  <2>1. step \notin {"mount_lock", "reconcile_lock"}
    BY DEF Critical
  <2> QED BY <1>1, <1>2, <1>3, <1>7, <2>1, TouchesIntent DEF IntentOf, Writes, storeVars
<1> QED BY <1>4, <1>5, <1>6, <1>7

-----------------------------------------------------------------------------
(* Intents, one lemma per action.                                          *)

LEMMA MountProbeIntent ==
    ASSUME IntentInv, Inv', NEW w \in Workers, MountProbe(w)
    PROVE  IntentInv' /\ KeepsIntent
<1> DEFINE adopted == [job[w].prev EXCEPT !.cid = job[w].cid]
<1>1. /\ pc[w] \in Critical /\ pc[w] \notin Done /\ pc[w] = "mount_probe"
      /\ pc[w] \in Deciding /\ Inv /\ IntentOf(w)
  BY DEF MountProbe, Critical, Done, Deciding, IntentInv
<1>2. PICK k \in Keys : k = job[w].key
  BY <1>1, AtWork
<1>3. job[w].prev \in Records /\ job[w].prev # None /\ UNCHANGED <<cluster, stack>>
  BY <1>1, AtWork, InvBase DEF WorkerTypeOK, MountProbe
<1>4. adopted \in Records /\ adopted.req = job[w].prev.req
  BY <1>1, <1>3, AtWork DEF Records
<1>5. adopted \in Records /\ (mounts[k] # None => adopted.req = mounts[k].req)
  BY <1>1, <1>2, <1>3, <1>4 DEF IntentOf
<1> HIDE DEF adopted
<1>6. \/ UNCHANGED storeVars /\ Goto(w, "mount_intent")
      \/ /\ UNCHANGED storeVars \/ PutOK(k, adopted) \/ PutFails(k, adopted)
         /\ Unlock(w, "ok") \/ Unlock(w, "failed")
  BY <1>2 DEF MountProbe, adopted
<1>7. CASE UNCHANGED storeVars /\ Goto(w, "mount_intent")
  BY <1>1, <1>2, <1>3, <1>7, GotoIntent DEF Critical, Deciding
<1>8. CASE /\ UNCHANGED storeVars \/ PutOK(k, adopted) \/ PutFails(k, adopted)
           /\ Unlock(w, "ok") \/ Unlock(w, "failed")
  <2>1. Writes(k)
    BY <1>5, <1>8 DEF Writes, storeVars
  <2> QED BY <1>1, <1>2, <1>3, <1>8, <2>1, UnlockIntent DEF Done
<1> QED BY <1>6, <1>7, <1>8

LEMMA MountIntentIntent ==
    ASSUME IntentInv, Inv', NEW w \in Workers, MountIntent(w)
    PROVE  IntentInv' /\ KeepsIntent
<1>1. /\ pc[w] \in Critical /\ pc[w] \notin Done /\ pc[w] \in Deciding
      /\ Inv /\ IntentOf(w) /\ UNCHANGED <<cluster, stack>>
  BY DEF MountIntent, Critical, Done, Deciding, IntentInv
<1>2. PICK k \in Keys : k = job[w].key
  BY <1>1, AtWork
<1> DEFINE desired == Desired(job[w])
<1>3. desired \in Records /\ desired.req = job[w].req
  BY <1>1, AtWork, DesiredType DEF Desired
<1>4. mounts[k] # None => desired.req = mounts[k].req
  BY <1>1, <1>2, <1>3 DEF IntentOf
<1> HIDE DEF desired
<1>5. \/ PutOK(k, desired) /\ Goto(w, "node_check")
      \/ PutFails(k, desired) /\ Unlock(w, "failed")
  BY <1>2 DEF MountIntent, desired
<1>6. Writes(k)
  BY <1>3, <1>4, <1>5 DEF Writes
<1>7. CASE PutFails(k, desired) /\ Unlock(w, "failed")
  BY <1>1, <1>2, <1>6, <1>7, UnlockIntent DEF Done
<1>8. CASE PutOK(k, desired) /\ Goto(w, "node_check")
  <2>1. /\ mounts'[k] = desired
        /\ \A i \in Keys \ {k} : mounts'[i] = mounts[i] /\ files'[i] = files[i]
    BY <1>1, <1>3, <1>8, InvBase, PutFrame
       DEF PutOK, putInMemory, Base, TypeOK, StoreTypeOK
  <2>2. Touches(w, k)
    BY <1>1, <1>2, <1>8, <2>1, CriticalTouches DEF Critical
  <2>3. pc'[w] = "node_check" /\ job'[w] = job[w]
    BY <1>1, <1>8, InvBase, GotoFrame
  <2>4. desired # None
    BY <1>3, NoneAssumption
  <2>5. /\ "node_check" \in Acting
        /\ "node_check" \notin Deciding \cup {"restore", "mount_lock", "reconcile_lock"}
    BY DEF Acting, Deciding
  <2>6. IntentOf(w)'
    BY <1>1, <1>2, <1>3, <2>1, <2>3, <2>4, <2>5 DEF IntentOf, cluster
  <2> QED BY <1>1, <1>6, <2>2, <2>6, TouchesIntent DEF cluster
<1> QED BY <1>5, <1>7, <1>8

LEMMA MountRestoreIntent ==
    ASSUME IntentInv, Inv', NEW w \in Workers, MountRestore(w)
    PROVE  IntentInv' /\ KeepsIntent
<1>1. /\ pc[w] \in Critical /\ pc[w] \notin Done /\ pc[w] = "restore"
      /\ Inv /\ IntentOf(w) /\ UNCHANGED <<cluster, stack>> /\ Unlock(w, "failed")
  BY DEF MountRestore, Critical, Done, IntentInv
<1>2. PICK k \in Keys : k = job[w].key
  BY <1>1, AtWork
<1>3. job[w].prev \in Records \cup {None}
  BY <1>1, AtWork
<1>4. Writes(k)
  <2>1. CASE job[w].prev # None
    <3>1. PutOK(k, job[w].prev) \/ PutFails(k, job[w].prev)
      BY <1>2, <2>1 DEF MountRestore, Put
    <3>2. job[w].prev \in Records /\ (mounts[k] # None => job[w].prev.req = mounts[k].req)
      BY <1>1, <1>2, <1>3, <2>1 DEF IntentOf
    <3> QED BY <3>1, <3>2 DEF Writes
  <2>2. CASE job[w].prev = None
    BY <1>2, <2>2 DEF MountRestore, Delete, Writes
  <2> QED BY <2>1, <2>2
<1> QED BY <1>1, <1>2, <1>4, UnlockIntent DEF Done

LEMMA NodeCheckIntent ==
    ASSUME IntentInv, Inv', NEW w \in Workers, NodeCheck(w)
    PROVE  IntentInv' /\ KeepsIntent
<1>1. /\ pc[w] \in Critical /\ pc[w] \notin Done /\ pc[w] \in Acting
      /\ Inv /\ UNCHANGED <<storeVars, cluster, stack>>
  BY DEF NodeCheck, Critical, Done, Acting, IntentInv
<1>2. PICK k \in Keys : k = job[w].key
  BY <1>1, AtWork
<1>3. Goto(w, "node_attach") \/ Goto(w, "restore") \/ Unlock(w, "failed")
  BY DEF NodeCheck, NodeFails
<1>4. CASE Unlock(w, "failed")
  BY <1>1, <1>2, <1>4, UnlockIntent DEF Done, Writes, storeVars
<1>5. CASE Goto(w, "node_attach") \/ Goto(w, "restore")
  BY <1>1, <1>2, <1>5, GotoIntent DEF Critical, Acting
<1> QED BY <1>3, <1>4, <1>5

LEMMA NodeAttachIntent ==
    ASSUME IntentInv, Inv', NEW w \in Workers, NodeAttach(w)
    PROVE  IntentInv' /\ KeepsIntent
<1>1. /\ pc[w] \in Critical /\ pc[w] \notin Done /\ pc[w] \in Acting
      /\ Inv /\ UNCHANGED <<storeVars, cluster>>
  BY DEF NodeAttach, Critical, Done, Acting, IntentInv
<1>2. PICK k \in Keys : k = job[w].key
  BY <1>1, AtWork
<1>3. /\ Goto(w, "record") \/ Goto(w, "restore") \/ Unlock(w, "failed")
      /\ \A i \in Keys \ {k} : i \in Straight => stack'[i] = stack[i]
  BY <1>1, <1>2, StraightPlace
     DEF NodeAttach, NodeFails, Inv, TypeOK, ClusterTypeOK
<1>4. CASE Unlock(w, "failed")
  BY <1>1, <1>2, <1>3, <1>4, UnlockIntent DEF Done, Writes, storeVars
<1>5. CASE Goto(w, "record") \/ Goto(w, "restore")
  BY <1>1, <1>2, <1>3, <1>5, GotoIntent DEF Critical, Acting
<1> QED BY <1>3, <1>4, <1>5

LEMMA RecordIntent ==
    ASSUME IntentInv, Inv', NEW w \in Workers, Record(w)
    PROVE  IntentInv' /\ KeepsIntent
<1>1. /\ pc[w] \in Critical /\ pc[w] \notin Done /\ pc[w] \in Acting
      /\ Inv /\ IntentOf(w) /\ UNCHANGED <<cluster, stack>> /\ Unlock(w, "ok")
  BY DEF Record, Critical, Done, Acting, IntentInv
<1>2. PICK k \in Keys : k = job[w].key
  BY <1>1, AtWork
<1>3. Installed(job[w]) \in Records /\ Installed(job[w]).req = job[w].req
  BY <1>1, AtWork, DesiredType DEF Installed, Desired
<1>4. PutOK(k, Installed(job[w])) \/ PutFails(k, Installed(job[w]))
  BY <1>2 DEF Record, Put
<1>5. Writes(k)
  BY <1>1, <1>2, <1>3, <1>4 DEF IntentOf, Writes
<1> QED BY <1>1, <1>2, <1>5, UnlockIntent DEF Done

LEMMA UnmountIntent ==
    ASSUME IntentInv, Inv', NEW w \in Workers, UnmountProbe(w) \/ UnmountNode(w)
    PROVE  IntentInv' /\ KeepsIntent
<1>1. /\ pc[w] \in Critical /\ pc[w] \notin Done
      /\ pc[w] \in {"unmount_probe", "unmount_node"}
      /\ Inv /\ UNCHANGED <<storeVars, cluster>>
  BY DEF UnmountProbe, UnmountNode, Critical, Done, IntentInv
<1>2. PICK k \in Keys : k = job[w].key
  BY <1>1, AtWork
<1>3. mounts[k] = None
  BY <1>1, <1>2 DEF Inv, WorkerInv
<1>4. /\ Goto(w, "unmount_node") \/ Goto(w, "restore") \/ Unlock(w, "ok")
      /\ \A i \in Keys \ {k} : stack'[i] = stack[i]
  BY <1>1, <1>2 DEF UnmountProbe, UnmountNode, Inv, TypeOK, ClusterTypeOK
<1>5. CASE Unlock(w, "ok")
  BY <1>1, <1>2, <1>4, <1>5, UnlockIntent DEF Done, Writes, storeVars
<1>6. CASE Goto(w, "unmount_node") \/ Goto(w, "restore")
  BY <1>1, <1>2, <1>3, <1>4, <1>6, GotoIntent DEF Critical, Acting, Deciding
<1> QED BY <1>4, <1>5, <1>6

LEMMA ReconcileProbeIntent ==
    ASSUME IntentInv, Inv', NEW w \in Workers, ReconcileProbe(w)
    PROVE  IntentInv' /\ KeepsIntent
<1>1. /\ pc[w] \in Critical /\ pc[w] \notin Done /\ pc[w] \in Acting
      /\ Inv /\ IntentOf(w) /\ UNCHANGED <<cluster, stack>>
  BY DEF ReconcileProbe, Critical, Done, Acting, IntentInv
<1>2. PICK k \in Keys : k = job[w].key
  BY <1>1, AtWork
<1>3. Installed(job[w]) \in Records /\ Installed(job[w]).req = job[w].req
  BY <1>1, AtWork, DesiredType DEF Installed, Desired
<1>4. \/ UNCHANGED storeVars /\ (Goto(w, "node_check") \/ Unlock(w, "idle"))
      \/ /\ PutOK(k, Installed(job[w])) \/ PutFails(k, Installed(job[w]))
         /\ Unlock(w, "idle")
  BY <1>2 DEF ReconcileProbe, Put
<1>5. CASE UNCHANGED storeVars /\ Goto(w, "node_check")
  BY <1>1, <1>2, <1>5, GotoIntent DEF Critical, Acting
<1>6. CASE UNCHANGED storeVars /\ Unlock(w, "idle")
  BY <1>1, <1>2, <1>6, UnlockIntent DEF Done, Writes, storeVars
<1>7. CASE /\ PutOK(k, Installed(job[w])) \/ PutFails(k, Installed(job[w]))
           /\ Unlock(w, "idle")
  <2>1. Writes(k)
    BY <1>1, <1>2, <1>3, <1>7 DEF IntentOf, Writes
  <2> QED BY <1>1, <1>2, <1>7, <2>1, UnlockIntent DEF Done
<1> QED BY <1>4, <1>5, <1>6, <1>7

\* Lock, look, answer and unlock in one step.
LEMMA ReplyIntent ==
    ASSUME IntentInv, Inv', NEW w \in Workers, NEW result \in Done,
           NEW k \in Keys, LockFree(w, k), Reply(w, result), Writes(k),
           UNCHANGED <<cluster, stack>>
    PROVE  IntentInv' /\ KeepsIntent
<1>1. /\ pc'[w] \in Done /\ lock' = lock
      /\ \A v \in Workers \ {w} : pc'[v] = pc[v] /\ job'[v] = job[v]
  BY InvBase, AnswerFrame DEF Reply, IntentInv
<1>2. Base
  BY InvBase DEF IntentInv
<1>3. \A i \in Keys \ {k} : mounts'[i] = mounts[i] /\ files'[i] = files[i]
  BY <1>2, PutFrame, DeleteFrame DEF Writes
<1>4. Touches(w, k)
  BY <1>1, <1>3 DEF Touches, LockFree, cluster
<1> QED BY <1>1, <1>4, DoneIntent, TouchesIntent DEF cluster

\* Take the lock and go on with job j.
LEMMA AcquireIntent ==
    ASSUME IntentInv, Inv', NEW w \in Workers, NEW k \in Keys, LockFree(w, k),
           Acquire(w, k), NEW j, NEW step,
           job' = [job EXCEPT ![w] = j], pc' = [pc EXCEPT ![w] = step],
           Writes(k), UNCHANGED <<cluster, stack>>, IntentOf(w)'
    PROVE  IntentInv' /\ KeepsIntent
<1>1. Base /\ WorkerTypeOK
  BY InvBase DEF IntentInv
<1>2. \A v \in Workers \ {w} : pc'[v] = pc[v] /\ job'[v] = job[v]
  BY <1>1 DEF WorkerTypeOK
<1>3. \A s \in Stripes \ {Stripe[k]} : lock'[s] = lock[s]
  BY <1>1, WrapperAssumption DEF WorkerTypeOK, Acquire
<1>4. \A i \in Keys \ {k} : mounts'[i] = mounts[i] /\ files'[i] = files[i]
  BY <1>1, PutFrame, DeleteFrame DEF Writes
<1>5. Touches(w, k)
  BY <1>2, <1>3, <1>4 DEF Touches, LockFree, cluster
<1> QED BY <1>5, TouchesIntent DEF cluster

LEMMA MountAdmitIntent ==
    ASSUME IntentInv, Inv', NEW w \in Workers, MountAdmit(w)
    PROVE  IntentInv' /\ KeepsIntent
<1> DEFINE prev == mounts[job[w].key]
           kept == IF prev = None THEN None ELSE [prev EXCEPT !.fp = job[w].fp]
           j == [job[w] EXCEPT !.prev = kept]
<1>1. pc[w] \notin Done /\ pc[w] = "mount_lock" /\ Inv /\ IntentOf(w)
  BY DEF MountAdmit, Done, IntentInv
<1>2. PICK k \in Keys : k = job[w].key
  BY <1>1, AtWork
<1>3. /\ Base /\ WorkerTypeOK /\ job[w] \in Jobs
      /\ job[w].fp \in Fingerprints /\ prev \in Records \cup {None}
  BY <1>1, <1>2, AtWork, InvBase, JobType DEF Base, TypeOK, StoreTypeOK
<1>4. /\ prev = None => kept = None
      /\ prev # None => kept \in Records /\ kept # None /\ kept.req = prev.req
  BY <1>3, NoneAssumption DEF Records
<1>5. /\ j.key = k /\ j.req = job[w].req /\ j.prev = kept
      /\ j.root = job[w].root /\ j.fp = job[w].fp /\ j.shown = job[w].shown
  BY <1>2, <1>3 DEF Jobs
<1> DEFINE proceed == /\ Acquire(w, k) /\ job' = [job EXCEPT ![w] = j]
                      /\ \E step \in {"mount_probe", "mount_intent"} :
                            pc' = [pc EXCEPT ![w] = step]
                      /\ ~Conflicts(prev, job[w])
<1>6. /\ LockFree(w, k) /\ UNCHANGED <<cluster, stack>>
      /\ proceed \/ Reply(w, "failed")
      /\ \/ UNCHANGED storeVars
         \/ prev # None /\ PutOK(k, kept)
         \/ prev # None /\ PutFails(k, kept) /\ Reply(w, "failed")
  BY <1>2 DEF MountAdmit
<1> HIDE DEF kept, j
<1>7. Writes(k)
  BY <1>2, <1>4, <1>6 DEF Writes, storeVars
<1>8. CASE Reply(w, "failed")
  BY <1>6, <1>7, <1>8, ReplyIntent DEF Done
<1>9. CASE proceed /\ (UNCHANGED storeVars \/ (prev # None /\ PutOK(k, kept)))
  <2>1. PICK step \in {"mount_probe", "mount_intent"} :
           pc' = [pc EXCEPT ![w] = step]
    BY <1>9
  <2>2. prev # None => prev.req = job[w].req
    BY <1>9 DEF Conflicts
  <2>3. mounts'[k] # None => mounts'[k].req = job[w].req
    <3>1. CASE UNCHANGED storeVars
      BY <1>2, <2>2, <3>1 DEF storeVars
    <3>2. CASE prev # None /\ PutOK(k, kept)
      <4>1. mounts'[k] = kept
        BY <1>3, <3>2 DEF PutOK, putInMemory, Base, TypeOK, StoreTypeOK
      <4> QED BY <1>4, <2>2, <3>2, <4>1
    <3> QED BY <1>9, <3>1, <3>2
  <2>4. j.prev # None => j.prev.req = job[w].req
    BY <1>4, <1>5, <2>2
  <2>5. pc'[w] = step /\ job'[w] = j
    BY <1>3, <1>9, <2>1 DEF WorkerTypeOK
  <2>6. /\ step \in Deciding /\ step \notin Acting
        /\ step \notin {"restore", "reconcile_lock"}
    BY DEF Deciding, Acting
  <2>7. job[w].root /\ exportKey # NoKey
        => exportKey = IF w \in Handlers THEN job[w].shown ELSE job[w].fp
    BY <1>1 DEF IntentOf
  <2>8. UNCHANGED exportKey
    BY <1>6 DEF cluster
  <2>9. IntentOf(w)'
    BY <1>5, <2>3, <2>4, <2>5, <2>6, <2>7, <2>8 DEF IntentOf
  <2> QED BY <1>6, <1>7, <1>9, <2>1, <2>9, AcquireIntent
<1> QED BY <1>6, <1>8, <1>9

LEMMA UnmountAdmitIntent ==
    ASSUME IntentInv, Inv', NEW w \in Workers, UnmountAdmit(w)
    PROVE  IntentInv' /\ KeepsIntent
<1> DEFINE j == [job[w] EXCEPT !.prev = mounts[job[w].key]]
<1>1. pc[w] \notin Done /\ Inv
  BY DEF UnmountAdmit, Done, IntentInv
<1>2. PICK k \in Keys : k = job[w].key
  BY <1>1, AtWork
<1> DEFINE proceed == /\ Acquire(w, k) /\ job' = [job EXCEPT ![w] = j]
                      /\ pc' = [pc EXCEPT ![w] = "unmount_probe"]
<1>3. /\ LockFree(w, k) /\ UNCHANGED <<cluster, stack>>
      /\ proceed \/ Reply(w, "failed") \/ Reply(w, "ok")
      /\ UNCHANGED storeVars \/ DeleteOK(k) \/ DeleteFails(k)
  BY <1>2 DEF UnmountAdmit
<1> HIDE DEF j
<1>4. Writes(k)
  BY <1>3 DEF Writes, storeVars
<1>5. CASE Reply(w, "failed") \/ Reply(w, "ok")
  BY <1>3, <1>4, <1>5, ReplyIntent DEF Done
<1>6. CASE proceed
  <2>1. pc'[w] = "unmount_probe"
    BY <1>1, <1>6, InvBase DEF WorkerTypeOK
  <2>2. IntentOf(w)'
    BY <2>1 DEF IntentOf, Deciding, Acting
  <2> QED BY <1>3, <1>4, <1>6, <2>2, AcquireIntent
<1> QED BY <1>3, <1>5, <1>6

LEMMA ReconcileAdmitIntent ==
    ASSUME IntentInv, Inv', NEW w \in Workers, ReconcileAdmit(w)
    PROVE  IntentInv' /\ KeepsIntent
<1> DEFINE root == IsExportRoot(job[w].req)
           fp == IF root /\ exportKey # NoKey THEN job[w].prev.fp ELSE NoKey
           j == [job[w] EXCEPT !.root = root, !.fp = fp]
<1>1. pc[w] \notin Done /\ pc[w] = "reconcile_lock" /\ Inv /\ IntentOf(w)
  BY DEF ReconcileAdmit, Done, IntentInv
<1>2. PICK k \in Keys : k = job[w].key
  BY <1>1, AtWork
<1>3. Base /\ WorkerTypeOK /\ job[w] \in Jobs
  BY <1>1, AtWork, InvBase
<1>4. /\ j.key = k /\ j.req = job[w].req /\ j.prev = job[w].prev
      /\ j.root = root /\ j.fp = fp
  BY <1>2, <1>3 DEF Jobs
<1> DEFINE proceed == /\ Acquire(w, k)
                      /\ mounts[k] # None /\ mounts[k] = job[w].prev
                      /\ PolicyAdmits(job[w].prev)
                      /\ job' = [job EXCEPT ![w].root = root, ![w].fp = fp]
                      /\ \E step \in {"reconcile_probe", "node_check"} :
                            pc' = [pc EXCEPT ![w] = step]
<1>5. /\ LockFree(w, k) /\ UNCHANGED <<storeVars, cluster, stack>>
      /\ proceed \/ Reply(w, "idle") \/ Goto(w, "stale")
  BY <1>2 DEF ReconcileAdmit, Superseded
<1>6. Writes(k)
  BY <1>5 DEF Writes, storeVars
<1>7. CASE Reply(w, "idle")
  BY <1>5, <1>6, <1>7, ReplyIntent DEF Done
<1>8. CASE Goto(w, "stale")
  <2>1. /\ pc'[w] = "stale"
        /\ \A v \in Workers \ {w} : pc'[v] = pc[v] /\ job'[v] = job[v]
    BY <1>3, <1>8, GotoFrame
  <2>2. IntentOf(w)'
    BY <2>1 DEF IntentOf, Deciding, Acting
  <2> QED BY <1>5, <2>1, <2>2, QuietIntent DEF storeVars, cluster
<1>9. CASE proceed
  <2>1. job' = [job EXCEPT ![w] = j]
    BY <1>3, <1>9 DEF WorkerTypeOK
  <2>2. PICK step \in {"reconcile_probe", "node_check"} :
           pc' = [pc EXCEPT ![w] = step]
    BY <1>9
  <2>3. /\ step \in Acting
        /\ step \notin Deciding \cup {"restore", "mount_lock", "reconcile_lock"}
    BY DEF Deciding, Acting
  <2>4. /\ job[w].prev # None /\ job[w].prev.req = job[w].req
        /\ w \notin Handlers
    BY <1>1, <1>9 DEF IntentOf
  <2>5. root /\ exportKey # NoKey => fp = exportKey
    BY <1>9, <2>4 DEF PolicyAdmits, AuthorizesFingerprint
  <2> HIDE DEF root, fp, j
  <2>6. pc'[w] = step /\ job'[w] = j
    BY <1>3, <2>1, <2>2 DEF WorkerTypeOK
  <2>7. UNCHANGED <<mounts, exportKey>>
    BY <1>5 DEF storeVars, cluster
  <2>8. IntentOf(w)'
    BY <1>4, <1>9, <2>3, <2>4, <2>5, <2>6, <2>7 DEF IntentOf
  <2> QED BY <1>5, <1>6, <1>9, <2>1, <2>2, <2>8, AcquireIntent
<1> QED BY <1>5, <1>7, <1>8, <1>9

LEMMA ReconcileStaleIntent ==
    ASSUME IntentInv, Inv', NEW w \in Workers, ReconcileStale(w)
    PROVE  IntentInv' /\ KeepsIntent
<1>1. pc[w] \notin Done /\ Inv
  BY DEF ReconcileStale, Done, IntentInv
<1>2. PICK k \in Keys : k = job[w].key
  BY <1>1, AtWork
<1>3. /\ LockFree(w, k) /\ UNCHANGED <<cluster, stack>> /\ Reply(w, "idle")
      /\ UNCHANGED storeVars \/ DeleteOK(k) \/ DeleteFails(k)
  BY <1>2 DEF ReconcileStale, Delete
<1> QED BY <1>3, ReplyIntent DEF Done, Writes, storeVars

LEMMA BeginIntent ==
    ASSUME IntentInv, Inv', NEW w \in Workers, Begin(w)
    PROVE  IntentInv' /\ KeepsIntent
<1>1. WorkerTypeOK
  BY InvBase DEF IntentInv
<1>2. ASSUME NEW k \in Keys, NEW r \in Requests, NEW provided \in Fingerprints,
             MountAuthorize(w, k, r, provided)
      PROVE  IntentInv' /\ KeepsIntent
  <2>1. /\ UNCHANGED <<storeVars, cluster>>
        /\ \A v \in Workers \ {w} : pc'[v] = pc[v] /\ job'[v] = job[v]
    BY <1>1, <1>2 DEF MountAuthorize, WorkerTypeOK
  <2>2. \/ pc'[w] = "failed"
        \/ /\ pc'[w] = "mount_lock" /\ job'[w].root = IsExportRoot(r)
           /\ w \in Handlers /\ KeyAccepted(r, provided)
           /\ job'[w].shown = IF NeedsKey(r) THEN provided ELSE NoKey
    BY <1>1, <1>2 DEF MountAuthorize, WorkerTypeOK
  <2>3. /\ "failed" \in Done
        /\ "mount_lock" \notin Deciding \cup Acting \cup {"restore", "reconcile_lock"}
    BY DEF Done, Deciding, Acting
  <2>4. UNCHANGED exportKey
    BY <2>1 DEF cluster
  <2>5. IntentOf(w)'
    BY <2>2, <2>3, <2>4, DoneIntent
       DEF IntentOf, KeyAccepted, NeedsKey
  <2> QED BY <2>1, <2>5, QuietIntent DEF storeVars, cluster
<1>3. ASSUME NEW k \in Keys, NEW pv \in PVs, UnmountAuthorize(w, k, pv)
      PROVE  IntentInv' /\ KeepsIntent
  <2>1. /\ UNCHANGED <<storeVars, cluster>>
        /\ \A v \in Workers \ {w} : pc'[v] = pc[v] /\ job'[v] = job[v]
    BY <1>1, <1>3 DEF UnmountAuthorize, WorkerTypeOK
  <2>2. pc'[w] \in {"failed", "unmount_lock"}
    BY <1>1, <1>3 DEF UnmountAuthorize, WorkerTypeOK
  <2>3. IntentOf(w)'
    BY <2>2 DEF IntentOf, Deciding, Acting
  <2> QED BY <2>1, <2>3, QuietIntent DEF storeVars, cluster
<1>4. ASSUME NEW k \in Keys, NEW c, NEW step \in {"reconcile_lock", "stale"},
             Observe(w, k, c, step)
      PROVE  IntentInv' /\ KeepsIntent
  <2>1. /\ UNCHANGED <<storeVars, cluster>>
        /\ \A v \in Workers \ {w} : pc'[v] = pc[v] /\ job'[v] = job[v]
    BY <1>1, <1>4 DEF Observe, WorkerTypeOK
  <2>2. /\ pc'[w] = step /\ job'[w].req = mounts[k].req
        /\ job'[w].prev = mounts[k] /\ w \notin Handlers
    BY <1>1, <1>4, WrapperAssumption DEF Observe, WorkerTypeOK
  <2>3. step \notin Deciding \cup Acting \cup {"restore", "mount_lock"}
    BY DEF Deciding, Acting
  <2>4. IntentOf(w)'
    BY <2>2, <2>3 DEF IntentOf
  <2> QED BY <2>1, <2>4, QuietIntent DEF storeVars, cluster
<1> QED
  BY <1>2, <1>3, <1>4
     DEF Begin, ReconcilePodEvent, ReconcilePodSnapshot, ReconcileRetry

\* The cluster changes no intent, and neither does a crash: what it loads was
\* written for the same request.
LEMMA EnvironmentIntent ==
    ASSUME IntentInv, Inv', Environment
    PROVE  IntentInv' /\ KeepsIntent
<1>1. CASE ~Crash
  <2>1. UNCHANGED <<mounts, files, exportKey, pc, job>>
    BY <1>1 DEF Environment, RestartContainer, PublishStatus, DeletePod, AlterPV,
                storeVars, workers
  <2> QED BY <2>1, QuietIntent
<1>2. CASE Crash
  <2>1. ASSUME NEW k \in Keys
        PROVE  SameIntent(k)' /\ (mounts[k] # None /\ mounts'[k] # None
                                  => mounts'[k].req = mounts[k].req)
    <3>1. files[k] \in Records \cup {None} /\ SameIntent(k)
      BY DEF IntentInv, Inv, TypeOK, StoreTypeOK
    <3>2. mounts'[k] = Loaded(files[k]) /\ files'[k] = files[k]
      BY <1>2 DEF Crash, Load
    <3>3. /\ files[k] = None => Loaded(files[k]) = None
          /\ files[k] # None => Loaded(files[k]).req = files[k].req
      BY <3>1 DEF Loaded, Records
    <3> QED BY <3>1, <3>2, <3>3 DEF SameIntent
  <2>2. ASSUME NEW w \in Workers PROVE IntentOf(w)'
    <3>1. pc'[w] \in Done
      BY <1>2 DEF Crash, Done
    <3> QED BY <3>1, DoneIntent
  <2> QED BY <2>1, <2>2 DEF IntentInv, KeepsIntent
<1> QED BY <1>1, <1>2

LEMMA InitIntent ==
    ASSUME Init
    PROVE  IntentInv
<1>1. Inv
  BY InitInv
<1>2. ASSUME NEW w \in Workers PROVE IntentOf(w)
  BY DEF Init, IntentOf, Deciding, Acting
<1>3. ASSUME NEW k \in Keys PROVE SameIntent(k)
  <2>1. files[k] \in Records \cup {None} /\ mounts[k] = Loaded(files[k])
    BY <1>1 DEF Init, Inv, TypeOK, StoreTypeOK
  <2>2. files[k] # None => Loaded(files[k]).req = files[k].req
    BY <2>1 DEF Loaded, Records
  <2> QED BY <2>1, <2>2 DEF SameIntent
<1> QED BY <1>1, <1>2, <1>3 DEF IntentInv

LEMMA NextIntent ==
    ASSUME IntentInv, [Next]_vars
    PROVE  IntentInv' /\ KeepsIntent
<1>1. Inv'
  BY NextInv DEF IntentInv
<1>2. CASE UNCHANGED vars
  BY <1>1, <1>2, QuietIntent DEF vars, storeVars, workers, cluster
<1>3. ASSUME NEW w \in Workers, Begin(w) PROVE IntentInv' /\ KeepsIntent
  BY <1>1, <1>3, BeginIntent
<1>4. ASSUME NEW w \in Workers, Enter(w) PROVE IntentInv' /\ KeepsIntent
  BY <1>1, <1>4, MountAdmitIntent, UnmountAdmitIntent, ReconcileAdmitIntent,
     ReconcileStaleIntent DEF Enter
<1>5. ASSUME NEW w \in Workers, Advance(w) PROVE IntentInv' /\ KeepsIntent
  BY <1>1, <1>5, MountProbeIntent, MountIntentIntent, MountRestoreIntent,
     NodeCheckIntent, NodeAttachIntent, RecordIntent, UnmountIntent,
     ReconcileProbeIntent DEF Advance
<1>6. CASE Environment
  BY <1>1, <1>6, EnvironmentIntent
<1> QED BY <1>2, <1>3, <1>4, <1>5, <1>6 DEF Next

LEMMA IntentHolds == Spec => []IntentInv
<1>1. Init => IntentInv
  BY InitIntent
<1>2. IntentInv /\ [Next]_vars => IntentInv'
  BY NextIntent
<1> QED BY <1>1, <1>2, PTL DEF Spec

-----------------------------------------------------------------------------
(* Where mounts come from.                                                 *)

\* The steps that mount, unmount, or start and end container instances.
LEMMA StackMovers ==
    ASSUME [Next]_vars, stack' # stack
    PROVE  \/ \E w \in Workers : NodeAttach(w) \/ UnmountNode(w)
           \/ \E p \in Pods : RestartContainer(p) \/ DeletePod(p)
<1>1. ASSUME NEW w \in Workers, Begin(w) PROVE FALSE
  BY <1>1 DEF Begin, MountAuthorize, UnmountAuthorize, ReconcilePodEvent,
                    ReconcilePodSnapshot, ReconcileRetry, Observe
<1>2. ASSUME NEW w \in Workers, Enter(w) PROVE FALSE
  <2>1. ~MountAdmit(w) /\ ~UnmountAdmit(w)
    BY DEF MountAdmit, UnmountAdmit
  <2>2. ~ReconcileAdmit(w) /\ ~ReconcileStale(w)
    BY DEF ReconcileAdmit, ReconcileStale
  <2> QED BY <1>2, <2>1, <2>2 DEF Enter
<1>3. ASSUME NEW w \in Workers, Advance(w)
      PROVE  NodeAttach(w) \/ UnmountNode(w)
  <2>1. ~MountProbe(w) /\ ~MountIntent(w) /\ ~MountRestore(w)
    BY DEF MountProbe, MountIntent, MountRestore
  <2>2. ~NodeCheck(w) /\ ~Record(w) /\ ~UnmountProbe(w) /\ ~ReconcileProbe(w)
    BY DEF NodeCheck, Record, UnmountProbe, ReconcileProbe
  <2> QED BY <1>3, <2>1, <2>2 DEF Advance
<1>4. CASE Environment
  BY <1>4 DEF Environment, PublishStatus, AlterPV, Crash
<1>5. ~UNCHANGED vars
  BY DEF vars
<1> QED BY <1>1, <1>2, <1>3, <1>4, <1>5 DEF Next

\* Only the step that attaches makes a stack grow while the instance lives.
LEMMA AttachedBy ==
    ASSUME Inv, [Next]_vars, NEW k \in Keys, Attached(k)
    PROVE  \E w \in Workers :
              /\ pc[w] = "node_attach" /\ Place[job[w].key] = k
              /\ Head(stack'[k]) = [req |-> job[w].req, root |-> job[w].root,
                                    fp |-> KeyBehind(w)]
<1>1. /\ Len(stack'[k]) > Len(stack[k]) /\ gen'[PodOf[k]] = gen[PodOf[k]]
      /\ stack \in [Keys -> Seq(Layers)] /\ gen \in [Pods -> 1..MaxGen]
      /\ stack[k] \in Seq(Layers) /\ Len(stack[k]) \in Nat /\ PodOf[k] \in Pods
  BY WrapperAssumption DEF Attached, Inv, TypeOK, ClusterTypeOK
<1>2. stack' # stack
  BY <1>1
<1>3. \/ \E w \in Workers : NodeAttach(w) \/ UnmountNode(w)
      \/ \E p \in Pods : RestartContainer(p) \/ DeletePod(p)
  BY <1>2, StackMovers
<1>4. ASSUME NEW p \in Pods, RestartContainer(p) PROVE FALSE
  <2>1. PodOf[k] # p
    BY <1>1, <1>4 DEF RestartContainer
  <2> QED BY <1>1, <1>4, <2>1 DEF RestartContainer
<1>5. ASSUME NEW p \in Pods, DeletePod(p) PROVE FALSE
  BY <1>1, <1>5 DEF DeletePod
<1>6. ASSUME NEW w \in Workers, UnmountNode(w) PROVE FALSE
  <2>1. stack' = [stack EXCEPT ![job[w].key] = Tail(@)] /\ stack[job[w].key] # <<>>
    BY <1>2, <1>6 DEF UnmountNode, IsMountPoint
  <2>2. job[w].key = k /\ stack'[k] = Tail(stack[k])
    BY <1>1, <2>1
  <2> QED BY <1>1, <2>1, <2>2
<1>7. ASSUME NEW w \in Workers, NodeAttach(w)
      PROVE  /\ pc[w] = "node_attach" /\ Place[job[w].key] = k
             /\ Head(stack'[k]) = [req |-> job[w].req, root |-> job[w].root,
                                   fp |-> KeyBehind(w)]
  <2> DEFINE layer == [req |-> job[w].req, root |-> job[w].root,
                       fp |-> KeyBehind(w)]
  <2>1. /\ pc[w] = "node_attach"
        /\ stack' = [stack EXCEPT ![Place[job[w].key]] = <<layer>> \o @]
    BY <1>2, <1>7 DEF NodeAttach
  <2> HIDE DEF layer
  <2>2. Place[job[w].key] = k /\ stack'[k] = <<layer>> \o stack[k]
    BY <1>1, <2>1
  <2>3. Head(stack'[k]) = layer
    BY <1>1, <2>2
  <2> QED BY <2>1, <2>2, <2>3 DEF layer
<1> QED BY <1>3, <1>4, <1>5, <1>6, <1>7

\* A step from IntentInv has the three properties.
LEMMA IntentSteps ==
    ASSUME IntentInv, [Next]_vars
    PROVE  /\ \A k \in Keys : mounts[k] # None /\ mounts'[k] # None
                              => mounts'[k].req = mounts[k].req
           /\ \A k \in Keys :
                 Attached(k) => \E i \in Keys :
                                   /\ Place[i] = k /\ mounts[i] # None
                                   /\ mounts[i].req = Head(stack'[k]).req
           /\ \A k \in Keys : /\ Attached(k)
                              /\ Head(stack'[k]).root
                              /\ exportKey # NoKey
                              => Head(stack'[k]).fp = exportKey
<1>1. ASSUME NEW k \in Keys, Attached(k)
      PROVE  /\ \E i \in Keys : /\ Place[i] = k /\ mounts[i] # None
                                 /\ mounts[i].req = Head(stack'[k]).req
             /\ Head(stack'[k]).root /\ exportKey # NoKey
                => Head(stack'[k]).fp = exportKey
  <2>1. PICK w \in Workers :
           /\ pc[w] = "node_attach" /\ Place[job[w].key] = k
           /\ Head(stack'[k]) = [req |-> job[w].req, root |-> job[w].root,
                                 fp |-> KeyBehind(w)]
    BY <1>1, AttachedBy DEF IntentInv
  <2>2. pc[w] \in Acting /\ IntentOf(w) /\ job[w].key \in Keys
    BY <2>1, AtWork DEF Acting, Done, IntentInv
  <2> QED BY <2>1, <2>2 DEF IntentOf, KeyBehind
<1> QED BY <1>1, NextIntent DEF KeepsIntent

\* As long as a target is registered, across crashes too, it keeps its request.
THEOREM RegisteredIntentIsStable == Spec => IntentStable
<1>1. IntentInv /\ [Next]_vars
      => [\A k \in Keys : mounts[k] # None /\ mounts'[k] # None
                          => mounts'[k].req = mounts[k].req]_vars
  BY IntentSteps
<1> QED BY <1>1, IntentHolds, PTL DEF Spec, IntentStable

\* linuxMounter.Mount attaches only what is registered with the same request at
\* that moment: the target lock keeps unmount, other mounts and the removal of
\* stale records away between the decision and the system call.
THEOREM AttachedMountsAreRegistered == Spec => AttachHasIntent
<1>1. IntentInv /\ [Next]_vars
      => [\A k \in Keys :
             Attached(k) => \E i \in Keys :
                               /\ Place[i] = k /\ mounts[i] # None
                               /\ mounts[i].req = Head(stack'[k]).req]_vars
  BY IntentSteps
<1> QED BY <1>1, IntentHolds, PTL DEF Spec, AttachHasIntent

\* While a key is configured, an export root is attached only if a request
\* showed that very key, or if its fingerprint is the one that was persisted,
\* whatever keys were in force before the last restarts.
THEOREM ExportRootsAreKeyed == Spec => RootMountsKeyed
<1>1. IntentInv /\ [Next]_vars
      => [\A k \in Keys : /\ Attached(k)
                          /\ Head(stack'[k]).root
                          /\ exportKey # NoKey
                          => Head(stack'[k]).fp = exportKey]_vars
  BY IntentSteps
<1> QED BY <1>1, IntentHolds, PTL DEF Spec, RootMountsKeyed

-----------------------------------------------------------------------------
(* A process that neither crashes nor fails to write state.                *)

Steady == Faults \cap {"crash", "early", "late"} = {}

\* The topmost mount of target k is the wrapper's own, for request r; a record
\* of the running container says so.
OnTop(k, r) == stack[k] # <<>> /\ stack[k][1] # Foreign /\ stack[k][1].req = r

NamesSource(k, rec) ==
    k \in Straight /\ rec # None /\ Running(k, rec.cid) => OnTop(k, rec.req)

HasContainer(rec) == rec # None => rec.cid # NoContainer

\* Only a handler that is not done with a target leaves an intent there that
\* names no container.
Unfinished == {"node_check", "node_attach", "record", "restore"}

Pending(k) == \E v \in Handlers : pc[v] \in Unfinished /\ job[v].key = k

\* What a worker knows: the record it found names its source and a container;
\* it probes only for the container that the record names, so it never adopts;
\* and what it attached is on top.
SteadyOf(w) ==
    LET j == job[w]
        k == j.key
    IN /\ pc[w] \in Critical => HasContainer(j.prev) /\ NamesSource(k, j.prev)
       /\ pc[w] \in Deciding \cup Acting \cup {"mount_lock"} => j.cid # NoContainer
       /\ pc[w] \in {"mount_probe", "unmount_probe", "unmount_node"}
          => j.prev # None /\ j.prev.cid = j.cid
       /\ pc[w] \in Deciding \cup {"mount_lock"} => w \in Handlers
       /\ pc[w] # "reconcile_probe"
       /\ pc[w] = "record" /\ k \in Straight /\ Running(k, j.cid)
          => OnTop(k, j.req)

SteadyTarget(k) ==
    /\ NamesSource(k, mounts[k])
    /\ k \in spec \cap Straight /\ present[PodOf[k]] => stack[k] = <<Foreign>>
    /\ HasContainer(mounts[k]) \/ Pending(k)

SteadyInv ==
    /\ Inv
    /\ \A w \in Workers : SteadyOf(w)
    /\ \A k \in Keys : SteadyTarget(k)

LEMMA NoFaults ==
    ASSUME Steady
    PROVE  /\ ~Crash
           /\ \A k, r : ~PutFails(k, r)
           /\ \A k : ~DeleteFails(k)
BY DEF Steady, Crash, PutFails, DeleteFails

\* The step of one worker on its target.
LEMMA TouchesSteady ==
    ASSUME SteadyInv, Inv', NEW w \in Workers, NEW k \in Keys, Touches(w, k),
           UNCHANGED spec, pc[w] \in Critical => job[w].key = k,
           SteadyOf(w)', SteadyTarget(k)'
    PROVE  SteadyInv'
<1>1. ASSUME NEW v \in Workers, v # w
      PROVE  SteadyOf(v)'
  <2>1. SteadyOf(v) /\ pc'[v] = pc[v] /\ job'[v] = job[v]
    BY <1>1 DEF SteadyInv, Touches
  <2>2. CASE pc[v] \notin Critical
    BY <2>1, <2>2 DEF SteadyOf, Critical
  <2>3. CASE pc[v] \in Critical
    <3>1. job[v].key \in Keys /\ lock[Stripe[job[v].key]] = v
      BY <2>3, StepNames, AtWork DEF SteadyInv, WorkerInv
    <3>2. job[v].key # k
      BY <1>1, <3>1, WrapperAssumption DEF Touches
    <3>3. /\ job[v].key \in Straight => stack'[job[v].key] = stack[job[v].key]
          /\ UNCHANGED <<gen, present>>
      BY <3>1, <3>2 DEF Touches
    <3> QED BY <2>1, <3>3 DEF SteadyOf, NamesSource, OnTop, Running
  <2> QED BY <2>2, <2>3
<1>2. ASSUME NEW i \in Keys, i # k
      PROVE  SteadyTarget(i)'
  <2>1. /\ mounts'[i] = mounts[i]
        /\ i \in Straight => stack'[i] = stack[i]
        /\ UNCHANGED <<gen, present, spec>> /\ SteadyTarget(i)
    BY <1>2 DEF Touches, SteadyInv
  <2>2. Pending(i) => Pending(i)'
    <3> SUFFICES ASSUME NEW v \in Handlers, pc[v] \in Unfinished, job[v].key = i
                 PROVE  pc'[v] = pc[v] /\ job'[v] = job[v]
      BY DEF Pending
    <3>1. pc[v] \in Critical /\ v \in Workers
      BY DEF Unfinished, Critical, Workers
    <3>2. v # w
      BY <1>2, <3>1
    <3> QED BY <3>1, <3>2 DEF Touches
  <2> QED BY <2>1, <2>2 DEF SteadyTarget, NamesSource, OnTop, Running
<1> QED BY <1>1, <1>2 DEF SteadyInv

\* While a worker holds the lock, or finds it free, nobody else has the target
\* in hand.
LEMMA NobodyElse ==
    ASSUME SteadyInv, NEW w \in Workers, NEW k \in Keys,
           lock[Stripe[k]] \in {None, w}, w \in Handlers => pc[w] \notin Unfinished
    PROVE  HasContainer(mounts[k])
<1> SUFFICES ASSUME Pending(k) PROVE FALSE
  BY DEF SteadyInv, SteadyTarget
<1>1. PICK v \in Handlers : pc[v] \in Unfinished /\ job[v].key = k
  BY DEF Pending
<1>2. v \in Workers /\ v # w /\ pc[v] \in Critical
  BY <1>1 DEF Workers, Unfinished, Critical
<1>3. lock[Stripe[k]] = v
  BY <1>1, <1>2, StepNames DEF SteadyInv, Inv, WorkerInv
<1> QED BY <1>2, <1>3, WrapperAssumption

\* A critical step that unlocks.
LEMMA UnlockSteady ==
    ASSUME SteadyInv, Inv', NEW w \in Workers, pc[w] \in Critical,
           NEW result \in Done, Unlock(w, result), NEW k \in Keys, k = job[w].key,
           \A i \in Keys \ {k} : /\ mounts'[i] = mounts[i]
                                 /\ files'[i] = files[i]
                                 /\ i \in Straight => stack'[i] = stack[i],
           UNCHANGED cluster, NamesSource(k, mounts[k])', HasContainer(mounts[k])',
           k \in spec \cap Straight /\ present[PodOf[k]]
              => stack'[k] = <<Foreign>>
    PROVE  SteadyInv'
<1>1. Touches(w, k)
  BY CriticalTouches DEF SteadyInv
<1>2. pc'[w] \in Done
  BY InvBase, UnlockFrame DEF SteadyInv
<1>3. SteadyOf(w)'
  BY <1>2 DEF SteadyOf, Done, Critical, Deciding, Acting
<1>4. SteadyTarget(k)'
  BY DEF SteadyTarget, cluster
<1> QED BY <1>1, <1>3, <1>4, TouchesSteady DEF cluster

\* The same, with nothing written and nothing moved.
LEMMA GiveUpSteady ==
    ASSUME SteadyInv, Inv', NEW w \in Workers, pc[w] \in Critical,
           w \in Handlers => pc[w] \notin Unfinished,
           NEW result \in Done, Unlock(w, result), UNCHANGED <<storeVars, cluster, stack>>
    PROVE  SteadyInv'
<1>1. PICK k \in Keys : k = job[w].key
  BY AtWork, StepNames DEF SteadyInv
<1>2. lock[Stripe[k]] = w
  BY <1>1, StepNames DEF SteadyInv, Inv, WorkerInv
<1>3. HasContainer(mounts[k]) /\ SteadyTarget(k)
  BY <1>2, NobodyElse DEF SteadyInv
<1>4. NamesSource(k, mounts[k])' /\ HasContainer(mounts[k])'
  BY <1>3 DEF SteadyTarget, storeVars, cluster, NamesSource, OnTop, Running, HasContainer
<1> QED BY <1>1, <1>3, <1>4, UnlockSteady DEF SteadyTarget, storeVars

\* A critical step that goes on, with nothing written and nothing moved.
LEMMA GotoSteady ==
    ASSUME SteadyInv, Inv', NEW w \in Workers, pc[w] \in Critical,
           NEW step \in Critical \ {"mount_probe", "unmount_probe", "reconcile_probe"},
           Goto(w, step), UNCHANGED <<storeVars, cluster, stack>>,
           pc[w] \in Unfinished => step \in Unfinished,
           step \in Deciding => pc[w] \in Deciding,
           step \in Acting => pc[w] \in Acting,
           step = "unmount_node" => pc[w] = "unmount_probe",
           step = "record" => ~Running(job[w].key, job[w].cid)
    PROVE  SteadyInv'
<1>1. PICK k \in Keys : k = job[w].key
  BY AtWork, StepNames DEF SteadyInv
<1>2. Touches(w, k)
  BY <1>1, CriticalTouches DEF SteadyInv, storeVars
<1>3. /\ pc'[w] = step /\ job'[w] = job[w] /\ SteadyOf(w) /\ SteadyTarget(k)
      /\ \A v \in Workers \ {w} : pc'[v] = pc[v] /\ job'[v] = job[v]
  BY InvBase, GotoFrame DEF SteadyInv
<1>4. UNCHANGED <<mounts, stack, gen, present, spec>>
  BY DEF storeVars, cluster
<1>5. SteadyOf(w)'
  <2>1. step # "mount_lock"
    BY DEF Critical
  <2>2. /\ HasContainer(job[w].prev)' /\ NamesSource(k, job[w].prev)'
        /\ step \in Deciding \cup Acting => job[w].cid # NoContainer
        /\ step \in Deciding => w \in Handlers
        /\ step = "unmount_node" => job[w].prev # None /\ job[w].prev.cid = job[w].cid
        /\ step = "record" => ~Running(k, job[w].cid)'
    BY <1>1, <1>3, <1>4 DEF SteadyOf, NamesSource, OnTop, Running, HasContainer
  <2> QED BY <1>1, <1>3, <2>1, <2>2 DEF SteadyOf
<1>6. Pending(k) => Pending(k)'
  <2> SUFFICES ASSUME NEW v \in Handlers, pc[v] \in Unfinished, job[v].key = k
               PROVE  pc'[v] \in Unfinished /\ job'[v].key = k
    BY DEF Pending
  <2> QED BY <1>3 DEF Workers
<1>7. SteadyTarget(k)'
  BY <1>3, <1>4, <1>6 DEF SteadyTarget, NamesSource, OnTop, Running, HasContainer
<1> QED BY <1>1, <1>2, <1>4, <1>5, <1>7, TouchesSteady

-----------------------------------------------------------------------------
(* One lemma per action.                                                   *)

LEMMA MountProbeSteady ==
    ASSUME Steady, SteadyInv, Inv', NEW w \in Workers, MountProbe(w)
    PROVE  SteadyInv'
<1>1. /\ pc[w] \in Critical /\ pc[w] \notin Done /\ pc[w] = "mount_probe"
      /\ pc[w] \notin Unfinished /\ pc[w] \in Deciding /\ Inv /\ SteadyOf(w)
      /\ UNCHANGED <<cluster, stack>>
  BY DEF MountProbe, Critical, Done, Unfinished, Deciding, SteadyInv
<1>2. job[w].prev \in Records /\ job[w].prev.cid = job[w].cid
  BY <1>1, AtWork DEF SteadyOf
<1>3. [job[w].prev EXCEPT !.cid = job[w].cid] = job[w].prev
  BY <1>2 DEF Records
<1>4. /\ UNCHANGED storeVars
      /\ Goto(w, "mount_intent") \/ Unlock(w, "ok") \/ Unlock(w, "failed")
  BY <1>3 DEF MountProbe
<1>5. CASE Goto(w, "mount_intent")
  BY <1>1, <1>4, <1>5, GotoSteady DEF Critical, Deciding, Acting
<1>6. CASE Unlock(w, "ok") \/ Unlock(w, "failed")
  BY <1>1, <1>4, <1>6, GiveUpSteady DEF Done
<1> QED BY <1>4, <1>5, <1>6

LEMMA MountIntentSteady ==
    ASSUME Steady, SteadyInv, Inv', NEW w \in Workers, MountIntent(w)
    PROVE  SteadyInv'
<1>1. /\ pc[w] \in Critical /\ pc[w] \notin Done /\ pc[w] \in Deciding
      /\ Inv /\ SteadyOf(w) /\ UNCHANGED <<cluster, stack>>
  BY DEF MountIntent, Critical, Done, Deciding, SteadyInv
<1>2. PICK k \in Keys : k = job[w].key
  BY <1>1, AtWork
<1> DEFINE desired == Desired(job[w])
<1>3. desired \in Records /\ desired.cid = NoContainer
  BY <1>1, AtWork, DesiredType DEF Desired
<1> HIDE DEF desired
<1>4. PutOK(k, desired) /\ Goto(w, "node_check")
  BY <1>2, NoFaults DEF MountIntent, desired
<1>5. /\ mounts'[k] = desired
      /\ \A i \in Keys \ {k} : mounts'[i] = mounts[i] /\ files'[i] = files[i]
  BY <1>1, <1>3, <1>4, InvBase, PutFrame
     DEF PutOK, putInMemory, Base, TypeOK, StoreTypeOK
<1>6. Touches(w, k)
  BY <1>1, <1>2, <1>4, <1>5, CriticalTouches DEF Critical
<1>7. pc'[w] = "node_check" /\ job'[w] = job[w]
  BY <1>1, <1>4, InvBase, GotoFrame
<1>8. UNCHANGED <<stack, gen, present, spec>> /\ SteadyTarget(k)
  BY <1>1 DEF cluster, SteadyInv
<1>9. ~Running(k, NoContainer)'
  BY <1>1, <1>8, WrapperAssumption
     DEF Running, NoContainer, Inv, TypeOK, ClusterTypeOK
<1>10. w \in Handlers
  BY <1>1 DEF SteadyOf
<1>11. Pending(k)'
  BY <1>2, <1>7, <1>10 DEF Pending, Unfinished
<1>12. SteadyTarget(k)'
  BY <1>3, <1>5, <1>8, <1>9, <1>11 DEF SteadyTarget, NamesSource, Running
<1>13. SteadyOf(w)'
  <2>1. "node_check" \notin Deciding \cup {"mount_lock"}
    BY DEF Deciding
  <2> QED BY <1>1, <1>7, <1>8, <2>1
          DEF SteadyOf, NamesSource, OnTop, Running, HasContainer
<1> QED BY <1>2, <1>6, <1>8, <1>12, <1>13, TouchesSteady

LEMMA MountRestoreSteady ==
    ASSUME Steady, SteadyInv, Inv', NEW w \in Workers, MountRestore(w)
    PROVE  SteadyInv'
<1>1. /\ pc[w] \in Critical /\ pc[w] \notin Done /\ Inv /\ SteadyOf(w)
      /\ UNCHANGED <<cluster, stack>> /\ Unlock(w, "failed")
  BY DEF MountRestore, Critical, Done, SteadyInv
<1>2. PICK k \in Keys : k = job[w].key
  BY <1>1, AtWork
<1>3. /\ job[w].prev \in Records \cup {None} /\ Base
      /\ HasContainer(job[w].prev) /\ NamesSource(k, job[w].prev)
  BY <1>1, <1>2, AtWork, InvBase DEF SteadyOf
<1>4. /\ mounts'[k] = job[w].prev
      /\ \A i \in Keys \ {k} : mounts'[i] = mounts[i] /\ files'[i] = files[i]
  <2>1. CASE job[w].prev # None
    <3>1. PutOK(k, job[w].prev)
      BY <1>2, <2>1, NoFaults DEF MountRestore, Put
    <3> QED BY <1>3, <2>1, <3>1, PutFrame
            DEF PutOK, putInMemory, Base, TypeOK, StoreTypeOK
  <2>2. CASE job[w].prev = None
    <3>1. DeleteOK(k)
      BY <1>2, <2>2, NoFaults DEF MountRestore, Delete
    <3> QED BY <1>3, <2>2, <3>1, DeleteFrame
  <2> QED BY <2>1, <2>2
<1>5. UNCHANGED <<stack, gen, present, spec>> /\ SteadyTarget(k)
  BY <1>1 DEF cluster, SteadyInv
<1>6. NamesSource(k, mounts[k])' /\ HasContainer(mounts[k])'
  BY <1>3, <1>4, <1>5 DEF NamesSource, OnTop, Running, HasContainer
<1> QED BY <1>1, <1>2, <1>4, <1>5, <1>6, UnlockSteady DEF Done, SteadyTarget

LEMMA NodeCheckSteady ==
    ASSUME Steady, SteadyInv, Inv', NEW w \in Workers, NodeCheck(w)
    PROVE  SteadyInv'
<1>1. /\ pc[w] \in Critical /\ pc[w] \in Unfinished /\ pc[w] \in Acting
      /\ UNCHANGED <<storeVars, cluster, stack>>
  BY DEF NodeCheck, Critical, Unfinished, Acting
<1>2. \/ Goto(w, "node_attach") \/ Goto(w, "restore")
      \/ w \notin Handlers /\ Unlock(w, "failed")
  BY DEF NodeCheck, NodeFails
<1>3. CASE w \notin Handlers /\ Unlock(w, "failed")
  BY <1>1, <1>3, GiveUpSteady DEF Done
<1>4. CASE Goto(w, "node_attach")
  BY <1>1, <1>4, GotoSteady DEF Critical, Unfinished, Deciding
<1>5. CASE Goto(w, "restore")
  BY <1>1, <1>5, GotoSteady DEF Critical, Unfinished, Deciding
<1> QED BY <1>2, <1>3, <1>4, <1>5

LEMMA NodeAttachSteady ==
    ASSUME Steady, SteadyInv, Inv', NEW w \in Workers, NodeAttach(w)
    PROVE  SteadyInv'
<1>1. /\ pc[w] \in Critical /\ pc[w] \notin Done /\ pc[w] = "node_attach"
      /\ pc[w] \in Unfinished /\ pc[w] \in Acting
      /\ Inv /\ SteadyOf(w) /\ UNCHANGED <<storeVars, cluster>>
  BY DEF NodeAttach, Critical, Done, Unfinished, Acting, SteadyInv
<1>2. PICK k \in Keys : k = job[w].key
  BY <1>1, AtWork
<1>3. CASE UNCHANGED stack /\ w \notin Handlers /\ Unlock(w, "failed")
  BY <1>1, <1>3, GiveUpSteady DEF Done
<1>4. CASE UNCHANGED stack /\ Goto(w, "restore")
  BY <1>1, <1>4, GotoSteady DEF Critical, Unfinished, Deciding, Acting
<1>5. CASE UNCHANGED stack /\ ~Running(k, job[w].cid) /\ Goto(w, "record")
  BY <1>1, <1>2, <1>5, GotoSteady DEF Critical, Unfinished, Deciding
<1>6. ASSUME NEW layer,
             layer = [req |-> job[w].req, root |-> job[w].root,
                      fp |-> KeyBehind(w)],
             Running(k, job[w].cid), Goto(w, "record"),
             stack' = [stack EXCEPT ![Place[k]] = <<layer>> \o @]
      PROVE  SteadyInv'
  <2>1. /\ Running(k, job[w].cid) /\ Goto(w, "record")
        /\ stack' = [stack EXCEPT ![Place[k]] = <<layer>> \o @]
    BY <1>6
  <2>2. layer \in OwnLayers /\ layer.req = job[w].req
    BY <1>1, <1>6, AtWork, InvBase, JobType DEF OwnLayers, Jobs, KeyBehind
  <2>3. layer # Foreign
    BY <2>2, WrapperAssumption
  <2>4. /\ k \in Straight => stack[k] = <<>>
        /\ stack \in [Keys -> Seq(Layers)]
    BY <1>1, <1>2, <2>1
       DEF Inv, WorkerInv, IsMountPoint, TypeOK, ClusterTypeOK
  <2>5. /\ k \in Straight => stack'[k] = <<layer>>
        /\ \A i \in Keys \ {k} : i \in Straight => stack'[i] = stack[i]
    <3>1. k \in Straight => stack'[k] = <<layer>> \o stack[k]
      BY <2>1, <2>4, StraightPlace
    <3>2. k \in Straight => stack'[k] = <<layer>>
      BY <2>4, <3>1
    <3> QED BY <2>1, <2>4, <3>2, StraightPlace
  <2>6. UNCHANGED <<mounts, files, gen, present, spec>> /\ SteadyTarget(k)
    BY <1>1 DEF cluster, storeVars, SteadyInv
  <2>7. ASSUME NEW rec, NamesSource(k, rec), rec # None, k \in Straight
        PROVE  ~Running(k, rec.cid)
    BY <2>4, <2>7 DEF NamesSource, OnTop
  <2>8. k \notin spec \cap Straight
    <3>1. <<Foreign>> # <<>>
      OBVIOUS
    <3> QED BY <2>1, <2>4, <2>6, <3>1 DEF SteadyTarget, Running
  <2>9. Touches(w, k)
    BY <1>1, <1>2, <2>1, <2>5, <2>6, CriticalTouches DEF Critical
  <2>10. /\ pc'[w] = "record" /\ job'[w] = job[w]
         /\ \A v \in Workers \ {w} : pc'[v] = pc[v] /\ job'[v] = job[v]
    BY <1>1, <2>1, InvBase, GotoFrame
  <2>11. SteadyOf(w)'
    <3>1. k \in Straight => OnTop(k, job[w].req)'
      BY <2>2, <2>3, <2>5, <2>10 DEF OnTop
    <3>2. HasContainer(job[w].prev)' /\ NamesSource(k, job[w].prev)'
      BY <1>1, <1>2, <2>6, <2>7, <2>10 DEF SteadyOf, NamesSource, HasContainer, Running
    <3>3. /\ "record" \notin Deciding \cup {"mount_lock"}
          /\ job[w].cid # NoContainer
      BY <1>1 DEF Deciding, SteadyOf
    <3> QED BY <1>2, <2>10, <3>1, <3>2, <3>3 DEF SteadyOf
  <2>12. Pending(k) => Pending(k)'
    <3> SUFFICES ASSUME NEW v \in Handlers, pc[v] \in Unfinished, job[v].key = k
                 PROVE  pc'[v] \in Unfinished /\ job'[v].key = k
      BY DEF Pending
    <3> QED BY <2>10 DEF Workers, Unfinished
  <2>13. SteadyTarget(k)'
    <3>1. NamesSource(k, mounts[k])'
      BY <2>6, <2>7 DEF SteadyTarget, NamesSource, Running
    <3> QED BY <2>6, <2>8, <2>12, <3>1 DEF SteadyTarget, HasContainer
  <2> QED BY <1>2, <2>6, <2>9, <2>11, <2>13, TouchesSteady
<1> QED BY <1>2, <1>3, <1>4, <1>5, <1>6 DEF NodeAttach, NodeFails

LEMMA RecordSteady ==
    ASSUME Steady, SteadyInv, Inv', NEW w \in Workers, Record(w)
    PROVE  SteadyInv'
<1>1. /\ pc[w] \in Critical /\ pc[w] \notin Done /\ pc[w] = "record" /\ pc[w] \in Acting
      /\ Inv /\ SteadyOf(w) /\ UNCHANGED <<cluster, stack>> /\ Unlock(w, "ok")
  BY DEF Record, Critical, Done, Acting, SteadyInv
<1>2. PICK k \in Keys : k = job[w].key
  BY <1>1, AtWork
<1> DEFINE installed == Installed(job[w])
<1>3. /\ installed \in Records /\ installed.req = job[w].req
      /\ installed.cid = job[w].cid
  BY <1>1, AtWork, DesiredType DEF Installed, Desired
<1> HIDE DEF installed
<1>4. PutOK(k, installed)
  BY <1>2, NoFaults DEF Record, Put, installed
<1>5. /\ mounts'[k] = installed
      /\ \A i \in Keys \ {k} : mounts'[i] = mounts[i] /\ files'[i] = files[i]
  BY <1>1, <1>3, <1>4, InvBase, PutFrame
     DEF PutOK, putInMemory, Base, TypeOK, StoreTypeOK
<1>6. UNCHANGED <<stack, gen, present, spec>> /\ SteadyTarget(k)
  BY <1>1 DEF cluster, SteadyInv
<1>7. /\ job[w].cid # NoContainer
      /\ k \in Straight /\ Running(k, job[w].cid) => OnTop(k, job[w].req)
  BY <1>1, <1>2 DEF SteadyOf
<1>8. NamesSource(k, mounts[k])' /\ HasContainer(mounts[k])'
  BY <1>3, <1>5, <1>6, <1>7 DEF NamesSource, OnTop, Running, HasContainer
<1> QED BY <1>1, <1>2, <1>5, <1>6, <1>8, UnlockSteady DEF Done, SteadyTarget

\* A mount of the Pod spec is not what the record names, so it is not removed.
LEMMA UnmountSteady ==
    ASSUME Steady, SteadyInv, Inv', NEW w \in Workers, UnmountProbe(w) \/ UnmountNode(w)
    PROVE  SteadyInv'
<1>1. /\ pc[w] \in Critical /\ pc[w] \notin Done /\ pc[w] \notin Unfinished
      /\ pc[w] \in {"unmount_probe", "unmount_node"}
      /\ Inv /\ SteadyOf(w) /\ UNCHANGED <<storeVars, cluster>>
  BY DEF UnmountProbe, UnmountNode, Critical, Done, Unfinished, SteadyInv
<1>2. PICK k \in Keys : k = job[w].key
  BY <1>1, AtWork
<1>3. mounts[k] = None
  BY <1>1, <1>2 DEF Inv, WorkerInv
<1>4. \/ pc[w] = "unmount_probe" /\ Goto(w, "unmount_node") /\ UNCHANGED stack
      \/ Goto(w, "restore") /\ UNCHANGED stack
      \/ Unlock(w, "ok") /\ UNCHANGED stack
      \/ /\ Unlock(w, "ok") /\ Running(k, job[w].cid)
         /\ stack' = [stack EXCEPT ![k] = Tail(@)]
  BY <1>1, <1>2 DEF UnmountProbe, UnmountNode
<1>5. CASE pc[w] = "unmount_probe" /\ Goto(w, "unmount_node") /\ UNCHANGED stack
  BY <1>1, <1>5, GotoSteady DEF Critical, Deciding, Acting
<1>6. CASE Goto(w, "restore") /\ UNCHANGED stack
  BY <1>1, <1>6, GotoSteady DEF Critical, Deciding, Acting
<1>7. CASE Unlock(w, "ok") /\ UNCHANGED stack
  BY <1>1, <1>7, GiveUpSteady DEF Done
<1>8. CASE /\ Unlock(w, "ok") /\ Running(k, job[w].cid)
           /\ stack' = [stack EXCEPT ![k] = Tail(@)]
  <2>1. k \in Straight => OnTop(k, job[w].prev.req)
    BY <1>1, <1>2, <1>8 DEF SteadyOf, NamesSource
  <2>2. k \notin spec \cap Straight
    BY <1>8, <2>1 DEF SteadyInv, SteadyTarget, OnTop, Running
  <2>3. /\ \A i \in Keys \ {k} : stack'[i] = stack[i]
        /\ UNCHANGED <<mounts, files>>
    BY <1>1, <1>8 DEF Inv, TypeOK, ClusterTypeOK, storeVars
  <2>4. NamesSource(k, mounts[k])' /\ HasContainer(mounts[k])'
    BY <1>3, <2>3 DEF NamesSource, HasContainer
  <2> QED BY <1>1, <1>2, <1>8, <2>2, <2>3, <2>4, UnlockSteady DEF Done
<1> QED BY <1>4, <1>5, <1>6, <1>7, <1>8

\* Lock, look, answer and unlock in one step.
LEMMA ReplySteady ==
    ASSUME SteadyInv, Inv', NEW w \in Workers, NEW result \in Done,
           pc[w] \notin Critical, NEW k \in Keys, LockFree(w, k), Reply(w, result),
           UNCHANGED storeVars \/ DeleteOK(k), UNCHANGED <<cluster, stack>>
    PROVE  SteadyInv'
<1>1. /\ pc'[w] \in Done /\ lock' = lock
      /\ \A v \in Workers \ {w} : pc'[v] = pc[v] /\ job'[v] = job[v]
  BY InvBase, AnswerFrame DEF Reply, SteadyInv
<1>2. /\ \A i \in Keys \ {k} : mounts'[i] = mounts[i] /\ files'[i] = files[i]
      /\ mounts'[k] \in {mounts[k], None}
  BY InvBase, DeleteFrame DEF SteadyInv, storeVars
<1>3. Touches(w, k)
  BY <1>1, <1>2 DEF Touches, LockFree, cluster
<1>4. SteadyOf(w)'
  BY <1>1 DEF SteadyOf, Done, Critical, Deciding, Acting
<1>5. HasContainer(mounts[k]) /\ SteadyTarget(k)
  <2>1. pc[w] \notin Unfinished
    BY DEF Unfinished, Critical
  <2> QED BY <2>1, NobodyElse DEF LockFree, SteadyInv
<1>6. SteadyTarget(k)'
  BY <1>2, <1>5 DEF SteadyTarget, NamesSource, OnTop, Running, HasContainer, cluster
<1> QED BY <1>3, <1>4, <1>6, TouchesSteady DEF cluster

\* Take the lock and go on with job j.
LEMMA AcquireSteady ==
    ASSUME SteadyInv, Inv', NEW w \in Workers, NEW k \in Keys, LockFree(w, k),
           pc[w] \notin Critical, Acquire(w, k), NEW j, NEW step,
           job' = [job EXCEPT ![w] = j], pc' = [pc EXCEPT ![w] = step],
           \A i \in Keys \ {k} : mounts'[i] = mounts[i] /\ files'[i] = files[i],
           UNCHANGED <<cluster, stack>>, SteadyOf(w)',
           NamesSource(k, mounts[k])', HasContainer(mounts[k])'
    PROVE  SteadyInv'
<1>1. Base /\ WorkerTypeOK
  BY InvBase DEF SteadyInv
<1>2. \A v \in Workers \ {w} : pc'[v] = pc[v] /\ job'[v] = job[v]
  BY <1>1 DEF WorkerTypeOK
<1>3. \A s \in Stripes \ {Stripe[k]} : lock'[s] = lock[s]
  BY <1>1, WrapperAssumption DEF WorkerTypeOK, Acquire
<1>4. Touches(w, k)
  BY <1>2, <1>3 DEF Touches, LockFree, cluster
<1>5. SteadyTarget(k)'
  BY DEF SteadyInv, SteadyTarget, cluster
<1> QED BY <1>4, <1>5, TouchesSteady DEF cluster

LEMMA MountAdmitSteady ==
    ASSUME Steady, SteadyInv, Inv', NEW w \in Workers, MountAdmit(w)
    PROVE  SteadyInv'
<1> DEFINE prev == mounts[job[w].key]
           kept == IF prev = None THEN None ELSE [prev EXCEPT !.fp = job[w].fp]
           j == [job[w] EXCEPT !.prev = kept]
<1>1. /\ pc[w] \notin Done /\ pc[w] \notin Critical /\ pc[w] = "mount_lock"
      /\ pc[w] \notin Unfinished /\ Inv /\ SteadyOf(w)
  BY DEF MountAdmit, Done, Critical, Unfinished, SteadyInv
<1>2. PICK k \in Keys : k = job[w].key
  BY <1>1, AtWork
<1>3. /\ Base /\ WorkerTypeOK /\ job[w] \in Jobs
      /\ job[w].fp \in Fingerprints /\ prev \in Records \cup {None}
  BY <1>1, <1>2, AtWork, InvBase, JobType DEF Base, TypeOK, StoreTypeOK
<1>4. /\ prev = None => kept = None
      /\ prev # None => /\ kept \in Records /\ kept # None
                        /\ kept.req = prev.req /\ kept.cid = prev.cid
  BY <1>3, NoneAssumption DEF Records
<1>5. j.key = k /\ j.prev = kept /\ j.cid = job[w].cid
  BY <1>2, <1>3 DEF Jobs
<1> DEFINE proceed == /\ Acquire(w, k) /\ job' = [job EXCEPT ![w] = j]
                      /\ pc' = [pc EXCEPT ![w] = IF Repeats(prev, job[w])
                                                 THEN "mount_probe"
                                                 ELSE "mount_intent"]
<1>6. /\ LockFree(w, k) /\ UNCHANGED <<cluster, stack>>
      /\ \/ Reply(w, "failed") /\ UNCHANGED storeVars
         \/ proceed /\ UNCHANGED storeVars /\ prev = kept
         \/ proceed /\ PutOK(k, kept) /\ prev # kept
  BY <1>2, NoFaults DEF MountAdmit
<1> HIDE DEF kept, j
<1>7. CASE Reply(w, "failed") /\ UNCHANGED storeVars
  BY <1>1, <1>6, <1>7, ReplySteady DEF Done
<1>8. CASE proceed /\ (\/ UNCHANGED storeVars /\ prev = kept
                       \/ PutOK(k, kept) /\ prev # kept)
  <2>1. HasContainer(prev) /\ NamesSource(k, prev)
    BY <1>1, <1>2, <1>6, NobodyElse DEF LockFree, SteadyInv, SteadyTarget
  <2>2. HasContainer(kept) /\ NamesSource(k, kept)
    BY <1>4, <2>1 DEF HasContainer, NamesSource
  <2>3. /\ mounts'[k] = kept
        /\ \A i \in Keys \ {k} : mounts'[i] = mounts[i] /\ files'[i] = files[i]
    <3>1. CASE UNCHANGED storeVars /\ prev = kept
      BY <1>2, <3>1 DEF storeVars
    <3>2. CASE PutOK(k, kept) /\ prev # kept
      <4>1. kept \in Records
        BY <1>4, <3>2
      <4> QED BY <1>3, <3>2, <4>1, PutFrame
              DEF PutOK, putInMemory, Base, TypeOK, StoreTypeOK
    <3> QED BY <1>8, <3>1, <3>2
  <2>4. PICK step \in Deciding : /\ pc' = [pc EXCEPT ![w] = step]
                                 /\ step = "mount_probe" => Repeats(prev, job[w])
    BY <1>8 DEF Deciding
  <2>5. pc'[w] = step /\ job'[w] = j
    BY <1>3, <1>8, <2>4 DEF WorkerTypeOK
  <2>6. step = "mount_probe" => kept # None /\ kept.cid = job[w].cid
    BY <1>4, <2>1, <2>4 DEF Repeats, HasContainer
  <2>7. step \notin {"record", "unmount_probe", "unmount_node", "reconcile_probe"}
    BY DEF Deciding
  <2>8. job[w].cid # NoContainer /\ w \in Handlers
    BY <1>1 DEF SteadyOf
  <2>9. UNCHANGED <<stack, gen, present>>
    BY <1>6 DEF cluster
  <2>10. /\ HasContainer(mounts[k])' /\ NamesSource(k, mounts[k])'
         /\ HasContainer(job[w].prev)' /\ NamesSource(k, job[w].prev)'
    <3>1. PICK rec : rec = kept
      OBVIOUS
    <3>2. rec = mounts'[k] /\ rec = job'[w].prev
      BY <1>5, <2>3, <2>5, <3>1
    <3>3. HasContainer(rec) /\ NamesSource(k, rec)
      BY <2>2, <3>1
    <3>4. NamesSource(k, rec)'
      BY <2>9, <3>3 DEF NamesSource, OnTop, Running
    <3> QED BY <3>2, <3>3, <3>4 DEF HasContainer, NamesSource
  <2>11. SteadyOf(w)'
    <3>1. /\ job'[w].key = k /\ job'[w].cid = job[w].cid
          /\ step = "mount_probe" => job'[w].prev # None /\ job'[w].prev.cid = job'[w].cid
      BY <1>5, <2>5, <2>6
    <3> QED BY <2>5, <2>7, <2>8, <2>10, <3>1 DEF SteadyOf
  <2> QED BY <1>1, <1>6, <1>8, <2>3, <2>4, <2>10, <2>11, AcquireSteady
<1> QED BY <1>6, <1>7, <1>8

LEMMA UnmountAdmitSteady ==
    ASSUME Steady, SteadyInv, Inv', NEW w \in Workers, UnmountAdmit(w)
    PROVE  SteadyInv'
<1> DEFINE prev == mounts[job[w].key]
           j == [job[w] EXCEPT !.prev = prev]
<1>1. /\ pc[w] \notin Done /\ pc[w] \notin Critical /\ pc[w] \notin Unfinished /\ Inv
  BY DEF UnmountAdmit, Done, Critical, Unfinished, SteadyInv
<1>2. PICK k \in Keys : k = job[w].key
  BY <1>1, AtWork
<1>3. Base /\ WorkerTypeOK /\ job[w] \in Jobs
  BY <1>1, AtWork, InvBase
<1>4. j.key = k /\ j.prev = prev /\ j.cid = job[w].cid
  BY <1>2, <1>3 DEF Jobs
<1> DEFINE proceed == /\ Acquire(w, k) /\ job' = [job EXCEPT ![w] = j]
                      /\ pc' = [pc EXCEPT ![w] = "unmount_probe"]
                      /\ DeleteOK(k) /\ prev # None /\ prev.cid = job[w].cid
<1>5. /\ LockFree(w, k) /\ UNCHANGED <<cluster, stack>>
      /\ \/ /\ Reply(w, "failed") \/ Reply(w, "ok")
            /\ UNCHANGED storeVars \/ DeleteOK(k)
         \/ proceed
  BY <1>2, NoFaults DEF UnmountAdmit
<1> HIDE DEF j
<1>6. CASE /\ Reply(w, "failed") \/ Reply(w, "ok")
           /\ UNCHANGED storeVars \/ DeleteOK(k)
  BY <1>1, <1>5, <1>6, ReplySteady DEF Done
<1>7. CASE proceed
  <2>1. HasContainer(prev) /\ NamesSource(k, prev)
    BY <1>1, <1>2, <1>5, NobodyElse DEF LockFree, SteadyInv, SteadyTarget
  <2>2. /\ mounts'[k] = None
        /\ \A i \in Keys \ {k} : mounts'[i] = mounts[i] /\ files'[i] = files[i]
    BY <1>2, <1>3, <1>7, DeleteFrame
  <2>3. pc'[w] = "unmount_probe" /\ job'[w] = j
    BY <1>3, <1>7 DEF WorkerTypeOK
  <2>4. UNCHANGED <<stack, gen, present>>
    BY <1>5 DEF cluster
  <2>5. /\ job'[w].key = k /\ job'[w].prev # None /\ job'[w].prev.cid = job'[w].cid
        /\ HasContainer(job[w].prev)' /\ NamesSource(k, job[w].prev)'
    <3>1. PICK rec : rec = prev
      OBVIOUS
    <3>2. job'[w].key = k /\ rec = job'[w].prev /\ rec # None /\ rec.cid = job'[w].cid
      BY <1>4, <1>7, <2>3, <3>1
    <3>3. HasContainer(rec) /\ NamesSource(k, rec)
      BY <2>1, <3>1
    <3>4. NamesSource(k, rec)'
      BY <2>4, <3>3 DEF NamesSource, OnTop, Running
    <3> QED BY <3>2, <3>3, <3>4 DEF HasContainer, NamesSource
  <2>6. SteadyOf(w)'
    <3>1. "unmount_probe" \notin Deciding \cup Acting \cup {"mount_lock"}
      BY DEF Deciding, Acting
    <3> QED BY <2>3, <2>5, <3>1 DEF SteadyOf
  <2>7. NamesSource(k, mounts[k])' /\ HasContainer(mounts[k])'
    BY <2>2 DEF NamesSource, HasContainer
  <2> QED BY <1>1, <1>5, <1>7, <2>2, <2>6, <2>7, AcquireSteady
<1> QED BY <1>5, <1>6, <1>7

\* A record that names no container would be somebody's unfinished work: the
\* reconciler does not get to probe for it.
LEMMA ReconcileAdmitSteady ==
    ASSUME Steady, SteadyInv, Inv', NEW w \in Workers, ReconcileAdmit(w)
    PROVE  SteadyInv'
<1> DEFINE root == IsExportRoot(job[w].req)
           fp == IF root /\ exportKey # NoKey THEN job[w].prev.fp ELSE NoKey
           j == [job[w] EXCEPT !.root = root, !.fp = fp]
<1>1. /\ pc[w] \notin Done /\ pc[w] \notin Critical /\ pc[w] \notin Unfinished
      /\ Inv /\ pc[w] = "reconcile_lock"
  BY DEF ReconcileAdmit, Done, Critical, Unfinished, SteadyInv
<1>2. PICK k \in Keys : k = job[w].key
  BY <1>1, AtWork
<1>3. Base /\ WorkerTypeOK /\ job[w] \in Jobs
  BY <1>1, AtWork, InvBase
<1>4. j.key = k /\ j.prev = job[w].prev /\ j.cid = job[w].cid
  BY <1>2, <1>3 DEF Jobs
<1> DEFINE proceed == /\ Acquire(w, k)
                      /\ mounts[k] # None /\ mounts[k] = job[w].prev
                      /\ job[w].cid # NoContainer
                      /\ job' = [job EXCEPT ![w].root = root, ![w].fp = fp]
                      /\ pc' = [pc EXCEPT ![w] = IF job[w].prev.cid = NoContainer
                                                 THEN "reconcile_probe"
                                                 ELSE "node_check"]
<1>5. /\ LockFree(w, k) /\ UNCHANGED <<storeVars, cluster, stack>>
      /\ proceed \/ Reply(w, "idle") \/ Goto(w, "stale")
  BY <1>2 DEF ReconcileAdmit, Superseded
<1>6. CASE Reply(w, "idle")
  BY <1>1, <1>5, <1>6, ReplySteady DEF Done
<1>7. UNCHANGED <<mounts, files, stack, gen, present, spec>>
  BY <1>5 DEF storeVars, cluster
<1>8. HasContainer(mounts[k]) /\ SteadyTarget(k)
  BY <1>1, <1>5, NobodyElse DEF LockFree, SteadyInv
<1>9. NamesSource(k, mounts[k])' /\ HasContainer(mounts[k])'
  BY <1>7, <1>8 DEF SteadyTarget, NamesSource, OnTop, Running, HasContainer
<1>10. CASE Goto(w, "stale")
  <2>1. /\ pc'[w] = "stale" /\ lock' = lock
        /\ \A v \in Workers \ {w} : pc'[v] = pc[v] /\ job'[v] = job[v]
    BY <1>3, <1>10, GotoFrame
  <2>2. SteadyOf(w)'
    BY <2>1 DEF SteadyOf, Critical, Deciding, Acting
  <2>3. SteadyTarget(k)'
    BY <1>7, <1>8, <1>9 DEF SteadyTarget
  <2>4. Touches(w, k)
    BY <1>5, <1>7, <2>1 DEF Touches, LockFree, cluster
  <2> QED BY <1>1, <1>7, <2>2, <2>3, <2>4, TouchesSteady
<1>11. CASE proceed
  <2>1. job' = [job EXCEPT ![w] = j]
    BY <1>3, <1>11 DEF WorkerTypeOK
  <2>2. pc' = [pc EXCEPT ![w] = "node_check"] /\ job[w].cid # NoContainer
    BY <1>8, <1>11 DEF HasContainer
  <2> HIDE DEF j, root, fp
  <2>3. pc'[w] = "node_check" /\ job'[w] = j
    BY <1>3, <2>1, <2>2 DEF WorkerTypeOK
  <2>4. job'[w].key = k /\ job'[w].prev = mounts'[k] /\ job'[w].cid # NoContainer
    BY <1>4, <1>7, <1>11, <2>3
  <2>5. HasContainer(job[w].prev)' /\ NamesSource(k, job[w].prev)'
    BY <1>9, <2>4 DEF HasContainer, NamesSource
  <2>6. SteadyOf(w)'
    <3>1. "node_check" \notin Deciding \cup {"mount_lock"}
      BY DEF Deciding
    <3> QED BY <2>3, <2>4, <2>5, <3>1 DEF SteadyOf
  <2> QED BY <1>1, <1>5, <1>7, <1>9, <1>11, <2>1, <2>2, <2>6, AcquireSteady
<1> QED BY <1>5, <1>6, <1>10, <1>11

LEMMA ReconcileStaleSteady ==
    ASSUME Steady, SteadyInv, Inv', NEW w \in Workers, ReconcileStale(w)
    PROVE  SteadyInv'
<1>1. pc[w] \notin Done /\ pc[w] \notin Critical /\ Inv
  BY DEF ReconcileStale, Done, Critical, SteadyInv
<1>2. PICK k \in Keys : k = job[w].key
  BY <1>1, AtWork
<1>3. /\ LockFree(w, k) /\ UNCHANGED <<cluster, stack>> /\ Reply(w, "idle")
      /\ UNCHANGED storeVars \/ DeleteOK(k)
  BY <1>2, NoFaults DEF ReconcileStale, Delete
<1> QED BY <1>1, <1>3, ReplySteady DEF Done

\* A worker starts, or the cluster changes what no record is about.
LEMMA QuietSteady ==
    ASSUME SteadyInv, Inv', UNCHANGED <<mounts, stack, gen, present, spec>>,
           \A v \in Workers : \/ pc'[v] = pc[v] /\ job'[v] = job[v]
                              \/ pc[v] \in Done /\ SteadyOf(v)'
    PROVE  SteadyInv'
<1>1. \A v \in Workers : SteadyOf(v)'
  BY DEF SteadyInv, SteadyOf, NamesSource, OnTop, Running, HasContainer
<1>2. ASSUME NEW k \in Keys PROVE SteadyTarget(k)'
  <2>1. Pending(k) => Pending(k)'
    <3> SUFFICES ASSUME NEW v \in Handlers, pc[v] \in Unfinished, job[v].key = k
                 PROVE  pc'[v] = pc[v] /\ job'[v] = job[v]
      BY DEF Pending
    <3>1. pc[v] \notin Done /\ v \in Workers
      BY DEF Unfinished, Done, Workers
    <3> QED BY <3>1
  <2> QED BY <2>1 DEF SteadyInv, SteadyTarget, NamesSource, OnTop, Running, HasContainer
<1> QED BY <1>1, <1>2 DEF SteadyInv

LEMMA BeginSteady ==
    ASSUME SteadyInv, Inv', NEW w \in Workers, Begin(w)
    PROVE  SteadyInv'
<1>1. WorkerTypeOK /\ ClusterTypeOK
  BY DEF SteadyInv, Inv, TypeOK
<1>2. ASSUME NEW k \in Keys, NEW r \in Requests, NEW provided \in Fingerprints,
             MountAuthorize(w, k, r, provided)
      PROVE  SteadyInv'
  <2>1. /\ UNCHANGED <<storeVars, cluster, stack>> /\ pc[w] \in Done
        /\ \A v \in Workers \ {w} : pc'[v] = pc[v] /\ job'[v] = job[v]
    BY <1>1, <1>2 DEF MountAuthorize, WorkerTypeOK, Idle
  <2>2. \/ pc'[w] = "failed"
        \/ pc'[w] = "mount_lock" /\ job'[w].cid = status[PodOf[k]] /\ w \in Handlers
    BY <1>1, <1>2 DEF MountAuthorize, WorkerTypeOK
  <2>3. status[PodOf[k]] # NoContainer
    BY <1>1, WrapperAssumption DEF ClusterTypeOK, NoContainer
  <2>4. {"failed", "mount_lock"} \cap (Critical \cup Deciding \cup Acting) = {}
    BY DEF Critical, Deciding, Acting
  <2>5. SteadyOf(w)'
    BY <2>2, <2>3, <2>4 DEF SteadyOf
  <2> QED BY <2>1, <2>5, QuietSteady DEF storeVars, cluster
<1>3. ASSUME NEW k \in Keys, NEW pv \in PVs, UnmountAuthorize(w, k, pv)
      PROVE  SteadyInv'
  <2>1. /\ UNCHANGED <<storeVars, cluster, stack>> /\ pc[w] \in Done
        /\ \A v \in Workers \ {w} : pc'[v] = pc[v] /\ job'[v] = job[v]
    BY <1>1, <1>3 DEF UnmountAuthorize, WorkerTypeOK, Idle
  <2>2. pc'[w] \in {"failed", "unmount_lock"}
    BY <1>1, <1>3 DEF UnmountAuthorize, WorkerTypeOK
  <2>3. SteadyOf(w)'
    BY <2>2 DEF SteadyOf, Critical, Deciding, Acting
  <2> QED BY <2>1, <2>3, QuietSteady DEF storeVars, cluster
<1>4. ASSUME NEW k \in Keys, NEW c, NEW step \in {"reconcile_lock", "stale"},
             Observe(w, k, c, step)
      PROVE  SteadyInv'
  <2>1. /\ UNCHANGED <<storeVars, cluster, stack>> /\ pc[w] \in Done /\ pc'[w] = step
        /\ \A v \in Workers \ {w} : pc'[v] = pc[v] /\ job'[v] = job[v]
    BY <1>1, <1>4 DEF Observe, WorkerTypeOK, Idle
  <2>2. SteadyOf(w)'
    BY <2>1 DEF SteadyOf, Critical, Deciding, Acting
  <2> QED BY <2>1, <2>2, QuietSteady DEF storeVars, cluster
<1> QED
  BY <1>2, <1>3, <1>4
     DEF Begin, ReconcilePodEvent, ReconcilePodSnapshot, ReconcileRetry

\* A container instance is followed by a younger one, which no record names yet.
LEMMA RestartSteady ==
    ASSUME SteadyInv, Inv', NEW p \in Pods, RestartContainer(p) \/ DeletePod(p)
    PROVE  SteadyInv'
<1>1. WorkerTypeOK /\ ClusterTypeOK /\ StoreTypeOK
  BY DEF SteadyInv, Inv, TypeOK
<1>2. /\ UNCHANGED <<mounts, pc, job, spec>>
      /\ \A q \in Pods : q # p => gen'[q] = gen[q] /\ present'[q] = present[q]
      /\ \A c : c <= gen[p] => ~(present'[p] /\ gen'[p] = c)
  BY <1>1 DEF RestartContainer, DeletePod, storeVars, workers, ClusterTypeOK
<1>3. ASSUME NEW k \in Keys
      PROVE  /\ PodOf[k] \in Pods
             /\ PodOf[k] # p => stack'[k] = stack[k]
             /\ PodOf[k] = p /\ k \in spec /\ present'[p] => stack'[k] = <<Foreign>>
  BY <1>1, WrapperAssumption DEF RestartContainer, DeletePod, ClusterTypeOK, FreshStack
<1>4. ASSUME NEW k \in Keys, NEW c, c <= gen[PodOf[k]], NEW r,
             Running(k, c) => OnTop(k, r)
      PROVE  Running(k, c)' => OnTop(k, r)'
  <2>1. CASE PodOf[k] = p
    BY <1>2, <1>4, <2>1 DEF Running
  <2>2. CASE PodOf[k] # p
    BY <1>2, <1>3, <1>4, <2>2 DEF Running, OnTop
  <2> QED BY <2>1, <2>2
<1>5. ASSUME NEW k \in Keys, NEW rec, rec # None => rec.cid <= gen[PodOf[k]],
             NamesSource(k, rec)
      PROVE  NamesSource(k, rec)'
  BY <1>4, <1>5 DEF NamesSource
<1>6. ASSUME NEW k \in Keys PROVE SteadyTarget(k)'
  <2>1. SteadyTarget(k) /\ (mounts[k] # None => mounts[k].cid <= gen[PodOf[k]])
    BY DEF SteadyInv, Inv, TargetInv, Truthful
  <2>2. PICK rec : rec = mounts[k]
    OBVIOUS
  <2>3. NamesSource(k, rec)'
    BY <1>5, <2>1, <2>2 DEF SteadyTarget
  <2>4. NamesSource(k, mounts[k])'
    BY <1>2, <2>2, <2>3 DEF NamesSource
  <2>5. k \in spec' \cap Straight /\ present'[PodOf[k]]
        => stack'[k] = <<Foreign>>
    BY <1>2, <1>3, <2>1 DEF SteadyTarget
  <2>6. (HasContainer(mounts[k]) \/ Pending(k))'
    BY <1>2, <2>1 DEF SteadyTarget, HasContainer, Pending
  <2> QED BY <2>4, <2>5, <2>6 DEF SteadyTarget
<1>7. ASSUME NEW w \in Workers PROVE SteadyOf(w)'
  <2>1. SteadyOf(w) /\ pc'[w] = pc[w] /\ job'[w] = job[w]
    BY <1>2 DEF SteadyInv
  <2>2. CASE pc[w] \notin Critical
    BY <2>1, <2>2 DEF SteadyOf, Critical
  <2>3. CASE pc[w] \in Critical
    <3>1. PICK k \in Keys : k = job[w].key
      BY <2>3, AtWork, StepNames DEF SteadyInv
    <3>2. PICK rec : rec = job[w].prev
      OBVIOUS
    <3>3. /\ job[w].cid <= gen[PodOf[k]]
          /\ rec # None => rec.cid <= gen[PodOf[k]]
      BY <2>3, <3>1, <3>2, StepNames DEF SteadyInv, Inv, WorkerInv
    <3>4. HasContainer(rec) /\ NamesSource(k, rec)
      BY <2>1, <2>3, <3>1, <3>2 DEF SteadyOf
    <3>5. NamesSource(k, rec)'
      BY <1>5, <3>3, <3>4
    <3>6. PICK c, r : c = job[w].cid /\ r = job[w].req
      OBVIOUS
    <3>7. pc[w] = "record" /\ k \in Straight => (Running(k, c)' => OnTop(k, r)')
      BY <1>4, <2>1, <3>1, <3>3, <3>6 DEF SteadyOf
    <3>8. /\ HasContainer(job[w].prev)' /\ NamesSource(job[w].key, job[w].prev)'
          /\ pc[w] = "record" /\ job[w].key \in Straight
             => (Running(job[w].key, job[w].cid)'
                 => OnTop(job[w].key, job[w].req)')
      BY <2>1, <3>1, <3>2, <3>4, <3>5, <3>6, <3>7
         DEF HasContainer, NamesSource, Running, OnTop
    <3> QED BY <2>1, <3>8 DEF SteadyOf
  <2> QED BY <2>2, <2>3
<1> QED BY <1>6, <1>7 DEF SteadyInv

\* The reconciler meets no record without a container id, so it never adopts.
LEMMA EnvironmentSteady ==
    ASSUME Steady, SteadyInv, Inv', Environment
    PROVE  SteadyInv'
<1>1. ASSUME NEW p \in Pods, RestartContainer(p) \/ DeletePod(p) PROVE SteadyInv'
  BY <1>1, RestartSteady
<1>2. ASSUME NEW p \in Pods, PublishStatus(p) PROVE SteadyInv'
  <2>1. UNCHANGED <<mounts, stack, gen, present, spec, pc, job>>
    BY <1>2 DEF PublishStatus, storeVars, workers
  <2> QED BY <2>1, QuietSteady
<1>3. ASSUME NEW v \in PVs, AlterPV(v) PROVE SteadyInv'
  <2>1. UNCHANGED <<mounts, stack, gen, present, spec, pc, job>>
    BY <1>3 DEF AlterPV, storeVars, workers
  <2> QED BY <2>1, QuietSteady
<1> QED BY <1>1, <1>2, <1>3, NoFaults DEF Environment

\* At the start there is nothing but the mounts of the Pod spec and those that
\* an earlier release recorded with their container.
LEMMA InitSteady ==
    ASSUME Init
    PROVE  SteadyInv
<1>1. Inv
  BY InitInv
<1>2. ASSUME NEW w \in Workers PROVE SteadyOf(w)
  BY DEF Init, SteadyOf, Critical, Deciding, Acting
<1>3. ASSUME NEW k \in Keys PROVE SteadyTarget(k)
  <2>1. mounts[k] = Loaded(files[k])
    BY DEF Init
  <2>2. CASE files[k] = None /\ stack[k] = FreshStack(k)
    <3>1. mounts[k] = None
      BY <2>1, <2>2 DEF Loaded
    <3> QED BY <2>2, <3>1 DEF SteadyTarget, NamesSource, HasContainer, FreshStack
  <2>3. ASSUME NEW r \in Requests, Upgraded(k, r) PROVE SteadyTarget(k)
    <3>1. files[k] \in Records /\ files[k] # None
      BY <2>3, LegacyType, WrapperAssumption, NoneAssumption DEF Upgraded
    <3>4. files[k].req = r /\ files[k].cid = 1
      BY <2>3 DEF Upgraded, LegacyRecord
    <3>2. mounts[k].req = r /\ mounts[k].cid = 1
      BY <2>1, <3>1, <3>4 DEF Loaded, Records
    <3>3. OnTop(k, r) /\ k \notin spec
      <4> DEFINE layer == [req |-> r, root |-> IsExportRoot(r), fp |-> NoKey]
      <4>1. layer \in OwnLayers /\ layer.req = r
        BY DEF OwnLayers, IsExportRoot, Fingerprints, Init
      <4>2. stack[k] = <<layer>> /\ k \notin spec
        BY <2>3 DEF Upgraded
      <4> HIDE DEF layer
      <4>3. layer # Foreign
        BY <4>1, WrapperAssumption
      <4> QED BY <4>1, <4>2, <4>3 DEF OnTop
    <3> QED BY <3>2, <3>3 DEF SteadyTarget, NamesSource, HasContainer, NoContainer
  <2> QED BY <2>2, <2>3 DEF Init
<1> QED BY <1>1, <1>2, <1>3 DEF SteadyInv

LEMMA NextSteady ==
    ASSUME Steady, SteadyInv, [Next]_vars
    PROVE  SteadyInv'
<1>1. Inv'
  BY NextInv DEF SteadyInv
<1>2. CASE UNCHANGED vars
  <2>1. UNCHANGED <<mounts, stack, gen, present, spec, pc, job>>
    BY <1>2 DEF vars, storeVars, workers, cluster
  <2> QED BY <1>1, <2>1, QuietSteady
<1>3. ASSUME NEW w \in Workers, Begin(w) PROVE SteadyInv'
  BY <1>1, <1>3, BeginSteady
<1>4. ASSUME NEW w \in Workers, Enter(w) PROVE SteadyInv'
  BY <1>1, <1>4, MountAdmitSteady, UnmountAdmitSteady, ReconcileAdmitSteady,
     ReconcileStaleSteady DEF Enter
<1>5. ASSUME NEW w \in Workers, Advance(w) PROVE SteadyInv'
  <2>1. ~ReconcileProbe(w)
    BY DEF ReconcileProbe, SteadyInv, SteadyOf
  <2> QED
    BY <1>1, <1>5, <2>1, MountProbeSteady, MountIntentSteady, MountRestoreSteady,
       NodeCheckSteady, NodeAttachSteady, RecordSteady, UnmountSteady DEF Advance
<1>6. CASE Environment
  BY <1>1, <1>6, EnvironmentSteady
<1> QED BY <1>2, <1>3, <1>4, <1>5, <1>6 DEF Next

LEMMA SteadyHolds ==
    ASSUME Steady
    PROVE  Spec => []SteadyInv
<1>1. Init => SteadyInv
  BY InitSteady
<1>2. SteadyInv /\ [Next]_vars => SteadyInv'
  BY NextSteady
<1> QED BY <1>1, <1>2, PTL DEF Spec

\* What is under a mount of the Pod spec: the wrapper attaches nothing on top
\* of it, and unmounts only what a record of the running container names.
LEMMA ForeignStep ==
    ASSUME SteadyInv, [Next]_vars, NEW k \in spec \cap Straight,
           present'[PodOf[k]], gen'[PodOf[k]] = gen[PodOf[k]]
    PROVE  stack'[k] = stack[k]
<1> SUFFICES ASSUME stack'[k] # stack[k] PROVE FALSE
  OBVIOUS
<1>1. /\ Inv /\ WorkerTypeOK /\ ClusterTypeOK /\ k \in Keys
      /\ PodOf[k] \in Pods /\ gen[PodOf[k]] \in Nat
  BY WrapperAssumption DEF SteadyInv, Inv, TypeOK, ClusterTypeOK
<1>2. stack' # stack
  OBVIOUS
<1>3. ASSUME NEW p \in Pods, RestartContainer(p) PROVE FALSE
  <2>1. PodOf[k] # p
    BY <1>1, <1>3 DEF RestartContainer, ClusterTypeOK
  <2> QED BY <1>1, <1>3, <2>1 DEF RestartContainer
<1>4. ASSUME NEW p \in Pods, DeletePod(p) PROVE FALSE
  <2>1. PodOf[k] # p
    BY <1>1, <1>4 DEF DeletePod, ClusterTypeOK
  <2> QED BY <1>1, <1>4, <2>1 DEF DeletePod
<1>5. ASSUME NEW w \in Workers, job[w].key = k, Running(k, job[w].cid)
      PROVE  stack[k] = <<Foreign>> /\ stack[k][1] = Foreign /\ stack[k] # <<>>
  BY <1>1, <1>5 DEF Running, SteadyInv, SteadyTarget
<1>6. ASSUME NEW w \in Workers, NodeAttach(w) PROVE FALSE
  <2> DEFINE layer == [req |-> job[w].req, root |-> job[w].root,
                       fp |-> KeyBehind(w)]
  <2>1. /\ pc[w] = "node_attach" /\ Running(job[w].key, job[w].cid)
        /\ stack' = [stack EXCEPT ![Place[job[w].key]] = <<layer>> \o @]
        /\ job[w].key \in Keys
    BY <1>1, <1>2, <1>6, AtWork DEF NodeAttach, Done
  <2> HIDE DEF layer
  <2>2. job[w].key = k
    BY <1>1, <2>1, StraightPlace DEF ClusterTypeOK
  <2>3. pc[w] \notin Done /\ WorkerInv(w)
    BY <1>1, <2>1 DEF Done, Inv
  <2> QED BY <1>5, <2>1, <2>2, <2>3 DEF WorkerInv, IsMountPoint
<1>7. ASSUME NEW w \in Workers, UnmountNode(w) PROVE FALSE
  <2>1. /\ pc[w] = "unmount_node" /\ Running(job[w].key, job[w].cid)
        /\ stack' = [stack EXCEPT ![job[w].key] = Tail(@)]
    BY <1>2, <1>7 DEF UnmountNode
  <2>2. job[w].key = k
    BY <1>1, <2>1 DEF ClusterTypeOK
  <2>3. pc[w] \in Critical /\ SteadyOf(w)
    BY <2>1 DEF Critical, SteadyInv
  <2>4. OnTop(k, job[w].prev.req)
    BY <2>1, <2>2, <2>3 DEF SteadyOf, NamesSource
  <2> QED BY <1>5, <2>1, <2>2, <2>4 DEF OnTop
<1> QED BY <1>2, <1>3, <1>4, <1>6, <1>7, StackMovers

\* In a process that neither crashes nor fails to write state, a record of the
\* running container tells what is mounted there.
THEOREM RecordsNameTheirSource ==
    ASSUME Steady
    PROVE  Spec => []RecordNamesSource
<1>1. SteadyInv => RecordNamesSource
  BY DEF SteadyInv, SteadyTarget, NamesSource, OnTop, RecordNamesSource,
         Straight
<1> QED BY <1>1, SteadyHolds, PTL

\* Such a process neither adopts nor unmounts what the Pod spec mounted.
THEOREM SpecMountsAreLeftAlone ==
    ASSUME Steady
    PROVE  Spec => ForeignUntouched
<1>1. SteadyInv /\ [Next]_vars
      => [\A k \in spec \cap Straight :
             /\ present'[PodOf[k]]
             /\ gen'[PodOf[k]] = gen[PodOf[k]]
             => stack'[k] = stack[k]]_vars
  BY ForeignStep
<1> QED BY <1>1, SteadyHolds, PTL DEF Spec, ForeignUntouched

=============================================================================
