---------------------------- MODULE WrapperProofs ----------------------------
(***************************************************************************)
(* Proofs about the desired-mount store and the wrapper.  First, every     *)
(* operation of the store keeps the types and the Pod index, whatever the  *)
(* outcome; then, so does every action of the wrapper; and last, Inv is    *)
(* inductive: records never claim a mount that is not there, nor do mounts *)
(* ever stack.                                                             *)
(*                                                                         *)
(* The argument for Inv: a worker changes at most one target, and only     *)
(* while it holds, or takes and releases, that target's mutex (Touches).   *)
(* Then no other worker is in a critical step on that target, so what the  *)
(* others know stays true (TouchesKeepsInv), and each action has to be     *)
(* checked only against its own worker and its own target.                 *)
(***************************************************************************)
EXTENDS Wrapper, TLAPS

-----------------------------------------------------------------------------
(* The store.                                                              *)

\* Writing a record, or loading one, gives a record again.
LEMMA WrittenType ==
    ASSUME NEW r \in Records
    PROVE  Written(r) \in Records /\ Loaded(r) \in Records
BY DEF Written, Loaded, Records, Fingerprints

\* The content of a version 1 file is a record.
LEMMA LegacyType ==
    ASSUME NEW p \in Pods, NEW r \in Requests
    PROVE  LegacyRecord(p, r, 1) \in Records
<1>1. 1 \in NoContainer..MaxGen
  BY StoreAssumption DEF NoContainer
<1> QED BY <1>1 DEF LegacyRecord, Records, Fingerprints

\* The index without one key.
LEMMA UnindexedType ==
    ASSUME StoreTypeOK, NEW k \in Keys
    PROVE  Unindexed(k) \in [Pods -> SUBSET Keys]
BY NoneAssumption DEF StoreTypeOK, Unindexed, Records

\* A Put that returned nil keeps the types and the index.
LEMMA PutOKStore ==
    ASSUME StoreTypeOK, IndexExact, NEW k \in Keys, NEW r \in Records,
           PutOK(k, r)
    PROVE  StoreTypeOK' /\ IndexExact'
<1>1. Written(r) \in Records /\ r # None
  BY WrittenType, NoneAssumption
<1>2. Unindexed(k) \in [Pods -> SUBSET Keys] /\ r.pod \in Pods
  BY UnindexedType DEF Records
<1>3. StoreTypeOK'
  BY <1>1, <1>2 DEF StoreTypeOK, PutOK, writeMount, putInMemory
<1>4. ASSUME NEW p \in Pods, NEW i \in Keys
      PROVE  (i \in byPod[p] <=> mounts[i] # None /\ mounts[i].pod = p)'
  <2>1. i \in Unindexed(k)[p] <=> i # k /\ i \in byPod[p]
    BY NoneAssumption DEF StoreTypeOK, IndexExact, Unindexed, Records
  <2>2. i \in byPod'[p] <=> i \in Unindexed(k)[p] \/ (i = k /\ p = r.pod)
    BY <1>2 DEF PutOK, putInMemory
  <2>3. mounts'[i] = IF i = k THEN r ELSE mounts[i]
    BY DEF PutOK, putInMemory, StoreTypeOK
  <2> QED BY <1>1, <2>1, <2>2, <2>3 DEF IndexExact
<1> QED BY <1>3, <1>4 DEF IndexExact

\* A Put that failed keeps them too, whether or not the file changed.
LEMMA PutFailsStore ==
    ASSUME StoreTypeOK, IndexExact, NEW k \in Keys, NEW r \in Records,
           PutFails(k, r)
    PROVE  StoreTypeOK' /\ IndexExact'
<1>1. Written(r) \in Records
  BY WrittenType
<1> QED BY <1>1 DEF StoreTypeOK, IndexExact, PutFails, writeMount

\* A Delete that returned nil, of a known key or of an unknown one.
LEMMA DeleteOKStore ==
    ASSUME StoreTypeOK, IndexExact, NEW k \in Keys, DeleteOK(k)
    PROVE  StoreTypeOK' /\ IndexExact'
<1>1. CASE mounts[k] = None
  BY <1>1 DEF DeleteOK, storeVars, StoreTypeOK, IndexExact
<1>2. CASE mounts[k] # None
  <2>1. StoreTypeOK'
    BY <1>2, UnindexedType DEF DeleteOK, deleteInMemory, StoreTypeOK
  <2>2. ASSUME NEW p \in Pods, NEW i \in Keys
        PROVE  (i \in byPod[p] <=> mounts[i] # None /\ mounts[i].pod = p)'
    <3>1. i \in Unindexed(k)[p] <=> i # k /\ i \in byPod[p]
      BY NoneAssumption DEF StoreTypeOK, IndexExact, Unindexed, Records
    <3>2. mounts'[i] = IF i = k THEN None ELSE mounts[i]
      BY <1>2 DEF DeleteOK, deleteInMemory, StoreTypeOK
    <3>3. byPod' = Unindexed(k)
      BY <1>2 DEF DeleteOK, deleteInMemory
    <3> QED BY <3>1, <3>2, <3>3 DEF IndexExact
  <2> QED BY <2>1, <2>2 DEF IndexExact
<1> QED BY <1>1, <1>2

LEMMA DeleteFailsStore ==
    ASSUME StoreTypeOK, IndexExact, NEW k \in Keys, DeleteFails(k)
    PROVE  StoreTypeOK' /\ IndexExact'
BY DEF StoreTypeOK, IndexExact, DeleteFails

\* The map and the index that newFileMountStateStore builds from typed files.
LEMMA LoadedStore ==
    ASSUME NEW f \in [Keys -> Records \cup {None}],
           NEW m, m = [k \in Keys |-> Loaded(f[k])],
           NEW b, b = [p \in Pods |-> {k \in Keys : f[k] # None /\ f[k].pod = p}]
    PROVE  /\ m \in [Keys -> Records \cup {None}]
           /\ b \in [Pods -> SUBSET Keys]
           /\ \A p \in Pods, k \in Keys :
                 k \in b[p] <=> m[k] # None /\ m[k].pod = p
<1>1. ASSUME NEW k \in Keys
      PROVE  /\ Loaded(f[k]) \in Records \cup {None}
             /\ Loaded(f[k]) = None <=> f[k] = None
             /\ f[k] # None => Loaded(f[k]).pod = f[k].pod
  <2>1. CASE f[k] = None
    BY <2>1 DEF Loaded
  <2>2. CASE f[k] \in Records
    <3>1. Loaded(f[k]) \in Records /\ f[k] # None /\ Loaded(f[k]) # None
      BY <2>2, WrittenType, NoneAssumption
    <3>2. Loaded(f[k]).pod = f[k].pod
      BY <2>2 DEF Loaded, Records
    <3> QED BY <3>1, <3>2
  <2> QED BY <2>1, <2>2
<1> QED BY <1>1

LEMMA LoadStore ==
    ASSUME StoreTypeOK, Load
    PROVE  StoreTypeOK' /\ IndexExact'
<1>1. /\ mounts' \in [Keys -> Records \cup {None}]
      /\ byPod' \in [Pods -> SUBSET Keys]
      /\ \A p \in Pods, k \in Keys :
            k \in byPod'[p] <=> mounts'[k] # None /\ mounts'[k].pod = p
  BY LoadedStore DEF StoreTypeOK, Load
<1> QED BY <1>1 DEF StoreTypeOK, IndexExact, Load

\* The Pod index is exact in every reachable state of the store: after any
\* mixture of puts that move a key between Pods, deletes, errors before and
\* after the file changed, and reloads.
THEOREM StoreIndexExact == StoreSpec => [](StoreTypeOK /\ IndexExact)
<1>1. StoreInit => StoreTypeOK /\ IndexExact
  <2> SUFFICES ASSUME StoreInit PROVE StoreTypeOK /\ IndexExact
    OBVIOUS
  <2>1. files \in [Keys -> Records \cup {None}]
    BY LegacyType DEF StoreInit
  <2> QED BY <2>1, LoadedStore DEF StoreInit, StoreTypeOK, IndexExact
<1>2. StoreTypeOK /\ IndexExact /\ [StoreNext]_storeVars
      => (StoreTypeOK /\ IndexExact)'
  <2> SUFFICES ASSUME StoreTypeOK, IndexExact, [StoreNext]_storeVars
               PROVE  StoreTypeOK' /\ IndexExact'
    OBVIOUS
  <2>1. ASSUME NEW k \in Keys, Delete(k) PROVE StoreTypeOK' /\ IndexExact'
    BY <2>1, DeleteOKStore, DeleteFailsStore DEF Delete
  <2>2. ASSUME NEW k \in Keys, NEW r \in Records, Put(k, r)
        PROVE  StoreTypeOK' /\ IndexExact'
    BY <2>2, PutOKStore, PutFailsStore DEF Put
  <2>3. CASE Load
    BY <2>3, LoadStore
  <2>4. CASE UNCHANGED storeVars
    BY <2>4 DEF storeVars, StoreTypeOK, IndexExact
  <2> QED BY <2>1, <2>2, <2>3, <2>4 DEF StoreNext
<1> QED BY <1>1, <1>2, PTL DEF StoreSpec

\* Version 1 files never carry a root classification or a fingerprint: no
\* write produces one.
LegacyPlain ==
    \A k \in Keys : files[k] # None /\ files[k].legacy
                    => files[k].root = FALSE /\ files[k].fp = NoKey

\* Writing the same record again, or loading what was written, changes
\* nothing but the legacy flag.
LEMMA WrittenTwice ==
    ASSUME NEW r \in Records
    PROVE  /\ Written(Written(r)) = Written(r) /\ Written(r) # None
           /\ Written(r).legacy = FALSE
           /\ (r.legacy => r.root = FALSE /\ r.fp = NoKey)
              => Written(Loaded(r)) = Written(r)
<1>1. Written(r) # None
  BY WrittenType, NoneAssumption
<1>2. Written(Written(r)) = Written(r) /\ Written(r).legacy = FALSE
  BY DEF Written, Records
<1>3. ASSUME r.legacy => r.root = FALSE /\ r.fp = NoKey
      PROVE  Loaded(r) = r
  BY <1>3 DEF Loaded, Records
<1> QED BY <1>1, <1>2, <1>3

\* The map never runs ahead of the files, for any callers and any errors.
THEOREM StoreMemoryFollowsDisk == StoreSpec => MemoryFollowsDisk
<1> DEFINE A == \A k \in Keys :
                   mounts'[k] # mounts[k] => SameOnDisk(mounts'[k], files'[k])
<1>1. StoreInit => LegacyPlain
  <2> SUFFICES ASSUME StoreInit, NEW k \in Keys, files[k] # None
               PROVE  files[k].root = FALSE /\ files[k].fp = NoKey
    BY DEF LegacyPlain
  <2> QED BY DEF StoreInit, LegacyRecord
<1>2. StoreTypeOK /\ LegacyPlain /\ [StoreNext]_storeVars => LegacyPlain' /\ A
  <2> SUFFICES ASSUME StoreTypeOK, LegacyPlain, [StoreNext]_storeVars
               PROVE  LegacyPlain' /\ A
    OBVIOUS
  <2>1. ASSUME NEW k \in Keys, Delete(k) PROVE LegacyPlain' /\ A
    <3>1. /\ \A i \in Keys \ {k} : mounts'[i] = mounts[i] /\ files'[i] = files[i]
          /\ files'[k] \in {files[k], None}
          /\ mounts'[k] # mounts[k] => mounts'[k] = None /\ files'[k] = None
      BY <2>1 DEF Delete, DeleteOK, DeleteFails, deleteInMemory, StoreTypeOK,
                  storeVars
    <3> QED BY <3>1 DEF LegacyPlain, SameOnDisk
  <2>2. ASSUME NEW k \in Keys, NEW r \in Records, Put(k, r)
        PROVE  LegacyPlain' /\ A
    <3>1. /\ \A i \in Keys \ {k} : mounts'[i] = mounts[i] /\ files'[i] = files[i]
          /\ files'[k] \in {files[k], Written(r)}
          /\ mounts'[k] # mounts[k] => mounts'[k] = r /\ files'[k] = Written(r)
      BY <2>2 DEF Put, PutOK, PutFails, writeMount, putInMemory, StoreTypeOK
    <3>2. Written(r).legacy = FALSE /\ r # None /\ Written(r) # None
          /\ Written(Written(r)) = Written(r)
      BY WrittenTwice, NoneAssumption
    <3> QED BY <3>1, <3>2 DEF LegacyPlain, SameOnDisk
  <2>3. CASE Load
    <3>1. ASSUME NEW k \in Keys PROVE SameOnDisk(Loaded(files[k]), files[k])
      <4>1. CASE files[k] = None
        BY <4>1 DEF Loaded, SameOnDisk
      <4>2. CASE files[k] \in Records
        <5>1. Loaded(files[k]) # None /\ files[k] # None
          BY <4>2, WrittenType, NoneAssumption
        <5>2. Written(Loaded(files[k])) = Written(files[k])
          BY <4>2, <5>1, WrittenTwice DEF LegacyPlain
        <5> QED BY <5>1, <5>2 DEF SameOnDisk
      <4> QED BY <4>1, <4>2 DEF StoreTypeOK
    <3>2. files' = files /\ \A k \in Keys : mounts'[k] = Loaded(files[k])
      BY <2>3 DEF Load
    <3> QED BY <3>1, <3>2 DEF LegacyPlain
  <2>4. CASE UNCHANGED storeVars
    BY <2>4 DEF storeVars, LegacyPlain
  <2> QED BY <2>1, <2>2, <2>3, <2>4 DEF StoreNext
<1> QED BY <1>1, <1>2, StoreIndexExact, PTL DEF StoreSpec, MemoryFollowsDisk

-----------------------------------------------------------------------------
(* Types of the workers.                                                   *)

\* The steps of a worker, answered or not, are different.
LEMMA StepNames ==
    /\ Done \cap Critical = {}
    /\ Done \cap Waiting = {}
    /\ Critical \cap Waiting = {}
BY DEF Done, Critical, Waiting

\* A worker takes up or keeps a job.
LEMMA WorkType ==
    ASSUME WorkerTypeOK, NEW w \in Workers, NEW j \in Jobs,
           NEW step \in Critical \cup Waiting,
           step = "mount_probe" => j.prev # None,
           pc' = [pc EXCEPT ![w] = step], job' = [job EXCEPT ![w] = j],
           lock' \in [Stripes -> Workers \cup {None}]
    PROVE  WorkerTypeOK'
<1>1. j # None
  BY WrapperAssumption
<1>2. step \notin Done
  BY StepNames
<1> QED BY <1>1, <1>2 DEF WorkerTypeOK

\* A worker goes on to another step with the same job.
LEMMA GotoType ==
    ASSUME WorkerTypeOK, NEW w \in Workers, NEW step \in Critical \cup Waiting,
           step # "mount_probe", pc[w] \notin Done, Goto(w, step)
    PROVE  WorkerTypeOK'
<1>1. step \notin Done
  BY StepNames
<1> QED BY <1>1 DEF WorkerTypeOK, Goto

\* A worker answers.
LEMMA AnswerType ==
    ASSUME WorkerTypeOK, NEW w \in Workers, NEW result \in Done,
           Answer(w, result), lock' \in [Stripes -> Workers \cup {None}]
    PROVE  WorkerTypeOK'
<1>1. "idle" \in Done /\ "mount_probe" \notin Done
  BY DEF Done
<1> QED BY <1>1 DEF WorkerTypeOK, Answer

LEMMA ReplyType ==
    ASSUME WorkerTypeOK, NEW w \in Workers, NEW result \in Done,
           Reply(w, result)
    PROVE  WorkerTypeOK'
BY AnswerType DEF Reply, WorkerTypeOK

LEMMA UnlockType ==
    ASSUME WorkerTypeOK, NEW w \in Workers, NEW result \in Done,
           Unlock(w, result)
    PROVE  WorkerTypeOK'
<1>1. lock' \in [Stripes -> Workers \cup {None}]
  BY DEF Unlock, WorkerTypeOK
<1> QED BY <1>1, AnswerType DEF Unlock

\* The lock table after one worker took a target.
LEMMA AcquireType ==
    ASSUME WorkerTypeOK, NEW w \in Workers, NEW k \in Keys, Acquire(w, k)
    PROVE  lock' \in [Stripes -> Workers \cup {None}]
BY DEF WorkerTypeOK, Acquire

\* The job of a worker that is at work.
LEMMA JobType ==
    ASSUME WorkerTypeOK, NEW w \in Workers, pc[w] \notin Done
    PROVE  /\ job[w] \in Jobs
           /\ job[w].key \in Keys
           /\ job[w].req \in Requests
           /\ job[w].root \in BOOLEAN
           /\ job[w].fp \in Fingerprints
           /\ job[w].cid \in NoContainer..MaxGen
           /\ job[w].prev \in Records \cup {None}
<1>1. job[w] \in Jobs
  BY DEF WorkerTypeOK
<1> QED BY <1>1 DEF Jobs

\* The records that the workers write.
LEMMA DesiredType ==
    ASSUME NEW j \in Jobs
    PROVE  Desired(j) \in Records /\ Installed(j) \in Records
<1>1. /\ PodOf[j.key] \in Pods /\ j.req \in Requests /\ j.root \in BOOLEAN
      /\ j.fp \in Fingerprints /\ j.cid \in NoContainer..MaxGen
  BY WrapperAssumption DEF Jobs
<1>2. NoContainer \in NoContainer..MaxGen
  BY StoreAssumption DEF NoContainer
<1>3. Desired(j) \in Records
  BY <1>1, <1>2 DEF Desired, Records
<1>4. Installed(j) \in Records
  BY <1>1, <1>3 DEF Installed, Records
<1> QED BY <1>3, <1>4

\* Changing the fingerprint or the container id of a record.
LEMMA FingerprintUpdate ==
    ASSUME NEW r \in Records, NEW fp \in Fingerprints
    PROVE  /\ [r EXCEPT !.fp = fp] \in Records
           /\ [r EXCEPT !.fp = fp].cid = r.cid
           /\ [r EXCEPT !.fp = fp].pod = r.pod
BY DEF Records

LEMMA ContainerUpdate ==
    ASSUME NEW r \in Records, NEW c \in NoContainer..MaxGen
    PROVE  /\ [r EXCEPT !.cid = c] \in Records
           /\ [r EXCEPT !.cid = c].cid = c
           /\ [r EXCEPT !.cid = c].pod = r.pod
BY DEF Records

-----------------------------------------------------------------------------
(* Every action keeps the types and the Pod index.                         *)

Base == TypeOK /\ IndexExact

\* One store operation.
LEMMA PutBase ==
    ASSUME Base, NEW k \in Keys, NEW r \in Records, PutOK(k, r) \/ PutFails(k, r)
    PROVE  StoreTypeOK' /\ IndexExact'
BY PutOKStore, PutFailsStore DEF Base, TypeOK

LEMMA DeleteBase ==
    ASSUME Base, NEW k \in Keys, DeleteOK(k) \/ DeleteFails(k)
    PROVE  StoreTypeOK' /\ IndexExact'
BY DeleteOKStore, DeleteFailsStore DEF Base, TypeOK

LEMMA StoreStutter ==
    ASSUME Base, UNCHANGED storeVars
    PROVE  StoreTypeOK' /\ IndexExact'
BY DEF Base, TypeOK, storeVars, StoreTypeOK, IndexExact

LEMMA ClusterStutter ==
    ASSUME Base, UNCHANGED <<cluster, stack>>
    PROVE  ClusterTypeOK'
BY DEF Base, TypeOK, cluster, ClusterTypeOK

LEMMA MountAuthorizeBase ==
    ASSUME Base, NEW w \in Workers, NEW k \in Keys, NEW r \in Requests,
           NEW provided \in Fingerprints, MountAuthorize(w, k, r, provided)
    PROVE  Base'
<1>1. StoreTypeOK' /\ IndexExact' /\ ClusterTypeOK'
  BY StoreStutter, ClusterStutter DEF MountAuthorize, storeVars
<1>2. WorkerTypeOK /\ lock' = lock
  BY DEF Base, TypeOK, MountAuthorize
<1>3. CASE pc' = [pc EXCEPT ![w] = "failed"] /\ UNCHANGED job
  <2>1. "failed" \in Done /\ pc[w] \in Done
    BY DEF MountAuthorize, Idle, Done
  <2> QED BY <1>2, <1>1, <1>3, <2>1 DEF WorkerTypeOK, Base, TypeOK
<1>4. CASE ~(pc' = [pc EXCEPT ![w] = "failed"] /\ UNCHANGED job)
  <2> DEFINE j == [key |-> k, req |-> r, root |-> IsExportRoot(r),
                   fp |-> AuthorizedFingerprint(r), cid |-> status[PodOf[k]],
                   prev |-> None,
                   shown |-> IF NeedsKey(r) THEN provided ELSE NoKey]
  <2>1. status[PodOf[k]] \in NoContainer..MaxGen
    <3>1. status[PodOf[k]] \in 1..MaxGen
      BY WrapperAssumption DEF Base, TypeOK, ClusterTypeOK
    <3> QED BY <3>1, StoreAssumption DEF NoContainer
  <2>2. IsExportRoot(r) \in BOOLEAN
    BY DEF IsExportRoot
  <2>3. AuthorizedFingerprint(r) \in Fingerprints
    BY DEF AuthorizedFingerprint, Fingerprints, Base, TypeOK, ClusterTypeOK
  <2>9. (IF NeedsKey(r) THEN provided ELSE NoKey) \in Fingerprints
    BY DEF Fingerprints
  <2>4. j \in Jobs
    BY <2>1, <2>2, <2>3, <2>9 DEF Jobs
  <2>5. /\ pc' = [pc EXCEPT ![w] = "mount_lock"]
        /\ job' = [job EXCEPT ![w] = j]
    BY <1>4 DEF MountAuthorize
  <2>6. "mount_lock" \in Critical \cup Waiting
    BY DEF Waiting
  <2>7. lock' \in [Stripes -> Workers \cup {None}]
    BY <1>2 DEF WorkerTypeOK
  <2>8. WorkerTypeOK'
    BY <1>2, <2>4, <2>5, <2>6, <2>7, WorkType
  <2> QED BY <1>1, <2>8 DEF Base, TypeOK
<1> QED BY <1>3, <1>4

LEMMA UnmountAuthorizeBase ==
    ASSUME Base, NEW w \in Workers, NEW k \in Keys, NEW v \in PVs,
           UnmountAuthorize(w, k, v)
    PROVE  Base'
<1>1. StoreTypeOK' /\ IndexExact' /\ ClusterTypeOK'
  BY StoreStutter, ClusterStutter DEF UnmountAuthorize, storeVars
<1>2. WorkerTypeOK /\ lock' = lock
  BY DEF Base, TypeOK, UnmountAuthorize
<1>3. CASE pc' = [pc EXCEPT ![w] = "failed"] /\ UNCHANGED job
  <2>1. "failed" \in Done /\ pc[w] \in Done
    BY DEF UnmountAuthorize, Idle, Done
  <2> QED BY <1>2, <1>1, <1>3, <2>1 DEF WorkerTypeOK, Base, TypeOK
<1>4. CASE ~(pc' = [pc EXCEPT ![w] = "failed"] /\ UNCHANGED job)
  <2> DEFINE j == [key |-> k, req |-> [pv |-> v, sub |-> NoSubPath],
                   root |-> FALSE, fp |-> NoKey, cid |-> status[PodOf[k]],
                   prev |-> None, shown |-> NoKey]
  <2>1. status[PodOf[k]] \in NoContainer..MaxGen
    <3>1. status[PodOf[k]] \in 1..MaxGen
      BY WrapperAssumption DEF Base, TypeOK, ClusterTypeOK
    <3> QED BY <3>1, StoreAssumption DEF NoContainer
  <2>2. [pv |-> v, sub |-> NoSubPath] \in Requests
    BY StoreAssumption DEF Requests
  <2>3. j \in Jobs
    BY <2>1, <2>2 DEF Jobs, Fingerprints
  <2>4. /\ pc' = [pc EXCEPT ![w] = "unmount_lock"]
        /\ job' = [job EXCEPT ![w] = j]
    BY <1>4 DEF UnmountAuthorize
  <2>5. "unmount_lock" \in Critical \cup Waiting
    BY DEF Waiting
  <2>6. lock' \in [Stripes -> Workers \cup {None}]
    BY <1>2 DEF WorkerTypeOK
  <2>7. WorkerTypeOK'
    BY <1>2, <2>3, <2>4, <2>5, <2>6, WorkType
  <2> QED BY <1>1, <2>7 DEF Base, TypeOK
<1> QED BY <1>3, <1>4

LEMMA ObserveBase ==
    ASSUME Base, NEW w \in Workers, NEW k \in Keys,
           NEW v \in NoContainer..MaxGen, NEW step \in Waiting,
           Observe(w, k, v, step)
    PROVE  Base'
<1>1. StoreTypeOK' /\ IndexExact' /\ ClusterTypeOK'
  BY StoreStutter, ClusterStutter DEF Observe, storeVars
<1>2. WorkerTypeOK /\ lock' \in [Stripes -> Workers \cup {None}]
  BY DEF Base, TypeOK, Observe, WorkerTypeOK
<1> DEFINE j == [key |-> k, req |-> mounts[k].req, root |-> mounts[k].root,
                 fp |-> mounts[k].fp, cid |-> v, prev |-> mounts[k],
                 shown |-> NoKey]
<1>3. mounts[k] \in Records
  BY DEF Observe, Base, TypeOK, StoreTypeOK
<1>4. j \in Jobs
  BY <1>3 DEF Jobs, Records, Fingerprints
<1>5. WorkerTypeOK'
  BY <1>2, <1>4, WorkType DEF Observe
<1> QED BY <1>1, <1>5 DEF Base, TypeOK

LEMMA MountAdmitBase ==
    ASSUME Base, NEW w \in Workers, MountAdmit(w)
    PROVE  Base'
<1> DEFINE j == job[w]
           k == j.key
           prev == mounts[k]
           kept == IF prev = None THEN None ELSE [prev EXCEPT !.fp = j.fp]
           refresh == prev # kept
           proceed == /\ Acquire(w, k)
                      /\ job' = [job EXCEPT ![w].prev = kept]
                      /\ pc' = [pc EXCEPT ![w] =
                           IF prev # None /\ prev.cid \in {NoContainer, j.cid}
                           THEN "mount_probe" ELSE "mount_intent"]
<1>1. pc[w] = "mount_lock" /\ pc[w] \notin Done /\ WorkerTypeOK
  BY DEF MountAdmit, Done, Base, TypeOK
<1>2. /\ j \in Jobs /\ k \in Keys /\ j.fp \in Fingerprints
      /\ prev \in Records \cup {None}
  BY <1>1, JobType DEF Base, TypeOK, StoreTypeOK
<1>3. kept \in Records \cup {None} /\ (refresh => kept \in Records)
  BY <1>2, FingerprintUpdate
<1>4. ClusterTypeOK'
  BY ClusterStutter DEF MountAdmit
<1>5. ASSUME proceed PROVE WorkerTypeOK'
  <2>1. [j EXCEPT !.prev = kept] \in Jobs
    BY <1>2, <1>3 DEF Jobs
  <2>2. job' = [job EXCEPT ![w] = [j EXCEPT !.prev = kept]]
    BY <1>5
  <2>3. PICK step \in Critical :
           /\ pc' = [pc EXCEPT ![w] = step]
           /\ step = "mount_probe" => prev # None
    BY <1>5 DEF Critical
  <2>5. prev # None => kept \in Records
    BY <1>2, FingerprintUpdate
  <2>6. step = "mount_probe" => [j EXCEPT !.prev = kept].prev # None
    BY <1>2, <2>3, <2>5, NoneAssumption DEF Jobs
  <2> HIDE DEF j, k, prev, kept
  <2>4. lock' \in [Stripes -> Workers \cup {None}]
    BY <1>1, <1>2, <1>5, AcquireType
  <2> QED BY <1>1, <2>1, <2>2, <2>3, <2>4, <2>6, WorkType
<1>6. ASSUME Reply(w, "failed") PROVE WorkerTypeOK'
  BY <1>1, <1>6, ReplyType DEF Done
<1>7. \/ Reply(w, "failed") /\ UNCHANGED storeVars
      \/ proceed /\ UNCHANGED storeVars
      \/ refresh /\ PutOK(k, kept) /\ proceed
      \/ refresh /\ PutFails(k, kept) /\ Reply(w, "failed")
  BY DEF MountAdmit, Repeats
<1> HIDE DEF j, k, prev, kept, refresh, proceed
<1>8. StoreTypeOK' /\ IndexExact'
  BY <1>2, <1>3, <1>7, PutBase, StoreStutter
<1> QED BY <1>4, <1>5, <1>6, <1>7, <1>8 DEF Base, TypeOK

LEMMA UnmountAdmitBase ==
    ASSUME Base, NEW w \in Workers, UnmountAdmit(w)
    PROVE  Base'
<1> DEFINE j == job[w]
           k == j.key
           prev == mounts[k]
           proceed == /\ Acquire(w, k)
                      /\ job' = [job EXCEPT ![w].prev = prev]
                      /\ pc' = [pc EXCEPT ![w] = "unmount_probe"]
<1>1. pc[w] \notin Done /\ WorkerTypeOK
  BY DEF UnmountAdmit, Done, Base, TypeOK
<1>2. j \in Jobs /\ k \in Keys /\ prev \in Records \cup {None}
  BY <1>1, JobType DEF Base, TypeOK, StoreTypeOK
<1>3. ClusterTypeOK'
  BY ClusterStutter DEF UnmountAdmit
<1>4. ASSUME proceed PROVE WorkerTypeOK'
  <2>1. [j EXCEPT !.prev = prev] \in Jobs
    BY <1>2 DEF Jobs
  <2>2. job' = [job EXCEPT ![w] = [j EXCEPT !.prev = prev]]
    BY <1>4
  <2>3. "unmount_probe" \in Critical
    BY DEF Critical
  <2> HIDE DEF j, k, prev
  <2>4. lock' \in [Stripes -> Workers \cup {None}]
    BY <1>1, <1>2, <1>4, AcquireType
  <2> QED BY <1>1, <1>4, <2>1, <2>2, <2>3, <2>4, WorkType
<1>5. ASSUME Reply(w, "failed") \/ Reply(w, "ok") PROVE WorkerTypeOK'
  BY <1>1, <1>5, ReplyType DEF Done
<1>6. /\ proceed \/ Reply(w, "failed") \/ Reply(w, "ok")
      /\ UNCHANGED storeVars \/ DeleteOK(k) \/ DeleteFails(k)
  BY DEF UnmountAdmit
<1> HIDE DEF j, k, prev, proceed
<1>7. StoreTypeOK' /\ IndexExact'
  BY <1>2, <1>6, DeleteBase, StoreStutter
<1> QED BY <1>3, <1>4, <1>5, <1>6, <1>7 DEF Base, TypeOK

LEMMA ReconcileAdmitBase ==
    ASSUME Base, NEW w \in Workers, ReconcileAdmit(w)
    PROVE  Base'
<1> DEFINE j == job[w]
           k == j.key
           root == IsExportRoot(j.req)
           fp == IF root /\ exportKey # NoKey THEN j.prev.fp ELSE NoKey
           proceed == /\ mounts[k] = j.prev /\ j.prev # None
                      /\ Acquire(w, k)
                      /\ job' = [job EXCEPT ![w].root = root, ![w].fp = fp]
                      /\ pc' = [pc EXCEPT ![w] =
                                   IF j.prev.cid = NoContainer
                                   THEN "reconcile_probe" ELSE "node_check"]
<1>1. pc[w] \notin Done /\ WorkerTypeOK
  BY DEF ReconcileAdmit, Done, Base, TypeOK
<1>2. j \in Jobs /\ k \in Keys /\ j.prev \in Records \cup {None}
  BY <1>1, JobType
<1>3. StoreTypeOK' /\ IndexExact' /\ ClusterTypeOK'
  BY StoreStutter, ClusterStutter DEF ReconcileAdmit, storeVars
<1>4. ASSUME proceed PROVE WorkerTypeOK'
  <2>1. root \in BOOLEAN /\ fp \in Fingerprints
    BY <1>2, <1>4 DEF IsExportRoot, Fingerprints, Records
  <2>2. [j EXCEPT !.root = root, !.fp = fp] \in Jobs
    BY <1>2, <2>1 DEF Jobs
  <2>3. job' = [job EXCEPT ![w] = [j EXCEPT !.root = root, !.fp = fp]]
    BY <1>1, <1>4 DEF WorkerTypeOK
  <2>4. PICK step \in Critical :
           pc' = [pc EXCEPT ![w] = step] /\ step # "mount_probe"
    BY <1>4 DEF Critical
  <2> HIDE DEF j, k, root, fp
  <2>5. lock' \in [Stripes -> Workers \cup {None}]
    BY <1>1, <1>2, <1>4, AcquireType
  <2> QED BY <1>1, <2>2, <2>3, <2>4, <2>5, WorkType
<1>5. ASSUME Reply(w, "idle") PROVE WorkerTypeOK'
  BY <1>1, <1>5, ReplyType DEF Done
<1>6. ASSUME Goto(w, "stale") PROVE WorkerTypeOK'
  BY <1>1, <1>6, GotoType DEF Waiting
<1>7. Reply(w, "idle") \/ Goto(w, "stale") \/ proceed
  BY DEF ReconcileAdmit, Superseded
<1> QED BY <1>3, <1>4, <1>5, <1>6, <1>7 DEF Base, TypeOK

LEMMA ReconcileStaleBase ==
    ASSUME Base, NEW w \in Workers, ReconcileStale(w)
    PROVE  Base'
<1>1. pc[w] \notin Done /\ WorkerTypeOK
  BY DEF ReconcileStale, Done, Base, TypeOK
<1>2. StoreTypeOK' /\ IndexExact'
  BY <1>1, JobType, DeleteBase, StoreStutter DEF ReconcileStale, Delete
<1>3. ClusterTypeOK'
  BY ClusterStutter DEF ReconcileStale
<1>4. WorkerTypeOK'
  BY <1>1, ReplyType DEF ReconcileStale, Done
<1> QED BY <1>2, <1>3, <1>4 DEF Base, TypeOK

\* A step under the lock that writes nothing but the record of its target.
LEMMA AdvanceBase ==
    ASSUME Base, NEW w \in Workers, Advance(w)
    PROVE  Base'
<1>0. WorkerTypeOK
  BY DEF Base, TypeOK
<1>1. CASE MountProbe(w)
  <2>1. pc[w] \notin Done
    BY <1>1 DEF MountProbe, Done
  <2>2. /\ job[w].key \in Keys /\ job[w].cid \in NoContainer..MaxGen
        /\ job[w].prev \in Records \cup {None}
    BY <1>0, <2>1, JobType
  <2>9. job[w].prev \in Records
    BY <1>0, <1>1, <2>2 DEF MountProbe, WorkerTypeOK
  <2> DEFINE adopted == [job[w].prev EXCEPT !.cid = job[w].cid]
  <2>3. \/ UNCHANGED storeVars
        \/ PutOK(job[w].key, adopted) \/ PutFails(job[w].key, adopted)
    BY <1>1 DEF MountProbe
  <2>4. Unlock(w, "ok") \/ Unlock(w, "failed") \/ Goto(w, "mount_intent")
    BY <1>1 DEF MountProbe
  <2>5. WorkerTypeOK'
    BY <1>0, <2>1, <2>4, UnlockType, GotoType DEF Done, Critical
  <2>6. ClusterTypeOK'
    BY <1>1, ClusterStutter DEF MountProbe
  <2>7. adopted \in Records
    BY <2>2, <2>9, ContainerUpdate
  <2> HIDE DEF adopted
  <2>8. StoreTypeOK' /\ IndexExact'
    BY <2>2, <2>3, <2>7, PutBase, StoreStutter
  <2> QED BY <2>5, <2>6, <2>8 DEF Base, TypeOK
<1>2. CASE MountIntent(w)
  <2>1. pc[w] \notin Done
    BY <1>2 DEF MountIntent, Done
  <2>2. job[w] \in Jobs /\ job[w].key \in Keys
    BY <1>0, <2>1, JobType
  <2>3. StoreTypeOK' /\ IndexExact'
    BY <1>2, <2>2, DesiredType, PutBase DEF MountIntent
  <2>4. WorkerTypeOK'
    BY <1>0, <1>2, <2>1, UnlockType, GotoType DEF MountIntent, Done, Critical
  <2>5. ClusterTypeOK'
    BY <1>2, ClusterStutter DEF MountIntent
  <2> QED BY <2>3, <2>4, <2>5 DEF Base, TypeOK
<1>3. CASE MountRestore(w)
  <2>1. pc[w] \notin Done
    BY <1>3 DEF MountRestore, Done
  <2>2. job[w].key \in Keys /\ job[w].prev \in Records \cup {None}
    BY <1>0, <2>1, JobType
  <2>3. StoreTypeOK' /\ IndexExact'
    BY <1>3, <2>2, PutBase, DeleteBase DEF MountRestore, Put, Delete
  <2>4. WorkerTypeOK'
    BY <1>0, <1>3, UnlockType DEF MountRestore, Done
  <2>5. ClusterTypeOK'
    BY <1>3, ClusterStutter DEF MountRestore
  <2> QED BY <2>3, <2>4, <2>5 DEF Base, TypeOK
<1>4. CASE NodeCheck(w)
  <2>1. pc[w] \notin Done
    BY <1>4 DEF NodeCheck, Done
  <2>2. StoreTypeOK' /\ IndexExact' /\ ClusterTypeOK'
    BY <1>4, StoreStutter, ClusterStutter DEF NodeCheck, storeVars
  <2>3. Goto(w, "node_attach") \/ Goto(w, "restore") \/ Unlock(w, "failed")
    BY <1>4 DEF NodeCheck, NodeFails
  <2>4. WorkerTypeOK'
    BY <1>0, <2>1, <2>3, UnlockType, GotoType DEF Done, Critical
  <2> QED BY <2>2, <2>4 DEF Base, TypeOK
<1>5. CASE NodeAttach(w)
  <2>1. pc[w] \notin Done
    BY <1>5 DEF NodeAttach, Done
  <2>2. StoreTypeOK' /\ IndexExact'
    BY <1>5, StoreStutter DEF NodeAttach, storeVars
  <2>3. Goto(w, "record") \/ Goto(w, "restore") \/ Unlock(w, "failed")
    BY <1>5 DEF NodeAttach, NodeFails
  <2>4. WorkerTypeOK'
    BY <1>0, <2>1, <2>3, UnlockType, GotoType DEF Done, Critical
  <2> DEFINE layer == [req |-> job[w].req, root |-> job[w].root,
                       fp |-> KeyBehind(w)]
  <2> DEFINE at == Place[job[w].key]
  <2>9. /\ at \in Keys /\ job[w].req \in Requests
        /\ job[w].root \in BOOLEAN /\ KeyBehind(w) \in Fingerprints
    BY <1>0, <2>1, JobType, WrapperAssumption DEF Jobs, KeyBehind
  <2>5. layer \in Layers
    BY <2>9 DEF Layers, OwnLayers
  <2>6. \/ stack' = [stack EXCEPT ![at] = <<layer>> \o @]
        \/ UNCHANGED stack
    BY <1>5 DEF NodeAttach
  <2> HIDE DEF layer, at
  <2>10. stack[at] \in Seq(Layers)
    BY <2>9 DEF Base, TypeOK, ClusterTypeOK
  <2>11. <<layer>> \o stack[at] \in Seq(Layers)
    BY <2>5, <2>10
  <2>7. stack' \in [Keys -> Seq(Layers)]
    BY <2>6, <2>9, <2>11 DEF Base, TypeOK, ClusterTypeOK
  <2>8. ClusterTypeOK'
    BY <1>5, <2>7 DEF NodeAttach, cluster, Base, TypeOK, ClusterTypeOK
  <2> QED BY <2>2, <2>4, <2>8 DEF Base, TypeOK
<1>6. CASE Record(w)
  <2>1. pc[w] \notin Done
    BY <1>6 DEF Record, Done
  <2>2. job[w] \in Jobs /\ job[w].key \in Keys
    BY <1>0, <2>1, JobType
  <2>3. StoreTypeOK' /\ IndexExact'
    BY <1>6, <2>2, DesiredType, PutBase DEF Record, Put
  <2>4. WorkerTypeOK'
    BY <1>0, <1>6, UnlockType DEF Record, Done
  <2>5. ClusterTypeOK'
    BY <1>6, ClusterStutter DEF Record
  <2> QED BY <2>3, <2>4, <2>5 DEF Base, TypeOK
<1>7. CASE UnmountProbe(w)
  <2>1. pc[w] \notin Done
    BY <1>7 DEF UnmountProbe, Done
  <2>2. StoreTypeOK' /\ IndexExact' /\ ClusterTypeOK'
    BY <1>7, StoreStutter, ClusterStutter DEF UnmountProbe, storeVars
  <2>3. Goto(w, "unmount_node") \/ Goto(w, "restore") \/ Unlock(w, "ok")
    BY <1>7 DEF UnmountProbe
  <2>4. WorkerTypeOK'
    BY <1>0, <2>1, <2>3, UnlockType, GotoType DEF Done, Critical
  <2> QED BY <2>2, <2>4 DEF Base, TypeOK
<1>8. CASE UnmountNode(w)
  <2>1. pc[w] \notin Done
    BY <1>8 DEF UnmountNode, Done
  <2>2. StoreTypeOK' /\ IndexExact'
    BY <1>8, StoreStutter DEF UnmountNode, storeVars
  <2>3. Goto(w, "restore") \/ Unlock(w, "ok")
    BY <1>8 DEF UnmountNode
  <2>4. WorkerTypeOK'
    BY <1>0, <2>1, <2>3, UnlockType, GotoType DEF Done, Critical
  <2>5. stack[job[w].key] \in Seq(Layers)
    BY <1>0, <2>1, JobType DEF Base, TypeOK, ClusterTypeOK
  <2>6. \/ /\ stack[job[w].key] # <<>>
           /\ stack' = [stack EXCEPT ![job[w].key] = Tail(@)]
        \/ UNCHANGED stack
    BY <1>8 DEF UnmountNode, IsMountPoint
  <2>9. stack[job[w].key] # <<>> => Tail(stack[job[w].key]) \in Seq(Layers)
    BY <2>5
  <2>7. stack' \in [Keys -> Seq(Layers)]
    BY <2>6, <2>9 DEF Base, TypeOK, ClusterTypeOK
  <2>8. ClusterTypeOK'
    BY <1>8, <2>7 DEF UnmountNode, cluster, Base, TypeOK, ClusterTypeOK
  <2> QED BY <2>2, <2>4, <2>8 DEF Base, TypeOK
<1>9. CASE ReconcileProbe(w)
  <2>1. pc[w] \notin Done
    BY <1>9 DEF ReconcileProbe, Done
  <2>2. job[w] \in Jobs /\ job[w].key \in Keys
    BY <1>0, <2>1, JobType
  <2>3. StoreTypeOK' /\ IndexExact'
    BY <1>9, <2>2, DesiredType, PutBase, StoreStutter DEF ReconcileProbe, Put
  <2>4. Unlock(w, "idle") \/ Goto(w, "node_check")
    BY <1>9 DEF ReconcileProbe
  <2>5. WorkerTypeOK'
    BY <1>0, <2>1, <2>4, UnlockType, GotoType DEF Done, Critical
  <2>6. ClusterTypeOK'
    BY <1>9, ClusterStutter DEF ReconcileProbe
  <2> QED BY <2>3, <2>5, <2>6 DEF Base, TypeOK
<1> QED BY <1>1, <1>2, <1>3, <1>4, <1>5, <1>6, <1>7, <1>8, <1>9 DEF Advance

LEMMA BeginBase ==
    ASSUME Base, NEW w \in Workers, Begin(w)
    PROVE  Base'
<1>1. ASSUME NEW k \in Keys, NEW v, NEW step \in {"reconcile_lock", "stale"},
             NEW p \in Pods, v \in CachedViews(p) \cup {LiveView(p), NoContainer},
             Observe(w, k, v, step)
      PROVE  Base'
  <2>1. status[p] \in 1..MaxGen
    BY DEF Base, TypeOK, ClusterTypeOK
  <2>2. v \in NoContainer..MaxGen
    BY <1>1, <2>1, StoreAssumption DEF CachedViews, LiveView, NoContainer
  <2> QED BY <1>1, <2>2, ObserveBase DEF Waiting
<1>2. ASSUME NEW k \in Keys, NEW p \in Pods, ReconcilePodEvent(w, p, k)
      PROVE  Base'
  BY <1>1, <1>2 DEF ReconcilePodEvent
<1>3. ASSUME NEW k \in Keys, ReconcilePodSnapshot(w, k) \/ ReconcileRetry(w, k)
      PROVE  Base'
  <2>1. PodOf[k] \in Pods
    BY WrapperAssumption
  <2> QED BY <1>1, <1>3, <2>1 DEF ReconcilePodSnapshot, ReconcileRetry
<1> QED
  BY <1>2, <1>3, MountAuthorizeBase, UnmountAuthorizeBase DEF Begin

LEMMA EnterBase ==
    ASSUME Base, NEW w \in Workers, Enter(w)
    PROVE  Base'
BY MountAdmitBase, UnmountAdmitBase, ReconcileAdmitBase, ReconcileStaleBase
   DEF Enter

\* The mounts of a new container instance.
LEMMA FreshType ==
    ASSUME NEW k \in Keys
    PROVE  FreshStack(k) \in Seq(Layers) /\ Len(FreshStack(k)) <= 1
<1>1. Foreign \in Layers
  BY DEF Layers
<1> QED BY <1>1 DEF FreshStack

LEMMA EnvironmentBase ==
    ASSUME Base, Environment
    PROVE  Base'
<1> USE DEF Base, TypeOK
<1>1. ASSUME NEW p \in Pods, RestartContainer(p) PROVE Base'
  <2>1. StoreTypeOK' /\ IndexExact'
    BY <1>1, StoreStutter DEF RestartContainer, storeVars
  <2>2. gen' \in [Pods -> 1..MaxGen]
    BY <1>1, StoreAssumption DEF RestartContainer, ClusterTypeOK
  <2>3. stack' \in [Keys -> Seq(Layers)]
    BY <1>1, FreshType DEF RestartContainer, ClusterTypeOK
  <2>4. ClusterTypeOK'
    BY <1>1, <2>2, <2>3 DEF RestartContainer, ClusterTypeOK
  <2>5. WorkerTypeOK'
    BY <1>1 DEF RestartContainer, workers, WorkerTypeOK
  <2> QED BY <2>1, <2>4, <2>5
<1>2. ASSUME NEW p \in Pods, PublishStatus(p) PROVE Base'
  <2>1. StoreTypeOK' /\ IndexExact'
    BY <1>2, StoreStutter DEF PublishStatus, storeVars
  <2>2. ClusterTypeOK'
    BY <1>2 DEF PublishStatus, ClusterTypeOK
  <2>3. WorkerTypeOK'
    BY <1>2 DEF PublishStatus, workers, WorkerTypeOK
  <2> QED BY <2>1, <2>2, <2>3
<1>3. ASSUME NEW p \in Pods, DeletePod(p) PROVE Base'
  <2>1. StoreTypeOK' /\ IndexExact'
    BY <1>3, StoreStutter DEF DeletePod, storeVars
  <2>2. stack' \in [Keys -> Seq(Layers)]
    BY <1>3 DEF DeletePod, ClusterTypeOK
  <2>3. present' \in [Pods -> BOOLEAN]
    BY <1>3 DEF DeletePod, ClusterTypeOK
  <2>4. ClusterTypeOK'
    BY <1>3, <2>2, <2>3 DEF DeletePod, ClusterTypeOK
  <2>5. WorkerTypeOK'
    BY <1>3 DEF DeletePod, workers, WorkerTypeOK
  <2> QED BY <2>1, <2>4, <2>5
<1>4. ASSUME NEW v \in PVs, AlterPV(v) PROVE Base'
  <2>1. StoreTypeOK' /\ IndexExact'
    BY <1>4, StoreStutter DEF AlterPV, storeVars
  <2>2. pvOK' \in [PVs -> BOOLEAN] /\ pvRoot' \in [PVs -> BOOLEAN]
    BY <1>4 DEF AlterPV, ClusterTypeOK
  <2>3. ClusterTypeOK'
    BY <1>4, <2>2 DEF AlterPV, ClusterTypeOK
  <2>4. WorkerTypeOK'
    BY <1>4 DEF AlterPV, workers, WorkerTypeOK
  <2> QED BY <2>1, <2>3, <2>4
<1>5. CASE Crash
  <2>1. StoreTypeOK' /\ IndexExact'
    BY <1>5, LoadStore DEF Crash
  <2>2. exportKey' \in Fingerprints
    BY <1>5 DEF Crash, ClusterTypeOK
  <2>3. ClusterTypeOK'
    BY <1>5, <2>2 DEF Crash, ClusterTypeOK
  <2>4. WorkerTypeOK'
    BY <1>5 DEF Crash, WorkerTypeOK, Done
  <2> QED BY <2>1, <2>3, <2>4
<1> QED BY <1>1, <1>2, <1>3, <1>4, <1>5 DEF Environment

LEMMA InitBase ==
    ASSUME Init
    PROVE  Base
<1>1. files \in [Keys -> Records \cup {None}]
  BY LegacyType DEF Init
<1>2. StoreTypeOK /\ IndexExact
  <2>1. /\ mounts = [k \in Keys |-> Loaded(files[k])]
        /\ byPod = [p \in Pods |->
                       {k \in Keys : files[k] # None /\ files[k].pod = p}]
    BY DEF Init
  <2> QED BY <1>1, <2>1, LoadedStore DEF StoreTypeOK, IndexExact
<1>3. WorkerTypeOK
  <2>1. /\ pc \in [Workers -> Done \cup Critical \cup Waiting]
        /\ job \in [Workers -> Jobs \cup {None}]
        /\ lock \in [Stripes -> Workers \cup {None}]
    BY DEF Init, Done
  <2>2. \A w \in Workers : pc[w] = "idle" /\ job[w] = None
    BY DEF Init
  <2> QED BY <2>1, <2>2 DEF WorkerTypeOK, Done
<1>4. stack \in [Keys -> Seq(Layers)]
  <2>1. <<Foreign>> \in Seq(Layers) /\ <<>> \in Seq(Layers)
    BY DEF Layers
  <2>2. ASSUME NEW l \in OwnLayers PROVE <<l>> \in Seq(Layers)
    BY DEF Layers
  <2>3. ASSUME NEW k \in Keys PROVE stack[k] \in Seq(Layers)
    <3>1. stack[k] \in {<<>>, <<Foreign>>} \cup {<<l>> : l \in OwnLayers}
      BY DEF Init
    <3> QED BY <2>1, <2>2, <3>1
  <2>4. stack = [k \in Keys |-> stack[k]]
    BY DEF Init
  <2> QED BY <2>3, <2>4
<1>5. gen \in [Pods -> 1..MaxGen] /\ status \in [Pods -> 1..MaxGen]
  BY StoreAssumption DEF Init
<1>6. ClusterTypeOK
  BY <1>4, <1>5 DEF Init, ClusterTypeOK
<1> QED BY <1>2, <1>3, <1>6 DEF Base, TypeOK

LEMMA NextBase ==
    ASSUME Base, [Next]_vars
    PROVE  Base'
<1>1. CASE UNCHANGED vars
  <2>1. StoreTypeOK' /\ IndexExact' /\ ClusterTypeOK'
    BY <1>1, StoreStutter, ClusterStutter DEF vars, storeVars
  <2>2. WorkerTypeOK'
    BY <1>1 DEF vars, workers, WorkerTypeOK, Base, TypeOK
  <2> QED BY <2>1, <2>2 DEF Base, TypeOK
<1> QED BY <1>1, BeginBase, EnterBase, AdvanceBase, EnvironmentBase DEF Next

\* The variables of the wrapper keep their types and its Pod index stays
\* exact, for any number of workers, targets and Pods, any assignment of
\* targets to mutexes, and with every fault of the model.
THEOREM WrapperTypes == Spec => [](TypeOK /\ IndexExact)
<1>1. Init => Base
  BY InitBase
<1>2. Base /\ [Next]_vars => Base'
  BY NextBase
<1> QED BY <1>1, <1>2, PTL DEF Spec, Base

-----------------------------------------------------------------------------
(* Frames.                                                                 *)

\* What is mounted by way of another target does not end up at a target that
\* no link leads to.
LEMMA StraightPlace ==
    ASSUME NEW k \in Keys
    PROVE  /\ Place[k] \in Keys
           /\ k \in Straight => Place[k] = k
           /\ \A i \in Straight : i # k => Place[k] # i
BY WrapperAssumption DEF Straight

\* The other workers, targets and mutexes are left alone, but for what may be
\* mounted at a place that links lead to.
Touches(w, k) ==
    /\ lock[Stripe[k]] \in {None, w}
    /\ \A v \in Workers \ {w} : pc'[v] = pc[v] /\ job'[v] = job[v]
    /\ \A i \in Keys \ {k} : /\ mounts'[i] = mounts[i]
                             /\ files'[i] = files[i]
                             /\ i \in Straight => stack'[i] = stack[i]
    /\ \A s \in Stripes \ {Stripe[k]} : lock'[s] = lock[s]
    /\ UNCHANGED <<gen, status, present>>

LEMMA TouchesKeepsInv ==
    ASSUME Inv, Base', NEW w \in Workers, NEW k \in Keys, Touches(w, k),
           WorkerInv(w)', TargetInv(k)'
    PROVE  Inv'
<1>1. ASSUME NEW i \in Keys PROVE TargetInv(i)'
  <2>1. CASE i = k
    BY <2>1
  <2>2. CASE i # k
    BY <2>2 DEF Inv, Touches, TargetInv, Truthful, Running, IsMountPoint
  <2> QED BY <2>1, <2>2
<1>2. ASSUME NEW v \in Workers PROVE WorkerInv(v)'
  <2>1. CASE v = w
    BY <2>1
  <2>2. CASE v # w /\ pc[v] \notin Critical
    <3>1. WorkerInv(v) /\ pc'[v] = pc[v] /\ job'[v] = job[v]
      BY <2>2 DEF Inv, Touches
    <3> QED BY <2>2, <3>1 DEF WorkerInv, Touches, Critical
  <2>3. CASE v # w /\ pc[v] \in Critical
    <3>1. /\ WorkerInv(v) /\ pc'[v] = pc[v] /\ job'[v] = job[v]
          /\ pc[v] \notin Done /\ WorkerTypeOK
      BY <2>3, StepNames DEF Inv, Touches, TypeOK
    <3>2. job[v].key \in Keys /\ lock[Stripe[job[v].key]] = v
      BY <2>3, <3>1, JobType DEF WorkerInv
    <3>3. Stripe[job[v].key] # Stripe[k] /\ Stripe[job[v].key] \in Stripes
      BY <2>3, <3>2, WrapperAssumption DEF Touches
    <3>4. /\ job[v].key # k
          /\ mounts'[job[v].key] = mounts[job[v].key]
          /\ files'[job[v].key] = files[job[v].key]
          /\ job[v].key \in Straight => stack'[job[v].key] = stack[job[v].key]
          /\ lock'[Stripe[job[v].key]] = lock[Stripe[job[v].key]]
          /\ UNCHANGED <<gen, present>>
      BY <3>2, <3>3 DEF Touches
    <3> QED BY <3>1, <3>4 DEF WorkerInv, Truthful, Running, IsMountPoint
  <2> QED BY <2>1, <2>2, <2>3
<1>3. \A p \in Pods : status'[p] <= gen'[p]
  BY DEF Inv, Touches
<1> QED BY <1>1, <1>2, <1>3 DEF Inv, Base

\* A worker that only starts, or is refused before the lock.
LEMMA BeginKeepsInv ==
    ASSUME Inv, Base', NEW w \in Workers,
           \A v \in Workers \ {w} : pc'[v] = pc[v] /\ job'[v] = job[v],
           UNCHANGED <<storeVars, lock, cluster, stack>>,
           WorkerInv(w)'
    PROVE  Inv'
<1>1. ASSUME NEW i \in Keys PROVE TargetInv(i)'
  BY DEF Inv, storeVars, cluster, TargetInv, Truthful, Running, IsMountPoint
<1>2. ASSUME NEW v \in Workers PROVE WorkerInv(v)'
  BY DEF Inv, storeVars, cluster, WorkerInv, Truthful, Running, IsMountPoint
<1> QED BY <1>1, <1>2 DEF Inv, Base, cluster

\* Control steps change one worker and at most its own mutex.
LEMMA GotoFrame ==
    ASSUME WorkerTypeOK, NEW w \in Workers, NEW step, Goto(w, step)
    PROVE  /\ pc'[w] = step /\ job'[w] = job[w] /\ lock' = lock
           /\ \A v \in Workers \ {w} : pc'[v] = pc[v] /\ job'[v] = job[v]
BY DEF Goto, WorkerTypeOK

LEMMA AnswerFrame ==
    ASSUME WorkerTypeOK, NEW w \in Workers, NEW result \in Done,
           Answer(w, result)
    PROVE  /\ pc'[w] \in Done
           /\ \A v \in Workers \ {w} : pc'[v] = pc[v] /\ job'[v] = job[v]
BY DEF Answer, WorkerTypeOK, Done

LEMMA UnlockFrame ==
    ASSUME WorkerTypeOK, NEW w \in Workers, NEW result \in Done,
           Unlock(w, result)
    PROVE  /\ pc'[w] \in Done
           /\ \A v \in Workers \ {w} : pc'[v] = pc[v] /\ job'[v] = job[v]
           /\ \A s \in Stripes \ {Stripe[job[w].key]} : lock'[s] = lock[s]
BY AnswerFrame DEF Unlock, WorkerTypeOK

\* Store operations change one target.
LEMMA PutFrame ==
    ASSUME Base, NEW k \in Keys, NEW r \in Records, PutOK(k, r) \/ PutFails(k, r)
    PROVE  /\ \A i \in Keys \ {k} : mounts'[i] = mounts[i] /\ files'[i] = files[i]
           /\ mounts'[k] \in {mounts[k], r}
           /\ files'[k] \in {files[k], Written(r)}
BY DEF Base, TypeOK, StoreTypeOK, PutOK, PutFails, writeMount, putInMemory

LEMMA DeleteFrame ==
    ASSUME Base, NEW k \in Keys, DeleteOK(k) \/ DeleteFails(k)
    PROVE  /\ \A i \in Keys \ {k} : mounts'[i] = mounts[i] /\ files'[i] = files[i]
           /\ mounts'[k] \in {mounts[k], None}
           /\ files'[k] \in {files[k], None}
           /\ DeleteOK(k) /\ mounts[k] # None
              => mounts'[k] = None /\ files'[k] = None
BY DEF Base, TypeOK, StoreTypeOK, DeleteOK, DeleteFails, deleteInMemory, storeVars

\* What a record claims does not change when it is written.
LEMMA WrittenTruth ==
    ASSUME NEW k \in Keys, NEW r \in Records, Truthful(k, r)
    PROVE  Truthful(k, Written(r))
<1>1. Written(r).cid = r.cid /\ Written(r).pod = r.pod /\ r # None
  BY NoneAssumption DEF Written, Records
<1> QED BY <1>1 DEF Truthful

\* A truthful record may be put, and a record may always be deleted.
LEMMA PutTarget ==
    ASSUME Base, NEW k \in Keys, TargetInv(k), NEW r \in Records,
           Truthful(k, r), PutOK(k, r) \/ PutFails(k, r),
           UNCHANGED <<gen, present>>, stack'[k] = stack[k]
    PROVE  TargetInv(k)'
<1>1. mounts'[k] \in {mounts[k], r} /\ files'[k] \in {files[k], Written(r)}
  BY PutFrame
<1>2. Truthful(k, mounts'[k]) /\ Truthful(k, files'[k])
  BY <1>1, WrittenTruth DEF TargetInv
<1> QED BY <1>2 DEF TargetInv, Truthful, Running, IsMountPoint

LEMMA DeleteTarget ==
    ASSUME Base, NEW k \in Keys, TargetInv(k),
           DeleteOK(k) \/ DeleteFails(k),
           UNCHANGED <<gen, present>>, stack'[k] = stack[k]
    PROVE  TargetInv(k)'
<1>1. mounts'[k] \in {mounts[k], None} /\ files'[k] \in {files[k], None}
  BY DeleteFrame
<1> QED BY <1>1 DEF TargetInv, Truthful, Running, IsMountPoint

LEMMA SameTarget ==
    ASSUME NEW k \in Keys, TargetInv(k), UNCHANGED <<mounts, files>>,
           UNCHANGED <<gen, present>>, stack'[k] = stack[k]
    PROVE  TargetInv(k)'
BY DEF TargetInv, Truthful, Running, IsMountPoint

-----------------------------------------------------------------------------
(* One lemma per kind of step.                                             *)

LEMMA InvBase == Inv => Base /\ WorkerTypeOK
BY DEF Inv, Base, TypeOK

\* A worker at work knows its own part of the invariant.
LEMMA AtWork ==
    ASSUME Inv, NEW w \in Workers, pc[w] \notin Done
    PROVE  /\ job[w] \in Jobs /\ job[w].key \in Keys
           /\ job[w].cid \in NoContainer..MaxGen
           /\ job[w].prev \in Records \cup {None}
           /\ WorkerInv(w) /\ TargetInv(job[w].key)
BY InvBase, JobType DEF Inv

\* A critical step touches the worker's own target only.
LEMMA CriticalTouches ==
    ASSUME Inv, NEW w \in Workers, pc[w] \in Critical,
           \/ \E step \in Critical : Goto(w, step)
           \/ \E result \in Done : Unlock(w, result),
           \A i \in Keys \ {job[w].key} : /\ mounts'[i] = mounts[i]
                                          /\ files'[i] = files[i]
                                          /\ i \in Straight => stack'[i] = stack[i],
           UNCHANGED cluster
    PROVE  Touches(w, job[w].key)
<1>1. pc[w] \notin Done /\ WorkerTypeOK
  BY InvBase, StepNames
<1>2. lock[Stripe[job[w].key]] = w
  BY <1>1 DEF Inv, WorkerInv
<1>3. /\ \A v \in Workers \ {w} : pc'[v] = pc[v] /\ job'[v] = job[v]
      /\ \A s \in Stripes \ {Stripe[job[w].key]} : lock'[s] = lock[s]
  BY <1>1, GotoFrame, UnlockFrame
<1> QED BY <1>2, <1>3 DEF Touches, cluster

\* A worker that answers has nothing left to know.
LEMMA DoneInv ==
    ASSUME NEW w \in Workers, pc'[w] \in Done
    PROVE  WorkerInv(w)'
BY DEF WorkerInv

\* A critical step that unlocks, with what it wrote accounted for.
LEMMA UnlockKeepsInv ==
    ASSUME Inv, Base', NEW w \in Workers, pc[w] \in Critical,
           NEW result \in Done, Unlock(w, result),
           NEW k \in Keys, k = job[w].key,
           \A i \in Keys \ {k} : /\ mounts'[i] = mounts[i]
                                 /\ files'[i] = files[i]
                                 /\ i \in Straight => stack'[i] = stack[i],
           UNCHANGED cluster, TargetInv(k)'
    PROVE  Inv'
<1>1. Touches(w, k)
  BY CriticalTouches
<1>2. WorkerInv(w)'
  BY InvBase, UnlockFrame, DoneInv
<1> QED BY <1>1, <1>2, TouchesKeepsInv

\* A critical step that goes on without writing anything, into a step that
\* asks nothing more than the lock and a truthful previous record.
LEMMA GotoKeepsInv ==
    ASSUME Inv, Base', NEW w \in Workers, pc[w] \in Critical,
           NEW step \in Critical, Goto(w, step),
           NEW k \in Keys, k = job[w].key,
           UNCHANGED <<storeVars, cluster, stack>>,
           step = "node_attach" /\ Running(k, job[w].cid) => ~IsMountPoint(k),
           step = "record" /\ Running(k, job[w].cid) => IsMountPoint(k),
           step \in {"unmount_probe", "unmount_node"}
               => mounts[k] = None /\ files[k] = None
    PROVE  Inv'
<1>1. Touches(w, k)
  BY CriticalTouches DEF storeVars
<1>2. TargetInv(k)'
  BY SameTarget DEF Inv, storeVars, cluster
<1>3. pc'[w] = step /\ job'[w] = job[w] /\ lock' = lock
  BY InvBase, GotoFrame
<1>4. WorkerInv(w) /\ pc[w] \notin Done
  BY AtWork, StepNames
<1>5. WorkerInv(w)'
  BY <1>3, <1>4 DEF WorkerInv, storeVars, cluster, Truthful, Running,
                    IsMountPoint
<1> QED BY <1>1, <1>2, <1>5, TouchesKeepsInv

\* Records that name no container, or the one that is mounted, are truthful.
LEMMA WriteTruth ==
    ASSUME Base, NEW j \in Jobs, j.cid <= gen[PodOf[j.key]]
    PROVE  /\ Truthful(j.key, Desired(j))
           /\ (j.key \in Straight /\ Running(j.key, j.cid) => IsMountPoint(j.key))
              => Truthful(j.key, Installed(j))
<1>1. gen[PodOf[j.key]] \in 1..MaxGen /\ PodOf[j.key] \in Pods
  BY WrapperAssumption DEF Jobs, Base, TypeOK, ClusterTypeOK
<1>2. /\ Desired(j).cid = NoContainer /\ Installed(j).cid = j.cid
      /\ Desired(j).pod = PodOf[j.key] /\ Installed(j).pod = PodOf[j.key]
  BY DEF Desired, Installed
<1>3. ~Running(j.key, NoContainer) /\ NoContainer <= gen[PodOf[j.key]]
  BY <1>1, StoreAssumption DEF Running, NoContainer
<1> QED BY <1>2, <1>3 DEF Truthful

LEMMA MountProbeInv ==
    ASSUME Inv, Base', NEW w \in Workers, MountProbe(w)
    PROVE  Inv'
<1>1. pc[w] \in Critical /\ pc[w] \notin Done /\ pc[w] = "mount_probe"
  BY DEF MountProbe, Critical, Done
<1>2. PICK k \in Keys : k = job[w].key
  BY <1>1, AtWork
<1> DEFINE adopted == [job[w].prev EXCEPT !.cid = job[w].cid]
<1>3. Base /\ TargetInv(k) /\ WorkerInv(w) /\ job[w].prev \in Records
  BY <1>1, <1>2, AtWork, InvBase DEF WorkerTypeOK
<1>4. /\ adopted \in Records /\ adopted.cid = job[w].cid
      /\ adopted.pod = job[w].prev.pod /\ job[w].prev # None
  BY <1>1, <1>3, AtWork, ContainerUpdate, NoneAssumption
<1>5. UNCHANGED <<cluster, stack>>
  BY DEF MountProbe
<1>6. CASE UNCHANGED storeVars
  <2>1. Unlock(w, "ok") \/ Unlock(w, "failed") \/ Goto(w, "mount_intent")
    BY DEF MountProbe
  <2>2. TargetInv(k)'
    BY <1>3, <1>5, <1>6, SameTarget DEF storeVars, cluster
  <2>3. CASE Goto(w, "mount_intent")
    BY <1>1, <1>2, <1>5, <1>6, <2>3, GotoKeepsInv DEF Critical
  <2> QED
    BY <1>1, <1>2, <1>5, <1>6, <2>1, <2>2, <2>3, UnlockKeepsInv
       DEF Done, storeVars
<1>7. CASE /\ Running(k, job[w].cid) /\ IsMountPoint(k)
           /\ PutOK(k, adopted) \/ PutFails(k, adopted)
           /\ Unlock(w, "ok") \/ Unlock(w, "failed")
  <2>1. Truthful(k, adopted)
    BY <1>1, <1>2, <1>3, <1>4, <1>7 DEF WorkerInv, Truthful
  <2> HIDE DEF adopted
  <2>2. TargetInv(k)'
    BY <1>3, <1>4, <1>5, <1>7, <2>1, PutTarget DEF cluster
  <2>3. \A i \in Keys \ {k} : mounts'[i] = mounts[i] /\ files'[i] = files[i]
    BY <1>3, <1>4, <1>7, PutFrame
  <2> QED BY <1>1, <1>2, <1>5, <1>7, <2>2, <2>3, UnlockKeepsInv DEF Done
<1> QED BY <1>2, <1>6, <1>7 DEF MountProbe

LEMMA MountIntentInv ==
    ASSUME Inv, Base', NEW w \in Workers, MountIntent(w)
    PROVE  Inv'
<1>1. pc[w] \in Critical /\ pc[w] \notin Done /\ pc[w] = "mount_intent"
  BY DEF MountIntent, Critical, Done
<1>2. PICK k \in Keys : k = job[w].key
  BY <1>1, AtWork
<1>3. Base /\ TargetInv(k) /\ WorkerInv(w) /\ job[w] \in Jobs
  BY <1>1, <1>2, AtWork, InvBase
<1>4. Desired(job[w]) \in Records /\ Truthful(k, Desired(job[w]))
  BY <1>1, <1>2, <1>3, DesiredType, WriteTruth DEF WorkerInv
<1>5. /\ UNCHANGED <<cluster, stack>>
      /\ PutOK(k, Desired(job[w])) \/ PutFails(k, Desired(job[w]))
      /\ Goto(w, "node_check") \/ Unlock(w, "failed")
  BY <1>2 DEF MountIntent
<1>6. /\ TargetInv(k)'
      /\ \A i \in Keys \ {k} : mounts'[i] = mounts[i] /\ files'[i] = files[i]
  BY <1>3, <1>4, <1>5, PutTarget, PutFrame DEF cluster
<1>7. CASE Unlock(w, "failed")
  BY <1>1, <1>2, <1>5, <1>6, <1>7, UnlockKeepsInv DEF Done
<1>8. CASE Goto(w, "node_check")
  <2>1. Touches(w, k)
    BY <1>1, <1>2, <1>5, <1>6, <1>8, CriticalTouches DEF Critical
  <2>2. pc'[w] = "node_check" /\ job'[w] = job[w] /\ lock' = lock
    BY <1>8, InvBase, GotoFrame
  <2>3. WorkerInv(w)'
    BY <1>1, <1>2, <1>3, <1>5, <2>2
       DEF WorkerInv, cluster, Truthful, Running, IsMountPoint
  <2> QED BY <1>6, <2>1, <2>3, TouchesKeepsInv
<1> QED BY <1>5, <1>7, <1>8

LEMMA MountRestoreInv ==
    ASSUME Inv, Base', NEW w \in Workers, MountRestore(w)
    PROVE  Inv'
<1>1. pc[w] \in Critical /\ pc[w] \notin Done
  BY DEF MountRestore, Critical, Done
<1>2. PICK k \in Keys : k = job[w].key
  BY <1>1, AtWork
<1>3. /\ Base /\ TargetInv(k) /\ Truthful(k, job[w].prev)
      /\ job[w].prev \in Records \cup {None}
  BY <1>1, <1>2, AtWork, InvBase DEF WorkerInv
<1>4. UNCHANGED <<cluster, stack>> /\ Unlock(w, "failed")
  BY DEF MountRestore
<1>5. /\ TargetInv(k)'
      /\ \A i \in Keys \ {k} : mounts'[i] = mounts[i] /\ files'[i] = files[i]
  <2>1. CASE job[w].prev # None
    <3>1. PutOK(k, job[w].prev) \/ PutFails(k, job[w].prev)
      BY <1>2, <2>1 DEF MountRestore, Put
    <3> QED BY <1>3, <1>4, <2>1, <3>1, PutTarget, PutFrame DEF cluster
  <2>2. CASE job[w].prev = None
    <3>1. DeleteOK(k) \/ DeleteFails(k)
      BY <1>2, <2>2 DEF MountRestore, Delete
    <3> QED BY <1>3, <1>4, <3>1, DeleteTarget, DeleteFrame DEF cluster
  <2> QED BY <2>1, <2>2
<1> QED BY <1>1, <1>2, <1>4, <1>5, UnlockKeepsInv DEF Done

LEMMA NodeCheckInv ==
    ASSUME Inv, Base', NEW w \in Workers, NodeCheck(w)
    PROVE  Inv'
<1>1. pc[w] \in Critical /\ pc[w] \notin Done
  BY DEF NodeCheck, Critical, Done
<1>2. PICK k \in Keys : k = job[w].key
  BY <1>1, AtWork
<1>3. UNCHANGED <<storeVars, cluster, stack>> /\ TargetInv(k)
  BY <1>1, <1>2, AtWork DEF NodeCheck
<1>4. CASE Unlock(w, "failed")
  <2>1. TargetInv(k)'
    BY <1>3, SameTarget DEF storeVars, cluster
  <2> QED BY <1>1, <1>2, <1>3, <1>4, <2>1, UnlockKeepsInv DEF Done, storeVars
<1>5. CASE Goto(w, "restore")
  BY <1>1, <1>2, <1>3, <1>5, GotoKeepsInv DEF Critical
<1>6. CASE ~IsMountPoint(k) /\ Goto(w, "node_attach")
  BY <1>1, <1>2, <1>3, <1>6, GotoKeepsInv DEF Critical
<1> QED BY <1>2, <1>4, <1>5, <1>6 DEF NodeCheck, NodeFails

LEMMA NodeAttachInv ==
    ASSUME Inv, Base', NEW w \in Workers, NodeAttach(w)
    PROVE  Inv'
<1>1. pc[w] \in Critical /\ pc[w] \notin Done /\ pc[w] = "node_attach"
  BY DEF NodeAttach, Critical, Done
<1>2. PICK k \in Keys : k = job[w].key
  BY <1>1, AtWork
<1>3. UNCHANGED <<storeVars, cluster>> /\ TargetInv(k) /\ WorkerInv(w) /\ Base
  BY <1>1, <1>2, AtWork, InvBase DEF NodeAttach
<1>4. CASE UNCHANGED stack /\ Unlock(w, "failed")
  <2>1. TargetInv(k)'
    BY <1>3, <1>4, SameTarget DEF storeVars, cluster
  <2> QED BY <1>1, <1>2, <1>3, <1>4, <2>1, UnlockKeepsInv DEF Done, storeVars
<1>5. CASE UNCHANGED stack /\ Goto(w, "restore")
  BY <1>1, <1>2, <1>3, <1>5, GotoKeepsInv DEF Critical
<1>6. CASE UNCHANGED stack /\ ~Running(k, job[w].cid) /\ Goto(w, "record")
  BY <1>1, <1>2, <1>3, <1>6, GotoKeepsInv DEF Critical
<1>7. ASSUME NEW layer, Running(k, job[w].cid), Goto(w, "record"),
             stack' = [stack EXCEPT ![Place[k]] = <<layer>> \o @]
      PROVE  Inv'
  <2>1. /\ \A i \in Keys \ {k} : i \in Straight => stack'[i] = stack[i]
        /\ k \in Straight => /\ stack'[k] = <<layer>> \o stack[k]
                             /\ stack[k] = <<>>
    BY <1>1, <1>2, <1>3, <1>7, StraightPlace
       DEF WorkerInv, IsMountPoint, Base, TypeOK, ClusterTypeOK
  <2>2. k \in Straight => stack'[k] # <<>> /\ Len(stack'[k]) <= 1
    BY <2>1
  <2>3. TargetInv(k)'
    <3>1. UNCHANGED <<mounts, files, gen, present>>
      BY <1>3 DEF storeVars, cluster
    <3>2. Truthful(k, mounts[k])' /\ Truthful(k, files[k])'
      BY <1>3, <2>2, <3>1 DEF TargetInv, Truthful, Running, IsMountPoint
    <3> QED BY <2>2, <3>2 DEF TargetInv
  <2>4. Touches(w, k)
    BY <1>1, <1>2, <1>3, <1>7, <2>1, CriticalTouches DEF Critical, storeVars
  <2>5. pc'[w] = "record" /\ job'[w] = job[w] /\ lock' = lock
    BY <1>7, InvBase, GotoFrame
  <2>6. WorkerInv(w)'
    BY <1>1, <1>2, <1>3, <2>2, <2>5
       DEF WorkerInv, cluster, Truthful, Running, IsMountPoint
  <2> QED BY <2>3, <2>4, <2>6, TouchesKeepsInv
<1> QED BY <1>2, <1>4, <1>5, <1>6, <1>7 DEF NodeAttach, NodeFails

LEMMA RecordInv ==
    ASSUME Inv, Base', NEW w \in Workers, Record(w)
    PROVE  Inv'
<1>1. pc[w] \in Critical /\ pc[w] \notin Done /\ pc[w] = "record"
  BY DEF Record, Critical, Done
<1>2. PICK k \in Keys : k = job[w].key
  BY <1>1, AtWork
<1>3. Base /\ TargetInv(k) /\ WorkerInv(w) /\ job[w] \in Jobs
  BY <1>1, <1>2, AtWork, InvBase
<1>4. Installed(job[w]) \in Records /\ Truthful(k, Installed(job[w]))
  BY <1>1, <1>2, <1>3, DesiredType, WriteTruth DEF WorkerInv
<1>5. /\ UNCHANGED <<cluster, stack>> /\ Unlock(w, "ok")
      /\ PutOK(k, Installed(job[w])) \/ PutFails(k, Installed(job[w]))
  BY <1>2 DEF Record, Put
<1>6. /\ TargetInv(k)'
      /\ \A i \in Keys \ {k} : mounts'[i] = mounts[i] /\ files'[i] = files[i]
  BY <1>3, <1>4, <1>5, PutTarget, PutFrame DEF cluster
<1> QED BY <1>1, <1>2, <1>5, <1>6, UnlockKeepsInv DEF Done

LEMMA UnmountProbeInv ==
    ASSUME Inv, Base', NEW w \in Workers, UnmountProbe(w)
    PROVE  Inv'
<1>1. pc[w] \in Critical /\ pc[w] \notin Done /\ pc[w] = "unmount_probe"
  BY DEF UnmountProbe, Critical, Done
<1>2. PICK k \in Keys : k = job[w].key
  BY <1>1, AtWork
<1>3. UNCHANGED <<storeVars, cluster, stack>> /\ TargetInv(k)
  BY <1>1, <1>2, AtWork DEF UnmountProbe
<1>4. CASE Unlock(w, "ok")
  <2>1. TargetInv(k)'
    BY <1>3, SameTarget DEF storeVars, cluster
  <2> QED BY <1>1, <1>2, <1>3, <1>4, <2>1, UnlockKeepsInv DEF Done, storeVars
<1>5. CASE Goto(w, "restore")
  BY <1>1, <1>2, <1>3, <1>5, GotoKeepsInv DEF Critical
<1>6. CASE Goto(w, "unmount_node")
  <2>1. mounts[k] = None /\ files[k] = None
    BY <1>1, <1>2, AtWork DEF WorkerInv
  <2> QED BY <1>1, <1>2, <1>3, <1>6, <2>1, GotoKeepsInv DEF Critical
<1> QED BY <1>4, <1>5, <1>6 DEF UnmountProbe

\* Unmounting falsifies no record, because there is none any more.
LEMMA UnmountNodeInv ==
    ASSUME Inv, Base', NEW w \in Workers, UnmountNode(w)
    PROVE  Inv'
<1>1. pc[w] \in Critical /\ pc[w] \notin Done /\ pc[w] = "unmount_node"
  BY DEF UnmountNode, Critical, Done
<1>2. PICK k \in Keys : k = job[w].key
  BY <1>1, AtWork
<1>3. /\ UNCHANGED <<storeVars, cluster>> /\ TargetInv(k) /\ Base
      /\ mounts[k] = None /\ files[k] = None
  BY <1>1, <1>2, AtWork, InvBase DEF UnmountNode, WorkerInv
<1>4. CASE UNCHANGED stack /\ Goto(w, "restore")
  BY <1>1, <1>2, <1>3, <1>4, GotoKeepsInv DEF Critical
<1>5. CASE /\ stack[k] # <<>> /\ Unlock(w, "ok")
           /\ stack' = [stack EXCEPT ![k] = Tail(@)]
  <2>1. /\ \A i \in Keys \ {k} : stack'[i] = stack[i]
        /\ stack'[k] = Tail(stack[k])
        /\ stack[k] \in Seq(Layers)
    BY <1>3, <1>5 DEF Base, TypeOK, ClusterTypeOK
  <2>2. k \in Straight => Len(stack'[k]) <= 1
    BY <1>3, <1>5, <2>1 DEF TargetInv
  <2>3. TargetInv(k)'
    BY <1>3, <2>2 DEF TargetInv, Truthful, storeVars
  <2> QED
    BY <1>1, <1>2, <1>3, <1>5, <2>1, <2>3, UnlockKeepsInv DEF Done, storeVars
<1>6. CASE UNCHANGED stack /\ Unlock(w, "ok")
  <2>1. TargetInv(k)'
    BY <1>3, <1>6, SameTarget DEF storeVars, cluster
  <2> QED
    BY <1>1, <1>2, <1>3, <1>6, <2>1, UnlockKeepsInv DEF Done, storeVars
<1> QED BY <1>2, <1>4, <1>5, <1>6 DEF UnmountNode, IsMountPoint

LEMMA ReconcileProbeInv ==
    ASSUME Inv, Base', NEW w \in Workers, ReconcileProbe(w)
    PROVE  Inv'
<1>1. pc[w] \in Critical /\ pc[w] \notin Done
  BY DEF ReconcileProbe, Critical, Done
<1>2. PICK k \in Keys : k = job[w].key
  BY <1>1, AtWork
<1>3. Base /\ TargetInv(k) /\ WorkerInv(w) /\ job[w] \in Jobs
  BY <1>1, <1>2, AtWork, InvBase
<1>4. UNCHANGED <<cluster, stack>>
  BY DEF ReconcileProbe
<1>5. CASE UNCHANGED storeVars /\ Goto(w, "node_check")
  BY <1>1, <1>2, <1>4, <1>5, GotoKeepsInv DEF Critical
<1>6. CASE UNCHANGED storeVars /\ Unlock(w, "idle")
  <2>1. TargetInv(k)'
    BY <1>3, <1>4, <1>6, SameTarget DEF storeVars, cluster
  <2> QED BY <1>1, <1>2, <1>4, <1>6, <2>1, UnlockKeepsInv DEF Done, storeVars
<1>7. CASE /\ IsMountPoint(k) /\ Unlock(w, "idle")
           /\ PutOK(k, Installed(job[w])) \/ PutFails(k, Installed(job[w]))
  <2>1. Installed(job[w]) \in Records /\ Truthful(k, Installed(job[w]))
    BY <1>1, <1>2, <1>3, <1>7, DesiredType, WriteTruth DEF WorkerInv
  <2>2. /\ TargetInv(k)'
        /\ \A i \in Keys \ {k} : mounts'[i] = mounts[i] /\ files'[i] = files[i]
    BY <1>3, <1>4, <1>7, <2>1, PutTarget, PutFrame DEF cluster
  <2> QED BY <1>1, <1>2, <1>4, <1>7, <2>2, UnlockKeepsInv DEF Done
<1> QED BY <1>2, <1>5, <1>6, <1>7 DEF ReconcileProbe, Put

-----------------------------------------------------------------------------
(* Steps that take the lock.                                               *)

\* Lock, look, answer and unlock in one step.
LEMMA ReplyKeepsInv ==
    ASSUME Inv, Base', NEW w \in Workers, NEW result \in Done,
           NEW k \in Keys, LockFree(w, k), Reply(w, result),
           \A i \in Keys \ {k} : mounts'[i] = mounts[i] /\ files'[i] = files[i],
           UNCHANGED <<cluster, stack>>, TargetInv(k)'
    PROVE  Inv'
<1>1. /\ pc'[w] \in Done /\ lock' = lock
      /\ \A v \in Workers \ {w} : pc'[v] = pc[v] /\ job'[v] = job[v]
  BY InvBase, AnswerFrame DEF Reply
<1>2. Touches(w, k)
  BY <1>1 DEF Touches, LockFree, cluster
<1>3. WorkerInv(w)'
  BY <1>1, DoneInv
<1> QED BY <1>2, <1>3, TouchesKeepsInv

\* Take the lock and go on with job j.
LEMMA AcquireKeepsInv ==
    ASSUME Inv, Base', NEW w \in Workers, NEW k \in Keys, LockFree(w, k),
           Acquire(w, k), NEW j, NEW step \in Critical,
           job' = [job EXCEPT ![w] = j], pc' = [pc EXCEPT ![w] = step],
           j.key = k, j.cid <= gen[PodOf[k]], Truthful(k, j.prev),
           step \notin {"node_attach", "record"},
           step \in {"unmount_probe", "unmount_node"}
               => mounts'[k] = None /\ files'[k] = None,
           \A i \in Keys \ {k} : mounts'[i] = mounts[i] /\ files'[i] = files[i],
           UNCHANGED <<cluster, stack>>, TargetInv(k)'
    PROVE  Inv'
<1>1. /\ pc'[w] = step /\ job'[w] = j
      /\ \A v \in Workers \ {w} : pc'[v] = pc[v] /\ job'[v] = job[v]
  BY InvBase DEF WorkerTypeOK
<1>2. /\ Stripe[k] \in Stripes /\ lock'[Stripe[k]] = w
      /\ \A s \in Stripes \ {Stripe[k]} : lock'[s] = lock[s]
  BY InvBase, WrapperAssumption DEF WorkerTypeOK, Acquire
<1>3. Touches(w, k)
  BY <1>1, <1>2 DEF Touches, LockFree, cluster
<1>4. WorkerInv(w)'
  BY <1>1, <1>2 DEF WorkerInv, Truthful, Running, IsMountPoint, cluster
<1> QED BY <1>3, <1>4, TouchesKeepsInv

LEMMA MountAdmitInv ==
    ASSUME Inv, Base', NEW w \in Workers, MountAdmit(w)
    PROVE  Inv'
<1> DEFINE prev == mounts[job[w].key]
           kept == IF prev = None THEN None ELSE [prev EXCEPT !.fp = job[w].fp]
           j == [job[w] EXCEPT !.prev = kept]
<1>1. pc[w] \notin Done
  BY DEF MountAdmit, Done
<1>2. PICK k \in Keys : k = job[w].key
  BY <1>1, AtWork
<1>3. /\ Base /\ TargetInv(k) /\ WorkerInv(w) /\ job[w] \in Jobs
      /\ job[w].fp \in Fingerprints /\ prev \in Records \cup {None}
  BY <1>1, <1>2, AtWork, InvBase, JobType DEF Base, TypeOK, StoreTypeOK
<1>4. /\ prev = None => kept = None
      /\ prev # None => /\ kept \in Records /\ kept.cid = prev.cid
                        /\ kept.pod = prev.pod
  BY <1>3, FingerprintUpdate
<1>5. Truthful(k, kept)
  BY <1>2, <1>3, <1>4 DEF TargetInv, Truthful
<1>6. j.key = k /\ j.cid = job[w].cid /\ j.prev = kept
  BY <1>2, <1>3 DEF Jobs
<1>7. j.cid <= gen[PodOf[k]]
  BY <1>1, <1>2, <1>3, <1>6 DEF WorkerInv
<1> DEFINE proceed == /\ Acquire(w, k) /\ job' = [job EXCEPT ![w] = j]
                      /\ \E step \in {"mount_probe", "mount_intent"} :
                            pc' = [pc EXCEPT ![w] = step]
<1>8. /\ LockFree(w, k) /\ UNCHANGED <<cluster, stack>>
      /\ proceed \/ Reply(w, "failed")
      /\ \/ UNCHANGED storeVars
         \/ prev # None /\ (PutOK(k, kept) \/ PutFails(k, kept))
  BY <1>2 DEF MountAdmit, Repeats
<1> HIDE DEF kept, j
<1>9. /\ TargetInv(k)'
      /\ \A i \in Keys \ {k} : mounts'[i] = mounts[i] /\ files'[i] = files[i]
  <2>1. CASE UNCHANGED storeVars
    BY <1>3, <1>8, <2>1, SameTarget DEF storeVars, cluster
  <2>2. CASE prev # None /\ (PutOK(k, kept) \/ PutFails(k, kept))
    <3> HIDE DEF prev
    <3> QED BY <1>3, <1>4, <1>5, <1>8, <2>2, PutTarget, PutFrame DEF cluster
  <2> QED BY <1>8, <2>1, <2>2
<1>10. CASE Reply(w, "failed")
  BY <1>8, <1>9, <1>10, ReplyKeepsInv DEF Done
<1>11. CASE proceed
  <2>1. PICK step \in {"mount_probe", "mount_intent"} :
           pc' = [pc EXCEPT ![w] = step]
    BY <1>11
  <2>2. /\ step \in Critical /\ step \notin {"node_attach", "record"}
        /\ step \notin {"unmount_probe", "unmount_node"}
    BY <2>1 DEF Critical
  <2> QED BY <1>5, <1>6, <1>7, <1>8, <1>9, <1>11, <2>1, <2>2, AcquireKeepsInv
<1> QED BY <1>8, <1>10, <1>11

LEMMA UnmountAdmitInv ==
    ASSUME Inv, Base', NEW w \in Workers, UnmountAdmit(w)
    PROVE  Inv'
<1> DEFINE prev == mounts[job[w].key]
           j == [job[w] EXCEPT !.prev = prev]
<1>1. pc[w] \notin Done
  BY DEF UnmountAdmit, Done
<1>2. PICK k \in Keys : k = job[w].key
  BY <1>1, AtWork
<1>3. Base /\ TargetInv(k) /\ WorkerInv(w) /\ job[w] \in Jobs
  BY <1>1, <1>2, AtWork, InvBase
<1>4. j.key = k /\ j.cid = job[w].cid /\ j.prev = prev
  BY <1>2, <1>3 DEF Jobs
<1>5. j.cid <= gen[PodOf[k]] /\ Truthful(k, prev)
  BY <1>1, <1>2, <1>3, <1>4 DEF WorkerInv, TargetInv
<1> DEFINE proceed == /\ Acquire(w, k) /\ job' = [job EXCEPT ![w] = j]
                      /\ pc' = [pc EXCEPT ![w] = "unmount_probe"]
                      /\ DeleteOK(k) /\ mounts[k] # None
<1>6. /\ LockFree(w, k) /\ UNCHANGED <<cluster, stack>>
      /\ proceed \/ Reply(w, "failed") \/ Reply(w, "ok")
      /\ UNCHANGED storeVars \/ DeleteOK(k) \/ DeleteFails(k)
  BY <1>2 DEF UnmountAdmit
<1>7. /\ TargetInv(k)'
      /\ \A i \in Keys \ {k} : mounts'[i] = mounts[i] /\ files'[i] = files[i]
  <2>1. CASE UNCHANGED storeVars
    BY <1>3, <1>6, <2>1, SameTarget DEF storeVars, cluster
  <2>2. CASE DeleteOK(k) \/ DeleteFails(k)
    BY <1>3, <1>6, <2>2, DeleteTarget, DeleteFrame DEF cluster
  <2> QED BY <1>6, <2>1, <2>2
<1>8. CASE Reply(w, "failed") \/ Reply(w, "ok")
  BY <1>6, <1>7, <1>8, ReplyKeepsInv DEF Done
<1>9. CASE proceed
  <2>1. mounts'[k] = None /\ files'[k] = None
    BY <1>3, <1>9, DeleteFrame
  <2>2. "unmount_probe" \in Critical
    BY DEF Critical
  <2> HIDE DEF j, prev
  <2> QED BY <1>4, <1>5, <1>6, <1>7, <1>9, <2>1, <2>2, AcquireKeepsInv
<1> QED BY <1>6, <1>8, <1>9

LEMMA ReconcileAdmitInv ==
    ASSUME Inv, Base', NEW w \in Workers, ReconcileAdmit(w)
    PROVE  Inv'
<1> DEFINE root == IsExportRoot(job[w].req)
           fp == IF root /\ exportKey # NoKey THEN job[w].prev.fp ELSE NoKey
           j == [job[w] EXCEPT !.root = root, !.fp = fp]
<1>1. pc[w] \notin Done
  BY DEF ReconcileAdmit, Done
<1>2. PICK k \in Keys : k = job[w].key
  BY <1>1, AtWork
<1>3. Base /\ TargetInv(k) /\ WorkerInv(w) /\ job[w] \in Jobs
  BY <1>1, <1>2, AtWork, InvBase
<1>4. j.key = k /\ j.cid = job[w].cid /\ j.prev = job[w].prev
  BY <1>2, <1>3 DEF Jobs
<1>5. j.cid <= gen[PodOf[k]]
  BY <1>1, <1>2, <1>3, <1>4 DEF WorkerInv
<1> DEFINE proceed == /\ Acquire(w, k) /\ mounts[k] = job[w].prev
                      /\ job' = [job EXCEPT ![w].root = root, ![w].fp = fp]
                      /\ \E step \in {"reconcile_probe", "node_check"} :
                            pc' = [pc EXCEPT ![w] = step]
<1>6. /\ LockFree(w, k) /\ UNCHANGED <<storeVars, cluster, stack>>
      /\ proceed \/ Reply(w, "idle") \/ Goto(w, "stale")
  BY <1>2 DEF ReconcileAdmit, Superseded
<1>7. TargetInv(k)'
  BY <1>3, <1>6, SameTarget DEF storeVars, cluster
<1>8. CASE Reply(w, "idle")
  BY <1>6, <1>7, <1>8, ReplyKeepsInv DEF Done, storeVars
<1>9. CASE Goto(w, "stale")
  <2>1. /\ pc'[w] = "stale" /\ job'[w] = job[w] /\ lock' = lock
        /\ \A v \in Workers \ {w} : pc'[v] = pc[v] /\ job'[v] = job[v]
    BY <1>9, InvBase, GotoFrame
  <2>2. WorkerInv(w)'
    BY <1>1, <1>2, <1>3, <1>6, <2>1 DEF WorkerInv, Critical, cluster
  <2>3. Touches(w, k)
    BY <1>6, <2>1 DEF Touches, LockFree, cluster, storeVars
  <2> QED BY <1>7, <2>2, <2>3, TouchesKeepsInv
<1>10. CASE proceed
  <2>1. job' = [job EXCEPT ![w] = j]
    BY <1>10, InvBase DEF WorkerTypeOK
  <2>2. PICK step \in {"reconcile_probe", "node_check"} :
           pc' = [pc EXCEPT ![w] = step]
    BY <1>10
  <2>3. /\ step \in Critical /\ step \notin {"node_attach", "record"}
        /\ step \notin {"unmount_probe", "unmount_node"}
    BY <2>2 DEF Critical
  <2>4. Truthful(k, j.prev)
    BY <1>3, <1>4, <1>10 DEF TargetInv
  <2> HIDE DEF j, root, fp
  <2> QED
    BY <1>4, <1>5, <1>6, <1>7, <1>10, <2>1, <2>2, <2>3, <2>4, AcquireKeepsInv
       DEF storeVars
<1> QED BY <1>6, <1>8, <1>9, <1>10

LEMMA ReconcileStaleInv ==
    ASSUME Inv, Base', NEW w \in Workers, ReconcileStale(w)
    PROVE  Inv'
<1>1. pc[w] \notin Done
  BY DEF ReconcileStale, Done
<1>2. PICK k \in Keys : k = job[w].key
  BY <1>1, AtWork
<1>3. Base /\ TargetInv(k)
  BY <1>1, <1>2, AtWork, InvBase
<1>4. /\ LockFree(w, k) /\ UNCHANGED <<cluster, stack>> /\ Reply(w, "idle")
      /\ UNCHANGED storeVars \/ DeleteOK(k) \/ DeleteFails(k)
  BY <1>2 DEF ReconcileStale, Delete
<1>5. /\ TargetInv(k)'
      /\ \A i \in Keys \ {k} : mounts'[i] = mounts[i] /\ files'[i] = files[i]
  <2>1. CASE UNCHANGED storeVars
    BY <1>3, <1>4, <2>1, SameTarget DEF storeVars, cluster
  <2>2. CASE DeleteOK(k) \/ DeleteFails(k)
    BY <1>3, <1>4, <2>2, DeleteTarget, DeleteFrame DEF cluster
  <2> QED BY <1>4, <2>1, <2>2
<1> QED BY <1>4, <1>5, ReplyKeepsInv DEF Done

-----------------------------------------------------------------------------
(* New work, the environment, and the theorems.                            *)

\* A handler reads the Pod status, which is never ahead of the containers.
LEMMA MountAuthorizeInv ==
    ASSUME Inv, Base', NEW w \in Workers, NEW k \in Keys, NEW r \in Requests,
           NEW provided, MountAuthorize(w, k, r, provided)
    PROVE  Inv'
<1>1. UNCHANGED <<storeVars, lock, cluster, stack>> /\ WorkerTypeOK
  BY InvBase DEF MountAuthorize
<1>2. \A v \in Workers \ {w} : pc'[v] = pc[v] /\ job'[v] = job[v]
  BY <1>1 DEF MountAuthorize, WorkerTypeOK
<1>3. CASE pc'[w] \in Done
  BY <1>1, <1>2, <1>3, DoneInv, BeginKeepsInv
<1>4. CASE /\ pc'[w] = "mount_lock" /\ job'[w].key = k
           /\ job'[w].cid = status[PodOf[k]] /\ job'[w].prev = None
  <2>1. PodOf[k] \in Pods /\ status[PodOf[k]] <= gen[PodOf[k]]
    BY WrapperAssumption DEF Inv
  <2>2. WorkerInv(w)'
    BY <1>1, <1>4, <2>1 DEF WorkerInv, Critical, cluster
  <2> QED BY <1>1, <1>2, <2>2, BeginKeepsInv
<1> QED BY <1>1, <1>3, <1>4 DEF MountAuthorize, WorkerTypeOK, Done

LEMMA UnmountAuthorizeInv ==
    ASSUME Inv, Base', NEW w \in Workers, NEW k \in Keys, NEW pv \in PVs,
           UnmountAuthorize(w, k, pv)
    PROVE  Inv'
<1>1. UNCHANGED <<storeVars, lock, cluster, stack>> /\ WorkerTypeOK
  BY InvBase DEF UnmountAuthorize
<1>2. \A v \in Workers \ {w} : pc'[v] = pc[v] /\ job'[v] = job[v]
  BY <1>1 DEF UnmountAuthorize, WorkerTypeOK
<1>3. CASE pc'[w] \in Done
  BY <1>1, <1>2, <1>3, DoneInv, BeginKeepsInv
<1>4. CASE /\ pc'[w] = "unmount_lock" /\ job'[w].key = k
           /\ job'[w].cid = status[PodOf[k]] /\ job'[w].prev = None
  <2>1. PodOf[k] \in Pods /\ status[PodOf[k]] <= gen[PodOf[k]]
    BY WrapperAssumption DEF Inv
  <2>2. WorkerInv(w)'
    BY <1>1, <1>4, <2>1 DEF WorkerInv, Critical, cluster
  <2> QED BY <1>1, <1>2, <2>2, BeginKeepsInv
<1> QED BY <1>1, <1>3, <1>4 DEF UnmountAuthorize, WorkerTypeOK, Done

\* A reconciler takes up a record with a view of the Pod that may be old.
LEMMA ObserveInv ==
    ASSUME Inv, Base', NEW w \in Workers, NEW k \in Keys, NEW c,
           c <= gen[PodOf[k]], NEW step \in {"reconcile_lock", "stale"},
           Observe(w, k, c, step)
    PROVE  Inv'
<1>1. UNCHANGED <<storeVars, lock, cluster, stack>> /\ WorkerTypeOK
  BY InvBase DEF Observe
<1>2. /\ \A v \in Workers \ {w} : pc'[v] = pc[v] /\ job'[v] = job[v]
      /\ pc'[w] = step /\ job'[w].key = k /\ job'[w].cid = c
      /\ job'[w].prev = mounts[k]
  BY <1>1 DEF Observe, WorkerTypeOK
<1>3. mounts[k] # None => mounts[k].cid <= gen[PodOf[k]]
  BY DEF Inv, TargetInv, Truthful
<1>4. WorkerInv(w)'
  BY <1>1, <1>2, <1>3 DEF WorkerInv, Critical, cluster
<1> QED BY <1>1, <1>2, <1>4, BeginKeepsInv

\* The index leads an event of Pod p only to the records of p, whose keys
\* belong to it.
LEMMA BeginInv ==
    ASSUME Inv, Base', NEW w \in Workers, Begin(w)
    PROVE  Inv'
<1>1. ASSUME NEW k \in Keys, NEW c, NEW step \in {"reconcile_lock", "stale"},
             c \in CachedViews(PodOf[k]) \cup {LiveView(PodOf[k]), NoContainer},
             Observe(w, k, c, step)
      PROVE  Inv'
  <2>1. /\ PodOf[k] \in Pods /\ status[PodOf[k]] <= gen[PodOf[k]]
        /\ status[PodOf[k]] \in 1..MaxGen /\ gen[PodOf[k]] \in 1..MaxGen
    BY WrapperAssumption DEF Inv, TypeOK, ClusterTypeOK
  <2>2. c <= gen[PodOf[k]]
    BY <1>1, <2>1, StoreAssumption DEF CachedViews, LiveView, NoContainer
  <2> QED BY <1>1, <2>2, ObserveInv
<1>2. ASSUME NEW k \in Keys, NEW p \in Pods, ReconcilePodEvent(w, p, k)
      PROVE  Inv'
  <2>1. p = PodOf[k]
    BY <1>2 DEF ReconcilePodEvent, Inv, IndexExact, TargetInv, Truthful
  <2> QED BY <1>1, <1>2, <2>1 DEF ReconcilePodEvent
<1>3. ASSUME NEW k \in Keys, ReconcilePodSnapshot(w, k) \/ ReconcileRetry(w, k)
      PROVE  Inv'
  BY <1>1, <1>3 DEF ReconcilePodSnapshot, ReconcileRetry
<1> QED BY <1>2, <1>3, MountAuthorizeInv, UnmountAuthorizeInv DEF Begin

LEMMA EnvironmentInv ==
    ASSUME Inv, Base', Environment
    PROVE  Inv'
<1>0. WorkerTypeOK /\ ClusterTypeOK
  BY DEF Inv, TypeOK
<1>1. ASSUME NEW p \in Pods,
             \/ RestartContainer(p)
             \/ DeletePod(p)
      PROVE  Inv'
  <2>1. /\ UNCHANGED <<mounts, files, pc, job, lock, status>>
        /\ \A q \in Pods : gen[q] <= gen'[q] /\ (q # p => gen'[q] = gen[q])
        /\ \A q \in Pods : q # p => present'[q] = present[q]
    BY <1>0, <1>1
       DEF RestartContainer, DeletePod, storeVars, workers, ClusterTypeOK
  <2>2. \A c : c <= gen[p] => ~(present'[p] /\ gen'[p] = c)
    BY <1>0, <1>1 DEF RestartContainer, DeletePod, ClusterTypeOK
  <2>3. ASSUME NEW k \in Keys
        PROVE  /\ PodOf[k] # p => stack'[k] = stack[k]
               /\ PodOf[k] = p => Len(stack'[k]) <= 1
    BY <1>0, <1>1, FreshType DEF RestartContainer, DeletePod, ClusterTypeOK
  <2>4. ASSUME NEW k \in Keys PROVE PodOf[k] \in Pods /\ gen[PodOf[k]] \in Int
                                    /\ gen'[PodOf[k]] \in Int
    BY <1>0, WrapperAssumption DEF ClusterTypeOK, Base, TypeOK
  <2>5. ASSUME NEW k \in Keys, NEW r \in Records \cup {None}, Truthful(k, r)
        PROVE  r # None => /\ r.pod = PodOf[k]
                           /\ r.cid <= gen'[PodOf[k]]
                           /\ present'[PodOf[k]] /\ gen'[PodOf[k]] = r.cid
                              /\ k \in Straight
                              => stack'[k] # <<>>
    <3>1. r # None => r.cid \in Int
      BY <2>5, StoreAssumption DEF Records, NoContainer
    <3> QED BY <2>1, <2>2, <2>3, <2>4, <2>5, <3>1
            DEF Truthful, Running, IsMountPoint
  <2>6. ASSUME NEW k \in Keys PROVE TargetInv(k)'
    <3>1. TargetInv(k) /\ mounts[k] \in Records \cup {None}
          /\ files[k] \in Records \cup {None}
      BY DEF Inv, TypeOK, StoreTypeOK
    <3>2. k \in Straight => Len(stack'[k]) <= 1
      BY <2>3, <3>1 DEF TargetInv
    <3> QED BY <2>1, <2>5, <3>1, <3>2
            DEF TargetInv, Truthful, Running, IsMountPoint
  <2>7. ASSUME NEW w \in Workers PROVE WorkerInv(w)'
    <3> SUFFICES ASSUME pc[w] \notin Done PROVE WorkerInv(w)'
      BY <2>1 DEF WorkerInv
    <3>1. PICK k \in Keys : k = job[w].key
      BY AtWork
    <3>2. /\ WorkerInv(w) /\ job[w].cid \in Int
          /\ job[w].prev \in Records \cup {None}
          /\ job[w].prev # None => job[w].prev.cid \in Int
      BY AtWork, StoreAssumption DEF Records, NoContainer
    <3>3. /\ job[w].cid <= gen'[PodOf[k]]
          /\ job[w].prev # None => job[w].prev.cid <= gen'[PodOf[k]]
      BY <2>1, <2>4, <3>1, <3>2 DEF WorkerInv
    <3>4. CASE PodOf[k] = p
      <4>1. ~(present'[p] /\ gen'[p] = job[w].cid)
        BY <2>2, <3>1, <3>2, <3>4 DEF WorkerInv
      <4> QED BY <2>1, <2>5, <3>1, <3>2, <3>3, <3>4, <4>1
              DEF WorkerInv, Truthful, Running, IsMountPoint
    <3>5. CASE PodOf[k] # p
      <4>1. /\ gen'[PodOf[k]] = gen[PodOf[k]] /\ stack'[k] = stack[k]
            /\ present'[PodOf[k]] = present[PodOf[k]]
        BY <2>1, <2>3, <2>4, <3>5
      <4> QED BY <2>1, <3>1, <3>2, <4>1
              DEF WorkerInv, Truthful, Running, IsMountPoint
    <3> QED BY <3>4, <3>5
  <2>8. \A q \in Pods : status'[q] <= gen'[q]
    <3>1. \A q \in Pods : status[q] <= gen[q] /\ status[q] \in Int
                          /\ gen[q] \in Int /\ gen'[q] \in Int
      BY <1>0 DEF Inv, ClusterTypeOK, Base, TypeOK
    <3> QED BY <2>1, <3>1
  <2> QED BY <2>6, <2>7, <2>8 DEF Inv, Base
<1>2. ASSUME /\ UNCHANGED <<mounts, files, pc, job, lock, gen, present, stack>>
             /\ \A p \in Pods : status'[p] <= gen'[p]
      PROVE  Inv'
  <2>1. ASSUME NEW k \in Keys PROVE TargetInv(k)'
    BY <1>2 DEF Inv, TargetInv, Truthful, Running, IsMountPoint
  <2>2. ASSUME NEW w \in Workers PROVE WorkerInv(w)'
    BY <1>2 DEF Inv, WorkerInv, Truthful, Running, IsMountPoint
  <2> QED BY <1>2, <2>1, <2>2 DEF Inv, Base
<1>3. ASSUME NEW p \in Pods, PublishStatus(p) PROVE Inv'
  <2>1. \A q \in Pods : status'[q] <= gen'[q]
    BY <1>0, <1>3 DEF PublishStatus, Inv, ClusterTypeOK
  <2> QED BY <1>2, <1>3, <2>1 DEF PublishStatus, storeVars, workers
<1>4. ASSUME NEW v \in PVs, AlterPV(v) PROVE Inv'
  <2>1. \A q \in Pods : status'[q] <= gen'[q]
    BY <1>4 DEF AlterPV, Inv
  <2> QED BY <1>2, <1>4, <2>1 DEF AlterPV, storeVars, workers
<1>5. CASE Crash
  <2>1. ASSUME NEW k \in Keys PROVE TargetInv(k)'
    <3>1. TargetInv(k) /\ files[k] \in Records \cup {None}
      BY DEF Inv, TypeOK, StoreTypeOK
    <3>2. /\ mounts'[k] = Loaded(files[k]) /\ files'[k] = files[k]
          /\ UNCHANGED <<gen, present, stack>>
      BY <1>5 DEF Crash, Load
    <3>3. /\ files[k] = None => Loaded(files[k]) = None
          /\ files[k] # None => /\ Loaded(files[k]).cid = files[k].cid
                                /\ Loaded(files[k]).pod = files[k].pod
      BY <3>1 DEF Loaded, Records
    <3>4. Truthful(k, Loaded(files[k]))
      BY <3>1, <3>3 DEF TargetInv, Truthful
    <3> QED BY <3>1, <3>2, <3>4
            DEF TargetInv, Truthful, Running, IsMountPoint
  <2>2. ASSUME NEW w \in Workers PROVE WorkerInv(w)'
    BY <1>5 DEF Crash, WorkerInv, Done
  <2>3. \A q \in Pods : status'[q] <= gen'[q]
    BY <1>5 DEF Crash, Inv
  <2> QED BY <2>1, <2>2, <2>3 DEF Inv, Base
<1> QED BY <1>1, <1>3, <1>4, <1>5 DEF Environment

LEMMA InitInv ==
    ASSUME Init
    PROVE  Inv
<1>1. Base
  BY InitBase
<1>2. ASSUME NEW k \in Keys PROVE TargetInv(k)
  <2>1. gen[PodOf[k]] = 1 /\ mounts[k] = Loaded(files[k])
    BY WrapperAssumption DEF Init
  <2>2. CASE files[k] = None /\ stack[k] = FreshStack(k)
    BY <2>1, <2>2, FreshType DEF TargetInv, Truthful, Loaded
  <2>3. ASSUME NEW r \in Requests, Upgraded(k, r) PROVE TargetInv(k)
    <3>4. files[k] \in Records /\ files[k] # None
      BY <2>3, LegacyType, WrapperAssumption, NoneAssumption DEF Upgraded
    <3>1. files[k].pod = PodOf[k] /\ files[k].cid = 1
      BY <2>3 DEF Upgraded, LegacyRecord
    <3>2. Loaded(files[k]).pod = PodOf[k] /\ Loaded(files[k]).cid = 1
      BY <3>1, <3>4 DEF Loaded, Records
    <3>3. stack[k] # <<>> /\ Len(stack[k]) <= 1
      BY <2>3 DEF Upgraded
    <3> QED BY <2>1, <3>1, <3>2, <3>3, <3>4 DEF TargetInv, Truthful, IsMountPoint
  <2> QED BY <2>2, <2>3 DEF Init
<1>3. \A w \in Workers : WorkerInv(w)
  BY DEF Init, WorkerInv, Done
<1>4. \A p \in Pods : status[p] <= gen[p]
  BY DEF Init
<1> QED BY <1>1, <1>2, <1>3, <1>4 DEF Inv, Base

LEMMA NextInv ==
    ASSUME Inv, [Next]_vars
    PROVE  Inv'
<1>1. Base'
  BY InvBase, NextBase
<1>2. CASE UNCHANGED vars
  <2>1. ASSUME NEW k \in Keys PROVE TargetInv(k)'
    BY <1>2 DEF Inv, vars, storeVars, cluster, TargetInv, Truthful, Running,
                IsMountPoint
  <2>2. ASSUME NEW w \in Workers PROVE WorkerInv(w)'
    BY <1>2 DEF Inv, vars, storeVars, workers, cluster, WorkerInv, Truthful,
                Running, IsMountPoint
  <2>3. \A p \in Pods : status'[p] <= gen'[p]
    BY <1>2 DEF Inv, vars, cluster
  <2> QED BY <1>1, <2>1, <2>2, <2>3 DEF Inv, Base
<1>3. ASSUME NEW w \in Workers, Begin(w) PROVE Inv'
  BY <1>1, <1>3, BeginInv
<1>4. ASSUME NEW w \in Workers, Enter(w) PROVE Inv'
  BY <1>1, <1>4, MountAdmitInv, UnmountAdmitInv, ReconcileAdmitInv,
     ReconcileStaleInv DEF Enter
<1>5. ASSUME NEW w \in Workers, Advance(w) PROVE Inv'
  BY <1>1, <1>5, MountProbeInv, MountIntentInv, MountRestoreInv, NodeCheckInv,
     NodeAttachInv, RecordInv, UnmountProbeInv, UnmountNodeInv,
     ReconcileProbeInv DEF Advance
<1>6. CASE Environment
  BY <1>1, <1>6, EnvironmentInv
<1> QED BY <1>2, <1>3, <1>4, <1>5, <1>6 DEF Next

\* Inv holds in every reachable state, whatever the number of workers,
\* targets, Pods and mutexes, and with crashes, failed writes and failed node
\* operations at any point.
THEOREM InvHolds == Spec => []Inv
<1>1. Init => Inv
  BY InitInv
<1>2. Inv /\ [Next]_vars => Inv'
  BY NextInv
<1> QED BY <1>1, <1>2, PTL DEF Spec

\* A record that names the running container, in memory or on disk, always
\* describes a target that is mounted in it.
THEOREM RecordsAreTruthful == Spec => []RecordedMeansMounted
<1>1. Inv => RecordedMeansMounted
  BY DEF Inv, TargetInv, Truthful, RecordedMeansMounted, Straight
<1> QED BY <1>1, InvHolds, PTL

\* No target that no symbolic link leads from or to ever carries two mounts.
THEOREM MountsNeverStack == Spec => []NeverStacks
<1>1. Inv => NeverStacks
  BY DEF Inv, TargetInv, NeverStacks, Straight
<1> QED BY <1>1, InvHolds, PTL
=============================================================================
