-------------------------- MODULE NodeMounterProofs --------------------------
(***************************************************************************)
(* Proofs about internal/node/mounter_linux.go.  LinuxMounter: for any     *)
(* number of callers, targets, PVs and mutexes, the mutexes keep the calls *)
(* for one PV apart, nothing stays staged at rest, and linuxMounter.Mount  *)
(* implements MountService.  NamespaceSwitch: for any number of goroutines,*)
(* threads and containers, and a failure of any step, a thread goes back   *)
(* to the pool as it came, and the mount and unmount calls act in the      *)
(* container.                                                              *)
(*                                                                         *)
(* A staging mount is left behind where staging mounts are kept, and where *)
(* a cleanup fails (the run busy_staging); the result about the source that *)
(* is attached is for the other nodes, TidyNode.                           *)
(***************************************************************************)
EXTENDS LinuxMounter, NamespaceSwitch, TLAPS

TidyNode == UnstageAfterMount /\ Faults \cap {"busy", "away", "read"} = {}

\* A caller has a plan exactly while it is inside Mount, and has attached it
\* only when cleaning up is all that is left.
PlanWhileInside ==
    /\ \A c \in Callers : pc[c] = "idle" <=> plan[c] = NoPlan
    /\ \A c \in done : pc[c] = "cleanup"

Base == TypeOK /\ PlanWhileInside

\* A call that is past the lock, for PV v.
Inside(c, v) == pc[c] \in Critical /\ plan[c].pv = v

\* Cleaning up leaves nothing, or a warning in the log.
RestExact ==
    \A v \in PVs : (\A c \in Callers : ~Inside(c, v)) /\ v \notin warned
                   => stage[v] = <<>> /\ v \notin dirs

\* What is at the staging path of a call, from step to step.
StagedFor(c) ==
    LET v == plan[c].pv
    IN /\ pc[c] \in {"stage", "nfs"} => stage[v] = <<>>
       /\ pc[c] \in {"open", "legacy", "check", "attach"} => stage[v] = <<plan[c].source>>
       /\ pc[c] \in {"check", "attach"} => tree[c] = plan[c].source
       /\ pc[c] = "cleanup" => stage[v] = <<>> \/ stage[v] = <<plan[c].source>>

StagingExact ==
    /\ \A c \in Callers : StagedFor(c)
    /\ \A v \in PVs : (\A c \in Callers : ~Inside(c, v)) => stage[v] = <<>>

\* A target belongs to one call, and nothing is mounted there any more when the
\* call found that.
TargetsFree ==
    /\ \A c, d \in Callers :
          plan[c] # NoPlan /\ plan[d] # NoPlan /\ plan[c].target = plan[d].target
          => c = d
    /\ \A c \in Callers : pc[c] = "attach" => target[plan[c].target] = NoSource

IInv == Base /\ StagingExact /\ TargetsFree

-----------------------------------------------------------------------------
(* The calls are well typed and exclude each other.                        *)

\* A caller inside Mount has a plan, whose mutex is one of the stripes.
LEMMA PlanType ==
    ASSUME Base, NEW c \in Callers, pc[c] # "idle"
    PROVE  /\ plan[c] \in Plans
           /\ plan[c].target \in Targets /\ plan[c].pv \in PVs
           /\ plan[c].source \in Sources
           /\ Stripe[plan[c].pv] \in Stripes
  <1>1. plan[c] \in Plans
    BY DEF Base, TypeOK, PlanWhileInside
  <1> QED  BY <1>1, MounterAssumption DEF Plans

\* The mutex of a PV lets one call for it past Lock.
LEMMA OneInside ==
    ASSUME Base, NEW c \in Callers, NEW d \in Callers,
           pc[c] \in Critical, pc[d] \in Critical,
           Stripe[plan[c].pv] = Stripe[plan[d].pv]
    PROVE  c = d
  BY DEF Base, TypeOK

LEMMA InitBase == Init => Base
  BY MounterAssumption, NoPlanAssumption
  DEF Init, Base, TypeOK, PlanWhileInside, Critical

LEMMA CallBase ==
    ASSUME Base, NEW c \in Callers, NEW t \in Targets, NEW v \in PVs, Call(c, t, v)
    PROVE  Base'
  <1> DEFINE p == [target |-> t, pv |-> v, source |-> source[v]]
  <1>1. p \in Plans /\ p # NoPlan
    BY NoPlanAssumption DEF Plans, Base, TypeOK
  <1>2. /\ pc' = [pc EXCEPT ![c] = "lock"] /\ plan' = [plan EXCEPT ![c] = p]
        /\ pc[c] = "idle"
        /\ UNCHANGED <<source, stage, dirs, warned, lock, target, tree, done>>
    BY DEF Call, Goto, node
  <1> HIDE DEF p
  <1>3. TypeOK'
    BY <1>1, <1>2 DEF Base, TypeOK, Critical
  <1>4. PlanWhileInside'
    BY <1>1, <1>2 DEF Base, TypeOK, PlanWhileInside
  <1> QED  BY <1>3, <1>4 DEF Base

LEMMA RefuseBase ==
    ASSUME Base, NEW c \in Callers, Refuse(c)
    PROVE  Base'
  BY DEF Refuse, Goto, node, Base, TypeOK, PlanWhileInside, Critical

LEMMA LockBase ==
    ASSUME Base, NEW c \in Callers, Lock(c)
    PROVE  Base'
  <1> DEFINE s == Stripe[plan[c].pv]
  <1>1. s \in Stripes /\ plan[c] # NoPlan
    BY PlanType, NoPlanAssumption DEF Lock
  <1>2. /\ pc[c] = "lock" /\ lock[s] = None /\ lock' = [lock EXCEPT ![s] = c]
        /\ pc' = [pc EXCEPT ![c] = "stage"]
        /\ UNCHANGED <<source, stage, dirs, warned, target, plan, tree, done>>
    BY DEF Lock, Goto
  <1>3. \A d \in Callers : pc'[d] \in Critical => lock'[Stripe[plan[d].pv]] = d
    <2> SUFFICES ASSUME NEW d \in Callers, pc'[d] \in Critical
                 PROVE  lock'[Stripe[plan[d].pv]] = d
      OBVIOUS
    <2>1. CASE d = c
      BY <2>1, <1>1, <1>2 DEF Base, TypeOK
    <2>2. CASE d # c
      <3>1. pc[d] \in Critical /\ lock[Stripe[plan[d].pv]] = d
        BY <2>2, <1>2 DEF Base, TypeOK
      <3>2. Stripe[plan[d].pv] # s
        BY <3>1, <1>2, MounterAssumption
      <3> QED  BY <3>1, <3>2, <1>2, <1>1 DEF Base, TypeOK
    <2> QED  BY <2>1, <2>2
  <1>4. TypeOK'
    BY <1>1, <1>2, <1>3 DEF Base, TypeOK, Critical
  <1>5. PlanWhileInside'
    BY <1>1, <1>2 DEF Base, TypeOK, PlanWhileInside
  <1> QED  BY <1>4, <1>5 DEF Base

\* A call moves on past the lock and leaves the mutexes and the plans alone.
LEMMA StepBase ==
    ASSUME Base, NEW c \in Callers, NEW step \in Critical,
           pc[c] \in Critical, Goto(c, step), UNCHANGED <<source, lock, plan>>,
           stage' \in [PVs -> Seq(Sources)],
           dirs' \in SUBSET PVs, warned' \in SUBSET PVs,
           target' \in [Targets -> Sources \cup {NoSource}],
           tree' \in [Callers -> Sources \cup {NoSource}],
           done' \subseteq done \cup {c}, step = "cleanup" \/ UNCHANGED done,
           c \in done => step = "cleanup"
    PROVE  Base'
  <1>1. pc' = [pc EXCEPT ![c] = step]
    BY DEF Goto
  <1>2. TypeOK'
    BY <1>1 DEF Base, TypeOK, Critical
  <1>3. PlanWhileInside'
    BY <1>1 DEF Base, TypeOK, PlanWhileInside, Critical
  <1> QED  BY <1>2, <1>3 DEF Base

LEMMA StageBase ==
    ASSUME Base, NEW c \in Callers, Stage(c)
    PROVE  Base'
  <1>1. plan[c].pv \in PVs /\ pc[c] = "stage"
    BY PlanType DEF Stage
  <1>2. PICK step \in {"open", "nfs", "cleanup"} : Goto(c, step)
    BY DEF Stage
  <1>3. /\ dirs' \in SUBSET PVs /\ stage' \in [PVs -> Seq(Sources)]
        /\ warned' \in SUBSET PVs
        /\ UNCHANGED <<source, lock, target, plan, tree, done>>
    BY <1>1 DEF Stage, Base, TypeOK
  <1>4. c \notin done /\ target' \in [Targets -> Sources \cup {NoSource}]
        /\ tree' \in [Callers -> Sources \cup {NoSource}]
    BY <1>1, <1>3 DEF Base, TypeOK, PlanWhileInside
  <1> QED  BY <1>1, <1>2, <1>3, <1>4, StepBase DEF Critical

LEMMA MountNFSBase ==
    ASSUME Base, NEW c \in Callers, MountNFS(c)
    PROVE  Base'
  <1>1. plan[c].pv \in PVs /\ plan[c].source \in Sources /\ pc[c] = "nfs"
    BY PlanType DEF MountNFS
  <1>2. PICK step \in {"open", "cleanup"} : Goto(c, step)
    BY DEF MountNFS
  <1>3. stage' \in [PVs -> Seq(Sources)]
    <2>1. \A q \in Seq(Sources) : <<plan[c].source>> \o q \in Seq(Sources)
      BY <1>1
    <2>2. \/ UNCHANGED stage
          \/ stage' = [stage EXCEPT ![plan[c].pv] = <<plan[c].source>> \o @]
      BY DEF MountNFS
    <2>3. stage \in [PVs -> Seq(Sources)] /\ stage[plan[c].pv] \in Seq(Sources)
      BY <1>1 DEF Base, TypeOK
    <2> QED  BY <2>1, <2>2, <2>3
  <1>4. /\ dirs' \in SUBSET PVs /\ warned' \in SUBSET PVs
        /\ UNCHANGED <<source, lock, target, plan, tree, done>>
    BY DEF MountNFS, Base, TypeOK
  <1>5. c \notin done /\ target' \in [Targets -> Sources \cup {NoSource}]
        /\ tree' \in [Callers -> Sources \cup {NoSource}]
    BY <1>1, <1>4 DEF Base, TypeOK, PlanWhileInside
  <1> QED  BY <1>1, <1>2, <1>3, <1>4, <1>5, StepBase DEF Critical

\* What open_tree or open reaches is a source, or the bare directory.
LEMMA AtStagingPathType ==
    ASSUME Base, NEW v \in PVs
    PROVE  AtStagingPath(v) \in Sources \cup {NoSource}
  <1>1. \A q \in Seq(Sources) : q # <<>> => Head(q) \in Sources
    OBVIOUS
  <1> QED  BY <1>1 DEF AtStagingPath, Staged, Base, TypeOK

LEMMA OpenBase ==
    ASSUME Base, NEW c \in Callers, OpenTree(c) \/ OpenLegacy(c)
    PROVE  Base'
  <1>1. plan[c].pv \in PVs /\ pc[c] \in {"open", "legacy"}
    BY PlanType DEF OpenTree, OpenLegacy
  <1>2. PICK step \in {"check", "legacy", "cleanup"} : Goto(c, step)
    BY DEF OpenTree, OpenLegacy
  <1>3. tree' \in [Callers -> Sources \cup {NoSource}]
    BY <1>1, AtStagingPathType DEF OpenTree, OpenLegacy, Base, TypeOK
  <1>4. UNCHANGED <<source, stage, dirs, warned, lock, target, plan, done>>
    BY DEF OpenTree, OpenLegacy, node
  <1>5. c \notin done /\ stage' \in [PVs -> Seq(Sources)] /\ dirs' \in SUBSET PVs
        /\ warned' \in SUBSET PVs /\ target' \in [Targets -> Sources \cup {NoSource}]
    BY <1>1, <1>4 DEF Base, TypeOK, PlanWhileInside
  <1> QED  BY <1>1, <1>2, <1>3, <1>4, <1>5, StepBase DEF Critical

LEMMA CheckBase ==
    ASSUME Base, NEW c \in Callers, CheckTarget(c)
    PROVE  Base'
  <1>1. pc[c] = "check" /\ UNCHANGED <<source, stage, dirs, warned, lock, target, plan, done>>
    BY DEF CheckTarget, node
  <1>2. PICK step \in {"attach", "cleanup"} : Goto(c, step)
    BY DEF CheckTarget
  <1>3. /\ c \notin done /\ stage' \in [PVs -> Seq(Sources)]
        /\ dirs' \in SUBSET PVs /\ warned' \in SUBSET PVs
        /\ target' \in [Targets -> Sources \cup {NoSource}]
        /\ tree' \in [Callers -> Sources \cup {NoSource}]
    BY <1>1 DEF CheckTarget, Base, TypeOK, PlanWhileInside
  <1> QED  BY <1>1, <1>2, <1>3, StepBase DEF Critical

LEMMA AttachBase ==
    ASSUME Base, NEW c \in Callers, Attach(c)
    PROVE  Base'
  <1>1. pc[c] = "attach" /\ Goto(c, "cleanup")
    BY DEF Attach
  <1>2. /\ UNCHANGED <<source, stage, dirs, warned, lock, plan>>
        /\ done' \subseteq done \cup {c}
    BY DEF Attach
  <1>3. /\ target' \in [Targets -> Sources \cup {NoSource}]
        /\ tree' \in [Callers -> Sources \cup {NoSource}]
    BY DEF Attach, Base, TypeOK
  <1>4. /\ stage' \in [PVs -> Seq(Sources)]
        /\ dirs' \in SUBSET PVs /\ warned' \in SUBSET PVs
    BY <1>2 DEF Base, TypeOK
  <1> QED  BY <1>1, <1>2, <1>3, <1>4, StepBase DEF Critical

\* cleanupStagingPath touches one PV, and warns if it leaves something.
LEMMA CleanupOfOne ==
    ASSUME Base, NEW v \in PVs, CleanedUp(v)
    PROVE  /\ stage' \in [PVs -> Seq(Sources)]
           /\ dirs' \in SUBSET PVs /\ warned' \in SUBSET PVs
           /\ \A u \in PVs : u # v => stage'[u] = stage[u]
           /\ \A u \in PVs : u # v => (u \in dirs' <=> u \in dirs)
           /\ \A u \in PVs : u # v => (u \in warned' <=> u \in warned)
           /\ v \in warned' \/ (stage'[v] = <<>> /\ v \notin dirs')
  <1>1. /\ stage \in [PVs -> Seq(Sources)]
        /\ dirs \in SUBSET PVs /\ warned \in SUBSET PVs
    BY DEF Base, TypeOK
  <1>2. \/ CleanupFails(v)
        \/ Staged(v) /\ stage' = [stage EXCEPT ![v] = Tail(@)] /\ RemoveStagingDir(v)
        \/ UNCHANGED stage /\ RemoveStagingDir(v)
    BY DEF CleanedUp
  <1>3. /\ stage' \in [PVs -> Seq(Sources)]
        /\ \A u \in PVs : u # v => stage'[u] = stage[u]
    <2>1. \A q \in Seq(Sources) : q # <<>> => Tail(q) \in Seq(Sources)
      OBVIOUS
    <2> QED  BY <1>1, <1>2, <2>1 DEF Staged, CleanupFails
  <1>4. \/ stage'[v] = <<>> /\ dirs' = dirs \ {v} /\ warned' = warned \ {v}
        \/ UNCHANGED dirs /\ warned' = warned \cup {v}
    BY <1>2 DEF CleanupFails, RemoveStagingDir
  <1>5. dirs' \in SUBSET PVs /\ warned' \in SUBSET PVs
    BY <1>1, <1>4
  <1>6. v \in warned' \/ (stage'[v] = <<>> /\ v \notin dirs')
    BY <1>4
  <1>7. \A u \in PVs : u # v => (u \in dirs' <=> u \in dirs)
    BY <1>4
  <1>8. \A u \in PVs : u # v => (u \in warned' <=> u \in warned)
    BY <1>4
  <1> QED  BY <1>3, <1>5, <1>6, <1>7, <1>8

LEMMA ReturnBase ==
    ASSUME Base, NEW c \in Callers, Return(c)
    PROVE  Base'
  <1> DEFINE v == plan[c].pv
             s == Stripe[v]
  <1>1. v \in PVs /\ s \in Stripes /\ pc[c] = "cleanup"
    BY PlanType DEF Return
  <1>2. /\ pc' = [pc EXCEPT ![c] = "idle"] /\ lock' = [lock EXCEPT ![s] = None]
        /\ plan' = [plan EXCEPT ![c] = NoPlan] /\ done' = done \ {c}
        /\ UNCHANGED <<source, target, tree>>
    BY DEF Return, Goto, Unlock
  <1>3. /\ stage' \in [PVs -> Seq(Sources)]
        /\ dirs' \in SUBSET PVs /\ warned' \in SUBSET PVs
    <2>1. CASE CleansUp(c)
      BY <1>1, <2>1, CleanupOfOne DEF Return
    <2>2. CASE ~CleansUp(c)
      BY <2>2 DEF Return, Base, TypeOK
    <2> QED  BY <2>1, <2>2
  <1>4. \A d \in Callers : pc'[d] \in Critical => lock'[Stripe[plan'[d].pv]] = d
    <2> SUFFICES ASSUME NEW d \in Callers, pc'[d] \in Critical
                 PROVE  lock'[Stripe[plan'[d].pv]] = d
      OBVIOUS
    <2>1. d # c /\ pc[d] \in Critical /\ plan'[d] = plan[d]
      BY <1>2 DEF Base, TypeOK, Critical
    <2>2. Stripe[plan[d].pv] # s
      BY <2>1, <1>1, OneInside DEF Critical
    <2>3. lock[Stripe[plan[d].pv]] = d /\ Stripe[plan[d].pv] \in Stripes
      BY <2>1, PlanType DEF Base, TypeOK, Critical
    <2> QED  BY <2>1, <2>2, <2>3, <1>2 DEF Base, TypeOK
  <1>5. TypeOK'
    BY <1>1, <1>2, <1>3, <1>4 DEF Base, TypeOK
  <1>6. PlanWhileInside'
    BY <1>2 DEF Base, TypeOK, PlanWhileInside
  <1> QED  BY <1>5, <1>6 DEF Base

LEMMA OthersBase ==
    ASSUME Base, \/ \E v \in PVs : RecreatePV(v)
                 \/ \E t \in Targets : Detach(t)
                 \/ UNCHANGED vars
    PROVE  Base'
  <1>1. UNCHANGED <<stage, dirs, warned, lock, pc, plan, tree, done>>
    BY DEF RecreatePV, Detach, vars, node
  <1>2. source' \in [PVs -> Sources] /\ target' \in [Targets -> Sources \cup {NoSource}]
    <2>1. CASE UNCHANGED vars
      BY <2>1 DEF vars, node, Base, TypeOK
    <2>2. CASE \E v \in PVs : RecreatePV(v)
      BY <2>2 DEF RecreatePV, node, Base, TypeOK
    <2>3. CASE \E t \in Targets : Detach(t)
      BY <2>3 DEF Detach, Base, TypeOK
    <2> QED  BY <2>1, <2>2, <2>3
  <1>3. TypeOK'
    BY <1>1, <1>2 DEF Base, TypeOK
  <1>4. PlanWhileInside'
    BY <1>1 DEF Base, PlanWhileInside
  <1> QED  BY <1>3, <1>4 DEF Base

\* CleanupStagingRoot touches every PV, and warns of what it leaves.
LEMMA CleanupOfAll ==
    ASSUME Base, CleanedRoot
    PROVE  /\ stage' \in [PVs -> Seq(Sources)]
           /\ dirs' \in SUBSET PVs /\ warned' \in SUBSET PVs
           /\ \A v \in PVs : v \in warned' \/ (stage'[v] = <<>> /\ v \notin dirs')
  <1>1. CASE \E busy \in SUBSET PVs :
                /\ stage' = [v \in PVs |-> IF v \in busy THEN stage[v] ELSE <<>>]
                /\ dirs' = busy /\ warned' = busy
    <2>1. PICK busy \in SUBSET PVs :
              /\ stage' = [v \in PVs |-> IF v \in busy THEN stage[v] ELSE <<>>]
              /\ dirs' = busy /\ warned' = busy
      BY <1>1
    <2>2. \A v \in PVs : stage[v] \in Seq(Sources) /\ <<>> \in Seq(Sources)
      BY DEF Base, TypeOK
    <2>3. stage' \in [PVs -> Seq(Sources)]
      BY <2>1, <2>2
    <2>4. \A v \in PVs : v \notin busy => stage'[v] = <<>>
      BY <2>1
    <2>5. dirs' \in SUBSET PVs /\ warned' \in SUBSET PVs
      BY <2>1
    <2>6. \A v \in PVs : v \in warned' \/ (stage'[v] = <<>> /\ v \notin dirs')
      BY <2>1, <2>4
    <2> QED  BY <2>3, <2>5, <2>6, Zenon
  <1>2. CASE warned' = PVs /\ UNCHANGED <<stage, dirs>>
    <2>1. stage \in [PVs -> Seq(Sources)] /\ dirs \in SUBSET PVs
      BY DEF Base, TypeOK
    <2>2. dirs' \in SUBSET PVs /\ warned' \in SUBSET PVs
      BY <1>2, <2>1
    <2>3. stage' \in [PVs -> Seq(Sources)] /\ \A v \in PVs : v \in warned'
      BY <1>2, <2>1
    <2> QED  BY <2>2, <2>3, Zenon
  <1> QED  BY <1>1, <1>2 DEF CleanedRoot

LEMMA RestartBase ==
    ASSUME Base, Restart
    PROVE  Base'
  <1>1. /\ stage' \in [PVs -> Seq(Sources)]
        /\ dirs' \in SUBSET PVs /\ warned' \in SUBSET PVs
    <2>1. CASE UnstageAfterMount
      BY <2>1, CleanupOfAll DEF Restart
    <2>2. CASE ~UnstageAfterMount
      BY <2>2 DEF Restart, Base, TypeOK
    <2> QED  BY <2>1, <2>2
  <1> QED  BY <1>1 DEF Restart, Base, TypeOK, PlanWhileInside, Critical

LEMMA NextBase == Base /\ [Next]_vars => Base'
  <1> SUFFICES ASSUME Base, [Next]_vars PROVE Base'
    OBVIOUS
  <1>1. ASSUME NEW c \in Callers, NEW t \in Targets, NEW v \in PVs, Call(c, t, v)
        PROVE  Base'
    BY <1>1, CallBase
  <1>2. ASSUME NEW c \in Callers, Refuse(c) \/ Lock(c) \/ Proceed(c)
        PROVE  Base'
    BY <1>2, RefuseBase, LockBase, StageBase, MountNFSBase, OpenBase, CheckBase,
       AttachBase, ReturnBase DEF Proceed
  <1>3. CASE \/ \E v \in PVs : RecreatePV(v)
             \/ \E t \in Targets : Detach(t)
             \/ UNCHANGED vars
    BY <1>3, OthersBase
  <1>4. CASE Restart
    BY <1>4, RestartBase
  <1> QED  BY <1>1, <1>2, <1>3, <1>4 DEF Next

\* TypeOK for every instance: in particular a call that is past lock.Lock() in
\* linuxMounter.Mount is the only one there for the PVs of its mutex.
THEOREM MounterTypes == Spec => []TypeOK
  <1>1. Base => TypeOK
    BY DEF Base
  <1> QED  BY <1>1, InitBase, NextBase, PTL DEF Spec

-----------------------------------------------------------------------------
(* What is left at rest.                                                   *)

LEMMA InitRest == Init => RestExact
  BY DEF Init, RestExact

\* A call that goes on keeps its PV out of rest.
LEMMA StepRest ==
    ASSUME Base, RestExact, NEW c \in Callers, NEW step \in Critical,
           pc[c] \in Critical \cup {"lock"}, Goto(c, step), UNCHANGED <<plan, warned>>,
           \A u \in PVs : u # plan[c].pv
                => stage'[u] = stage[u] /\ (u \in dirs' <=> u \in dirs)
    PROVE  RestExact'
  <1> SUFFICES ASSUME NEW u \in PVs, \A d \in Callers : ~Inside(d, u)', u \notin warned'
               PROVE  stage'[u] = <<>> /\ u \notin dirs'
    BY DEF RestExact
  <1>1. pc'[c] = step /\ \A d \in Callers : d # c => pc'[d] = pc[d]
    BY DEF Goto, Base, TypeOK
  <1>2. u # plan[c].pv
    BY <1>1 DEF Inside
  <1>3. \A d \in Callers : ~Inside(d, u)
    BY <1>1, <1>2 DEF Inside
  <1> QED  BY <1>2, <1>3 DEF RestExact

LEMMA CallerRest ==
    ASSUME Base, RestExact, NEW c \in Callers,
           \/ Lock(c) \/ Stage(c) \/ MountNFS(c) \/ OpenTree(c) \/ OpenLegacy(c)
           \/ CheckTarget(c) \/ Attach(c)
    PROVE  RestExact'
  <1>1. PICK step \in Critical : Goto(c, step)
    BY DEF Lock, Stage, MountNFS, OpenTree, OpenLegacy, CheckTarget, Attach, Critical
  <1>2. pc[c] \in Critical \cup {"lock"} /\ UNCHANGED <<plan, warned>>
    BY DEF Lock, Stage, MountNFS, OpenTree, OpenLegacy, CheckTarget, Attach, Critical, node
  <1>3. \A u \in PVs : u # plan[c].pv => stage'[u] = stage[u]
    BY DEF Lock, Stage, MountNFS, OpenTree, OpenLegacy, CheckTarget, Attach, node,
           Base, TypeOK
  <1>4. dirs' = dirs \/ dirs' = dirs \cup {plan[c].pv}
    BY DEF Lock, Stage, MountNFS, OpenTree, OpenLegacy, CheckTarget, Attach, node
  <1>5. \A u \in PVs : u # plan[c].pv => (u \in dirs' <=> u \in dirs)
    BY <1>4
  <1> QED  BY <1>1, <1>2, <1>3, <1>5, StepRest

LEMMA OutsideRest ==
    ASSUME Base, RestExact, NEW c \in Callers,
           \/ \E t \in Targets, v \in PVs : Call(c, t, v)
           \/ Refuse(c)
    PROVE  RestExact'
  <1>1. PICK step \in {"idle", "lock"} : Goto(c, step)
    BY DEF Call, Refuse
  <1>2. pc[c] \in {"idle", "lock"} /\ UNCHANGED <<stage, dirs, warned>>
    BY DEF Call, Refuse, node
  <1>3. \A d \in Callers : d # c => plan'[d] = plan[d]
    BY DEF Call, Refuse, Base, TypeOK
  <1>4. pc'[c] = step /\ \A d \in Callers : d # c => pc'[d] = pc[d]
    BY <1>1 DEF Goto, Base, TypeOK
  <1>5. \A u \in PVs : (\A d \in Callers : ~Inside(d, u)')
                      => \A d \in Callers : ~Inside(d, u)
    BY <1>2, <1>3, <1>4 DEF Inside, Critical
  <1> QED  BY <1>2, <1>5 DEF RestExact

LEMMA ReturnRest ==
    ASSUME UnstageAfterMount, Base, RestExact, NEW c \in Callers, Return(c)
    PROVE  RestExact'
  <1> DEFINE v == plan[c].pv
  <1>1. /\ v \in PVs /\ pc' = [pc EXCEPT ![c] = "idle"] /\ CleanedUp(v)
        /\ plan' = [plan EXCEPT ![c] = NoPlan]
    BY PlanType DEF Return, Goto, CleansUp
  <1> HIDE DEF v
  <1> SUFFICES ASSUME NEW u \in PVs, \A d \in Callers : ~Inside(d, u)', u \notin warned'
               PROVE  stage'[u] = <<>> /\ u \notin dirs'
    BY DEF RestExact
  <1>2. CASE u = v
    BY <1>1, <1>2, CleanupOfOne
  <1>3. CASE u # v
    <2>1. /\ stage'[u] = stage[u] /\ (u \in dirs' <=> u \in dirs)
          /\ (u \in warned' <=> u \in warned)
      BY <1>1, <1>3, CleanupOfOne
    <2>2. \A d \in Callers : d # c => pc'[d] = pc[d] /\ plan'[d] = plan[d]
      BY <1>1 DEF Base, TypeOK
    <2>3. \A d \in Callers : ~Inside(d, u)
      BY <1>3, <2>2 DEF Inside, v
    <2> QED  BY <2>1, <2>3 DEF RestExact
  <1> QED  BY <1>2, <1>3

LEMMA RestartRest ==
    ASSUME UnstageAfterMount, Base, Restart
    PROVE  RestExact'
  <1>1. CleanedRoot
    BY DEF Restart
  <1> QED  BY <1>1, CleanupOfAll DEF RestExact

LEMMA NextRest ==
    ASSUME UnstageAfterMount, Base, RestExact, [Next]_vars
    PROVE  RestExact'
  <1>1. ASSUME NEW c \in Callers, \E t \in Targets, v \in PVs : Call(c, t, v)
        PROVE  RestExact'
    BY <1>1, OutsideRest
  <1>2. ASSUME NEW c \in Callers, Refuse(c) \/ Lock(c) \/ Proceed(c)
        PROVE  RestExact'
    BY <1>2, OutsideRest, CallerRest, ReturnRest DEF Proceed
  <1>3. CASE \/ \E v \in PVs : RecreatePV(v)
             \/ \E t \in Targets : Detach(t)
             \/ UNCHANGED vars
    <2>1. UNCHANGED <<stage, dirs, warned, pc, plan>>
      BY <1>3 DEF RecreatePV, Detach, vars, node
    <2> QED  BY <2>1 DEF RestExact, Inside
  <1>4. CASE Restart
    BY <1>4, RestartRest
  <1> QED  BY <1>1, <1>2, <1>3, <1>4 DEF Next

\* A PV whose mutex is free has no call inside, so the last one has cleaned up.
LEMMA RestIsClean == Base /\ RestExact => NothingStagedAtRest
  <1> SUFFICES ASSUME Base, RestExact, NEW v \in PVs,
                      lock[Stripe[v]] = None, v \notin warned
               PROVE  ~Staged(v) /\ v \notin dirs
    BY DEF NothingStagedAtRest
  <1>1. ASSUME NEW c \in Callers, Inside(c, v)
        PROVE  FALSE
    <2>1. pc[c] \in Critical /\ plan[c].pv = v
      BY <1>1 DEF Inside
    <2>2. lock[Stripe[v]] = c
      BY <2>1 DEF Base, TypeOK
    <2> QED  BY <2>2, MounterAssumption
  <1> QED  BY <1>1 DEF RestExact, Staged

\* README.md:63 for every instance: when no call holds the mutex of a PV,
\* cleanupStagingPath and CleanupStagingRoot have left nothing of it, or the last
\* of them has warned that it did: of a busy mount, of mountinfo that could not
\* be read, and of a directory that stays because mountinfo, being that of a
\* container then, did not list what is mounted there.
THEOREM NothingLeftStaged ==
    ASSUME UnstageAfterMount
    PROVE  Spec => []NothingStagedAtRest
  <1>1. Init => Base /\ RestExact
    BY InitBase, InitRest
  <1>2. Base /\ RestExact /\ [Next]_vars => (Base /\ RestExact)'
    BY NextBase, NextRest
  <1> QED  BY <1>1, <1>2, RestIsClean, PTL DEF Spec

-----------------------------------------------------------------------------
(* Staging, on a tidy node.                                                *)

LEMMA InitStaging == Init => StagingExact
  BY DEF Init, StagingExact, StagedFor, Inside, Critical

\* A call past the lock touches only the staging path of its own PV, and no
\* other call is there.
LEMMA StepStaging ==
    ASSUME IInv, NEW c \in Callers, NEW step \in Critical,
           pc[c] \in Critical, Goto(c, step), UNCHANGED plan,
           \A d \in Callers : d # c => tree'[d] = tree[d],
           \A u \in PVs : u # plan[c].pv => stage'[u] = stage[u],
           StagedFor(c)'
    PROVE  StagingExact'
  <1>1. pc'[c] = step /\ \A d \in Callers : d # c => pc'[d] = pc[d]
    BY DEF Goto, IInv, Base, TypeOK
  <1>2. ASSUME NEW d \in Callers
        PROVE  StagedFor(d)'
    <2>1. CASE d = c
      BY <2>1
    <2>2. CASE d # c /\ pc[d] \in Critical
      <3>1. plan[d].pv # plan[c].pv
        BY <2>2, OneInside DEF IInv
      <3>2. plan[d].pv \in PVs
        BY <2>2, PlanType DEF IInv, Critical
      <3>3. StagedFor(d)
        BY DEF IInv, StagingExact
      <3> QED  BY <3>1, <3>2, <3>3, <2>2, <1>1 DEF StagedFor
    <2>3. CASE d # c /\ pc[d] \notin Critical
      BY <2>3, <1>1 DEF StagedFor, Critical
    <2> QED  BY <2>1, <2>2, <2>3
  <1>3. ASSUME NEW u \in PVs, \A d \in Callers : ~Inside(d, u)'
        PROVE  stage'[u] = <<>>
    <2>1. u # plan[c].pv
      BY <1>1, <1>3 DEF Inside
    <2>2. \A d \in Callers : ~Inside(d, u)
      BY <2>1, <1>1, <1>3 DEF Inside
    <2>3. stage[u] = <<>>
      BY <2>2 DEF IInv, StagingExact
    <2> QED  BY <2>1, <2>3
  <1> QED  BY <1>2, <1>3 DEF StagingExact

\* Call and Refuse stay in front of the lock.
LEMMA OutsideStaging ==
    ASSUME IInv, NEW c \in Callers, NEW step \in {"idle", "lock"},
           pc[c] \in {"idle", "lock"}, Goto(c, step),
           \A d \in Callers : d # c => plan'[d] = plan[d],
           UNCHANGED <<stage, tree>>
    PROVE  StagingExact'
  <1>1. pc'[c] = step /\ \A d \in Callers : d # c => pc'[d] = pc[d]
    BY DEF Goto, IInv, Base, TypeOK
  <1>2. \A d \in Callers : pc'[d] \in Critical => d # c /\ pc[d] \in Critical
    BY <1>1 DEF Critical
  <1>3. ASSUME NEW d \in Callers
        PROVE  StagedFor(d)'
    <2>1. CASE d = c
      BY <2>1, <1>1 DEF StagedFor
    <2>2. CASE d # c
      BY <2>2, <1>1 DEF IInv, StagingExact, StagedFor
    <2> QED  BY <2>1, <2>2
  <1>4. ASSUME NEW u \in PVs, \A d \in Callers : ~Inside(d, u)'
        PROVE  stage'[u] = <<>>
    <2>1. \A d \in Callers : ~Inside(d, u)
      BY <1>1, <1>4 DEF Inside, Critical
    <2> QED  BY <2>1 DEF IInv, StagingExact
  <1> QED  BY <1>3, <1>4 DEF StagingExact

LEMMA CallStaging ==
    ASSUME IInv, NEW c \in Callers,
           \/ \E t \in Targets, v \in PVs : Call(c, t, v)
           \/ Refuse(c)
    PROVE  StagingExact'
  <1>1. PICK step \in {"idle", "lock"} : Goto(c, step)
    BY DEF Call, Refuse
  <1>2. pc[c] \in {"idle", "lock"} /\ UNCHANGED <<stage, tree>>
    BY DEF Call, Refuse, node
  <1>3. \A d \in Callers : d # c => plan'[d] = plan[d]
    BY DEF Call, Refuse, IInv, Base, TypeOK
  <1> QED  BY <1>1, <1>2, <1>3, OutsideStaging

\* Whoever gets the mutex finds the staging path of its PV empty.
LEMMA LockStaging ==
    ASSUME IInv, NEW c \in Callers, Lock(c)
    PROVE  StagingExact'
  <1> DEFINE v == plan[c].pv
  <1>1. /\ v \in PVs /\ pc[c] = "lock" /\ lock[Stripe[v]] = None
        /\ pc' = [pc EXCEPT ![c] = "stage"]
        /\ UNCHANGED <<stage, plan, tree>>
    BY PlanType DEF IInv, Lock, Goto
  <1>2. pc'[c] = "stage" /\ \A d \in Callers : d # c => pc'[d] = pc[d]
    BY <1>1 DEF IInv, Base, TypeOK
  <1>3. \A d \in Callers : ~Inside(d, v)
    BY <1>1, MounterAssumption DEF Inside, IInv, Base, TypeOK
  <1>4. stage[v] = <<>>
    BY <1>1, <1>3 DEF IInv, StagingExact
  <1>5. ASSUME NEW d \in Callers
        PROVE  StagedFor(d)'
    <2>1. CASE d = c
      BY <2>1, <1>1, <1>2, <1>4 DEF StagedFor
    <2>2. CASE d # c
      BY <2>2, <1>1, <1>2 DEF IInv, StagingExact, StagedFor
    <2> QED  BY <2>1, <2>2
  <1>6. ASSUME NEW u \in PVs, \A d \in Callers : ~Inside(d, u)'
        PROVE  stage'[u] = <<>>
    <2>1. \A d \in Callers : ~Inside(d, u)
      BY <1>1, <1>2, <1>6 DEF Inside, Critical
    <2> QED  BY <2>1, <1>1 DEF IInv, StagingExact
  <1> QED  BY <1>5, <1>6 DEF StagingExact

LEMMA StageStaging ==
    ASSUME TidyNode, IInv, NEW c \in Callers, Stage(c)
    PROVE  StagingExact'
  <1> DEFINE v == plan[c].pv
  <1>1. /\ pc[c] = "stage" /\ stage[v] = <<>> /\ v \in PVs
        /\ UNCHANGED <<stage, plan, tree>>
    BY PlanType DEF Stage, IInv, StagingExact, StagedFor
  <1>2. Seen(v) = {FALSE}
    BY <1>1 DEF Seen, Staged, TidyNode, MayFail
  <1>3. PICK step \in {"nfs", "cleanup"} : Goto(c, step)
    BY <1>2 DEF Stage
  <1>4. pc'[c] = step
    BY <1>3 DEF Goto, IInv, Base, TypeOK
  <1>5. StagedFor(c)'
    BY <1>1, <1>4 DEF StagedFor
  <1> QED  BY <1>1, <1>3, <1>5, StepStaging DEF Critical

LEMMA MountNFSStaging ==
    ASSUME IInv, NEW c \in Callers, MountNFS(c)
    PROVE  StagingExact'
  <1> DEFINE v == plan[c].pv
             x == plan[c].source
  <1>1. /\ pc[c] = "nfs" /\ stage[v] = <<>> /\ v \in PVs /\ x \in Sources
        /\ UNCHANGED <<plan, tree>>
    BY PlanType DEF MountNFS, IInv, StagingExact, StagedFor
  <1>2. <<x>> \o <<>> = <<x>>
    BY <1>1
  <1>3. \/ Goto(c, "open") /\ stage' = [stage EXCEPT ![v] = <<x>>]
        \/ Goto(c, "cleanup") /\ stage' = [stage EXCEPT ![v] = <<x>>]
        \/ Goto(c, "cleanup") /\ UNCHANGED stage
    BY <1>1, <1>2 DEF MountNFS
  <1>4. \/ pc'[c] = "open" /\ stage'[v] = <<x>>
        \/ pc'[c] = "cleanup" /\ (stage'[v] = <<x>> \/ stage'[v] = <<>>)
    BY <1>1, <1>3 DEF Goto, IInv, Base, TypeOK
  <1>5. StagedFor(c)'
    BY <1>1, <1>4 DEF StagedFor
  <1>6. \A u \in PVs : u # v => stage'[u] = stage[u]
    BY <1>1, <1>3 DEF IInv, Base, TypeOK
  <1>7. PICK step \in {"open", "cleanup"} : Goto(c, step)
    BY <1>3
  <1> QED  BY <1>1, <1>5, <1>6, <1>7, StepStaging DEF Critical

\* open_tree and open find the source of the plan, alone on the path.
LEMMA OpenStaging ==
    ASSUME IInv, NEW c \in Callers, OpenTree(c) \/ OpenLegacy(c)
    PROVE  StagingExact'
  <1> DEFINE v == plan[c].pv
             x == plan[c].source
  <1>1. /\ pc[c] \in {"open", "legacy"} /\ stage[v] = <<x>>
        /\ v \in PVs /\ x \in Sources
        /\ UNCHANGED <<stage, plan>>
    BY PlanType DEF OpenTree, OpenLegacy, node, IInv, StagingExact, StagedFor
  <1>2. AtStagingPath(v) = x
    BY <1>1 DEF AtStagingPath, Staged
  <1>3. \/ Goto(c, "check") /\ tree' = [tree EXCEPT ![c] = x]
        \/ Goto(c, "legacy") /\ UNCHANGED tree
        \/ Goto(c, "cleanup") /\ UNCHANGED tree
    BY <1>2 DEF OpenTree, OpenLegacy
  <1>4. PICK step \in {"check", "legacy", "cleanup"} : Goto(c, step)
    BY <1>3
  <1>5. StagedFor(c)'
    BY <1>1, <1>3 DEF StagedFor, Goto, IInv, Base, TypeOK
  <1>6. \A d \in Callers : d # c => tree'[d] = tree[d]
    BY <1>3 DEF IInv, Base, TypeOK
  <1> QED  BY <1>1, <1>4, <1>5, <1>6, StepStaging DEF Critical

LEMMA CheckStaging ==
    ASSUME IInv, NEW c \in Callers, CheckTarget(c)
    PROVE  StagingExact'
  <1>1. /\ pc[c] = "check" /\ stage[plan[c].pv] = <<plan[c].source>>
        /\ tree[c] = plan[c].source /\ UNCHANGED <<stage, plan>>
    BY DEF CheckTarget, node, IInv, StagingExact, StagedFor
  <1>2. \/ Goto(c, "attach") /\ UNCHANGED tree
        \/ Goto(c, "cleanup") /\ tree' = [tree EXCEPT ![c] = NoSource]
    BY DEF CheckTarget
  <1>3. PICK step \in {"attach", "cleanup"} : Goto(c, step)
    BY <1>2
  <1>4. StagedFor(c)'
    BY <1>1, <1>2 DEF StagedFor, Goto, IInv, Base, TypeOK
  <1>5. \A d \in Callers : d # c => tree'[d] = tree[d]
    BY <1>2 DEF IInv, Base, TypeOK
  <1> QED  BY <1>1, <1>3, <1>4, <1>5, StepStaging DEF Critical

LEMMA AttachStaging ==
    ASSUME IInv, NEW c \in Callers, Attach(c)
    PROVE  StagingExact'
  <1>1. /\ pc[c] = "attach" /\ Goto(c, "cleanup")
        /\ stage[plan[c].pv] = <<plan[c].source>>
        /\ UNCHANGED <<stage, plan>>
        /\ tree' = [tree EXCEPT ![c] = NoSource]
    BY DEF Attach, IInv, StagingExact, StagedFor
  <1>2. StagedFor(c)'
    BY <1>1 DEF StagedFor, Goto, IInv, Base, TypeOK
  <1>3. \A d \in Callers : d # c => tree'[d] = tree[d]
    BY <1>1 DEF IInv, Base, TypeOK
  <1> QED  BY <1>1, <1>2, <1>3, StepStaging DEF Critical

\* The deferred cleanup leaves nothing at the staging path.
LEMMA ReturnStaging ==
    ASSUME TidyNode, IInv, NEW c \in Callers, Return(c)
    PROVE  StagingExact'
  <1> DEFINE v == plan[c].pv
             x == plan[c].source
  <1>1. /\ pc[c] = "cleanup" /\ v \in PVs /\ x \in Sources
        /\ stage[v] = <<>> \/ stage[v] = <<x>>
        /\ pc' = [pc EXCEPT ![c] = "idle"] /\ plan' = [plan EXCEPT ![c] = NoPlan]
        /\ UNCHANGED tree
    BY PlanType DEF Return, Goto, IInv, StagingExact, StagedFor
  <1>2. Tail(<<x>>) = <<>> /\ Len(<<x>>) = 1 /\ Len(<<>>) = 0
    OBVIOUS
  <1>3. stage'[v] = <<>> /\ \A u \in PVs : u # v => stage'[u] = stage[u]
    <2>1. CleanedUp(v) /\ Seen(v) = {Staged(v)}
          /\ ~MayFail("busy") /\ ~MayFail("read")
      BY DEF Return, CleansUp, TidyNode, MayFail, Seen
    <2>2. IF Staged(v) THEN stage' = [stage EXCEPT ![v] = Tail(@)] ELSE UNCHANGED stage
      BY <2>1 DEF CleanedUp
    <2>3. stage[v] # <<>> => Tail(stage[v]) = <<>>
      BY <1>1, <1>2
    <2> QED  BY <1>1, <2>2, <2>3 DEF Staged, IInv, Base, TypeOK
  <1>4. /\ pc'[c] = "idle"
        /\ \A d \in Callers : d # c => pc'[d] = pc[d] /\ plan'[d] = plan[d]
    BY <1>1 DEF IInv, Base, TypeOK
  <1>5. ASSUME NEW d \in Callers
        PROVE  StagedFor(d)'
    <2>1. CASE d = c \/ pc[d] \notin Critical
      BY <2>1, <1>4 DEF StagedFor, Critical
    <2>2. CASE d # c /\ pc[d] \in Critical
      <3>1. plan[d].pv # v /\ plan[d].pv \in PVs
        BY <2>2, <1>1, OneInside, PlanType DEF IInv, Critical
      <3>2. StagedFor(d)
        BY DEF IInv, StagingExact
      <3> QED  BY <3>1, <3>2, <2>2, <1>1, <1>3, <1>4 DEF StagedFor
    <2> QED  BY <2>1, <2>2
  <1>6. ASSUME NEW u \in PVs, \A d \in Callers : ~Inside(d, u)'
        PROVE  stage'[u] = <<>>
    <2>1. CASE u = v
      BY <2>1, <1>3
    <2>2. CASE u # v
      <3>1. \A d \in Callers : ~Inside(d, u)
        BY <2>2, <1>4, <1>6 DEF Inside
      <3> QED  BY <2>2, <3>1, <1>3 DEF IInv, StagingExact
    <2> QED  BY <2>1, <2>2
  <1> QED  BY <1>5, <1>6 DEF StagingExact

LEMMA RestartStaging ==
    ASSUME TidyNode, IInv, Restart
    PROVE  StagingExact'
  <1>1. CleanedRoot /\ ~MayFail("busy") /\ ~MayFail("read")
        /\ pc' = [c \in Callers |-> "idle"]
    BY DEF Restart, TidyNode, MayFail
  <1>2. {v \in PVs : MayFail("busy") /\ Staged(v)} = {}
    BY <1>1
  <1>3. stage' = [v \in PVs |-> <<>>]
    BY <1>1, <1>2 DEF CleanedRoot
  <1> QED  BY <1>1, <1>3 DEF StagingExact, StagedFor, Inside, Critical

LEMMA NextStaging ==
    ASSUME TidyNode, IInv, [Next]_vars
    PROVE  StagingExact'
  <1>1. ASSUME NEW c \in Callers, \E t \in Targets, v \in PVs : Call(c, t, v)
        PROVE  StagingExact'
    BY <1>1, CallStaging
  <1>2. ASSUME NEW c \in Callers, Refuse(c) \/ Lock(c) \/ Proceed(c)
        PROVE  StagingExact'
    BY <1>2, CallStaging, LockStaging, StageStaging, MountNFSStaging, OpenStaging,
       CheckStaging, AttachStaging, ReturnStaging DEF Proceed
  <1>3. CASE \/ \E v \in PVs : RecreatePV(v)
             \/ \E t \in Targets : Detach(t)
             \/ UNCHANGED vars
    <2>1. UNCHANGED <<stage, pc, plan, tree>>
      BY <1>3 DEF RecreatePV, Detach, vars, node
    <2> QED  BY <2>1 DEF IInv, StagingExact, StagedFor, Inside
  <1>4. CASE Restart
    BY <1>4, RestartStaging
  <1> QED  BY <1>1, <1>2, <1>3, <1>4 DEF Next

-----------------------------------------------------------------------------
(* Targets.                                                                *)

LEMMA InitTargets == Init => TargetsFree
  BY DEF Init, TargetsFree

LEMMA CallTargets ==
    ASSUME IInv, NEW c \in Callers, NEW t \in Targets, NEW v \in PVs, Call(c, t, v)
    PROVE  TargetsFree'
  <1> DEFINE p == [target |-> t, pv |-> v, source |-> source[v]]
  <1>1. /\ plan' = [plan EXCEPT ![c] = p] /\ pc' = [pc EXCEPT ![c] = "lock"]
        /\ ~TargetLocked(t) /\ UNCHANGED target
    BY DEF Call, Goto, node
  <1>2. p.target = t
    OBVIOUS
  <1> HIDE DEF p
  <1>3. /\ plan'[c].target = t /\ pc'[c] = "lock"
        /\ \A d \in Callers : d # c => plan'[d] = plan[d] /\ pc'[d] = pc[d]
    BY <1>1, <1>2 DEF IInv, Base, TypeOK
  <1>4. \A d \in Callers : plan[d] # NoPlan => plan[d].target # t
    BY <1>1 DEF TargetLocked
  <1> QED  BY <1>1, <1>3, <1>4 DEF IInv, TargetsFree

\* A call that goes on keeps its target, and only Attach mounts there.
LEMMA StepTargets ==
    ASSUME IInv, NEW c \in Callers, NEW step, Goto(c, step), UNCHANGED <<plan, target>>,
           step = "attach" => target[plan[c].target] = NoSource
    PROVE  TargetsFree'
  <1>1. pc'[c] = step /\ \A d \in Callers : d # c => pc'[d] = pc[d]
    BY DEF Goto, IInv, Base, TypeOK
  <1> QED  BY <1>1 DEF IInv, TargetsFree

LEMMA LeaveTargets ==
    ASSUME IInv, NEW c \in Callers, Goto(c, "idle"),
           plan' = [plan EXCEPT ![c] = NoPlan], UNCHANGED target
    PROVE  TargetsFree'
  <1>1. /\ pc'[c] = "idle" /\ plan'[c] = NoPlan
        /\ \A d \in Callers : d # c => pc'[d] = pc[d] /\ plan'[d] = plan[d]
    BY DEF Goto, IInv, Base, TypeOK
  <1> QED  BY <1>1 DEF IInv, TargetsFree

LEMMA AttachTargets ==
    ASSUME IInv, NEW c \in Callers, Attach(c)
    PROVE  TargetsFree'
  <1>1. /\ pc[c] = "attach" /\ Goto(c, "cleanup") /\ UNCHANGED plan
        /\ UNCHANGED target \/ target' = [target EXCEPT ![plan[c].target] = tree[c]]
    BY DEF Attach
  <1>2. pc'[c] = "cleanup" /\ \A d \in Callers : d # c => pc'[d] = pc[d]
    BY <1>1 DEF Goto, IInv, Base, TypeOK
  <1>3. plan[c] # NoPlan /\ plan[c].target \in Targets
    BY <1>1, PlanType DEF IInv, Base, PlanWhileInside
  <1>4. ASSUME NEW d \in Callers, pc'[d] = "attach"
        PROVE  target'[plan'[d].target] = NoSource
    <2>1. d # c /\ pc[d] = "attach"
      BY <1>2, <1>4
    <2>2. plan[d] # NoPlan /\ plan[d].target \in Targets
      BY <2>1, PlanType DEF IInv, Base, PlanWhileInside
    <2>3. plan[d].target # plan[c].target /\ target[plan[d].target] = NoSource
      BY <1>3, <2>1, <2>2 DEF IInv, TargetsFree
    <2> QED  BY <1>1, <2>2, <2>3 DEF IInv, Base, TypeOK
  <1> QED  BY <1>1, <1>4 DEF IInv, TargetsFree

LEMMA NextTargets ==
    ASSUME IInv, [Next]_vars
    PROVE  TargetsFree'
  <1>1. ASSUME NEW c \in Callers, \E t \in Targets, v \in PVs : Call(c, t, v)
        PROVE  TargetsFree'
    BY <1>1, CallTargets
  <1>2. ASSUME NEW c \in Callers, Refuse(c) \/ Return(c)
        PROVE  TargetsFree'
    <2>1. Goto(c, "idle") /\ plan' = [plan EXCEPT ![c] = NoPlan] /\ UNCHANGED target
      BY <1>2 DEF Refuse, Return, node
    <2> QED  BY <2>1, LeaveTargets
  <1>3. ASSUME NEW c \in Callers,
               \/ Lock(c) \/ Stage(c) \/ MountNFS(c) \/ OpenTree(c) \/ OpenLegacy(c)
        PROVE  TargetsFree'
    <2>1. PICK step \in Critical \ {"attach"} : Goto(c, step)
      BY <1>3 DEF Lock, Stage, MountNFS, OpenTree, OpenLegacy, Critical
    <2>2. UNCHANGED <<plan, target>>
      BY <1>3 DEF Lock, Stage, MountNFS, OpenTree, OpenLegacy, node
    <2> QED  BY <2>1, <2>2, StepTargets
  <1>4. ASSUME NEW c \in Callers, CheckTarget(c)
        PROVE  TargetsFree'
    <2>1. \/ Goto(c, "attach") /\ target[plan[c].target] = NoSource
          \/ Goto(c, "cleanup")
      BY <1>4 DEF CheckTarget
    <2>2. UNCHANGED <<plan, target>>
      BY <1>4 DEF CheckTarget, node
    <2> QED  BY <2>1, <2>2, StepTargets
  <1>5. ASSUME NEW c \in Callers, Attach(c)
        PROVE  TargetsFree'
    BY <1>5, AttachTargets
  <1>6. CASE (\E v \in PVs : RecreatePV(v)) \/ UNCHANGED vars
    <2>1. UNCHANGED <<target, plan, pc>>
      BY <1>6 DEF RecreatePV, vars, node
    <2> QED  BY <2>1 DEF IInv, TargetsFree
  <1>7. ASSUME NEW t \in Targets, Detach(t)
        PROVE  TargetsFree'
    <2>1. target' = [target EXCEPT ![t] = NoSource] /\ UNCHANGED <<pc, plan>>
      BY <1>7 DEF Detach
    <2>2. \A c \in Callers : pc[c] = "attach" => plan[c].target \in Targets
      BY PlanType DEF IInv
    <2> QED  BY <2>1, <2>2 DEF IInv, TargetsFree, Base, TypeOK
  <1>8. CASE Restart
    BY <1>8 DEF Restart, TargetsFree
  <1> QED  BY <1>1, <1>2, <1>3, <1>4, <1>5, <1>6, <1>7, <1>8 DEF Next, Proceed

LEMMA NextIInv == TidyNode => (IInv /\ [Next]_vars => IInv')
  BY NextBase, NextStaging, NextTargets DEF IInv

LEMMA InitIInv == Init => IInv
  BY InitBase, InitStaging, InitTargets DEF IInv

-----------------------------------------------------------------------------
(* linuxMounter.Mount implements MountService.                             *)

\* The plan that the wrapper sees.
LEMMA AbstractPlanType ==
    ASSUME Base, NEW c \in Callers
    PROVE  /\ pc[c] = "idle" => AbstractPlan(c) = NoPlan
           /\ pc[c] # "idle" => /\ AbstractPlan(c) # NoPlan
                                /\ AbstractPlan(c).target = plan[c].target
                                /\ AbstractPlan(c).source = plan[c].source
  <1>1. CASE pc[c] = "idle"
    BY <1>1 DEF Base, PlanWhileInside, AbstractPlan
  <1>2. CASE pc[c] # "idle"
    <2>1. plan[c] # NoPlan /\ plan[c].target \in Targets /\ plan[c].source \in Sources
      BY <1>2, PlanType, NoPlanAssumption
    <2>2. [target |-> plan[c].target, source |-> plan[c].source]
              \in [target : Targets, source : Sources]
      BY <2>1
    <2> QED  BY <1>2, <2>1, <2>2, NoPlanAssumption DEF AbstractPlan
  <1> QED  BY <1>1, <1>2

ServicePlan == [c \in Callers |-> AbstractPlan(c)]

LEMMA InitService == Init => Service!Init
  BY DEF Init, Service!Init, AbstractPlan

LEMMA CallService ==
    ASSUME Base, NEW c \in Callers, NEW t \in Targets, NEW v \in PVs, Call(c, t, v)
    PROVE  Service!Next
  <1> DEFINE p == [target |-> t, source |-> source[v]]
             q == [target |-> t, pv |-> v, source |-> source[v]]
  <1>1. p \in Service!Plans /\ q # NoPlan
    BY NoPlanAssumption DEF Service!Plans, Plans, Base, TypeOK
  <1>2. /\ pc[c] = "idle" /\ plan' = [plan EXCEPT ![c] = q]
        /\ UNCHANGED <<target, done>>
    BY DEF Call, node
  <1>3. AbstractPlan(c) = NoPlan
    BY <1>2, AbstractPlanType
  <1>4. ServicePlan' = [ServicePlan EXCEPT ![c] = p]
    BY <1>1, <1>2 DEF ServicePlan, AbstractPlan, Base, TypeOK
  <1>5. Service!Call(c, p)
    BY <1>2, <1>3, <1>4 DEF Service!Call, ServicePlan
  <1> QED  BY <1>1, <1>5 DEF Service!Next

\* Refuse and Return give up the plan, Return also the note that it is attached.
LEMMA LeaveService ==
    ASSUME Base, NEW c \in Callers, pc[c] # "idle",
           plan' = [plan EXCEPT ![c] = NoPlan], done' = done \ {c}, UNCHANGED target
    PROVE  Service!Next
  <1>1. AbstractPlan(c) # NoPlan
    BY AbstractPlanType
  <1>2. ServicePlan' = [ServicePlan EXCEPT ![c] = NoPlan]
    BY DEF ServicePlan, AbstractPlan, Base, TypeOK
  <1>3. Service!Return(c, c \in done)
    BY <1>1, <1>2 DEF Service!Return, ServicePlan
  <1>4. (c \in done) \in BOOLEAN
    OBVIOUS
  <1> QED  BY <1>3, <1>4 DEF Service!Next

\* The step that the wrapper sees: what is attached is the source of the plan.
LEMMA AttachService ==
    ASSUME IInv, NEW c \in Callers, Attach(c)
    PROVE  Service!Next \/ UNCHANGED Service!vars
  <1>1. /\ pc[c] = "attach" /\ tree[c] = plan[c].source /\ c \notin done
        /\ target[plan[c].target] = NoSource /\ UNCHANGED plan
    BY DEF Attach, IInv, StagingExact, StagedFor, TargetsFree, Base, PlanWhileInside
  <1>2. /\ AbstractPlan(c) # NoPlan
        /\ AbstractPlan(c).target = plan[c].target
        /\ AbstractPlan(c).source = plan[c].source
    BY <1>1, AbstractPlanType DEF IInv
  <1>3. UNCHANGED ServicePlan
    BY <1>1 DEF ServicePlan, AbstractPlan
  <1>4. CASE UNCHANGED <<target, done>>
    BY <1>3, <1>4 DEF Service!vars, ServicePlan
  <1>5. CASE /\ target' = [target EXCEPT ![plan[c].target] = tree[c]]
             /\ done' = done \cup {c}
    <2>1. Service!Attach(c)
      BY <1>1, <1>2, <1>3, <1>5 DEF Service!Attach, ServicePlan
    <2> QED  BY <2>1 DEF Service!Next
  <1> QED  BY <1>4, <1>5 DEF Attach

LEMMA RestartService ==
    ASSUME Restart
    PROVE  Service!Next
  <1>1. ServicePlan' = [c \in Callers |-> NoPlan]
    BY DEF Restart, ServicePlan, AbstractPlan
  <1>2. Service!Crash
    BY <1>1 DEF Restart, Service!Crash, ServicePlan
  <1> QED  BY <1>2 DEF Service!Next

LEMMA StepService ==
    ASSUME IInv, [Next]_vars
    PROVE  [Service!Next]_(Service!vars)
  <1>1. ASSUME NEW c \in Callers, NEW t \in Targets, NEW v \in PVs, Call(c, t, v)
        PROVE  Service!Next
    BY <1>1, CallService DEF IInv
  <1>2. ASSUME NEW c \in Callers, Refuse(c)
        PROVE  Service!Next
    <2>1. pc[c] = "lock" /\ c \notin done
      BY <1>2 DEF Refuse, IInv, Base, PlanWhileInside
    <2>2. /\ plan' = [plan EXCEPT ![c] = NoPlan] /\ done' = done \ {c}
          /\ UNCHANGED target
      BY <1>2, <2>1 DEF Refuse, node
    <2> QED  BY <2>1, <2>2, LeaveService DEF IInv
  <1>3. ASSUME NEW c \in Callers, Return(c)
        PROVE  Service!Next
    BY <1>3, LeaveService DEF Return, IInv
  <1>4. ASSUME NEW c \in Callers,
               \/ Lock(c) \/ Stage(c) \/ MountNFS(c) \/ OpenTree(c) \/ OpenLegacy(c)
               \/ CheckTarget(c)
        PROVE  UNCHANGED Service!vars
    <2>1. UNCHANGED <<target, plan, done>>
      BY <1>4 DEF Lock, Stage, MountNFS, OpenTree, OpenLegacy, CheckTarget, node
    <2> QED  BY <2>1 DEF Service!vars, AbstractPlan
  <1>5. ASSUME NEW c \in Callers, Attach(c)
        PROVE  Service!Next \/ UNCHANGED Service!vars
    BY <1>5, AttachService
  <1>6. CASE (\E v \in PVs : RecreatePV(v)) \/ UNCHANGED vars
    <2>1. UNCHANGED <<target, plan, done>>
      BY <1>6 DEF RecreatePV, vars, node
    <2> QED  BY <2>1 DEF Service!vars, AbstractPlan
  <1>7. ASSUME NEW t \in Targets, Detach(t)
        PROVE  Service!Next
    <2>1. Service!Detach(t)
      BY <1>7 DEF Detach, Service!Detach, AbstractPlan
    <2> QED  BY <2>1 DEF Service!Next
  <1>8. CASE Restart
    BY <1>8, RestartService
  <1> QED  BY <1>1, <1>2, <1>3, <1>4, <1>5, <1>6, <1>7, <1>8 DEF Next, Proceed

\* linuxMounter.Mount implements what the wrapper relies on, for every instance
\* of a tidy node, on which mountinfo is read from the wrapper's own namespace and
\* no staging mount is busy when it is cleaned up: a call attaches the source of
\* its plan to a free target or nothing, and its answer says which.  That the
\* target is still free at move_mount, after it was checked, rests on the lock of
\* the target that the caller holds.
THEOREM MountImplementsService ==
    ASSUME TidyNode
    PROVE  Spec => ImplementsService
  <1>1. Spec => []IInv
    BY InitIInv, NextIInv, PTL DEF Spec
  <1> QED  BY <1>1, InitService, StepService, PTL
           DEF Spec, ImplementsService, Service!Spec

-----------------------------------------------------------------------------
(* Threads in the namespaces of containers.                                *)

\* The number of the step that locks the thread; unshare follows it, then setns
\* with the step LockStep + 4.
LockStep(f) == IF f = "legacyBind" THEN 4 ELSE 5
Size(f) == LockStep(f) + IF f = "unmount" THEN 7 ELSE 5

\* Goroutine g is locked to its thread, its thread has a root of its own, its
\* thread is in the container.
Held(g) == call[g] # Idle /\ call[g].steps >= LockStep(call[g].fn)
Unshared(g) == call[g] # Idle /\ call[g].steps >= LockStep(call[g].fn) + 1
Over(g) == call[g] # Idle /\ call[g].steps >= LockStep(call[g].fn) + 4

Types ==
    /\ call \in [Goroutines -> Calls]
    /\ \A g \in Goroutines : call[g] # Idle => call[g].steps <= Size(call[g].fn)
    /\ thread \in [Goroutines -> Threads \cup {Nothing}]
    /\ ns \in [Threads -> Spots]
    /\ private \in SUBSET Threads
    /\ root \in [Threads -> Spots]
    /\ shared \in Spots
    /\ misled \in BOOLEAN

\* A thread serves one goroutine, from "lock thread" until it is undone.
Locking ==
    /\ \A g \in Goroutines : Held(g) <=> thread[g] # Nothing
    /\ \A g, h \in Goroutines : thread[g] = thread[h] /\ thread[g] # Nothing => g = h
    /\ \A g \in Goroutines : Unshared(g) => thread[g] \in private

\* The threads that are over are in their container, and as long as nothing is
\* undone they see its root; all others are as the process started.
Places ==
    /\ shared = Self
    /\ \A g \in Goroutines :
          Over(g) => /\ ns[thread[g]] = call[g].at
                     /\ ~call[g].unwinding => root[thread[g]] = call[g].at
    /\ \A t \in Threads : (\A g \in Goroutines : Over(g) => thread[g] # t)
                          => ns[t] = Self /\ root[t] = Self

\* What is opened to return to is where the process started.
Homes == \A g \in Goroutines : call[g].home = Self /\ call[g].base = Self

Clean == Places /\ Homes

Inv == Types /\ Locking /\ (~misled => Clean)

-----------------------------------------------------------------------------
(* The programs.                                                           *)

LEMMA Sizes ==
    ASSUME NEW f
    PROVE  /\ LockStep(f) \in Nat /\ LockStep(f) >= 4
           /\ Size(f) \in Nat /\ Size(f) <= 12 /\ Size(f) >= LockStep(f) + 5
  BY DEF LockStep, Size

\* Where the steps that matter are.
LEMMA StepNumbers ==
    ASSUME NEW f \in Functions
    PROVE  /\ Len(Program[f]) = Size(f)
           /\ \A i \in 1..Size(f) :
                /\ Program[f][i] = "lock thread" <=> i = LockStep(f)
                /\ Program[f][i] = "unshare" <=> i = LockStep(f) + 1
                /\ Program[f][i] = "setns" <=> i = LockStep(f) + 4
                /\ Program[f][i] = "chroot" => i = LockStep(f) + 5
                /\ Program[f][i] = "chdir" => i = LockStep(f) + 6
                /\ Program[f][i] = "operate" <=> i = Size(f)
  <1> DEFINE p == Program[f]
  <1>1. CASE f = "moveMount"
    <2>1. /\ Len(p) = 10
          /\ p[1] = "check" /\ p[2] = "mkdir" /\ p[3] = "check"
          /\ p[4] = "open target" /\ p[5] = "lock thread" /\ p[6] = "unshare"
          /\ p[7] = "open self ns" /\ p[8] = "open target ns" /\ p[9] = "setns"
          /\ p[10] = "operate"
      BY <1>1 DEF Program
    <2>2. Size(f) = 10 /\ LockStep(f) = 5
      BY <1>1 DEF Size, LockStep
    <2> HIDE DEF p
    <2>3. ASSUME NEW i \in 1..Size(f)
          PROVE  /\ p[i] = "lock thread" <=> i = LockStep(f)
                 /\ p[i] = "unshare" <=> i = LockStep(f) + 1
                 /\ p[i] = "setns" <=> i = LockStep(f) + 4
                 /\ p[i] = "chroot" => i = LockStep(f) + 5
                 /\ p[i] = "chdir" => i = LockStep(f) + 6
                 /\ p[i] = "operate" <=> i = Size(f)
      <3>1. \/ i = 1 \/ i = 2 \/ i = 3 \/ i = 4 \/ i = 5 \/ i = 6
            \/ i = 7 \/ i = 8 \/ i = 9 \/ i = 10
        BY <2>2
      <3>2. /\ p[i] = "lock thread" <=> i = 5
            /\ p[i] = "unshare" <=> i = 6
            /\ p[i] = "setns" <=> i = 9
            /\ p[i] = "chroot" => i = 10
            /\ p[i] = "chdir" => i = 11
            /\ p[i] = "operate" <=> i = 10
        BY <3>1, <2>1
      <3>3. /\ LockStep(f) = 5 /\ Size(f) = 10
            /\ LockStep(f) + 1 = 6 /\ LockStep(f) + 4 = 9
            /\ LockStep(f) + 5 = 10 /\ LockStep(f) + 6 = 11
        BY <2>2
      <3> QED  BY <3>2, <3>3, Zenon
    <2>4. Len(p) = Size(f)
      BY <2>1, <2>2
    <2> QED  BY <2>3, <2>4 DEF p
  <1>2. CASE f = "legacyBind"
    <2>1. /\ Len(p) = 9
          /\ p[1] = "check" /\ p[2] = "mkdir" /\ p[3] = "check"
          /\ p[4] = "lock thread" /\ p[5] = "unshare" /\ p[6] = "open self ns"
          /\ p[7] = "open target ns" /\ p[8] = "setns" /\ p[9] = "operate"
      BY <1>2 DEF Program
    <2>2. Size(f) = 9 /\ LockStep(f) = 4
      BY <1>2 DEF Size, LockStep
    <2> HIDE DEF p
    <2>3. ASSUME NEW i \in 1..Size(f)
          PROVE  /\ p[i] = "lock thread" <=> i = LockStep(f)
                 /\ p[i] = "unshare" <=> i = LockStep(f) + 1
                 /\ p[i] = "setns" <=> i = LockStep(f) + 4
                 /\ p[i] = "chroot" => i = LockStep(f) + 5
                 /\ p[i] = "chdir" => i = LockStep(f) + 6
                 /\ p[i] = "operate" <=> i = Size(f)
      <3>1. \/ i = 1 \/ i = 2 \/ i = 3 \/ i = 4 \/ i = 5 \/ i = 6
            \/ i = 7 \/ i = 8 \/ i = 9
        BY <2>2
      <3>2. /\ p[i] = "lock thread" <=> i = 4
            /\ p[i] = "unshare" <=> i = 5
            /\ p[i] = "setns" <=> i = 8
            /\ p[i] = "chroot" => i = 9
            /\ p[i] = "chdir" => i = 10
            /\ p[i] = "operate" <=> i = 9
        BY <3>1, <2>1
      <3>3. /\ LockStep(f) = 4 /\ Size(f) = 9
            /\ LockStep(f) + 1 = 5 /\ LockStep(f) + 4 = 8
            /\ LockStep(f) + 5 = 9 /\ LockStep(f) + 6 = 10
        BY <2>2
      <3> QED  BY <3>2, <3>3, Zenon
    <2>4. Len(p) = Size(f)
      BY <2>1, <2>2
    <2> QED  BY <2>3, <2>4 DEF p
  <1>3. CASE f = "unmount"
    <2>1. /\ Len(p) = 12
          /\ p[1] = "check" /\ p[2] = "open root" /\ p[3] = "open self root"
          /\ p[4] = "open self cwd" /\ p[5] = "lock thread" /\ p[6] = "unshare"
          /\ p[7] = "open self ns" /\ p[8] = "open target ns" /\ p[9] = "setns"
          /\ p[10] = "chroot" /\ p[11] = "chdir" /\ p[12] = "operate"
      BY <1>3 DEF Program
    <2>2. Size(f) = 12 /\ LockStep(f) = 5
      BY <1>3 DEF Size, LockStep
    <2> HIDE DEF p
    <2>3. ASSUME NEW i \in 1..Size(f)
          PROVE  /\ p[i] = "lock thread" <=> i = LockStep(f)
                 /\ p[i] = "unshare" <=> i = LockStep(f) + 1
                 /\ p[i] = "setns" <=> i = LockStep(f) + 4
                 /\ p[i] = "chroot" => i = LockStep(f) + 5
                 /\ p[i] = "chdir" => i = LockStep(f) + 6
                 /\ p[i] = "operate" <=> i = Size(f)
      <3>1. \/ i = 1 \/ i = 2 \/ i = 3 \/ i = 4 \/ i = 5 \/ i = 6
            \/ i = 7 \/ i = 8 \/ i = 9 \/ i = 10 \/ i = 11 \/ i = 12
        BY <2>2
      <3>2. /\ p[i] = "lock thread" <=> i = 5
            /\ p[i] = "unshare" <=> i = 6
            /\ p[i] = "setns" <=> i = 9
            /\ p[i] = "chroot" => i = 10
            /\ p[i] = "chdir" => i = 11
            /\ p[i] = "operate" <=> i = 12
        BY <3>1, <2>1
      <3>3. /\ LockStep(f) = 5 /\ Size(f) = 12
            /\ LockStep(f) + 1 = 6 /\ LockStep(f) + 4 = 9
            /\ LockStep(f) + 5 = 10 /\ LockStep(f) + 6 = 11
        BY <2>2
      <3> QED  BY <3>2, <3>3, Zenon
    <2>4. Len(p) = Size(f)
      BY <2>1, <2>2
    <2> QED  BY <2>3, <2>4 DEF p
  <1> QED  BY <1>1, <1>2, <1>3 DEF Functions, Program

-----------------------------------------------------------------------------
(* Every step preserves the invariant.                                     *)

Running == [fn : Functions, at : Containers, steps : 0..12, unwinding : BOOLEAN,
            target : Spots, home : Spots, base : Spots]

LEMMA CallType ==
    ASSUME SwitchAssumption, Inv, NEW g \in Goroutines, call[g] # Idle
    PROVE  /\ call[g] \in Running
           /\ call[g].fn \in Functions /\ call[g].at \in Containers
           /\ call[g].home \in Spots /\ call[g].base \in Spots
           /\ call[g].steps \in Nat /\ call[g].steps <= Size(call[g].fn)
           /\ LockStep(call[g].fn) \in Nat /\ LockStep(call[g].fn) >= 4
           /\ Size(call[g].fn) \in Nat /\ Size(call[g].fn) <= 12
           /\ Size(call[g].fn) >= LockStep(call[g].fn) + 5
           /\ Len(Steps(g)) = Size(call[g].fn)
  <1>1. call[g] \in Running
    BY DEF Inv, Types, Calls, Running
  <1>2. call[g].fn \in Functions /\ call[g].at \in Containers
        /\ call[g].steps \in Nat /\ call[g].home \in Spots /\ call[g].base \in Spots
    BY <1>1 DEF Running
  <1>3. call[g].steps <= Size(call[g].fn)
    BY DEF Inv, Types
  <1>4. Len(Steps(g)) = Size(call[g].fn)
    BY <1>2, StepNumbers DEF Steps
  <1> QED  BY <1>1, <1>2, <1>3, <1>4, Sizes

\* A locked goroutine has one of the threads, and nobody else has it.
LEMMA OwnThread ==
    ASSUME SwitchAssumption, Inv, NEW g \in Goroutines, Held(g)
    PROVE  /\ thread[g] \in Threads
           /\ \A h \in Goroutines : h # g => thread[h] # thread[g]
  BY DEF Inv, Types, Locking

\* What Over and Held say of the others does not change with call[g].
LEMMA OthersSame ==
    ASSUME NEW g \in Goroutines, NEW r, call \in [Goroutines -> Calls],
           call' = [call EXCEPT ![g] = r]
    PROVE  /\ call'[g] = r
           /\ \A h \in Goroutines : h # g => /\ call'[h] = call[h]
                                             /\ Held(h)' <=> Held(h)
                                             /\ Unshared(h)' <=> Unshared(h)
                                             /\ Over(h)' <=> Over(h)
  <1>1. call'[g] = r
    OBVIOUS
  <1>2. ASSUME NEW h \in Goroutines, h # g
        PROVE  call'[h] = call[h]
    BY <1>2
  <1>3. ASSUME NEW h \in Goroutines, h # g
        PROVE  /\ Held(h)' <=> Held(h)
               /\ Unshared(h)' <=> Unshared(h)
               /\ Over(h)' <=> Over(h)
    <2>1. call'[h] = call[h]
      BY <1>2, <1>3
    <2> QED  BY <2>1 DEF Held, Unshared, Over
  <1> QED  BY <1>1, <1>2, <1>3

\* A step that only the goroutine itself notices.
LEMMA QuietStep ==
    ASSUME SwitchAssumption, Inv, NEW g \in Goroutines, NEW r \in Calls,
           r # Idle => r.steps <= Size(r.fn),
           call' = [call EXCEPT ![g] = r],
           UNCHANGED <<thread, ns, private, root, shared>>,
           misled' \in BOOLEAN, misled => misled',
           ~misled' => r.home = Self /\ r.base = Self,
           Held(g)' <=> Held(g), Unshared(g)' => Unshared(g), Over(g)' <=> Over(g),
           Over(g)' => r.at = call[g].at /\ (~r.unwinding => ~call[g].unwinding)
    PROVE  Inv'
  <1>1. /\ call'[g] = r
        /\ \A h \in Goroutines : h # g => /\ call'[h] = call[h]
                                          /\ Held(h)' <=> Held(h)
                                          /\ Unshared(h)' <=> Unshared(h)
                                          /\ Over(h)' <=> Over(h)
    BY OthersSame DEF Inv, Types
  <1>2. Types'
    BY <1>1 DEF Inv, Types
  <1>3. Locking'
    <2>1. \A h \in Goroutines : (Held(h)' <=> Held(h)) /\ (Unshared(h)' => Unshared(h))
      BY <1>1
    <2>2. UNCHANGED <<thread, private>>
      OBVIOUS
    <2> QED  BY <2>1, <2>2 DEF Inv, Locking
  <1>4. ASSUME ~misled' PROVE Places'
    <2>1. \A h \in Goroutines :
             /\ Over(h)' <=> Over(h)
             /\ Over(h)' => /\ call'[h].at = call[h].at
                            /\ ~call'[h].unwinding => ~call[h].unwinding
      BY <1>1
    <2>2. UNCHANGED <<thread, ns, root, shared>> /\ Places
      BY <1>4 DEF Inv, Clean
    <2> QED  BY <2>1, <2>2 DEF Places
  <1>5. ASSUME ~misled' PROVE Homes'
    BY <1>1, <1>5 DEF Inv, Clean, Homes
  <1> QED  BY <1>2, <1>3, <1>4, <1>5 DEF Inv, Clean

LEMMA BeginInv ==
    ASSUME SwitchAssumption, Inv, NEW g \in Goroutines, NEW f \in Functions,
           NEW x \in Containers, BeginCall(g, f, x)
    PROVE  Inv'
  <1> DEFINE r == [Idle EXCEPT !.fn = f, !.at = x]
  <1>1. call' = [call EXCEPT ![g] = r] /\ call[g] = Idle
        /\ UNCHANGED <<thread, ns, private, root, shared, misled>>
    BY DEF BeginCall, threadVars
  <1>8. r = [Idle EXCEPT !.fn = f, !.at = x]
    OBVIOUS
  <1> HIDE DEF r
  <1>0. /\ r \in [fn : {f}, at : {x}, steps : {0}, unwinding : {FALSE},
                  target : {Self}, home : {Self}, base : {Self}]
        /\ r.fn = f /\ r.at = x /\ r.steps = 0
        /\ r.home = Self /\ r.base = Self
    <2>1. Idle \in [fn : {Nothing}, at : {Self}, steps : {0}, unwinding : {FALSE},
                    target : {Self}, home : {Self}, base : {Self}]
      BY DEF Idle
    <2>2. r \in [fn : {f}, at : {x}, steps : {0}, unwinding : {FALSE},
                 target : {Self}, home : {Self}, base : {Self}]
      BY <1>8, <2>1
    <2> QED  BY <2>2
  <1>7. r \in Calls
    <2>1. r \in Running
      <3>1. Self \in Spots /\ 0 \in 0..12 /\ FALSE \in BOOLEAN
        BY DEF Spots
      <3> QED  BY <1>0, <3>1 DEF Running
    <2> QED  BY <2>1 DEF Calls, Running
  <1>2. r.steps <= Size(r.fn) /\ r.steps = 0 /\ r.fn = f /\ LockStep(f) >= 4
        /\ LockStep(f) \in Nat /\ r.home = Self /\ r.base = Self
    BY <1>0, Sizes
  <1>3. call'[g] = r
    BY <1>1 DEF Inv, Types
  <1>4. ~Held(g) /\ ~Unshared(g) /\ ~Over(g)
    BY <1>1 DEF Held, Unshared, Over
  <1>5. ~Held(g)' /\ ~Unshared(g)' /\ ~Over(g)'
    BY <1>2, <1>3 DEF Held, Unshared, Over
  <1>6. misled' \in BOOLEAN /\ (misled => misled')
    BY <1>1 DEF Inv, Types
  <1> QED  BY <1>1, <1>2, <1>4, <1>5, <1>6, <1>7, QuietStep

LEMMA UnwindInv ==
    ASSUME SwitchAssumption, Inv, NEW g \in Goroutines, Unwind(g)
    PROVE  Inv'
  <1> DEFINE r == [call[g] EXCEPT !.unwinding = TRUE]
  <1>1. call[g] # Idle /\ ~call[g].unwinding /\ call[g] \in Running
        /\ UNCHANGED <<thread, ns, private, root, shared, misled>>
    BY CallType DEF Unwind, threadVars
  <1>2. /\ r \in Running /\ r.fn = call[g].fn /\ r.at = call[g].at
        /\ r.steps = call[g].steps /\ r.unwinding
        /\ r.home = call[g].home /\ r.base = call[g].base
    BY <1>1 DEF Running
  <1>3. call' = [call EXCEPT ![g] = r]
    BY <1>1 DEF Unwind, Inv, Types
  <1>4. call'[g] = r /\ r \in Calls
    BY <1>2, <1>3 DEF Inv, Types, Calls, Running
  <1> HIDE DEF r
  <1>5. r # Idle /\ r.steps <= Size(r.fn)
    <2>1. r.at # Idle.at
      BY <1>1, <1>2, CallType DEF SwitchAssumption, Idle
    <2> QED  BY <1>1, <1>2, <2>1, CallType
  <1>6. (Held(g)' <=> Held(g)) /\ (Unshared(g)' <=> Unshared(g))
        /\ (Over(g)' <=> Over(g))
    BY <1>1, <1>2, <1>4, <1>5 DEF Held, Unshared, Over
  <1>7. /\ misled' \in BOOLEAN /\ (misled => misled')
        /\ ~misled' => r.home = Self /\ r.base = Self
    BY <1>1, <1>2 DEF Inv, Types, Clean, Homes
  <1> QED  BY <1>1, <1>2, <1>3, <1>4, <1>5, <1>6, <1>7, QuietStep

LEMMA ReturnInv ==
    ASSUME SwitchAssumption, Inv, NEW g \in Goroutines, ReturnCall(g)
    PROVE  Inv'
  <1>1. /\ call[g] # Idle /\ call[g].steps = 0 /\ call' = [call EXCEPT ![g] = Idle]
        /\ UNCHANGED <<thread, ns, private, root, shared, misled>>
    BY DEF ReturnCall, Idle, threadVars
  <1>2. call'[g] = Idle /\ Idle \in Calls /\ Idle.home = Self /\ Idle.base = Self
    BY <1>1 DEF Inv, Types, Calls, Idle
  <1>3. ~Held(g) /\ ~Unshared(g) /\ ~Over(g)
    BY <1>1, CallType DEF Held, Unshared, Over
  <1>4. ~Held(g)' /\ ~Unshared(g)' /\ ~Over(g)'
    BY <1>2 DEF Held, Unshared, Over
  <1>5. misled' \in BOOLEAN /\ (misled => misled')
    BY <1>1 DEF Inv, Types
  <1> QED  BY <1>1, <1>2, <1>3, <1>4, <1>5, QuietStep

\* Goroutine g goes to another step of its function.
Moved(g, n) ==
    \E r \in Calls :
        /\ call' = [call EXCEPT ![g] = r] /\ r # Idle
        /\ r.fn = call[g].fn /\ r.at = call[g].at
        /\ r.steps = n /\ r.unwinding = call[g].unwinding
        /\ ~misled' /\ Clean => r.home = Self /\ r.base = Self

LEMMA MovedRecord ==
    ASSUME SwitchAssumption, Inv, NEW g \in Goroutines, call[g] # Idle,
           NEW n, NEW r \in Running, call' = [call EXCEPT ![g] = r],
           r.fn = call[g].fn, r.at = call[g].at, r.steps = n,
           r.unwinding = call[g].unwinding,
           ~misled' /\ Clean => r.home = Self /\ r.base = Self
    PROVE  Moved(g, n)
  <1>1. r \in Calls
    BY DEF Calls, Running
  <1>2. r # Idle
    <2>1. r.at # Idle.at
      BY CallType DEF SwitchAssumption, Idle
    <2> QED  BY <2>1
  <1> QED  BY <1>1, <1>2 DEF Moved

LEMMA MovedCall ==
    ASSUME SwitchAssumption, Inv, NEW g \in Goroutines, call[g] # Idle,
           NEW n \in Nat, n <= Size(call[g].fn), Moved(g, n), misled => misled'
    PROVE  /\ call' \in [Goroutines -> Calls]
           /\ \A h \in Goroutines : call'[h] # Idle => call'[h].steps <= Size(call'[h].fn)
           /\ \A h \in Goroutines : /\ call'[h].at = call[h].at
                                    /\ call'[h].unwinding = call[h].unwinding
           /\ Held(g)' <=> n >= LockStep(call[g].fn)
           /\ Unshared(g)' <=> n >= LockStep(call[g].fn) + 1
           /\ Over(g)' <=> n >= LockStep(call[g].fn) + 4
           /\ \A h \in Goroutines : h # g => /\ Held(h)' <=> Held(h)
                                             /\ Unshared(h)' <=> Unshared(h)
                                             /\ Over(h)' <=> Over(h)
           /\ ~misled' => Homes'
  <1>1. PICK r \in Calls : /\ call' = [call EXCEPT ![g] = r] /\ r # Idle
                           /\ r.fn = call[g].fn /\ r.at = call[g].at
                           /\ r.steps = n /\ r.unwinding = call[g].unwinding
                           /\ ~misled' /\ Clean => r.home = Self /\ r.base = Self
    BY DEF Moved
  <1>2. /\ call'[g] = r
        /\ \A h \in Goroutines : h # g => /\ call'[h] = call[h]
                                          /\ Held(h)' <=> Held(h)
                                          /\ Unshared(h)' <=> Unshared(h)
                                          /\ Over(h)' <=> Over(h)
    BY <1>1, OthersSame DEF Inv, Types
  <1>3. call' \in [Goroutines -> Calls]
    BY <1>1 DEF Inv, Types
  <1>4. \A h \in Goroutines : call'[h] # Idle => call'[h].steps <= Size(call'[h].fn)
    BY <1>1, <1>2 DEF Inv, Types
  <1>5. \A h \in Goroutines : /\ call'[h].at = call[h].at
                              /\ call'[h].unwinding = call[h].unwinding
    BY <1>1, <1>2
  <1>6. /\ Held(g)' <=> n >= LockStep(call[g].fn)
        /\ Unshared(g)' <=> n >= LockStep(call[g].fn) + 1
        /\ Over(g)' <=> n >= LockStep(call[g].fn) + 4
    BY <1>1, <1>2 DEF Held, Unshared, Over
  <1>7. ~misled' => Homes'
    BY <1>1, <1>2 DEF Inv, Clean, Homes
  <1> QED  BY <1>2, <1>3, <1>4, <1>5, <1>6, <1>7

\* The same, for a step that neither changes the thread nor is undone.
LEMMA QuietMove ==
    ASSUME SwitchAssumption, Inv, NEW g \in Goroutines, call[g] # Idle,
           NEW n \in Nat, n <= Size(call[g].fn), Moved(g, n),
           UNCHANGED <<thread, ns, private, root, shared>>,
           misled' \in BOOLEAN, misled => misled',
           n >= LockStep(call[g].fn) <=> call[g].steps >= LockStep(call[g].fn),
           n >= LockStep(call[g].fn) + 1
               => call[g].steps >= LockStep(call[g].fn) + 1,
           n >= LockStep(call[g].fn) + 4
               <=> call[g].steps >= LockStep(call[g].fn) + 4
    PROVE  Inv'
  <1>1. PICK r \in Calls : /\ call' = [call EXCEPT ![g] = r] /\ r # Idle
                           /\ r.fn = call[g].fn /\ r.at = call[g].at
                           /\ r.steps = n /\ r.unwinding = call[g].unwinding
                           /\ ~misled' /\ Clean => r.home = Self /\ r.base = Self
    BY DEF Moved
  <1>2. /\ Held(g)' <=> Held(g)
        /\ Unshared(g)' => Unshared(g)
        /\ Over(g)' <=> Over(g)
    BY MovedCall DEF Held, Unshared, Over
  <1>3. r # Idle => r.steps <= Size(r.fn)
    BY <1>1
  <1>4. Over(g)' => r.at = call[g].at /\ (~r.unwinding => ~call[g].unwinding)
    BY <1>1
  <1>5. call' = [call EXCEPT ![g] = r]
    BY <1>1
  <1>6. ~misled' => r.home = Self /\ r.base = Self
    BY <1>1 DEF Inv
  <1> QED  BY <1>2, <1>3, <1>4, <1>5, <1>6, QuietStep

\* The thread of a goroutine that is not over is as the process started.
LEMMA HomeThread ==
    ASSUME SwitchAssumption, Inv, ~misled, NEW g \in Goroutines, Held(g), ~Over(g)
    PROVE  ns[thread[g]] = Self /\ root[thread[g]] = Self /\ RootOf(thread[g]) = Self
  <1>1. thread[g] \in Threads
    BY OwnThread
  <1>2. \A h \in Goroutines : Over(h) => thread[h] # thread[g]
    BY OwnThread
  <1> QED  BY <1>1, <1>2 DEF Inv, Clean, Places, RootOf

\* Where a thread can be.
LEMMA RootType ==
    ASSUME Inv, NEW t \in Threads
    PROVE  ns[t] \in Spots /\ RootOf(t) \in Spots
  BY DEF Inv, Types, RootOf

\* LockOSThread: a thread of the pool.
LEMMA LockThreadInv ==
    ASSUME SwitchAssumption, Inv, NEW g \in Goroutines, call[g] # Idle,
           call[g].steps + 1 = LockStep(call[g].fn),
           Moved(g, call[g].steps + 1),
           NEW free \in Pool, thread' = [thread EXCEPT ![g] = free],
           UNCHANGED <<ns, private, root, shared>>,
           misled' \in BOOLEAN, misled => misled'
    PROVE  Inv'
  <1> DEFINE n == call[g].steps + 1
  <1>1. n \in Nat /\ n <= Size(call[g].fn) /\ n = LockStep(call[g].fn)
        /\ call[g].steps \in Nat
    BY CallType
  <1>2. free \in Threads /\ free # Nothing /\ \A h \in Goroutines : thread[h] # free
    BY DEF Pool, SwitchAssumption
  <1>3. /\ call' \in [Goroutines -> Calls]
        /\ \A h \in Goroutines : call'[h] # Idle => call'[h].steps <= Size(call'[h].fn)
        /\ \A h \in Goroutines : /\ call'[h].at = call[h].at
                                 /\ call'[h].unwinding = call[h].unwinding
        /\ Held(g)' /\ ~Unshared(g)' /\ ~Over(g)' /\ ~Over(g)
        /\ \A h \in Goroutines : h # g => /\ Held(h)' <=> Held(h)
                                          /\ Unshared(h)' <=> Unshared(h)
                                          /\ Over(h)' <=> Over(h)
        /\ ~misled' => Homes'
    <2>1. /\ Held(g)' <=> n >= LockStep(call[g].fn)
          /\ Unshared(g)' <=> n >= LockStep(call[g].fn) + 1
          /\ Over(g)' <=> n >= LockStep(call[g].fn) + 4
      BY <1>1, MovedCall
    <2>2. Held(g)' /\ ~Unshared(g)' /\ ~Over(g)' /\ ~Over(g)
      BY <1>1, <2>1 DEF Over
    <2> QED  BY <1>1, <2>2, MovedCall
  <1>4. thread'[g] = free /\ \A h \in Goroutines : h # g => thread'[h] = thread[h]
    BY DEF Inv, Types
  <1>5. Types'
    BY <1>2, <1>3 DEF Inv, Types
  <1>6. Locking'
    BY <1>2, <1>3, <1>4 DEF Inv, Locking
  <1>7. ASSUME ~misled' PROVE Places'
    BY <1>3, <1>4, <1>7 DEF Inv, Clean, Places
  <1> QED  BY <1>3, <1>5, <1>6, <1>7 DEF Inv, Clean

\* unshare(CLONE_FS): the thread keeps the root it sees, but as its own.
LEMMA UnshareInv ==
    ASSUME SwitchAssumption, Inv, NEW g \in Goroutines, call[g] # Idle,
           call[g].steps = LockStep(call[g].fn),
           Moved(g, call[g].steps + 1),
           Unshare(thread[g]),
           root' = [root EXCEPT ![thread[g]] = RootOf(thread[g])],
           UNCHANGED <<thread, ns, shared>>,
           misled' \in BOOLEAN, misled => misled'
    PROVE  Inv'
  <1> DEFINE n == call[g].steps + 1
  <1>1. n \in Nat /\ n <= Size(call[g].fn) /\ n = LockStep(call[g].fn) + 1
        /\ call[g].steps \in Nat /\ LockStep(call[g].fn) \in Nat
    BY CallType
  <1>2. Held(g) /\ ~Over(g)
    BY <1>1 DEF Held, Over
  <1>3. thread[g] \in Threads /\ RootOf(thread[g]) \in Spots
    BY <1>2, OwnThread, RootType
  <1>4. private' = private \cup {thread[g]}
    BY DEF Unshare
  <1>5. ASSUME ~misled' PROVE UNCHANGED root
    <2>1. root[thread[g]] = Self /\ RootOf(thread[g]) = Self
      BY <1>2, <1>5, HomeThread
    <2> QED  BY <2>1, <1>3 DEF Inv, Types
  <1>6. /\ call' \in [Goroutines -> Calls]
        /\ \A h \in Goroutines : call'[h] # Idle => call'[h].steps <= Size(call'[h].fn)
        /\ \A h \in Goroutines : /\ call'[h].at = call[h].at
                                 /\ call'[h].unwinding = call[h].unwinding
        /\ Held(g)' /\ ~Over(g)'
        /\ \A h \in Goroutines : h # g => /\ Held(h)' <=> Held(h)
                                          /\ Unshared(h)' <=> Unshared(h)
                                          /\ Over(h)' <=> Over(h)
        /\ ~misled' => Homes'
    <2>1. /\ Held(g)' <=> n >= LockStep(call[g].fn)
          /\ Over(g)' <=> n >= LockStep(call[g].fn) + 4
      BY <1>1, MovedCall
    <2>2. Held(g)' /\ ~Over(g)'
      BY <1>1, <2>1
    <2> QED  BY <1>1, <2>2, MovedCall
  <1>7. Types'
    BY <1>3, <1>4, <1>6 DEF Inv, Types
  <1>8. Locking'
    BY <1>2, <1>4, <1>6 DEF Inv, Locking
  <1>9. ASSUME ~misled' PROVE Places'
    BY <1>2, <1>5, <1>6, <1>9 DEF Inv, Clean, Places
  <1> QED  BY <1>6, <1>7, <1>8, <1>9 DEF Inv, Clean

\* setns, chroot and their undoing: the thread of g changes its place.
LEMMA PlaceInv ==
    ASSUME SwitchAssumption, Inv, NEW g \in Goroutines, call[g] # Idle,
           NEW n \in Nat, n <= Size(call[g].fn),
           n >= LockStep(call[g].fn) + 1,
           call[g].steps >= LockStep(call[g].fn) + 1,
           Moved(g, n),
           NEW space \in Spots, NEW top \in Spots,
           ns' = [ns EXCEPT ![thread[g]] = space],
           root' = [root EXCEPT ![thread[g]] = top],
           misled' \in BOOLEAN, misled => misled',
           ~misled' /\ n >= LockStep(call[g].fn) + 4
               => space = call[g].at /\ (call[g].unwinding \/ top = call[g].at),
           ~misled' /\ n < LockStep(call[g].fn) + 4 => space = Self /\ top = Self,
           UNCHANGED <<thread, private, shared>>
    PROVE  Inv'
  <1>1. LockStep(call[g].fn) \in Nat /\ call[g].steps \in Nat
    BY CallType
  <1>2. Held(g) /\ Unshared(g)
    BY <1>1 DEF Held, Unshared
  <1>3. thread[g] \in Threads /\ \A h \in Goroutines : h # g => thread[h] # thread[g]
    BY <1>2, OwnThread
  <1>4. /\ call' \in [Goroutines -> Calls]
        /\ \A h \in Goroutines : call'[h] # Idle => call'[h].steps <= Size(call'[h].fn)
        /\ \A h \in Goroutines : /\ call'[h].at = call[h].at
                                 /\ call'[h].unwinding = call[h].unwinding
        /\ Held(g)' /\ Unshared(g)'
        /\ Over(g)' <=> n >= LockStep(call[g].fn) + 4
        /\ \A h \in Goroutines : h # g => /\ Held(h)' <=> Held(h)
                                          /\ Unshared(h)' <=> Unshared(h)
                                          /\ Over(h)' <=> Over(h)
        /\ ~misled' => Homes'
    <2>1. /\ Held(g)' <=> n >= LockStep(call[g].fn)
          /\ Unshared(g)' <=> n >= LockStep(call[g].fn) + 1
      BY MovedCall
    <2>2. Held(g)' /\ Unshared(g)'
      BY <1>1, <2>1
    <2> QED  BY <2>2, MovedCall
  <1>5. /\ ns'[thread[g]] = space /\ root'[thread[g]] = top
        /\ \A t \in Threads : t # thread[g] => ns'[t] = ns[t] /\ root'[t] = root[t]
    BY <1>3 DEF Inv, Types
  <1>6. Types'
    BY <1>4 DEF Inv, Types
  <1>7. Locking'
    BY <1>2, <1>4 DEF Inv, Locking
  <1>8. ASSUME ~misled', NEW h \in Goroutines, Over(h)'
        PROVE  /\ ns'[thread[h]] = call'[h].at
               /\ ~call'[h].unwinding => root'[thread[h]] = call'[h].at
    <2>1. CASE h = g
      BY <2>1, <1>4, <1>5, <1>8
    <2>2. CASE h # g
      <3>1. Over(h)
        BY <2>2, <1>4, <1>8
      <3>2. Held(h)
        BY <3>1, CallType DEF Over, Held
      <3>3. thread[h] \in Threads /\ thread[h] # thread[g]
        BY <3>2, <2>2, <1>3, OwnThread
      <3> QED  BY <3>1, <3>3, <1>4, <1>5, <1>8 DEF Inv, Clean, Places
    <2> QED  BY <2>1, <2>2
  <1>9. ASSUME ~misled', NEW t \in Threads, \A h \in Goroutines : Over(h)' => thread[h] # t
        PROVE  ns'[t] = Self /\ root'[t] = Self
    <2>1. CASE t = thread[g]
      <3>1. ~(n >= LockStep(call[g].fn) + 4)
        BY <2>1, <1>4, <1>9
      <3>2. n < LockStep(call[g].fn) + 4
        BY <3>1, <1>1
      <3> QED  BY <2>1, <3>2, <1>5, <1>9
    <2>2. CASE t # thread[g]
      <3>1. \A h \in Goroutines : Over(h) => thread[h] # t
        BY <2>2, <1>4, <1>9
      <3> QED  BY <2>2, <3>1, <1>5, <1>9 DEF Inv, Clean, Places
    <2> QED  BY <2>1, <2>2
  <1>10. ASSUME ~misled' PROVE Places'
    <2>1. shared' = Self
      BY <1>10 DEF Inv, Clean, Places
    <2> QED  BY <2>1, <1>8, <1>9, <1>10 DEF Places
  <1> QED  BY <1>4, <1>6, <1>7, <1>10 DEF Inv, Clean

\* UnlockOSThread: the thread is as it came.
LEMMA UnlockThreadInv ==
    ASSUME SwitchAssumption, Inv, NEW g \in Goroutines, call[g] # Idle,
           call[g].steps = LockStep(call[g].fn),
           Moved(g, call[g].steps - 1),
           thread' = [thread EXCEPT ![g] = Nothing],
           UNCHANGED <<ns, private, root, shared, misled>>
    PROVE  Inv'
  <1> DEFINE n == call[g].steps - 1
  <1>1. n \in Nat /\ n <= Size(call[g].fn) /\ n < LockStep(call[g].fn)
        /\ call[g].steps \in Nat /\ LockStep(call[g].fn) \in Nat
    BY CallType
  <1>2. /\ call' \in [Goroutines -> Calls]
        /\ \A h \in Goroutines : call'[h] # Idle => call'[h].steps <= Size(call'[h].fn)
        /\ \A h \in Goroutines : /\ call'[h].at = call[h].at
                                 /\ call'[h].unwinding = call[h].unwinding
        /\ ~Held(g)' /\ ~Unshared(g)' /\ ~Over(g)' /\ ~Over(g)
        /\ \A h \in Goroutines : h # g => /\ Held(h)' <=> Held(h)
                                          /\ Unshared(h)' <=> Unshared(h)
                                          /\ Over(h)' <=> Over(h)
        /\ ~misled' => Homes'
    <2>1. /\ Held(g)' <=> n >= LockStep(call[g].fn)
          /\ Unshared(g)' <=> n >= LockStep(call[g].fn) + 1
          /\ Over(g)' <=> n >= LockStep(call[g].fn) + 4
      BY <1>1, MovedCall
    <2>2. ~Held(g)' /\ ~Unshared(g)' /\ ~Over(g)' /\ ~Over(g)
      BY <1>1, <2>1 DEF Over
    <2> QED  BY <1>1, <2>2, MovedCall
  <1>3. thread'[g] = Nothing /\ \A h \in Goroutines : h # g => thread'[h] = thread[h]
    BY DEF Inv, Types
  <1>4. Types'
    BY <1>2 DEF Inv, Types
  <1>5. Locking'
    BY <1>2, <1>3 DEF Inv, Locking
  <1>6. ASSUME ~misled' PROVE Places'
    BY <1>2, <1>3, <1>6 DEF Inv, Clean, Places
  <1> QED  BY <1>2, <1>4, <1>5, <1>6 DEF Inv, Clean

\* What a step finds, before any call was misled, is the process's own.
LEMMA FoundOwn ==
    ASSUME SwitchAssumption, Inv, NEW g \in Goroutines, call[g] # Idle,
           NEW found \in Found(g)
    PROVE  /\ found.target \in Spots /\ found.home \in Spots /\ found.base \in Spots
           /\ ~misled /\ ~(NextStep(g) = "open self ns" /\ ns[Leader] # Self)
                => found.home = Self /\ found.base = Self
  <1>1. call[g] \in Running
    BY CallType
  <1>2. /\ call[g].target \in Spots /\ call[g].home \in Spots /\ call[g].base \in Spots
        /\ call[g].at \in Spots
    BY <1>1 DEF Running, Spots
  <1>3. VisibleRoots \in SUBSET Spots
    BY RootType DEF VisibleRoots, Pool
  <1>4. ns[Leader] \in Spots
    BY RootType DEF SwitchAssumption
  <1>5. \A top \in VisibleRoots : ~misled => top = Self
    <2>1. ASSUME ~misled, NEW t \in Pool PROVE RootOf(t) = Self
      <3>1. t \in Threads /\ \A h \in Goroutines : thread[h] # t
        BY DEF Pool
      <3> QED  BY <2>1, <3>1 DEF Inv, Clean, Places, RootOf
    <2> QED  BY <2>1 DEF VisibleRoots
  <1>6. /\ found.target \in Spots
        /\ found.home = IF NextStep(g) = "open self ns" THEN ns[Leader] ELSE call[g].home
        /\ found.base \in VisibleRoots \/ found.base = call[g].base
    BY <1>2, <1>3 DEF Found
  <1>7. ~misled => call[g].home = Self /\ call[g].base = Self
    BY DEF Inv, Clean, Homes
  <1> QED  BY <1>2, <1>3, <1>4, <1>5, <1>6, <1>7

LEMMA PerformInv ==
    ASSUME SwitchAssumption, Inv, NEW g \in Goroutines, Perform(g)
    PROVE  Inv'
  <1> DEFINE n == call[g].steps + 1
             L == LockStep(call[g].fn)
             t == thread[g]
             step == Steps(g)[n]
  <1>0. misled' = (misled \/ (NextStep(g) = "open self ns" /\ ns[Leader] # Self))
    BY DEF Perform
  <1>1. call[g] # Idle /\ ~call[g].unwinding
    BY DEF Perform
  <1>2. /\ call[g].fn \in Functions /\ call[g].at \in Containers
        /\ call[g].steps \in Nat /\ L \in Nat /\ Size(call[g].fn) \in Nat
        /\ call[g].steps <= Size(call[g].fn) /\ Len(Steps(g)) = Size(call[g].fn)
    BY <1>1, CallType
  <1>3. n \in Nat /\ n \in 1..Size(call[g].fn) /\ n <= Size(call[g].fn)
    <2>1. call[g].steps # Len(Steps(g))
      BY DEF Perform, Finished
    <2> QED  BY <1>2, <2>1
  <1>4. /\ step = "lock thread" <=> n = L
        /\ step = "unshare" <=> n = L + 1
        /\ step = "setns" <=> n = L + 4
        /\ step = "chroot" => n = L + 5
    BY <1>2, <1>3, StepNumbers DEF Steps
  <1>5. \/ step \notin Switching /\ UNCHANGED <<thread, ns, private, root, shared>>
        \/ /\ step = "lock thread"
           /\ \E free \in Pool : thread' = [thread EXCEPT ![g] = free]
           /\ UNCHANGED <<ns, private, root, shared>>
        \/ /\ step = "unshare"
           /\ Unshare(t) /\ root' = [root EXCEPT ![t] = RootOf(t)]
           /\ UNCHANGED <<thread, ns, shared>>
        \/ /\ step = "setns" /\ EnterNamespace(t, TargetNamespace(g))
           /\ UNCHANGED thread
        \/ /\ step = "chroot" /\ ChangeRoot(t, call[g].at)
           /\ UNCHANGED <<thread, ns, private>>
    BY DEF Perform, NextStep, threadVars
  <1>6. misled' \in BOOLEAN /\ (misled => misled')
    BY <1>0 DEF Inv, Types
  <1>7. Moved(g, n)
    <2>1. PICK found \in Found(g) :
             call' = [call EXCEPT ![g] = [@ EXCEPT !.steps = n, !.target = found.target,
                                                   !.home = found.home, !.base = found.base]]
      BY DEF Perform
    <2> DEFINE r == [call[g] EXCEPT !.steps = n, !.target = found.target,
                                    !.home = found.home, !.base = found.base]
    <2>2. call' = [call EXCEPT ![g] = r]
      BY <2>1
    <2>3. /\ found.target \in Spots /\ found.home \in Spots /\ found.base \in Spots
          /\ ~misled' => found.home = Self /\ found.base = Self
      BY <1>0, <1>1, FoundOwn
    <2>4. call[g] \in Running /\ n \in 0..12
      <3>1. /\ call[g] \in Running /\ Size(call[g].fn) <= 12
            /\ Size(call[g].fn) \in Nat
        BY <1>1, CallType
      <3>2. n \in Nat /\ n <= Size(call[g].fn)
        BY <1>3
      <3> HIDE DEF n
      <3>3. n \in 0..12
        BY <3>1, <3>2
      <3> QED  BY <3>1, <3>3
    <2>5. /\ r \in Running /\ r.fn = call[g].fn /\ r.at = call[g].at
          /\ r.steps = n /\ r.unwinding = call[g].unwinding
          /\ r.home = found.home /\ r.base = found.base
      BY <2>3, <2>4 DEF Running
    <2> HIDE DEF r
    <2> QED  BY <1>1, <2>2, <2>3, <2>5, MovedRecord
  <1> HIDE DEF step
  <1>8. CASE step \notin Switching /\ UNCHANGED <<thread, ns, private, root, shared>>
    <2>1. n # L /\ n # L + 1 /\ n # L + 4
      BY <1>4, <1>8 DEF Switching
    <2>2. /\ n >= L <=> call[g].steps >= L
          /\ n >= L + 1 => call[g].steps >= L + 1
          /\ n >= L + 4 <=> call[g].steps >= L + 4
      BY <2>1, <1>2
    <2> QED  BY <1>1, <1>3, <1>6, <1>7, <1>8, <2>2, QuietMove
  <1>9. CASE /\ step = "lock thread"
             /\ \E free \in Pool : thread' = [thread EXCEPT ![g] = free]
             /\ UNCHANGED <<ns, private, root, shared>>
    BY <1>1, <1>4, <1>6, <1>7, <1>9, LockThreadInv
  <1>10. CASE /\ step = "unshare"
              /\ Unshare(t) /\ root' = [root EXCEPT ![t] = RootOf(t)]
              /\ UNCHANGED <<thread, ns, shared>>
    <2>1. call[g].steps = L
      BY <1>2, <1>4, <1>10
    <2> QED  BY <1>1, <1>6, <1>7, <1>10, <2>1, UnshareInv
  <1>11. CASE /\ step = "setns" /\ EnterNamespace(t, TargetNamespace(g))
              /\ UNCHANGED thread
    <2>1. n >= L + 1 /\ call[g].steps >= L + 1 /\ ~(n < L + 4)
      BY <1>2, <1>4, <1>11
    <2>2. /\ ns' = [ns EXCEPT ![t] = call[g].at] /\ root' = [root EXCEPT ![t] = call[g].at]
          /\ UNCHANGED <<thread, private, shared>>
      BY <1>11 DEF EnterNamespace, TargetNamespace
    <2>3. call[g].at \in Spots
      BY <1>2 DEF Spots
    <2> QED  BY <1>1, <1>2, <1>3, <1>6, <1>7, <2>1, <2>2, <2>3, PlaceInv
  <1>12. CASE /\ step = "chroot" /\ ChangeRoot(t, call[g].at)
              /\ UNCHANGED <<thread, ns, private>>
    <2>1. n >= L + 1 /\ call[g].steps >= L + 1 /\ ~(n < L + 4)
          /\ call[g].steps >= L + 4
      BY <1>2, <1>4, <1>12
    <2>2. Over(g) /\ Unshared(g) /\ Held(g)
      BY <1>1, <1>2, <2>1 DEF Over, Unshared, Held
    <2>3. t \in private /\ t \in Threads
      BY <2>2, OwnThread DEF Inv, Locking
    <2>4. /\ ns' = [ns EXCEPT ![t] = ns[t]] /\ root' = [root EXCEPT ![t] = call[g].at]
          /\ UNCHANGED <<thread, private, shared>>
      BY <1>12, <2>3 DEF ChangeRoot, Inv, Types
    <2>5. ns[t] \in Spots /\ call[g].at \in Spots
      BY <1>2, <2>3, RootType DEF Spots
    <2>6. ~misled' => ns[t] = call[g].at
      BY <1>6, <2>2 DEF Inv, Clean, Places
    <2> QED  BY <1>1, <1>2, <1>3, <1>6, <1>7, <2>1, <2>4, <2>5, <2>6, PlaceInv
  <1> QED  BY <1>5, <1>8, <1>9, <1>10, <1>11, <1>12

LEMMA RunDeferredInv ==
    ASSUME SwitchAssumption, Inv, NEW g \in Goroutines, RunDeferred(g)
    PROVE  Inv'
  <1> DEFINE i == call[g].steps
             n == call[g].steps - 1
             L == LockStep(call[g].fn)
             t == thread[g]
             step == Steps(g)[i]
  <1>1. /\ call[g] # Idle /\ call[g].unwinding /\ i > 0
        /\ call' = [call EXCEPT ![g].steps = n] /\ UNCHANGED misled
    <2>1. /\ call[g].unwinding /\ i > 0
          /\ call' = [call EXCEPT ![g].steps = n] /\ UNCHANGED misled
      BY DEF RunDeferred
    <2>2. ~Idle.unwinding
      BY DEF Idle
    <2> QED  BY <2>1, <2>2
  <1>2. /\ call[g].fn \in Functions /\ call[g].at \in Containers
        /\ i \in Nat /\ L \in Nat /\ Size(call[g].fn) \in Nat
        /\ i <= Size(call[g].fn)
    BY <1>1, CallType
  <1>3. n \in Nat /\ i \in 1..Size(call[g].fn) /\ n <= Size(call[g].fn)
    BY <1>1, <1>2
  <1>4. /\ step = "lock thread" <=> i = L
        /\ step = "setns" <=> i = L + 4
        /\ step = "chdir" => i = L + 6
    BY <1>2, <1>3, StepNumbers DEF Steps
  <1>5. \/ step \notin Deferring /\ UNCHANGED <<thread, ns, private, root, shared>>
        \/ /\ step = "lock thread" /\ thread' = [thread EXCEPT ![g] = Nothing]
           /\ UNCHANGED <<ns, private, root, shared>>
        \/ step = "setns" /\ RestoreNamespace(t, call[g].home) /\ UNCHANGED thread
        \/ /\ step = "chdir" /\ RestoreRoot(t, call[g].base)
           /\ UNCHANGED <<thread, ns, private>>
    BY DEF RunDeferred, LastStep, threadVars
  <1>6. misled' \in BOOLEAN /\ (misled => misled')
    BY <1>1 DEF Inv, Types
  <1>7. /\ call[g].home \in Spots /\ call[g].base \in Spots
        /\ ~misled' => call[g].home = Self /\ call[g].base = Self
    BY <1>1, CallType DEF Inv, Clean, Homes
  <1>8. Moved(g, n)
    <2> DEFINE r == [call[g] EXCEPT !.steps = n]
    <2>1. call[g] \in Running /\ n \in 0..12
      <3>1. call[g] \in Running /\ Size(call[g].fn) <= 12
        BY <1>1, CallType
      <3> QED  BY <1>2, <1>3, <3>1
    <2>2. call' = [call EXCEPT ![g] = r]
      BY <1>1
    <2>3. /\ r \in Running /\ r.fn = call[g].fn /\ r.at = call[g].at
          /\ r.steps = n /\ r.unwinding = call[g].unwinding
          /\ r.home = call[g].home /\ r.base = call[g].base
      BY <2>1 DEF Running
    <2> HIDE DEF r
    <2> QED  BY <1>1, <1>7, <2>2, <2>3, MovedRecord
  <1> HIDE DEF step
  <1>9. CASE step \notin Deferring /\ UNCHANGED <<thread, ns, private, root, shared>>
    <2>1. i # L /\ i # L + 4
      BY <1>4, <1>9 DEF Deferring
    <2>2. /\ n >= L <=> i >= L
          /\ n >= L + 1 => i >= L + 1
          /\ n >= L + 4 <=> i >= L + 4
      BY <2>1, <1>2
    <2> QED  BY <1>1, <1>3, <1>6, <1>8, <1>9, <2>2, QuietMove
  <1>10. CASE /\ step = "lock thread" /\ thread' = [thread EXCEPT ![g] = Nothing]
              /\ UNCHANGED <<ns, private, root, shared>>
    BY <1>1, <1>4, <1>8, <1>10, UnlockThreadInv
  <1>11. CASE step = "setns" /\ RestoreNamespace(t, call[g].home) /\ UNCHANGED thread
    <2>1. n >= L + 1 /\ i >= L + 1 /\ ~(n >= L + 4)
      BY <1>2, <1>4, <1>11
    <2>2. /\ ns' = [ns EXCEPT ![t] = call[g].home]
          /\ root' = [root EXCEPT ![t] = call[g].home]
          /\ UNCHANGED <<thread, private, shared>>
      BY <1>11 DEF RestoreNamespace, EnterNamespace
    <2> QED  BY <1>1, <1>2, <1>3, <1>6, <1>7, <1>8, <2>1, <2>2, PlaceInv
  <1>12. CASE /\ step = "chdir" /\ RestoreRoot(t, call[g].base)
              /\ UNCHANGED <<thread, ns, private>>
    <2>1. n >= L + 1 /\ i >= L + 1 /\ ~(n < L + 4) /\ i >= L + 4
      BY <1>2, <1>4, <1>12
    <2>2. Over(g) /\ Unshared(g) /\ Held(g)
      BY <1>1, <1>2, <2>1 DEF Over, Unshared, Held
    <2>3. t \in private /\ t \in Threads
      BY <2>2, OwnThread DEF Inv, Locking
    <2>4. /\ ns' = [ns EXCEPT ![t] = ns[t]] /\ root' = [root EXCEPT ![t] = call[g].base]
          /\ UNCHANGED <<thread, private, shared>>
      BY <1>12, <2>3 DEF RestoreRoot, ChangeRoot, Inv, Types
    <2>5. ns[t] \in Spots
      BY <2>3, RootType
    <2>6. ~misled' => ns[t] = call[g].at
      BY <1>6, <2>2 DEF Inv, Clean, Places
    <2> QED  BY <1>1, <1>2, <1>3, <1>6, <1>7, <1>8, <2>1, <2>4, <2>5, <2>6, PlaceInv
  <1> QED  BY <1>5, <1>9, <1>10, <1>11, <1>12

LEMMA InitInv == SwitchAssumption /\ SwitchInit => Inv
  <1> SUFFICES ASSUME SwitchAssumption, SwitchInit PROVE Inv
    OBVIOUS
  <1>1. \A g \in Goroutines : ~Held(g) /\ ~Unshared(g) /\ ~Over(g)
    BY DEF SwitchInit, Held, Unshared, Over
  <1>2. Types
    BY DEF SwitchInit, Types, Calls, Spots
  <1>3. Locking
    BY <1>1 DEF SwitchInit, Locking
  <1>4. Places /\ Homes
    BY <1>1 DEF SwitchInit, Places, Homes, Idle
  <1> QED  BY <1>2, <1>3, <1>4 DEF Inv, Clean

LEMMA NextInv == SwitchAssumption /\ Inv /\ [SwitchNext]_switchVars => Inv'
  <1> SUFFICES ASSUME SwitchAssumption, Inv, [SwitchNext]_switchVars PROVE Inv'
    OBVIOUS
  <1>1. CASE SwitchNext
    BY <1>1, BeginInv, PerformInv, UnwindInv, RunDeferredInv, ReturnInv DEF SwitchNext
  <1>2. CASE UNCHANGED switchVars
    BY <1>2 DEF switchVars, threadVars, Inv, Types, Locking, Clean, Places, Homes,
                Held, Unshared, Over
  <1> QED  BY <1>1, <1>2

LEMMA InvHolds == SwitchSpec => []Inv
  BY InitInv, NextInv, SwitchAssumption, PTL DEF SwitchSpec

-----------------------------------------------------------------------------
(* Theorems.                                                               *)

\* The types of all variables; outside of these functions a goroutine keeps no
\* thread.
THEOREM SwitchTypes == SwitchSpec => []SwitchTypeOK
  <1>1. Inv => SwitchTypeOK
    BY DEF Inv, Types, Locking, Held, SwitchTypeOK
  <1> QED  BY <1>1, InvHolds, PTL

\* A thread that returns to the scheduler's pool is back in the wrapper's own
\* namespace and root, whichever step of moveMountIntoContainerNamespace,
\* legacyBindMountIntoContainerNamespace or the unmount failed before, as long
\* as none of them opened /proc/self/ns/mnt (mounter_linux.go:485, 541, 621)
\* while the leader of the thread group was inside a container.
THEOREM PoolClean == SwitchSpec => []PoolThreadsClean
  <1>1. Inv => PoolThreadsClean
    <2> SUFFICES ASSUME Inv, ~misled, NEW t \in Pool
                 PROVE  ns[t] = Self /\ RootOf(t) = Self
      BY DEF PoolThreadsClean
    <2>1. t \in Threads /\ \A g \in Goroutines : thread[g] # t
      BY DEF Pool
    <2> QED  BY <2>1 DEF Inv, Clean, Places, RootOf
  <1> QED  BY <1>1, InvHolds, PTL

\* Under the same condition the mount or unmount itself happens in the namespace
\* and at a place of the container that was asked for, in every interleaving of
\* the goroutines.  The target is looked up from outside the container before
\* (mounter_linux.go:463, 472, 605), but one that is not the container's is
\* refused by the kernel from within its namespace.
THEOREM ActsInContainer == SwitchSpec => OperatesInContainer
  <1>1. ASSUME Inv, ~misled, NEW g \in Goroutines,
               call[g] # Idle, ~call[g].unwinding, ~Finished(g),
               NextStep(g) = "operate"
        PROVE  ns[thread[g]] = call[g].at
    <2> DEFINE n == call[g].steps + 1
               f == call[g].fn
    <2>1. /\ f \in Functions /\ call[g].steps \in Nat /\ call[g].steps <= Size(f)
          /\ Len(Steps(g)) = Size(f) /\ LockStep(f) \in Nat /\ Size(f) \in Nat
          /\ Size(f) >= LockStep(f) + 5
      BY <1>1, CallType, SwitchAssumption
    <2>2. n \in 1..Size(f)
      BY <1>1, <2>1 DEF Finished
    <2>3. Program[f][n] = "operate"
      BY <1>1 DEF NextStep, Steps
    <2>4. n = Size(f)
      BY <2>1, <2>2, <2>3, StepNumbers
    <2>5. Over(g)
      BY <1>1, <2>1, <2>4 DEF Over
    <2> QED  BY <1>1, <2>5 DEF Inv, Clean, Places
  <1>2. ASSUME Inv, SwitchNext, NEW g \in Goroutines,
               call[g] # Idle, ~call[g].unwinding,
               call'[g].steps = call[g].steps + 1
        PROVE  Perform(g)
    <2>1. call[g].steps \in Nat /\ call[g].steps # call[g].steps + 1
      BY <1>2, CallType, SwitchAssumption
    <2>2. PICK h \in Goroutines :
             \/ \E f \in Functions, x \in Containers : BeginCall(h, f, x)
             \/ Perform(h) \/ Unwind(h) \/ RunDeferred(h) \/ ReturnCall(h)
      BY <1>2 DEF SwitchNext
    <2>3. call'[g] # call[g]
      BY <1>2, <2>1
    <2>4. h = g
      <3>1. \E r : call' = [call EXCEPT ![h] = r]
        <4>1. CASE \E f \in Functions, x \in Containers : BeginCall(h, f, x)
          BY <4>1 DEF BeginCall
        <4>2. CASE Perform(h)
          BY <4>2 DEF Perform
        <4>3. CASE Unwind(h)
          BY <4>3 DEF Unwind
        <4>4. CASE RunDeferred(h)
          BY <4>4 DEF RunDeferred
        <4>5. CASE ReturnCall(h)
          BY <4>5 DEF ReturnCall
        <4> QED  BY <2>2, <4>1, <4>2, <4>3, <4>4, <4>5
      <3> QED  BY <2>3, <3>1 DEF Inv, Types
    <2>5. ~Unwind(g)
      <3>1. ASSUME Unwind(g) PROVE call'[g].steps = call[g].steps
        <4> DEFINE r == [call[g] EXCEPT !.unwinding = TRUE]
        <4>1. call' = [call EXCEPT ![g] = r]
          BY <3>1 DEF Unwind, Inv, Types
        <4>2. call[g] \in Running
          BY <1>2, CallType, SwitchAssumption
        <4>3. r.steps = call[g].steps
          BY <4>2 DEF Running
        <4> HIDE DEF r
        <4> QED  BY <4>1, <4>3 DEF Inv, Types
      <3> QED  BY <1>2, <2>1, <3>1
    <2> QED  BY <1>2, <2>2, <2>4, <2>5 DEF BeginCall, RunDeferred, ReturnCall
  <1>3. Inv /\ [SwitchNext]_switchVars =>
          [\A g \in Goroutines :
              /\ call[g] # Idle /\ ~call[g].unwinding /\ ~Finished(g) /\ ~misled
              /\ NextStep(g) = "operate" /\ call'[g].steps = call[g].steps + 1
              => ns[thread[g]] = call[g].at /\ Spot(g) = call[g].at]_switchVars
    <2> SUFFICES ASSUME Inv, SwitchNext, NEW g \in Goroutines,
                        call[g] # Idle, ~call[g].unwinding, ~Finished(g), ~misled,
                        NextStep(g) = "operate", call'[g].steps = call[g].steps + 1
                 PROVE  ns[thread[g]] = call[g].at /\ Spot(g) = call[g].at
      OBVIOUS
    <2>1. Perform(g)
      BY <1>2
    <2>2. Spot(g) = ns[thread[g]]
      BY <2>1 DEF Perform
    <2> QED  BY <1>1, <2>2
  <1> QED  BY <1>3, InvHolds, PTL DEF SwitchSpec, OperatesInContainer
=============================================================================
