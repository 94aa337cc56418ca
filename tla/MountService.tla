----------------------------- MODULE MountService -----------------------------
(***************************************************************************)
(* What the wrapper relies on when it calls Mounter.Mount                  *)
(* (internal/node/types.go): a call attaches exactly the source of its     *)
(* plan, in one step, to a free target, and answers success if and only if *)
(* it did.  A call that fails has not touched the target.                  *)
(***************************************************************************)
CONSTANTS
    Callers,      \* goroutines inside Mount
    Targets,      \* places in container namespaces
    Sources,      \* NFS directories
    NoSource,     \* nothing is attached
    NoPlan        \* a caller that is not inside Mount

VARIABLES
    target,       \* target -> source that is attached there
    plan,         \* caller -> the plan it was called with, or NoPlan
    done          \* callers whose plan is attached

vars == <<target, plan, done>>

Plans == [target : Targets, source : Sources]

Init ==
    /\ target = [t \in Targets |-> NoSource]
    /\ plan = [c \in Callers |-> NoPlan]
    /\ done = {}

Call(c, p) ==
    /\ plan[c] = NoPlan
    /\ plan' = [plan EXCEPT ![c] = p]
    /\ UNCHANGED <<target, done>>

Attach(c) ==
    /\ plan[c] # NoPlan /\ c \notin done
    /\ target[plan[c].target] = NoSource
    /\ target' = [target EXCEPT ![plan[c].target] = plan[c].source]
    /\ done' = done \cup {c}
    /\ UNCHANGED plan

\* Success when the plan is attached, an error when it is not.
Return(c, ok) ==
    /\ plan[c] # NoPlan
    /\ ok <=> c \in done
    /\ plan' = [plan EXCEPT ![c] = NoPlan]
    /\ done' = done \ {c}
    /\ UNCHANGED target

\* The target is unmounted, or its container ends.
Detach(t) ==
    /\ target[t] # NoSource
    /\ target' = [target EXCEPT ![t] = NoSource]
    /\ UNCHANGED <<plan, done>>

\* The process dies; attached mounts stay.
Crash ==
    /\ plan' = [c \in Callers |-> NoPlan]
    /\ done' = {}
    /\ UNCHANGED target

Next ==
    \/ \E c \in Callers :
          \/ \E p \in Plans : Call(c, p)
          \/ Attach(c)
          \/ \E ok \in BOOLEAN : Return(c, ok)
    \/ \E t \in Targets : Detach(t)
    \/ Crash

Spec == Init /\ [][Next]_vars

=============================================================================
