--------------------------- MODULE NamespaceSwitch ---------------------------
(***************************************************************************)
(* How a goroutine works inside a container's mount namespace: it locks    *)
(* itself to an OS thread, switches the thread over, mounts or unmounts,   *)
(* and lets the deferred calls switch it back before the thread returns to *)
(* the pool (internal/node/mounter_linux.go:454-658).  Any call on the way *)
(* can fail; what has been deferred until then is undone in reverse order. *)
(*                                                                         *)
(* The namespace to return to is found behind /proc/self, which names the  *)
(* thread-group leader, not the thread that asks: while another goroutine  *)
(* has the leader inside a container, it is that container's.  The target  *)
(* directory is looked up from outside, below /proc/<pid>/root, where an   *)
(* absolute symbolic link leads back to the wrapper's own root.            *)
(*                                                                         *)
(* The kernel side is modelled from its use: threads of a process share    *)
(* their root and working directory until unshare(CLONE_FS), setns refuses *)
(* a thread that still shares them, a successful setns moves them to the   *)
(* root of the namespace, and nothing is mounted at a place that is not in *)
(* the namespace of the thread.                                            *)
(***************************************************************************)
EXTENDS Naturals, Sequences

CONSTANTS
    Goroutines,
    Threads,
    Leader,       \* the thread-group leader
    Containers,   \* containers, which also name their namespaces and roots
    Self,         \* the wrapper's own namespace and root
    Nothing       \* no function, no thread

ASSUME SwitchAssumption ==
    Self \notin Containers /\ Nothing \notin Threads /\ Leader \in Threads

VARIABLES
    call,         \* goroutine -> function, container, steps done, unwinding,
                  \* and where the descriptors lead that it has opened
    thread,       \* goroutine -> the thread that it is locked to
    ns,           \* thread -> mount namespace
    private,      \* threads that have their own root and working directory
    root,         \* thread -> root directory, if private
    shared,       \* root directory of all other threads
    misled        \* some call took a container's namespace for its own

threadVars == <<thread, ns, private, root, shared>>
switchVars == <<call, threadVars, misled>>

-----------------------------------------------------------------------------
(* The functions as sequences of calls.  The mount point checks and the    *)
(* creation of the target directory use paths below /proc and come first;  *)
(* directories are not modelled, so where mkdir creates them is left open. *)

Program == [
    moveMount  |-> <<"check", "mkdir", "check", "open target",
                     "lock thread", "unshare", "open self ns", "open target ns",
                     "setns", "operate">>,
    legacyBind |-> <<"check", "mkdir", "check",
                     "lock thread", "unshare", "open self ns", "open target ns",
                     "setns", "operate">>,
    unmount    |-> <<"check", "open root", "open self root", "open self cwd",
                     "lock thread", "unshare", "open self ns", "open target ns",
                     "setns", "chroot", "chdir", "operate">>]

Functions == DOMAIN Program

\* Steps that change the thread, and steps after which a call is deferred that
\* changes it back.  Closing descriptors is left out.  restoreRoot is deferred
\* once enterRoot has returned, so not after a chroot alone.
Switching == {"lock thread", "unshare", "setns", "chroot"}
Deferring == {"lock thread", "setns", "chdir"}

\* target, home and base: the target directory, and the namespace and the root
\* to return to.
Spots == Containers \cup {Self}
Idle == [fn |-> Nothing, at |-> Self, steps |-> 0, unwinding |-> FALSE,
         target |-> Self, home |-> Self, base |-> Self]
Calls == [fn : Functions, at : Containers, steps : 0..12, unwinding : BOOLEAN,
          target : Spots, home : Spots, base : Spots] \cup {Idle}

Steps(g) == Program[call[g].fn]
NextStep(g) == Steps(g)[call[g].steps + 1]
LastStep(g) == Steps(g)[call[g].steps]
Finished(g) == call[g].steps = Len(Steps(g))

\* The root directory that thread t sees.
RootOf(t) == IF t \in private THEN root[t] ELSE shared

\* The types of all variables.  A goroutine outside these functions is locked
\* to no thread.
SwitchTypeOK ==
    /\ \A g \in Goroutines : call[g] = Idle => thread[g] = Nothing
    /\ call \in [Goroutines -> Calls]
    /\ thread \in [Goroutines -> Threads \cup {Nothing}]
    /\ ns \in [Threads -> Spots]
    /\ private \in SUBSET Threads
    /\ root \in [Threads -> Spots]
    /\ shared \in Spots
    /\ misled \in BOOLEAN

-----------------------------------------------------------------------------
(* Effects.                                                                *)

\* After a call was misled, its thread stays in a container.  What goroutines do
\* on that thread is not followed: no call begins then.
BeginCall(g, f, x) ==
    /\ call[g] = Idle /\ ~misled
    /\ call' = [call EXCEPT ![g] = [Idle EXCEPT !.fn = f, !.at = x]]
    /\ UNCHANGED <<threadVars, misled>>

Pool == Threads \ {thread[g] : g \in Goroutines}

ChangeRoot(t, x) ==
    IF t \in private THEN root' = [root EXCEPT ![t] = x] /\ UNCHANGED shared
    ELSE shared' = x /\ UNCHANGED root

\* setns(CLONE_NEWNS).
EnterNamespace(t, x) ==
    /\ t \in private
    /\ ns' = [ns EXCEPT ![t] = x]
    /\ root' = [root EXCEPT ![t] = x]
    /\ UNCHANGED <<private, shared>>

\* The namespace behind targetMountNS.
SelfNamespace(g) == Self
TargetNamespace(g) == call[g].at

\* What a step finds: the roots that a goroutine can see before it is locked to
\* a thread, and behind selfMountNS the namespace of the leader.
VisibleRoots == {RootOf(t) : t \in Pool}
Found(g) ==
    LET step == NextStep(g)
    IN  [target : IF step = "open target" THEN {call[g].at} \cup VisibleRoots
                  ELSE {call[g].target},
         home : IF step = "open self ns" THEN {ns[Leader]} ELSE {call[g].home},
         base : IF step = "open self root" THEN VisibleRoots ELSE {call[g].base}]

\* Where the mount or unmount takes effect, which the kernel refuses outside
\* the namespace of the thread: moveMount has a descriptor, the others a path.
Spot(g) == IF call[g].fn = "moveMount" THEN call[g].target ELSE RootOf(thread[g])

\* A step that succeeds.
Unshare(t) == private' = private \cup {t}
Perform(g) ==
    LET step == NextStep(g)
        t == thread[g]
    IN /\ call[g] # Idle /\ ~call[g].unwinding /\ ~Finished(g)
       /\ step = "operate" => Spot(g) = ns[t]
       /\ \E found \in Found(g) :
             call' = [call EXCEPT ![g] =
                        [@ EXCEPT !.steps = call[g].steps + 1, !.target = found.target,
                                  !.home = found.home, !.base = found.base]]
       /\ misled' = (misled \/ (step = "open self ns" /\ ns[Leader] # Self))
       /\ \/ /\ step \notin Switching
             /\ UNCHANGED threadVars
          \/ /\ step = "lock thread"
             /\ \E free \in Pool : thread' = [thread EXCEPT ![g] = free]
             /\ UNCHANGED <<ns, private, root, shared>>
          \/ /\ step = "unshare"
             /\ Unshare(t) /\ root' = [root EXCEPT ![t] = RootOf(t)]
             /\ UNCHANGED <<thread, ns, shared>>
          \/ /\ step = "setns"
             /\ EnterNamespace(t, TargetNamespace(g))
             /\ UNCHANGED thread
          \/ /\ step = "chroot"
             /\ ChangeRoot(t, call[g].at)
             /\ UNCHANGED <<thread, ns, private>>

\* A step fails, or the function reaches its end: the deferred calls run.
Unwind(g) ==
    /\ call[g] # Idle /\ ~call[g].unwinding
    /\ ~Finished(g) => NextStep(g) # "lock thread"
    /\ call' = [call EXCEPT ![g].unwinding = TRUE]
    /\ UNCHANGED <<threadVars, misled>>

\* What was deferred after the last step, if anything.
RestoreNamespaceForgotten(t, home) == UNCHANGED <<ns, private, root, shared>>
RestoreNamespace(t, home) == EnterNamespace(t, home)
RestoreRoot(t, base) == ChangeRoot(t, base)
RunDeferred(g) ==
    LET step == LastStep(g)
        t == thread[g]
    IN /\ call[g].unwinding /\ call[g].steps > 0
       /\ call' = [call EXCEPT ![g].steps = @ - 1]
       /\ UNCHANGED misled
       /\ \/ /\ step \notin Deferring
             /\ UNCHANGED threadVars
          \/ /\ step = "lock thread"
             /\ thread' = [thread EXCEPT ![g] = Nothing]
             /\ UNCHANGED <<ns, private, root, shared>>
          \/ /\ step = "setns"
             /\ RestoreNamespace(t, call[g].home)
             /\ UNCHANGED thread
          \/ /\ step = "chdir"
             /\ RestoreRoot(t, call[g].base)
             /\ UNCHANGED <<thread, ns, private>>

ReturnCall(g) ==
    /\ call[g].unwinding /\ call[g].steps = 0
    /\ call' = [call EXCEPT ![g] = Idle]
    /\ UNCHANGED <<threadVars, misled>>

-----------------------------------------------------------------------------

SwitchInit ==
    /\ call = [g \in Goroutines |-> Idle]
    /\ thread = [g \in Goroutines |-> Nothing]
    /\ ns = [t \in Threads |-> Self]
    /\ private = {}
    /\ root = [t \in Threads |-> Self]
    /\ shared = Self
    /\ misled = FALSE

SwitchNext ==
    \E g \in Goroutines :
        \/ \E f \in Functions, x \in Containers : BeginCall(g, f, x)
        \/ Perform(g) \/ Unwind(g) \/ RunDeferred(g) \/ ReturnCall(g)

SwitchSpec == SwitchInit /\ [][SwitchNext]_switchVars

-----------------------------------------------------------------------------

\* As long as no call opened /proc/self/ns/mnt while the leader was inside a
\* container, a thread on which the scheduler may run any other goroutine is in
\* the wrapper's own namespace and sees its own root, whatever failed before:
\* the staging paths, the state files and /proc of other goroutines stay theirs.
PoolThreadsClean == ~misled => \A t \in Pool : ns[t] = Self /\ RootOf(t) = Self

\* Under the same condition, a mount or an unmount takes effect in the container
\* that was asked for and nowhere else, though its target is looked up from
\* outside before: a target that a link leads out of the container is refused.
OperatesInContainer ==
    [][\A g \in Goroutines :
          /\ call[g] # Idle /\ ~call[g].unwinding /\ ~Finished(g) /\ ~misled
          /\ NextStep(g) = "operate" /\ call'[g].steps = call[g].steps + 1
          => ns[thread[g]] = call[g].at /\ Spot(g) = call[g].at]_switchVars

=============================================================================
