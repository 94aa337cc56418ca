----------------------------- MODULE SubPathWalk -----------------------------
(***************************************************************************)
(* openDirectoryNoFollow (internal/node/mounter_linux.go:312-416): the     *)
(* walk from the staged mount to the directory that source_sub_path names, *)
(* one openat for each segment, creating what is missing.  Other walks, on *)
(* this node or another, and other clients of the share change the tree    *)
(* meanwhile: they create, remove and rename, and put files or symbolic    *)
(* links there.                                                            *)
(***************************************************************************)
EXTENDS Integers, Sequences

CONSTANTS
    Walkers,        \* goroutines inside the walk
    Names,          \* names of directory entries
    MaxDepth,       \* bound on the segments of a sub-path
    MaxInodes,      \* bound on the inodes ever created
    CreateMissing,  \* the values that cfg.CreateMissingSubPaths may have
    Changes         \* what others do: "dir", "file", "link", "remove",
                    \* "rename"; and "fail": a call of the walk fails

ASSUME WalkAssumption ==
    MaxDepth \in Nat /\ MaxInodes \in Nat \ {0} /\ CreateMissing \subseteq BOOLEAN

Root == 1             \* the root of the staged mount
Absent == 0           \* no entry
Outside == MaxInodes + 1   \* what a symbolic link points to
Inodes == 1..MaxInodes
Paths == UNION {[1..n -> Names] : n \in 0..MaxDepth}

VARIABLES
    kind,         \* inode -> "free", "dir", "file" or "link"
    entry,        \* inode -> name -> inode
    born,         \* inode -> the path under which it was created
    moved,        \* history: inodes that are or were below a renamed one
    create,       \* cfg.CreateMissingSubPaths
    walk          \* walker -> its local variables

share == <<kind, entry, born, moved, create>>
walkVars == <<share, walk>>

\* Locals of a walk: the segments, how many are done, the inode behind
\* currentFD, how often each descriptor was opened less how often it was closed
\* (0 is dirFD, n is what segment n opened; currentFD is the number of segments
\* done), and the next step or the answer.
Walks == [path : Paths, n : 0..MaxDepth, at : Inodes \cup {Outside},
          fds : [0..MaxDepth -> Int],
          step : {"idle", "open", "mkdir", "reopen", "ok", "bad", "error"}]
OpenAre(S) == [f \in 0..MaxDepth |-> IF f \in S THEN 1 ELSE 0]
NoWalk == [path |-> <<>>, n |-> 0, at |-> Root, fds |-> OpenAre({}), step |-> "idle"]

\* The types of all variables.  A walk that goes on has a segment left.
WalkTypeOK ==
    /\ \A w \in Walkers : walk[w].step \in {"open", "mkdir", "reopen"}
                          => walk[w].n < Len(walk[w].path)
    /\ kind \in [Inodes -> {"free", "dir", "file", "link"}]
    /\ entry \in [Inodes -> [Names -> Inodes \cup {Absent}]]
    /\ born \in [Inodes -> Paths]
    /\ moved \in SUBSET Inodes
    /\ create \in BOOLEAN
    /\ walk \in [Walkers -> Walks]

-----------------------------------------------------------------------------

Free == {i \in Inodes : kind[i] = "free"}

\* A new inode of kind k for entry s of directory d; inodes are numbered in
\* the order of their creation.
Create(d, s, k) ==
    LET i == CHOOSE x \in Free : \A y \in Free : x <= y
    IN /\ Free # {} /\ Len(born[d]) < MaxDepth
       /\ kind' = [kind EXCEPT ![i] = k]
       /\ entry' = [entry EXCEPT ![d][s] = i]
       /\ born' = [born EXCEPT ![i] = Append(born[d], s)]
       /\ moved' = IF d \in moved THEN moved \cup {i} ELSE moved
       /\ UNCHANGED create

\* Directory d was removed: nothing can be created there.
Linked(d) == d = Root \/ \E p \in Inodes, s \in Names : entry[p][s] = d

\* What openat with O_DIRECTORY and O_NOFOLLOW finds behind entry s of d.
LookupFollowing(d, s) ==
    LET i == entry[d][s]
    IN IF i = Absent THEN "missing"
       ELSE IF kind[i] = "file" THEN "not a directory" ELSE "dir"
Lookup(d, s) ==
    LET i == entry[d][s]
    IN IF i = Absent THEN "missing"
       ELSE IF kind[i] = "dir" THEN "dir" ELSE "not a directory"
Reached(d, s) ==
    IF kind[entry[d][s]] = "link" THEN Outside ELSE entry[d][s]

Segment(w) == walk[w].path[walk[w].n + 1]
Set(w, record) == walk' = [walk EXCEPT ![w] = record]

\* closeDirectoryWalkFDs(dirFD, currentFD) and the error that is returned.
Close(fds, f) == [fds EXCEPT ![f] = @ - 1]
CloseWalkTwice(fds, current) == Close(Close(fds, current), 0)
CloseWalk(fds, current) ==
    Close(IF current # 0 THEN Close(fds, current) ELSE fds, 0)
Fail(w, answer) ==
    Set(w, [walk[w] EXCEPT !.step = answer, !.fds = CloseWalk(@, walk[w].n)])

\* The next descriptor replaces the current one; dirFD stays open until the end.
Descend(w, i) ==
    LET done == walk[w].n + 1
        opened == [walk[w].fds EXCEPT ![done] = @ + 1]
        kept == IF walk[w].n # 0 THEN Close(opened, walk[w].n) ELSE opened
        last == done = Len(walk[w].path)
    IN Set(w, [walk[w] EXCEPT
                  !.n = done, !.at = i,
                  !.fds = IF last THEN Close(kept, 0) ELSE kept,
                  !.step = IF last THEN "ok" ELSE "open"])

\* The walk begins; an empty sub-path is the staged mount itself.
BeginWalk(w, path) ==
    /\ walk[w].step = "idle"
    /\ Set(w, [NoWalk EXCEPT !.path = path, !.fds = OpenAre({0}),
                             !.step = IF path = <<>> THEN "ok" ELSE "open"])
    /\ UNCHANGED share

\* openat.  Only a missing entry is created, and only if that is configured.
OpenSegment(w) ==
    LET d == walk[w].at
        found == Lookup(d, Segment(w))
    IN /\ walk[w].step = "open"
       /\ \/ found = "dir" /\ Descend(w, Reached(d, Segment(w)))
          \/ /\ found = "missing" /\ create
             /\ Set(w, [walk[w] EXCEPT !.step = "mkdir"])
          \/ found = "missing" /\ ~create /\ Fail(w, "bad")
          \/ found = "not a directory" /\ Fail(w, "bad")
          \/ "fail" \in Changes /\ Fail(w, "error")
       /\ UNCHANGED share

\* mkdirat.  Somebody else may have created the entry, or removed the parent.
AfterExistsFails == "error"
AfterExists == "reopen"
MakeSegment(w) ==
    LET d == walk[w].at
        goto(step) == Set(w, [walk[w] EXCEPT !.step = step])
    IN /\ walk[w].step = "mkdir"
       /\ \/ /\ entry[d][Segment(w)] = Absent /\ Linked(d)
             /\ Create(d, Segment(w), "dir") /\ goto("reopen")
          \/ /\ entry[d][Segment(w)] # Absent
             /\ IF AfterExists = "reopen" THEN goto("reopen")
                ELSE Fail(w, AfterExists)
             /\ UNCHANGED share
          \/ /\ \/ entry[d][Segment(w)] = Absent /\ (~Linked(d) \/ Free = {})
                \/ "fail" \in Changes
             /\ Fail(w, "error")
             /\ UNCHANGED share

\* The second openat.  A missing entry is nobody's bad request here.
ReopenSegment(w) ==
    LET d == walk[w].at
        found == Lookup(d, Segment(w))
    IN /\ walk[w].step = "reopen"
       /\ \/ found = "dir" /\ Descend(w, Reached(d, Segment(w)))
          \/ found = "missing" /\ Fail(w, "error")
          \/ found = "not a directory" /\ Fail(w, "bad")
          \/ "fail" \in Changes /\ Fail(w, "error")
       /\ UNCHANGED share

\* The caller uses the directory, closes it and is gone.
End(w) ==
    /\ walk[w].step \in {"ok", "bad", "error"}
    /\ Set(w, NoWalk)
    /\ UNCHANGED share

-----------------------------------------------------------------------------
(* Other clients of the share.                                             *)

OtherCreates(d, s, k) ==
    /\ k \in Changes \cap {"dir", "file", "link"}
    /\ kind[d] = "dir" /\ Linked(d) /\ entry[d][s] = Absent
    /\ Create(d, s, k)
    /\ UNCHANGED walk

\* unlink, and rmdir of an empty directory.
OtherRemoves(d, s) ==
    /\ "remove" \in Changes
    /\ kind[d] = "dir" /\ entry[d][s] # Absent
    /\ \A t \in Names : entry[entry[d][s]][t] = Absent
    /\ entry' = [entry EXCEPT ![d][s] = Absent]
    /\ UNCHANGED <<kind, born, moved, create, walk>>

\* rename, with all that is below; not of a directory into itself, nor onto an
\* entry that is there.
Subtree(i) ==
    {j \in Inodes : \A S \in SUBSET Inodes :
        i \in S /\ (\A p \in S, s \in Names : entry[p][s] \in S \cup {Absent})
        => j \in S}
OtherRenames(d, s, e, t) ==
    LET i == entry[d][s]
    IN /\ "rename" \in Changes
       /\ kind[d] = "dir" /\ i # Absent
       /\ kind[e] = "dir" /\ Linked(e) /\ entry[e][t] = Absent
       /\ e \notin Subtree(i)
       /\ entry' = [[entry EXCEPT ![d][s] = Absent] EXCEPT ![e][t] = i]
       /\ moved' = moved \cup Subtree(i)
       /\ UNCHANGED <<kind, born, create, walk>>

-----------------------------------------------------------------------------

WalkInit ==
    /\ kind = [i \in Inodes |-> IF i = Root THEN "dir" ELSE "free"]
    /\ entry = [i \in Inodes |-> [s \in Names |-> Absent]]
    /\ born = [i \in Inodes |-> <<>>]
    /\ moved = {}
    /\ create \in CreateMissing
    /\ walk = [w \in Walkers |-> NoWalk]

WalkNext ==
    \/ \E w \in Walkers :
          \/ \E path \in Paths : BeginWalk(w, path)
          \/ OpenSegment(w) \/ MakeSegment(w) \/ ReopenSegment(w) \/ End(w)
    \/ \E d \in Inodes, s \in Names :
          \/ \E k \in {"dir", "file", "link"} : OtherCreates(d, s, k)
          \/ OtherRemoves(d, s)
          \/ \E e \in Inodes, t \in Names : OtherRenames(d, s, e, t)

WalkSpec == WalkInit /\ [][WalkNext]_walkVars

-----------------------------------------------------------------------------

\* Whatever others create, remove or put there, the walk stays on the requested
\* path inside the share, never where a symbolic link points to: the directory
\* it stands on was created under the segments done so far.  Only of a directory
\* that somebody renamed, or one above it, that is not so; the walk goes on in
\* it, wherever it is now.
StaysOnPath ==
    \A w \in Walkers :
        /\ walk[w].at # Outside
        /\ walk[w].at \notin moved
           => born[walk[w].at] = SubSeq(walk[w].path, 1, walk[w].n)

\* A walk opens every descriptor once and closes it at most once: while it goes
\* on it has the staged mount and the directory it stands on open, at its end it
\* hands over exactly the latter, and after a failure none is left; the cases
\* dirFD = currentFD and dirFD # currentFD, and a failure in any segment, make
\* the difference.
DescriptorsBalanced ==
    \A w \in Walkers :
        walk[w].fds = CASE walk[w].step = "ok" -> OpenAre({walk[w].n})
                        [] walk[w].step \in {"idle", "bad", "error"} -> OpenAre({})
                        [] OTHER -> OpenAre({0, walk[w].n})

\* Walks that race to create the same directories do not fail each other: with
\* nobody who removes or obstructs, each of them succeeds, and two walks with
\* the same sub-path reach the same directory.
CreatorsAgree ==
    \A v, w \in Walkers :
        /\ walk[w].step \notin {"bad", "error"}
        /\ /\ walk[v].step = "ok" /\ walk[w].step = "ok"
           /\ walk[v].path = walk[w].path
           => walk[v].at = walk[w].at

=============================================================================
