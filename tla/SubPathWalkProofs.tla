-------------------------- MODULE SubPathWalkProofs --------------------------
(***************************************************************************)
(* Proofs about SubPathWalk: for any number of walks, names, segments and  *)
(* inodes, and whatever other clients do to the share, a walk stays inside *)
(* it and, but for what is renamed, on the requested path; all its         *)
(* descriptors are accounted for; and walks that only race with creators   *)
(* of directories all arrive at the same one.                              *)
(***************************************************************************)
EXTENDS SubPathWalk, FiniteSets, TLAPS, SequenceTheorems, WellFoundedInduction,
        FiniteSetTheorems

\* What exists has the name under which it was created, unless it is or was
\* below something renamed, and only directories have entries.
TreeExact ==
    /\ kind \in [Inodes -> {"free", "dir", "file", "link"}]
    /\ entry \in [Inodes -> [Names -> Inodes \cup {Absent}]]
    /\ born \in [Inodes -> Paths]
    /\ moved \in SUBSET Inodes
    /\ kind[Root] = "dir" /\ born[Root] = <<>>
    /\ \A d \in Inodes, s \in Names :
          entry[d][s] # Absent =>
              /\ kind[d] = "dir" /\ kind[entry[d][s]] # "free"
              /\ entry[d][s] \notin moved
                 => d \notin moved /\ born[entry[d][s]] = Append(born[d], s)

\* The descriptors that a walk has open: none, that of segment n, and dirFD too.
FdTables == [0..MaxDepth -> Int]
NoneOpen == OpenAre({})
OneOpen(n) == OpenAre({n})
BothOpen(n) == OpenAre({0, n})
Opened(fds, f) == [fds EXCEPT ![f] = @ + 1]

\* A walk stands on a directory that was created under the segments done, and
\* has open what its step needs.
WalkExact(w) ==
    LET k == walk[w]
    IN /\ k \in Walks
       /\ k.n <= Len(k.path)
       /\ k.at \in Inodes /\ kind[k.at] = "dir"
       /\ k.at \notin moved => born[k.at] = SubSeq(k.path, 1, k.n)
       /\ k.step \in {"open", "mkdir", "reopen"}
          => k.n < Len(k.path) /\ k.fds = BothOpen(k.n)
       /\ k.step = "ok" => k.n = Len(k.path) /\ k.fds = OneOpen(k.n)
       /\ k.step \in {"idle", "bad", "error"} => k.fds = NoneOpen

Inv ==
    /\ TreeExact /\ create \in BOOLEAN
    /\ walk \in [Walkers -> Walks] /\ \A w \in Walkers : WalkExact(w)

-----------------------------------------------------------------------------
(* Paths and inodes.                                                       *)

LEMMA PathsAreSequences ==
    ASSUME WalkAssumption
    PROVE  \A p : p \in Paths <=> p \in Seq(Names) /\ Len(p) <= MaxDepth
  <1>1. ASSUME NEW p \in Paths
        PROVE  p \in Seq(Names) /\ Len(p) <= MaxDepth
    <2>1. PICK n \in 0..MaxDepth : p \in [1..n -> Names]
      BY DEF Paths
    <2>2. n \in Nat /\ n <= MaxDepth
      BY DEF WalkAssumption
    <2>3. p \in Seq(Names)
      BY <2>1, <2>2
    <2>4. Len(p) = n
      BY <2>1, <2>2, <2>3
    <2> QED  BY <2>2, <2>3, <2>4
  <1>2. ASSUME NEW p \in Seq(Names), Len(p) <= MaxDepth
        PROVE  p \in Paths
    <2>1. Len(p) \in 0..MaxDepth /\ p \in [1..Len(p) -> Names]
      BY <1>2, LenProperties DEF WalkAssumption
    <2> QED  BY <2>1 DEF Paths
  <1> QED  BY <1>1, <1>2

LEMMA RootType ==
    ASSUME WalkAssumption
    PROVE  Root \in Inodes /\ Outside \notin Inodes /\ Absent \notin Inodes
           /\ <<>> \in Paths
  <1>1. Root \in Inodes /\ Outside \notin Inodes /\ Absent \notin Inodes
    BY DEF WalkAssumption, Root, Inodes, Outside, Absent
  <1>2. <<>> \in Seq(Names) /\ Len(<<>>) = 0
    OBVIOUS
  <1>3. <<>> \in Paths
    <2>1. Len(<<>>) <= MaxDepth
      BY DEF WalkAssumption
    <2> QED  BY <1>2, <2>1, PathsAreSequences
  <1> QED  BY <1>1, <1>3

\* One more segment.
LEMMA NextPrefix ==
    ASSUME NEW p \in Seq(Names), NEW n \in Nat, n < Len(p)
    PROVE  /\ SubSeq(p, 1, n + 1) = Append(SubSeq(p, 1, n), p[n + 1])
           /\ p[n + 1] \in Names
           /\ SubSeq(p, 1, n) \in Seq(Names) /\ Len(SubSeq(p, 1, n)) = n
  <1>1. SubSeq(p, 1, n) \in Seq(Names) /\ Len(SubSeq(p, 1, n)) = n
    <2>1. \A i \in 1..n : p[i] \in Names
      BY LenProperties
    <2> QED  BY <2>1, SubSeqProperties
  <1>2. p[n + 1] \in Names
    BY LenProperties
  <1>3. SubSeq(p, 1, n + 1) = SubSeq(p, 1, n) \o <<p[n + 1]>>
    <2>1. n + 1 \in 1..Len(p) /\ 1 \in 1..Len(p) /\ (n + 1) - 1 = n
      BY LenProperties
    <2> QED  BY <2>1, SubSeqRecursiveSecond
  <1>4. SubSeq(p, 1, n) \o <<p[n + 1]>> = Append(SubSeq(p, 1, n), p[n + 1])
    BY <1>1, <1>2, AppendIsConcat
  <1> QED  BY <1>1, <1>2, <1>3, <1>4

LEMMA SameAppend ==
    \A p, q \in Seq(Names), s, t \in Names :
        Append(p, s) = Append(q, t) => p = q /\ s = t
  BY AppendInjective

\* The locals of a walk.
Steps == {"idle", "open", "mkdir", "reopen", "ok", "bad", "error"}

LEMMA WalkFields ==
    ASSUME NEW k \in Walks
    PROVE  /\ k.path \in Paths /\ k.n \in 0..MaxDepth
           /\ k.at \in Inodes \cup {Outside} /\ k.fds \in FdTables /\ k.step \in Steps
  BY DEF Walks, FdTables, Steps

\* Opening and closing one descriptor.
LEMMA OpenTables ==
    /\ NoneOpen \in FdTables
    /\ \A n \in 0..MaxDepth : OneOpen(n) \in FdTables /\ BothOpen(n) \in FdTables
  BY DEF NoneOpen, OneOpen, BothOpen, OpenAre, FdTables

LEMMA OpenValues ==
    ASSUME NEW f \in 0..MaxDepth, NEW n \in 0..MaxDepth
    PROVE  /\ NoneOpen[f] = 0
           /\ OneOpen(n)[f] = IF f = n THEN 1 ELSE 0
           /\ BothOpen(n)[f] = IF f = 0 \/ f = n THEN 1 ELSE 0
  BY DEF NoneOpen, OneOpen, BothOpen, OpenAre

LEMMA ChangeOne ==
    ASSUME NEW fds \in FdTables, NEW f \in 0..MaxDepth
    PROVE  /\ Close(fds, f) \in FdTables /\ Opened(fds, f) \in FdTables
           /\ Close(fds, f)[f] = fds[f] - 1 /\ Opened(fds, f)[f] = fds[f] + 1
           /\ \A g \in 0..MaxDepth : g # f =>
                 Close(fds, f)[g] = fds[g] /\ Opened(fds, f)[g] = fds[g]
  BY DEF Close, Opened, FdTables

LEMMA SameTable ==
    ASSUME NEW a \in FdTables, NEW b \in FdTables, \A f \in 0..MaxDepth : a[f] = b[f]
    PROVE  a = b
  <1>1. a = [f \in 0..MaxDepth |-> a[f]] /\ b = [f \in 0..MaxDepth |-> b[f]]
    BY DEF FdTables
  <1> QED  BY <1>1, Zenon

\* closeDirectoryWalkFDs leaves nothing open, whether both are the same or not.
LEMMA CloseBoth ==
    ASSUME WalkAssumption, NEW n \in 0..MaxDepth
    PROVE  CloseWalk(BothOpen(n), n) = NoneOpen
  <1>1. 0 \in 0..MaxDepth
    BY DEF WalkAssumption
  <1> DEFINE first == IF n # 0 THEN Close(BothOpen(n), n) ELSE BothOpen(n)
  <1>2. /\ first \in FdTables
        /\ \A f \in 0..MaxDepth : first[f] = IF f = 0 THEN 1 ELSE 0
    <2>1. BothOpen(n) \in FdTables
      BY OpenTables
    <2>2. CASE n = 0
      BY <2>1, <2>2, OpenValues
    <2>3. CASE n # 0
      <3>1. first \in FdTables
        BY <2>1, <2>3, ChangeOne
      <3>2. ASSUME NEW f \in 0..MaxDepth
            PROVE  first[f] = IF f = 0 THEN 1 ELSE 0
        <4>1. BothOpen(n)[f] = IF f = 0 \/ f = n THEN 1 ELSE 0
          BY OpenValues
        <4>2. /\ Close(BothOpen(n), n)[n] = BothOpen(n)[n] - 1
              /\ f # n => Close(BothOpen(n), n)[f] = BothOpen(n)[f]
          BY <2>1, ChangeOne
        <4> QED  BY <2>3, <4>1, <4>2
      <3> QED  BY <3>1, <3>2
    <2> QED  BY <2>2, <2>3
  <1> HIDE DEF first
  <1>3. /\ Close(first, 0) \in FdTables
        /\ \A f \in 0..MaxDepth : Close(first, 0)[f] = 0
    <2>1. Close(first, 0) \in FdTables
      BY <1>1, <1>2, ChangeOne
    <2>2. ASSUME NEW f \in 0..MaxDepth
          PROVE  Close(first, 0)[f] = 0
      <3>1. CASE f = 0
        BY <1>1, <1>2, <3>1, ChangeOne
      <3>2. CASE f # 0
        BY <1>1, <1>2, <3>2, ChangeOne
      <3> QED  BY <3>1, <3>2
    <2> QED  BY <2>1, <2>2
  <1>4. Close(first, 0) = NoneOpen
    BY <1>3, OpenTables, OpenValues, SameTable
  <1> QED  BY <1>4 DEF CloseWalk, first

\* The next descriptor takes the place of the current one.
LEMMA HandOver ==
    ASSUME WalkAssumption, NEW n \in 0..MaxDepth, n + 1 \in 0..MaxDepth
    PROVE  LET opened == [BothOpen(n) EXCEPT ![n + 1] = @ + 1]
               kept == IF n # 0 THEN Close(opened, n) ELSE opened
           IN kept = BothOpen(n + 1) /\ Close(kept, 0) = OneOpen(n + 1)
  <1> DEFINE m == n + 1
             opened == Opened(BothOpen(n), m)
             kept == IF n # 0 THEN Close(opened, n) ELSE opened
  <1>1. 0 \in 0..MaxDepth /\ m \in 0..MaxDepth /\ m # 0 /\ m # n
    BY DEF WalkAssumption
  <1> HIDE DEF m
  <1>2. /\ opened \in FdTables
        /\ \A f \in 0..MaxDepth : opened[f] = IF f = 0 \/ f = n \/ f = m THEN 1 ELSE 0
    <2>1. BothOpen(n) \in FdTables
      BY OpenTables
    <2>2. opened \in FdTables
      BY <1>1, <2>1, ChangeOne
    <2>3. ASSUME NEW f \in 0..MaxDepth
          PROVE  opened[f] = IF f = 0 \/ f = n \/ f = m THEN 1 ELSE 0
      <3>1. BothOpen(n)[f] = IF f = 0 \/ f = n THEN 1 ELSE 0
        BY OpenValues
      <3>2. /\ opened[m] = BothOpen(n)[m] + 1
            /\ f # m => opened[f] = BothOpen(n)[f]
        BY <1>1, <2>1, ChangeOne
      <3> HIDE DEF opened
      <3> QED  BY <1>1, <3>1, <3>2
    <2> QED  BY <2>2, <2>3
  <1> HIDE DEF opened
  <1>3. /\ kept \in FdTables
        /\ \A f \in 0..MaxDepth : kept[f] = IF f = 0 \/ f = m THEN 1 ELSE 0
    <2>1. CASE n = 0
      BY <1>2, <2>1
    <2>2. CASE n # 0
      <3>1. kept \in FdTables
        BY <1>2, <2>2, ChangeOne
      <3>2. ASSUME NEW f \in 0..MaxDepth
            PROVE  kept[f] = IF f = 0 \/ f = m THEN 1 ELSE 0
        <4>1. /\ Close(opened, n)[n] = opened[n] - 1
              /\ f # n => Close(opened, n)[f] = opened[f]
          BY <1>2, ChangeOne
        <4> QED  BY <1>1, <1>2, <2>2, <4>1
      <3> QED  BY <3>1, <3>2
    <2> QED  BY <2>1, <2>2
  <1> HIDE DEF kept
  <1>4. kept = BothOpen(m)
    BY <1>1, <1>3, OpenTables, OpenValues, SameTable
  <1>5. /\ Close(kept, 0) \in FdTables
        /\ \A f \in 0..MaxDepth : Close(kept, 0)[f] = IF f = m THEN 1 ELSE 0
    <2>1. Close(kept, 0) \in FdTables
      BY <1>1, <1>3, ChangeOne
    <2>2. ASSUME NEW f \in 0..MaxDepth
          PROVE  Close(kept, 0)[f] = IF f = m THEN 1 ELSE 0
      <3>1. /\ Close(kept, 0)[0] = kept[0] - 1
            /\ f # 0 => Close(kept, 0)[f] = kept[f]
        BY <1>1, <1>3, ChangeOne
      <3> QED  BY <1>1, <1>3, <3>1
    <2> QED  BY <2>1, <2>2
  <1>6. Close(kept, 0) = OneOpen(m)
    BY <1>1, <1>5, OpenTables, OpenValues, SameTable
  <1> QED  BY <1>4, <1>6 DEF kept, opened, m, Opened

\* The staged mount is the directory of an empty walk.
LEMMA OneIsBoth == BothOpen(0) = OneOpen(0)
  <1>1. {0, 0} = {0}
    OBVIOUS
  <1> QED  BY <1>1 DEF BothOpen, OneOpen

\* The number that Create chooses is that of a free inode.
NewInode == CHOOSE x \in Free : \A y \in Free : x <= y

LEMMA NewInodeFree ==
    ASSUME WalkAssumption, TreeExact, Free # {}
    PROVE  NewInode \in Inodes /\ kind[NewInode] = "free" /\ NewInode # Root
  <1>1. Free \subseteq Nat
    BY DEF Free, Inodes
  <1>2. PICK x \in Free : \A y \in Free : ~(<<y, x>> \in OpToRel(<, Nat))
    BY <1>1, NatLessThanWellFounded, WFMin
  <1>3. \A y \in Free : x <= y
    <2> SUFFICES ASSUME NEW y \in Free PROVE x <= y
      OBVIOUS
    <2>1. x \in Nat /\ y \in Nat
      BY <1>1
    <2>2. ~(y < x)
      BY <1>2, <2>1 DEF OpToRel
    <2> QED  BY <2>1, <2>2
  <1>4. NewInode \in Free
    BY <1>3 DEF NewInode
  <1> QED  BY <1>4 DEF Free, TreeExact

-----------------------------------------------------------------------------
(* Changes of the tree.                                                    *)

\* Nothing that exists changes what it is or where it was created, and that
\* something was renamed is not forgotten.
TreeGrows ==
    /\ \A i \in Inodes : kind[i] # "free" => kind'[i] = kind[i] /\ born'[i] = born[i]
    /\ moved \subseteq moved'

LEMMA CreateTree ==
    ASSUME WalkAssumption, TreeExact, NEW d \in Inodes, NEW s \in Names,
           NEW k \in {"dir", "file", "link"}, kind[d] = "dir", entry[d][s] = Absent,
           Create(d, s, k)
    PROVE  /\ TreeExact' /\ TreeGrows /\ UNCHANGED create
           /\ entry'[d][s] = NewInode
  <1> DEFINE i == NewInode
             p == Append(born[d], s)
  <1>1. /\ Free # {} /\ Len(born[d]) < MaxDepth
        /\ kind' = [kind EXCEPT ![i] = k]
        /\ entry' = [entry EXCEPT ![d][s] = i]
        /\ born' = [born EXCEPT ![i] = p]
        /\ moved' = IF d \in moved THEN moved \cup {i} ELSE moved
        /\ UNCHANGED create
    BY DEF Create, NewInode
  <1>2. i \in Inodes /\ kind[i] = "free" /\ i # Root /\ i # Absent
    BY <1>1, NewInodeFree, RootType
  <1>3. p \in Paths
    <2>1. born[d] \in Seq(Names)
      BY PathsAreSequences DEF TreeExact
    <2>2. p \in Seq(Names) /\ Len(p) = Len(born[d]) + 1
      BY <2>1, AppendProperties
    <2>3. Len(born[d]) \in Nat /\ MaxDepth \in Nat
      BY <2>1, LenProperties DEF WalkAssumption
    <2>4. Len(p) <= MaxDepth
      BY <1>1, <2>2, <2>3
    <2> QED  BY <2>2, <2>4, PathsAreSequences
  <1> HIDE DEF i, p
  <1>4. /\ kind'[i] = k /\ born'[i] = p
        /\ \A x \in Inodes : x # i => kind'[x] = kind[x] /\ born'[x] = born[x]
    BY <1>1, <1>2 DEF TreeExact
  <1>5. /\ entry' \in [Inodes -> [Names -> Inodes \cup {Absent}]]
        /\ entry'[d][s] = i
        /\ \A x \in Inodes, y \in Names : x # d \/ y # s => entry'[x][y] = entry[x][y]
    BY <1>1, <1>2 DEF TreeExact
  <1>6. /\ kind' \in [Inodes -> {"free", "dir", "file", "link"}]
        /\ born' \in [Inodes -> Paths]
    BY <1>1, <1>3 DEF TreeExact
  <1>7. kind'[Root] = "dir" /\ born'[Root] = <<>>
    BY <1>2, <1>4, RootType DEF TreeExact
  <1>8. TreeGrows
    BY <1>1, <1>2, <1>4 DEF TreeGrows
  <1>9. ASSUME NEW x \in Inodes, NEW y \in Names, entry'[x][y] # Absent
        PROVE  /\ kind'[x] = "dir" /\ kind'[entry'[x][y]] # "free"
               /\ entry'[x][y] \notin moved'
                  => x \notin moved' /\ born'[entry'[x][y]] = Append(born'[x], y)
    <2>1. CASE x = d /\ y = s
      <3>1. d # i
        BY <1>2
      <3> QED  BY <2>1, <3>1, <1>1, <1>4, <1>5 DEF p
    <2>2. CASE x # d \/ y # s
      <3>1. entry'[x][y] = entry[x][y] /\ entry[x][y] \in Inodes
        BY <2>2, <1>5, <1>9 DEF TreeExact
      <3>2. /\ kind[x] = "dir" /\ kind[entry[x][y]] # "free"
            /\ entry[x][y] \notin moved
               => x \notin moved /\ born[entry[x][y]] = Append(born[x], y)
        BY <3>1, <1>9 DEF TreeExact
      <3>3. x # i /\ entry[x][y] # i
        BY <3>2, <1>2
      <3> QED  BY <3>1, <3>2, <3>3, <1>1, <1>4
    <2> QED  BY <2>1, <2>2
  <1>11. moved' \in SUBSET Inodes
    BY <1>1, <1>2 DEF TreeExact
  <1>10. TreeExact'
    BY <1>5, <1>6, <1>7, <1>9, <1>11 DEF TreeExact
  <1> QED  BY <1>1, <1>5, <1>8, <1>10 DEF i

LEMMA RemoveTree ==
    ASSUME WalkAssumption, TreeExact, NEW d \in Inodes, NEW s \in Names,
           OtherRemoves(d, s)
    PROVE  TreeExact' /\ TreeGrows /\ UNCHANGED create
  <1>1. /\ entry' = [entry EXCEPT ![d][s] = Absent]
        /\ UNCHANGED <<kind, born, moved, create>>
    BY DEF OtherRemoves
  <1>2. /\ entry' \in [Inodes -> [Names -> Inodes \cup {Absent}]]
        /\ \A x \in Inodes, y \in Names : entry'[x][y] # Absent => entry'[x][y] = entry[x][y]
    BY <1>1 DEF TreeExact
  <1>3. TreeExact'
    BY <1>1, <1>2 DEF TreeExact
  <1> QED  BY <1>1, <1>3 DEF TreeGrows

\* What is below something renamed keeps being known as that.
LEMMA RenameTree ==
    ASSUME WalkAssumption, TreeExact, NEW d \in Inodes, NEW s \in Names,
           NEW e \in Inodes, NEW t \in Names, OtherRenames(d, s, e, t)
    PROVE  TreeExact' /\ TreeGrows /\ UNCHANGED create
  <1> DEFINE i == entry[d][s]
  <1>1. /\ i # Absent /\ kind[e] = "dir"
        /\ entry' = [[entry EXCEPT ![d][s] = Absent] EXCEPT ![e][t] = i]
        /\ moved' = moved \cup Subtree(i) /\ UNCHANGED <<kind, born, create>>
    BY DEF OtherRenames
  <1>2. i \in Inodes /\ kind[i] # "free"
    BY <1>1 DEF TreeExact
  <1> HIDE DEF i
  <1>3. i \in Subtree(i) /\ Subtree(i) \subseteq Inodes
    BY <1>2 DEF Subtree
  <1>4. ASSUME NEW x \in Inodes, NEW y \in Names, entry[x][y] # Absent,
               x \in Subtree(i)
        PROVE  entry[x][y] \in Subtree(i)
    <2>1. entry[x][y] \in Inodes
      BY <1>4 DEF TreeExact
    <2> QED  BY <1>4, <2>1 DEF Subtree
  <1>5. /\ entry' \in [Inodes -> [Names -> Inodes \cup {Absent}]]
        /\ entry'[e][t] = i
        /\ \A x \in Inodes, y \in Names :
              x # e \/ y # t => entry'[x][y] \in {entry[x][y], Absent}
    BY <1>1, <1>2 DEF TreeExact
  <1>6. ASSUME NEW x \in Inodes, NEW y \in Names, entry'[x][y] # Absent
        PROVE  /\ kind'[x] = "dir" /\ kind'[entry'[x][y]] # "free"
               /\ entry'[x][y] \notin moved'
                  => x \notin moved' /\ born'[entry'[x][y]] = Append(born'[x], y)
    <2>1. CASE x = e /\ y = t
      BY <2>1, <1>1, <1>2, <1>3, <1>5
    <2>2. CASE x # e \/ y # t
      <3>1. entry'[x][y] = entry[x][y] /\ entry[x][y] # Absent
        BY <2>2, <1>5, <1>6
      <3>2. /\ kind[x] = "dir" /\ kind[entry[x][y]] # "free"
            /\ entry[x][y] \notin moved
               => x \notin moved /\ born[entry[x][y]] = Append(born[x], y)
        BY <3>1 DEF TreeExact
      <3> QED  BY <3>1, <3>2, <1>1, <1>4
    <2> QED  BY <2>1, <2>2
  <1>7. moved' \in SUBSET Inodes /\ moved \subseteq moved'
    BY <1>1, <1>3 DEF TreeExact
  <1>8. TreeExact'
    BY <1>1, <1>5, <1>6, <1>7 DEF TreeExact
  <1> QED  BY <1>1, <1>7, <1>8 DEF TreeGrows

LEMMA SameTree ==
    ASSUME TreeExact, UNCHANGED share
    PROVE  TreeExact' /\ TreeGrows /\ UNCHANGED create
  BY DEF share, TreeExact, TreeGrows

-----------------------------------------------------------------------------
(* Steps of a walk.                                                        *)

\* Whatever happens to the tree, the place of a walk that does not move keeps
\* its path.
LEMMA StandsStill ==
    ASSUME Inv, TreeGrows, NEW w \in Walkers, walk'[w] = walk[w]
    PROVE  WalkExact(w)'
  <1>1. WalkExact(w)
    BY DEF Inv
  <1>2. kind'[walk[w].at] = kind[walk[w].at] /\ born'[walk[w].at] = born[walk[w].at]
    BY <1>1 DEF WalkExact, TreeGrows
  <1>3. walk[w].at \notin moved' => walk[w].at \notin moved
    BY DEF TreeGrows
  <1> QED  BY <1>1, <1>2, <1>3 DEF WalkExact

\* One walk moves and the tree may grow.
LEMMA OneMoves ==
    ASSUME Inv, NEW w \in Walkers, NEW k \in Walks, Set(w, k),
           TreeExact', TreeGrows, UNCHANGED create, WalkExact(w)'
    PROVE  Inv'
  <1>1. walk' = [walk EXCEPT ![w] = k]
    BY DEF Set
  <1>2. walk' \in [Walkers -> Walks]
    BY <1>1 DEF Inv
  <1>3. ASSUME NEW v \in Walkers
        PROVE  WalkExact(v)'
    <2>1. CASE v = w
      BY <2>1
    <2>2. CASE v # w
      <3>1. walk'[v] = walk[v]
        BY <1>1, <2>2 DEF Inv
      <3> QED  BY <3>1, StandsStill
    <2> QED  BY <2>1, <2>2
  <1>4. create' \in BOOLEAN
    BY DEF Inv
  <1> QED  BY <1>2, <1>3, <1>4 DEF Inv

LEMMA OthersInv ==
    ASSUME Inv, TreeExact', TreeGrows, UNCHANGED <<create, walk>>
    PROVE  Inv'
  <1>1. \A w \in Walkers : WalkExact(w)'
    BY StandsStill
  <1> QED  BY <1>1 DEF Inv

\* The walk gives up: both descriptors are closed.
LEMMA FailInv ==
    ASSUME WalkAssumption, Inv, NEW w \in Walkers,
           walk[w].step \in {"open", "mkdir", "reopen"}, NEW answer \in {"bad", "error"},
           Fail(w, answer), UNCHANGED share
    PROVE  Inv'
  <1> DEFINE k == [walk[w] EXCEPT !.step = answer,
                                  !.fds = CloseWalk(@, walk[w].n)]
  <1>1. WalkExact(w) /\ walk[w] \in Walks
    BY DEF Inv, WalkExact
  <1>2. walk[w].fds = BothOpen(walk[w].n) /\ walk[w].n \in 0..MaxDepth
    BY <1>1, WalkFields DEF WalkExact
  <1>3. CloseWalk(walk[w].fds, walk[w].n) = NoneOpen
    BY <1>2, CloseBoth
  <1>4. /\ k \in Walks /\ k.path = walk[w].path /\ k.n = walk[w].n
        /\ k.at = walk[w].at /\ k.step = answer /\ k.fds = NoneOpen
    <2>1. CloseWalk(walk[w].fds, walk[w].n) \in FdTables
      BY <1>3, OpenTables
    <2> QED  BY <1>1, <1>3, <2>1 DEF Walks, FdTables
  <1>5. Set(w, k)
    BY DEF Fail
  <1>6. walk'[w] = k
    BY <1>5 DEF Set, Inv
  <1> HIDE DEF k
  <1>7. TreeExact' /\ TreeGrows /\ UNCHANGED <<kind, born, moved, create>>
    BY SameTree DEF Inv, share
  <1>8. WalkExact(w)'
    BY <1>1, <1>4, <1>6, <1>7 DEF WalkExact
  <1> QED  BY <1>4, <1>5, <1>7, <1>8, OneMoves

\* The walk goes on at the same place.
LEMMA WaitInv ==
    ASSUME Inv, NEW w \in Walkers, walk[w].step \in {"open", "mkdir", "reopen"},
           NEW step \in {"open", "mkdir", "reopen"},
           Set(w, [walk[w] EXCEPT !.step = step]),
           TreeExact', TreeGrows, UNCHANGED create
    PROVE  Inv'
  <1> DEFINE k == [walk[w] EXCEPT !.step = step]
  <1>1. WalkExact(w) /\ walk[w] \in Walks
    BY DEF Inv, WalkExact
  <1>2. /\ k \in Walks /\ k.path = walk[w].path /\ k.n = walk[w].n
        /\ k.at = walk[w].at /\ k.step = step /\ k.fds = walk[w].fds
    BY <1>1 DEF Walks
  <1>3. Set(w, k)
    OBVIOUS
  <1>4. walk'[w] = k
    BY <1>3 DEF Set, Inv
  <1> HIDE DEF k
  <1>5. kind'[walk[w].at] = kind[walk[w].at] /\ born'[walk[w].at] = born[walk[w].at]
    BY <1>1 DEF WalkExact, TreeGrows
  <1>6. walk[w].at \notin moved' => walk[w].at \notin moved
    BY DEF TreeGrows
  <1>7. WalkExact(w)'
    BY <1>1, <1>2, <1>4, <1>5, <1>6 DEF WalkExact
  <1> QED  BY <1>2, <1>3, <1>7, OneMoves

\* What openat with O_DIRECTORY and O_NOFOLLOW opens is the entry itself, a
\* directory, created under one segment more.
LEMMA OpensEntry ==
    ASSUME WalkAssumption, Inv, NEW w \in Walkers,
           walk[w].step \in {"open", "mkdir", "reopen"},
           Lookup(walk[w].at, Segment(w)) = "dir"
    PROVE  LET i == Reached(walk[w].at, Segment(w))
           IN /\ i \in Inodes /\ kind[i] = "dir"
              /\ i \notin moved
                 => born[i] = SubSeq(walk[w].path, 1, walk[w].n + 1)
  <1> DEFINE d == walk[w].at
             s == Segment(w)
             i == entry[d][s]
  <1>1. /\ walk[w].path \in Paths /\ walk[w].n \in Nat /\ d \in Inodes
        /\ walk[w].n < Len(walk[w].path)
        /\ d \notin moved => born[d] = SubSeq(walk[w].path, 1, walk[w].n)
    BY WalkFields DEF Inv, WalkExact
  <1>2. walk[w].path \in Seq(Names)
    BY <1>1, PathsAreSequences
  <1>3. /\ s \in Names
        /\ d \notin moved
           => SubSeq(walk[w].path, 1, walk[w].n + 1) = Append(born[d], s)
    BY <1>1, <1>2, NextPrefix DEF Segment
  <1> HIDE DEF d, s
  <1>4. i # Absent /\ kind[i] = "dir"
    BY DEF Lookup, d, s
  <1>5. Reached(d, s) = i
    BY <1>4 DEF Reached
  <1>6. /\ i \in Inodes
        /\ i \notin moved => d \notin moved /\ born[i] = Append(born[d], s)
    <2>1. entry \in [Inodes -> [Names -> Inodes \cup {Absent}]]
      BY DEF Inv, TreeExact
    <2>2. i \in Inodes
      BY <1>1, <1>3, <1>4, <2>1
    <2>3. i \notin moved => d \notin moved /\ born[i] = Append(born[d], s)
      BY <1>1, <1>3, <1>4 DEF Inv, TreeExact
    <2> QED  BY <2>2, <2>3
  <1> QED  BY <1>3, <1>4, <1>5, <1>6 DEF d, s

\* The walk moves on by a segment and hands one descriptor over to the next.
LEMMA DescendInv ==
    ASSUME WalkAssumption, Inv, NEW w \in Walkers,
           walk[w].step \in {"open", "reopen"},
           Lookup(walk[w].at, Segment(w)) = "dir",
           Descend(w, Reached(walk[w].at, Segment(w))), UNCHANGED share
    PROVE  Inv'
  <1> DEFINE i == Reached(walk[w].at, Segment(w))
             done == walk[w].n + 1
             opened == [walk[w].fds EXCEPT ![done] = @ + 1]
             kept == IF walk[w].n # 0 THEN Close(opened, walk[w].n) ELSE opened
             last == done = Len(walk[w].path)
             open == IF last THEN Close(kept, 0) ELSE kept
             k == [walk[w] EXCEPT !.n = done, !.at = i, !.fds = open,
                                  !.step = IF last THEN "ok" ELSE "open"]
  <1>1. /\ walk[w] \in Walks /\ walk[w].path \in Paths /\ walk[w].n \in Nat
        /\ walk[w].n < Len(walk[w].path) /\ walk[w].fds = BothOpen(walk[w].n)
    BY WalkFields DEF Inv, WalkExact
  <1>2. /\ i \in Inodes /\ kind[i] = "dir"
        /\ i \notin moved => born[i] = SubSeq(walk[w].path, 1, done)
    BY OpensEntry
  <1>3. Len(walk[w].path) \in Nat /\ Len(walk[w].path) <= MaxDepth
    BY <1>1, PathsAreSequences, LenProperties
  <1>4. /\ done \in 0..MaxDepth /\ done # 0 /\ done <= Len(walk[w].path)
        /\ ~last => done < Len(walk[w].path)
    BY <1>1, <1>3 DEF WalkAssumption
  <1>5. open = IF last THEN OneOpen(done) ELSE BothOpen(done)
    <2>1. walk[w].n \in 0..MaxDepth /\ walk[w].n + 1 \in 0..MaxDepth
      BY <1>1, <1>4, WalkFields
    <2>2. kept = BothOpen(done) /\ Close(kept, 0) = OneOpen(done)
      BY <1>1, <2>1, HandOver
    <2> QED  BY <2>2
  <1>6. open \in FdTables
    BY <1>4, <1>5, OpenTables
  <1> HIDE DEF i, done, open, last
  <1>7. /\ k \in Walks /\ k.path = walk[w].path /\ k.n = done /\ k.at = i
        /\ k.fds = open /\ k.step = IF last THEN "ok" ELSE "open"
    BY <1>1, <1>2, <1>4, <1>6 DEF Walks, FdTables
  <1>8. Set(w, k)
    BY DEF Descend, i, done, open, last
  <1>9. walk'[w] = k
    BY <1>8 DEF Set, Inv
  <1> HIDE DEF k
  <1>10. TreeExact' /\ TreeGrows /\ UNCHANGED <<kind, born, moved, create>>
    BY SameTree DEF Inv, share
  <1>11. WalkExact(w)'
    <2>1. last => done = Len(walk[w].path)
      BY DEF last
    <2> QED  BY <2>1, <1>2, <1>4, <1>5, <1>7, <1>9, <1>10 DEF WalkExact
  <1> QED  BY <1>7, <1>8, <1>10, <1>11, OneMoves

LEMMA OpenInv ==
    ASSUME WalkAssumption, Inv, NEW w \in Walkers, OpenSegment(w)
    PROVE  Inv'
  <1>1. walk[w].step = "open" /\ UNCHANGED share
    BY DEF OpenSegment
  <1>2. \/ /\ Lookup(walk[w].at, Segment(w)) = "dir"
           /\ Descend(w, Reached(walk[w].at, Segment(w)))
        \/ Set(w, [walk[w] EXCEPT !.step = "mkdir"])
        \/ Fail(w, "bad") \/ Fail(w, "error")
    BY DEF OpenSegment
  <1>3. TreeExact' /\ TreeGrows /\ UNCHANGED create
    BY <1>1, SameTree DEF Inv
  <1> QED  BY <1>1, <1>2, <1>3, DescendInv, WaitInv, FailInv

LEMMA ReopenInv ==
    ASSUME WalkAssumption, Inv, NEW w \in Walkers, ReopenSegment(w)
    PROVE  Inv'
  <1>1. walk[w].step = "reopen" /\ UNCHANGED share
    BY DEF ReopenSegment
  <1>2. \/ /\ Lookup(walk[w].at, Segment(w)) = "dir"
           /\ Descend(w, Reached(walk[w].at, Segment(w)))
        \/ Fail(w, "bad") \/ Fail(w, "error")
    BY DEF ReopenSegment
  <1> QED  BY <1>1, <1>2, DescendInv, FailInv

LEMMA MakeInv ==
    ASSUME WalkAssumption, Inv, NEW w \in Walkers, MakeSegment(w)
    PROVE  Inv'
  <1> DEFINE d == walk[w].at
             s == Segment(w)
  <1>1. /\ walk[w].step = "mkdir" /\ d \in Inodes /\ kind[d] = "dir"
        /\ walk[w].path \in Paths /\ walk[w].n \in Nat
        /\ walk[w].n < Len(walk[w].path)
    BY WalkFields DEF MakeSegment, Inv, WalkExact
  <1>2. s \in Names
    BY <1>1, PathsAreSequences, NextPrefix DEF Segment
  <1> HIDE DEF d, s
  <1>3. \/ /\ entry[d][s] = Absent /\ Create(d, s, "dir")
           /\ Set(w, [walk[w] EXCEPT !.step = "reopen"])
        \/ Set(w, [walk[w] EXCEPT !.step = "reopen"]) /\ UNCHANGED share
        \/ Fail(w, "error") /\ UNCHANGED share
    BY DEF MakeSegment, AfterExists, d, s
  <1>4. CASE /\ entry[d][s] = Absent /\ Create(d, s, "dir")
             /\ Set(w, [walk[w] EXCEPT !.step = "reopen"])
    <2>1. TreeExact' /\ TreeGrows /\ UNCHANGED create
      BY <1>1, <1>2, <1>4, CreateTree DEF Inv
    <2> QED  BY <1>1, <1>4, <2>1, WaitInv
  <1>5. CASE Set(w, [walk[w] EXCEPT !.step = "reopen"]) /\ UNCHANGED share
    <2>1. TreeExact' /\ TreeGrows /\ UNCHANGED create
      BY <1>5, SameTree DEF Inv
    <2> QED  BY <1>1, <1>5, <2>1, WaitInv
  <1>6. CASE Fail(w, "error") /\ UNCHANGED share
    BY <1>1, <1>6, FailInv
  <1> QED  BY <1>3, <1>4, <1>5, <1>6

LEMMA NoWalkFacts ==
    ASSUME WalkAssumption
    PROVE  /\ NoWalk \in Walks /\ NoWalk.path = <<>> /\ NoWalk.n = 0
           /\ NoWalk.at = Root /\ NoWalk.fds = NoneOpen /\ NoWalk.step = "idle"
           /\ SubSeq(NoWalk.path, 1, NoWalk.n) = <<>>
           /\ NoWalk.n <= Len(NoWalk.path)
  <1>1. SubSeq(<<>>, 1, 0) = <<>> /\ Len(<<>>) = 0
    BY SubSeqEmpty
  <1>2. /\ NoWalk \in Walks /\ NoWalk.path = <<>> /\ NoWalk.n = 0
        /\ NoWalk.at = Root /\ NoWalk.fds = NoneOpen /\ NoWalk.step = "idle"
    BY RootType, OpenTables DEF NoWalk, Walks, WalkAssumption, NoneOpen, FdTables
  <1>3. NoWalk.n <= Len(NoWalk.path)
    BY <1>1, <1>2
  <1> QED  BY <1>1, <1>2, <1>3

\* A walk that begins, and a walker that is gone.
LEMMA BeginInv ==
    ASSUME WalkAssumption, Inv, NEW w \in Walkers, NEW path \in Paths, BeginWalk(w, path)
    PROVE  Inv'
  <1> DEFINE k == [NoWalk EXCEPT !.path = path, !.fds = OpenAre({0}),
                                 !.step = IF path = <<>> THEN "ok" ELSE "open"]
  <1>1. path \in Seq(Names) /\ Len(path) \in Nat /\ (path # <<>> => 0 < Len(path))
        /\ (path = <<>> => Len(path) = 0) /\ SubSeq(path, 1, 0) = <<>>
    <2>1. path \in Seq(Names)
      BY PathsAreSequences
    <2> QED  BY <2>1, LenProperties, EmptySeq, SubSeqEmpty
  <1>2. /\ k \in Walks /\ k.path = path /\ k.n = 0 /\ k.at = Root /\ k.fds = OneOpen(0)
        /\ k.step = IF path = <<>> THEN "ok" ELSE "open"
    <2>1. 0 \in 0..MaxDepth /\ OneOpen(0) \in FdTables
      BY OpenTables DEF WalkAssumption
    <2>2. NoWalk \in Walks /\ NoWalk.n = 0 /\ NoWalk.at = Root
      BY NoWalkFacts
    <2> QED  BY <2>1, <2>2 DEF Walks, FdTables, OneOpen
  <1>3. Set(w, k) /\ UNCHANGED share
    BY DEF BeginWalk
  <1>4. walk'[w] = k
    BY <1>3 DEF Set, Inv
  <1> HIDE DEF k
  <1>5. TreeExact' /\ TreeGrows /\ UNCHANGED <<kind, born, moved, create>>
    BY <1>3, SameTree DEF Inv, share
  <1>6. kind'[Root] = "dir" /\ born'[Root] = <<>> /\ Root \in Inodes
    BY <1>5, RootType DEF TreeExact
  <1>7. WalkExact(w)'
    <2>1. k.n <= Len(k.path) /\ (path # <<>> => k.n < Len(k.path))
          /\ (path = <<>> => k.n = Len(k.path))
      BY <1>1, <1>2
    <2>2. /\ born'[k.at] = SubSeq(k.path, 1, k.n)
          /\ k.fds = BothOpen(k.n) /\ k.fds = OneOpen(k.n)
      BY <1>1, <1>2, <1>6, OneIsBoth
    <2>3. k.step \notin {"idle", "mkdir", "reopen", "bad", "error"}
          /\ (k.step = "open" => path # <<>>) /\ (k.step = "ok" => path = <<>>)
      BY <1>2
    <2> QED  BY <1>2, <1>4, <1>6, <2>1, <2>2, <2>3, Zenon DEF WalkExact
  <1> QED  BY <1>2, <1>3, <1>5, <1>7, OneMoves

LEMMA EndInv ==
    ASSUME WalkAssumption, Inv, NEW w \in Walkers, End(w)
    PROVE  Inv'
  <1>1. Set(w, NoWalk) /\ UNCHANGED share
    BY DEF End
  <1>2. walk'[w] = NoWalk
    BY <1>1 DEF Set, Inv
  <1>3. TreeExact' /\ TreeGrows /\ UNCHANGED <<kind, born, moved, create>>
    BY <1>1, SameTree DEF Inv, share
  <1>4. kind'[Root] = "dir" /\ born'[Root] = <<>> /\ Root \in Inodes
    BY <1>3, RootType DEF TreeExact
  <1>5. WalkExact(w)'
    <2>1. NoWalk.step \notin {"open", "mkdir", "reopen", "ok"}
      BY NoWalkFacts
    <2> QED  BY <1>2, <1>4, <2>1, NoWalkFacts, Zenon DEF WalkExact
  <1> QED  BY <1>1, <1>3, <1>5, NoWalkFacts, OneMoves

LEMMA ClientsInv ==
    ASSUME WalkAssumption, Inv, NEW d \in Inodes, NEW s \in Names,
           \/ \E k \in {"dir", "file", "link"} : OtherCreates(d, s, k)
           \/ OtherRemoves(d, s)
           \/ \E e \in Inodes, t \in Names : OtherRenames(d, s, e, t)
    PROVE  Inv'
  <1>1. TreeExact' /\ TreeGrows /\ UNCHANGED create
    BY CreateTree, RemoveTree, RenameTree DEF OtherCreates, Inv
  <1>2. UNCHANGED walk
    BY DEF OtherCreates, OtherRemoves, OtherRenames
  <1> QED  BY <1>1, <1>2, OthersInv

LEMMA InitInv == WalkAssumption /\ WalkInit => Inv
  <1> SUFFICES ASSUME WalkAssumption, WalkInit PROVE Inv
    OBVIOUS
  <1>1. TreeExact
    BY RootType DEF WalkInit, TreeExact
  <1>2. create \in BOOLEAN /\ walk \in [Walkers -> Walks]
    BY NoWalkFacts DEF WalkInit, WalkAssumption
  <1>3. ASSUME NEW w \in Walkers
        PROVE  WalkExact(w)
    <2>1. walk[w] = NoWalk
      BY DEF WalkInit
    <2>2. kind[Root] = "dir" /\ born[Root] = <<>> /\ Root \in Inodes
      BY <1>1, RootType DEF TreeExact
    <2>3. NoWalk.step \notin {"open", "mkdir", "reopen", "ok"}
      BY NoWalkFacts
    <2> QED  BY <2>1, <2>2, <2>3, NoWalkFacts, Zenon DEF WalkExact
  <1> QED  BY <1>1, <1>2, <1>3 DEF Inv

LEMMA NextInv == WalkAssumption /\ Inv /\ [WalkNext]_walkVars => Inv'
  <1> SUFFICES ASSUME WalkAssumption, Inv, [WalkNext]_walkVars PROVE Inv'
    OBVIOUS
  <1>1. CASE WalkNext
    BY <1>1, BeginInv, OpenInv, MakeInv, ReopenInv, EndInv, ClientsInv DEF WalkNext
  <1>2. CASE UNCHANGED walkVars
    <2>1. UNCHANGED share /\ UNCHANGED <<create, walk>>
      BY <1>2 DEF walkVars, share
    <2> QED  BY <2>1, SameTree, OthersInv DEF Inv
  <1> QED  BY <1>1, <1>2

LEMMA InvHolds == WalkSpec => []Inv
  BY InitInv, NextInv, WalkAssumption, PTL DEF WalkSpec

-----------------------------------------------------------------------------
(* Walks that race with nobody but creators of directories.                *)

\* Missing directories are created, others do nothing but that, and no call
\* fails for want of an inode: there is one for each path.
OnlyCreators ==
    /\ Changes \subseteq {"dir"} /\ CreateMissing = {TRUE}
    /\ IsFiniteSet(Paths) /\ Cardinality(Paths) <= MaxInodes

\* Everything is a directory, has an entry, and is the only one of its path.
OnePerPath ==
    /\ create /\ moved = {} /\ \A i \in Inodes : kind[i] \in {"free", "dir"}
    /\ \A i \in Inodes : kind[i] = "dir" /\ i # Root
                         => \E d \in Inodes, s \in Names : entry[d][s] = i
    /\ \A i, j \in Inodes : kind[i] = "dir" /\ kind[j] = "dir" /\ born[i] = born[j]
                            => i = j

\* A walk has not failed, and what it is about to reopen is there.
GoesOn(w) ==
    /\ walk[w].step \notin {"bad", "error"}
    /\ walk[w].step = "reopen" => entry[walk[w].at][Segment(w)] # Absent

Agreement == Inv /\ OnePerPath /\ \A w \in Walkers : GoesOn(w)

EntriesStay ==
    \A d \in Inodes, s \in Names : entry[d][s] # Absent => entry'[d][s] = entry[d][s]

\* No directory has the path of an entry that is absent.
LEMMA AbsentPathIsNew ==
    ASSUME WalkAssumption, TreeExact, OnePerPath, NEW d \in Inodes, NEW s \in Names,
           kind[d] = "dir", entry[d][s] = Absent, NEW j \in Inodes, kind[j] = "dir"
    PROVE  born[j] # Append(born[d], s)
  <1> SUFFICES ASSUME born[j] = Append(born[d], s) PROVE FALSE
    OBVIOUS
  <1>1. \A x \in Inodes : born[x] \in Seq(Names)
    BY PathsAreSequences DEF TreeExact
  <1>2. j # Root
    BY <1>1, AppendProperties DEF TreeExact
  <1>3. PICK p \in Inodes, t \in Names : entry[p][t] = j
    BY <1>2 DEF OnePerPath
  <1>4. j # Absent
    BY RootType
  <1>5. kind[p] = "dir" /\ born[j] = Append(born[p], t)
    BY <1>3, <1>4 DEF TreeExact, OnePerPath
  <1>6. born[p] = born[d] /\ t = s
    <2> DEFINE a == born[p]
               b == born[d]
    <2>1. a \in Seq(Names) /\ b \in Seq(Names)
      BY <1>1
    <2>2. Append(a, t) = Append(b, s)
      BY <1>5
    <2> HIDE DEF a, b
    <2>3. a = b /\ t = s
      BY <2>1, <2>2, SameAppend
    <2> QED  BY <2>3 DEF a, b
  <1>7. p = d
    BY <1>5, <1>6 DEF OnePerPath
  <1> QED  BY <1>3, <1>4, <1>6, <1>7

\* There is an inode for it: different inodes have different paths, and none
\* of them this one.
LEMMA RoomForPath ==
    ASSUME WalkAssumption, OnlyCreators, TreeExact, OnePerPath,
           NEW d \in Inodes, NEW s \in Names, kind[d] = "dir", entry[d][s] = Absent,
           Append(born[d], s) \in Paths
    PROVE  Free # {}
  <1> DEFINE new == Append(born[d], s)
  <1> SUFFICES ASSUME Free = {} PROVE FALSE
    OBVIOUS
  <1>1. \A i \in Inodes : kind[i] = "dir"
    BY DEF Free, OnePerPath
  <1>2. born \in [Inodes -> Paths \ {new}]
    <2>1. \A i \in Inodes : born[i] \in Paths \ {new}
      BY <1>1, AbsentPathIsNew DEF TreeExact
    <2> QED  BY <2>1 DEF TreeExact
  <1> HIDE DEF new
  <1>3. IsFiniteSet(Inodes) /\ Cardinality(Inodes) = MaxInodes
    BY FS_Interval DEF Inodes, WalkAssumption
  <1>4. /\ IsFiniteSet(Paths \ {new})
        /\ Cardinality(Paths \ {new}) = Cardinality(Paths) - 1
    BY FS_RemoveElement DEF OnlyCreators, new
  <1>5. Cardinality(Paths) \in Nat
    BY FS_CardinalityType DEF OnlyCreators
  <1>6. Cardinality(Paths \ {new}) < Cardinality(Inodes)
    BY <1>3, <1>4, <1>5 DEF OnlyCreators, WalkAssumption
  <1>7. \E x, y \in Inodes : x # y /\ born[x] = born[y]
    BY <1>2, <1>3, <1>4, <1>6, FS_PigeonHole
  <1> QED  BY <1>1, <1>7 DEF OnePerPath

LEMMA CreateKeeps ==
    ASSUME WalkAssumption, TreeExact, OnePerPath, NEW d \in Inodes, NEW s \in Names,
           kind[d] = "dir", entry[d][s] = Absent, Create(d, s, "dir")
    PROVE  OnePerPath' /\ EntriesStay /\ entry'[d][s] # Absent
  <1> DEFINE i == NewInode
             p == Append(born[d], s)
  <1>1. /\ Free # {}
        /\ kind' = [kind EXCEPT ![i] = "dir"]
        /\ entry' = [entry EXCEPT ![d][s] = i]
        /\ born' = [born EXCEPT ![i] = p]
        /\ moved' = {} /\ UNCHANGED create
    BY DEF Create, NewInode, OnePerPath
  <1>2. i \in Inodes /\ kind[i] = "free" /\ i # Root /\ i # Absent
    BY <1>1, NewInodeFree, RootType
  <1>3. \A j \in Inodes : kind[j] = "dir" => born[j] # p
    BY AbsentPathIsNew
  <1> HIDE DEF i, p
  <1>4. /\ kind'[i] = "dir" /\ born'[i] = p
        /\ \A x \in Inodes : x # i => kind'[x] = kind[x] /\ born'[x] = born[x]
    BY <1>1, <1>2 DEF TreeExact
  <1>5. /\ entry'[d][s] = i
        /\ \A x \in Inodes, y \in Names : x # d \/ y # s => entry'[x][y] = entry[x][y]
    BY <1>1, <1>2 DEF TreeExact
  <1>6. EntriesStay
    BY <1>5 DEF EntriesStay
  <1>7. /\ create' /\ moved' = {}
        /\ \A x \in Inodes : kind'[x] \in {"free", "dir"}
    BY <1>1, <1>4 DEF OnePerPath
  <1>8. ASSUME NEW x \in Inodes, kind'[x] = "dir", x # Root
        PROVE  \E e \in Inodes, y \in Names : entry'[e][y] = x
    <2>1. CASE x = i
      BY <2>1, <1>5
    <2>2. CASE x # i
      <3>1. PICK e \in Inodes, y \in Names : entry[e][y] = x
        BY <1>4, <1>8, <2>2 DEF OnePerPath
      <3>2. entry[e][y] # Absent
        BY <3>1, RootType
      <3> QED  BY <3>1, <3>2, <1>6 DEF EntriesStay
    <2> QED  BY <2>1, <2>2
  <1>9. ASSUME NEW x \in Inodes, NEW y \in Inodes,
               kind'[x] = "dir", kind'[y] = "dir", born'[x] = born'[y]
        PROVE  x = y
    BY <1>3, <1>4, <1>9 DEF OnePerPath
  <1>10. OnePerPath'
    BY <1>7, <1>8, <1>9 DEF OnePerPath
  <1> QED  BY <1>2, <1>5, <1>6, <1>10

\* What a walk needs to go on is not taken from it.
LEMMA StillGoesOn ==
    ASSUME WalkAssumption, Inv, EntriesStay, NEW w \in Walkers, walk'[w] = walk[w],
           GoesOn(w)
    PROVE  GoesOn(w)'
  <1>1. CASE walk[w].step # "reopen"
    BY <1>1 DEF GoesOn
  <1>2. CASE walk[w].step = "reopen"
    <2>1. /\ walk[w].path \in Paths /\ walk[w].n \in Nat /\ walk[w].at \in Inodes
          /\ walk[w].n < Len(walk[w].path)
      BY <1>2, WalkFields DEF Inv, WalkExact
    <2>2. Segment(w) \in Names
      BY <2>1, PathsAreSequences, NextPrefix DEF Segment
    <2>3. Segment(w)' = Segment(w)
      BY DEF Segment
    <2>4. entry'[walk[w].at][Segment(w)] # Absent
      BY <1>2, <2>1, <2>2 DEF GoesOn, EntriesStay
    <2> QED  BY <1>2, <2>3, <2>4 DEF GoesOn
  <1> QED  BY <1>1, <1>2

LEMMA OneGoesOn ==
    ASSUME WalkAssumption, Agreement, Inv', EntriesStay, OnePerPath',
           NEW w \in Walkers, NEW k, Set(w, k), GoesOn(w)'
    PROVE  Agreement'
  <1>1. ASSUME NEW v \in Walkers, v # w
        PROVE  GoesOn(v)'
    <2>1. walk'[v] = walk[v]
      BY <1>1 DEF Agreement, Inv, Set
    <2> QED  BY <2>1, StillGoesOn DEF Agreement
  <1> QED  BY <1>1 DEF Agreement

LEMMA SameTreeKeeps ==
    ASSUME OnePerPath, UNCHANGED share
    PROVE  OnePerPath' /\ EntriesStay
  BY DEF share, OnePerPath, EntriesStay

\* A step that leaves the tree alone and neither fails nor asks to reopen.
LEMMA PlainStep ==
    ASSUME WalkAssumption, Agreement, Inv', UNCHANGED share, NEW w \in Walkers, NEW k,
           Set(w, k), k.step \notin {"bad", "error", "reopen"}
    PROVE  Agreement'
  <1>1. walk'[w] = k
    BY DEF Set, Agreement, Inv
  <1>2. GoesOn(w)'
    BY <1>1 DEF GoesOn
  <1> QED  BY <1>2, SameTreeKeeps, OneGoesOn DEF Agreement

LEMMA DescendAgrees ==
    ASSUME WalkAssumption, Agreement, Inv', UNCHANGED share, NEW w \in Walkers, NEW i,
           Descend(w, i)
    PROVE  Agreement'
  <1>1. walk[w] \in Walks
    BY DEF Agreement, Inv
  <1>2. PICK k : Set(w, k) /\ k.step \in {"ok", "open"}
    <2> DEFINE done == walk[w].n + 1
               opened == [walk[w].fds EXCEPT ![done] = @ + 1]
               kept == IF walk[w].n # 0 THEN Close(opened, walk[w].n) ELSE opened
               last == done = Len(walk[w].path)
               open == IF last THEN Close(kept, 0) ELSE kept
               step == IF last THEN "ok" ELSE "open"
               k == [walk[w] EXCEPT !.n = done, !.at = i, !.fds = open, !.step = step]
    <2>1. Set(w, k)
      BY DEF Descend
    <2>2. step \in {"ok", "open"}
      OBVIOUS
    <2> HIDE DEF open, last, done, step
    <2>3. k.step = step
      BY <1>1 DEF Walks
    <2> HIDE DEF k
    <2> QED  BY <2>1, <2>2, <2>3
  <1>3. k.step \notin {"bad", "error", "reopen"}
    BY <1>2
  <1> QED  BY <1>2, <1>3, PlainStep

\* In such a tree an openat finds a directory or nothing.
LEMMA LookupInTidyTree ==
    ASSUME WalkAssumption, Agreement, NEW w \in Walkers,
           walk[w].step \in {"open", "mkdir", "reopen"}
    PROVE  Lookup(walk[w].at, Segment(w)) \in {"dir", "missing"}
  <1> DEFINE d == walk[w].at
             s == Segment(w)
  <1>1. /\ walk[w].path \in Paths /\ walk[w].n \in Nat /\ d \in Inodes
        /\ walk[w].n < Len(walk[w].path)
    BY WalkFields DEF Agreement, Inv, WalkExact
  <1>2. s \in Names
    BY <1>1, PathsAreSequences, NextPrefix DEF Segment
  <1> HIDE DEF d, s
  <1>3. entry[d][s] # Absent => entry[d][s] \in Inodes /\ kind[entry[d][s]] # "free"
    BY <1>1, <1>2 DEF Agreement, Inv, TreeExact
  <1>4. entry[d][s] # Absent => kind[entry[d][s]] = "dir"
    BY <1>3 DEF Agreement, OnePerPath
  <1> QED  BY <1>4 DEF Lookup, d, s

LEMMA OpenAgrees ==
    ASSUME WalkAssumption, OnlyCreators, Agreement, Inv', NEW w \in Walkers,
           OpenSegment(w)
    PROVE  Agreement'
  <1> DEFINE d == walk[w].at
             s == Segment(w)
  <1>1. walk[w].step = "open" /\ UNCHANGED share /\ create /\ "fail" \notin Changes
    BY DEF OpenSegment, Agreement, OnePerPath, OnlyCreators
  <1>2. Lookup(d, s) \in {"dir", "missing"}
    BY <1>1, LookupInTidyTree
  <1> HIDE DEF d, s
  <1>3. \/ Descend(w, Reached(d, s))
        \/ Set(w, [walk[w] EXCEPT !.step = "mkdir"])
    BY <1>1, <1>2 DEF OpenSegment, d, s
  <1>4. CASE Set(w, [walk[w] EXCEPT !.step = "mkdir"])
    <2>1. [walk[w] EXCEPT !.step = "mkdir"].step = "mkdir"
      BY DEF Agreement, Inv, Walks
    <2>2. [walk[w] EXCEPT !.step = "mkdir"].step \notin {"bad", "error", "reopen"}
      BY <2>1
    <2> QED  BY <1>1, <1>4, <2>2, PlainStep
  <1> QED  BY <1>1, <1>3, <1>4, DescendAgrees

LEMMA ReopenAgrees ==
    ASSUME WalkAssumption, OnlyCreators, Agreement, Inv', NEW w \in Walkers,
           ReopenSegment(w)
    PROVE  Agreement'
  <1> DEFINE d == walk[w].at
             s == Segment(w)
  <1>1. walk[w].step = "reopen" /\ UNCHANGED share /\ "fail" \notin Changes
    BY DEF ReopenSegment, OnlyCreators
  <1>2. entry[d][s] # Absent
    BY <1>1 DEF Agreement, GoesOn
  <1>3. Lookup(d, s) \in {"dir", "missing"}
    BY <1>1, LookupInTidyTree
  <1> HIDE DEF d, s
  <1>4. Lookup(d, s) = "dir"
    BY <1>2, <1>3 DEF Lookup
  <1>5. Descend(w, Reached(d, s))
    BY <1>1, <1>4 DEF ReopenSegment, d, s
  <1> QED  BY <1>1, <1>5, DescendAgrees

LEMMA MakeAgrees ==
    ASSUME WalkAssumption, OnlyCreators, Agreement, Inv', NEW w \in Walkers,
           MakeSegment(w)
    PROVE  Agreement'
  <1> DEFINE d == walk[w].at
             s == Segment(w)
             k == [walk[w] EXCEPT !.step = "reopen"]
  <1>1. /\ walk[w].step = "mkdir" /\ d \in Inodes /\ kind[d] = "dir"
        /\ walk[w].path \in Paths /\ walk[w].n \in Nat
        /\ walk[w].n < Len(walk[w].path)
        /\ born[d] = SubSeq(walk[w].path, 1, walk[w].n)
        /\ walk[w] \in Walks /\ "fail" \notin Changes
    BY WalkFields DEF MakeSegment, Agreement, Inv, WalkExact, OnlyCreators, OnePerPath
  <1>2. walk[w].path \in Seq(Names) /\ Len(walk[w].path) <= MaxDepth
    BY <1>1, PathsAreSequences
  <1>3. /\ s \in Names /\ Append(born[d], s) \in Seq(Names)
        /\ Len(Append(born[d], s)) = walk[w].n + 1
    <2>1. /\ s \in Names /\ born[d] \in Seq(Names) /\ Len(born[d]) = walk[w].n
      BY <1>1, <1>2, NextPrefix DEF Segment
    <2> QED  BY <2>1, AppendProperties
  <1>4. Append(born[d], s) \in Paths
    <2>1. Len(Append(born[d], s)) <= MaxDepth
      BY <1>1, <1>2, <1>3, LenProperties DEF WalkAssumption
    <2> QED  BY <1>3, <2>1, PathsAreSequences
  <1>5. k.path = walk[w].path /\ k.n = walk[w].n /\ k.at = d /\ k.step = "reopen"
    BY <1>1 DEF Walks
  <1> HIDE DEF d, s, k
  <1>6. Linked(d)
    BY <1>1 DEF Linked, Agreement, OnePerPath
  <1>7. entry[d][s] = Absent => Free # {}
    BY <1>1, <1>3, <1>4, RoomForPath DEF Agreement, Inv
  <1>8. Set(w, k) /\ \/ entry[d][s] = Absent /\ Create(d, s, "dir")
                     \/ entry[d][s] # Absent /\ UNCHANGED share
    BY <1>1, <1>6, <1>7 DEF MakeSegment, AfterExists, d, s, k
  <1>9. walk'[w] = k
    BY <1>8 DEF Set, Agreement, Inv
  <1>10. Segment(w)' = s
    BY <1>5, <1>9 DEF Segment, s
  <1>11. OnePerPath' /\ EntriesStay /\ entry'[d][s] # Absent
    <2>1. CASE entry[d][s] = Absent /\ Create(d, s, "dir")
      BY <1>1, <1>3, <2>1, CreateKeeps DEF Agreement, Inv
    <2>2. CASE entry[d][s] # Absent /\ UNCHANGED share
      BY <2>2, SameTreeKeeps DEF Agreement, share
    <2> QED  BY <1>8, <2>1, <2>2
  <1>12. GoesOn(w)'
    BY <1>5, <1>9, <1>10, <1>11 DEF GoesOn
  <1> QED  BY <1>8, <1>11, <1>12, OneGoesOn

LEMMA BeginAgrees ==
    ASSUME WalkAssumption, Agreement, Inv', NEW w \in Walkers, NEW path \in Paths,
           BeginWalk(w, path)
    PROVE  Agreement'
  <1> DEFINE step == IF path = <<>> THEN "ok" ELSE "open"
             k == [NoWalk EXCEPT !.path = path, !.fds = OpenAre({0}), !.step = step]
  <1>1. Set(w, k) /\ UNCHANGED share
    BY DEF BeginWalk
  <1>2. step \notin {"bad", "error", "reopen"}
    OBVIOUS
  <1> HIDE DEF step
  <1>3. k.step = step
    BY NoWalkFacts DEF Walks
  <1> HIDE DEF k
  <1> QED  BY <1>1, <1>2, <1>3, PlainStep

LEMMA EndAgrees ==
    ASSUME WalkAssumption, Agreement, Inv', NEW w \in Walkers, End(w)
    PROVE  Agreement'
  <1>1. NoWalk.step \notin {"bad", "error", "reopen"}
    BY NoWalkFacts
  <1> QED  BY <1>1, PlainStep DEF End

LEMMA ClientsAgree ==
    ASSUME WalkAssumption, OnlyCreators, Agreement, Inv',
           NEW d \in Inodes, NEW s \in Names,
           \/ \E k \in {"dir", "file", "link"} : OtherCreates(d, s, k)
           \/ OtherRemoves(d, s)
           \/ \E e \in Inodes, t \in Names : OtherRenames(d, s, e, t)
    PROVE  Agreement'
  <1>1. kind[d] = "dir" /\ entry[d][s] = Absent /\ Create(d, s, "dir") /\ UNCHANGED walk
    BY DEF OtherCreates, OtherRemoves, OtherRenames, OnlyCreators
  <1>2. OnePerPath' /\ EntriesStay
    BY <1>1, CreateKeeps DEF Agreement, Inv
  <1>3. \A w \in Walkers : GoesOn(w)'
    BY <1>1, <1>2, StillGoesOn DEF Agreement
  <1> QED  BY <1>2, <1>3 DEF Agreement

LEMMA InitAgrees == WalkAssumption /\ OnlyCreators /\ WalkInit => Agreement
  <1> SUFFICES ASSUME WalkAssumption, OnlyCreators, WalkInit PROVE Agreement
    OBVIOUS
  <1>1. Inv
    BY InitInv
  <1>2. OnePerPath
    BY DEF WalkInit, OnlyCreators, OnePerPath
  <1>3. \A w \in Walkers : GoesOn(w)
    BY NoWalkFacts DEF WalkInit, GoesOn
  <1> QED  BY <1>1, <1>2, <1>3 DEF Agreement

LEMMA NextAgrees == WalkAssumption /\ OnlyCreators /\ Agreement /\ [WalkNext]_walkVars => Agreement'
  <1> SUFFICES ASSUME WalkAssumption, OnlyCreators, Agreement, [WalkNext]_walkVars
               PROVE  Agreement'
    OBVIOUS
  <1>1. Inv'
    BY NextInv DEF Agreement
  <1>2. CASE WalkNext
    BY <1>1, <1>2, BeginAgrees, OpenAgrees, MakeAgrees, ReopenAgrees, EndAgrees,
       ClientsAgree DEF WalkNext
  <1>3. CASE UNCHANGED walkVars
    <2>1. UNCHANGED share /\ UNCHANGED walk
      BY <1>3 DEF walkVars
    <2> QED  BY <1>1, <2>1, SameTreeKeeps, StillGoesOn DEF Agreement
  <1> QED  BY <1>2, <1>3

-----------------------------------------------------------------------------
(* Theorems.                                                               *)

\* The types of all variables; a walk that goes on has a segment left.
THEOREM TypeCorrect == WalkSpec => []WalkTypeOK
  <1>1. Inv => WalkTypeOK
    BY DEF Inv, TreeExact, WalkExact, WalkTypeOK
  <1> QED  BY <1>1, InvHolds, PTL

\* openDirectoryNoFollow stays inside the share, whatever files, links and
\* directories other clients put there, remove or rename while it walks, and a
\* directory it arrives at is the one at the requested path unless that, or one
\* above it, was renamed.
THEOREM WalkStaysOnPath == WalkSpec => []StaysOnPath
  <1>1. Inv => StaysOnPath
    BY RootType, WalkAssumption DEF Inv, WalkExact, StaysOnPath
  <1> QED  BY <1>1, InvHolds, PTL

\* openDirectoryNoFollow and closeDirectoryWalkFDs close every descriptor on
\* every path once, except the one that is handed over, and none twice.
THEOREM WalkBalancesDescriptors == WalkSpec => []DescriptorsBalanced
  <1>1. Inv => DescriptorsBalanced
    <2> SUFFICES ASSUME Inv, NEW w \in Walkers
                 PROVE  walk[w].fds = CASE walk[w].step = "ok" -> OneOpen(walk[w].n)
                                        [] walk[w].step \in {"idle", "bad", "error"} -> NoneOpen
                                        [] OTHER -> BothOpen(walk[w].n)
      BY Zenon DEF DescriptorsBalanced, NoneOpen, OneOpen, BothOpen
    <2>1. WalkExact(w)
      BY DEF Inv
    <2>2. walk[w].step \in Steps
      BY <2>1, WalkFields DEF WalkExact
    <2> QED  BY <2>1, <2>2 DEF WalkExact, Steps
  <1> QED  BY <1>1, InvHolds, PTL

\* Walks that race to create the same directories never fail each other, and
\* two with the same sub-path arrive at the same directory: EEXIST of mkdirat is
\* taken for success, and the directory is opened again.
THEOREM RacingCreatorsAgree ==
    ASSUME OnlyCreators
    PROVE  WalkSpec => []CreatorsAgree
  <1>1. Agreement => CreatorsAgree
    <2> SUFFICES ASSUME Agreement, NEW v \in Walkers, NEW w \in Walkers
                 PROVE  /\ walk[w].step \notin {"bad", "error"}
                        /\ /\ walk[v].step = "ok" /\ walk[w].step = "ok"
                           /\ walk[v].path = walk[w].path
                           => walk[v].at = walk[w].at
      BY DEF CreatorsAgree
    <2>1. ASSUME walk[v].step = "ok", walk[w].step = "ok", walk[v].path = walk[w].path
          PROVE  walk[v].at = walk[w].at
      <3>1. /\ walk[v].at \in Inodes /\ kind[walk[v].at] = "dir"
            /\ born[walk[v].at] = SubSeq(walk[v].path, 1, Len(walk[v].path))
        BY <2>1 DEF Agreement, Inv, WalkExact, OnePerPath
      <3>2. /\ walk[w].at \in Inodes /\ kind[walk[w].at] = "dir"
            /\ born[walk[w].at] = SubSeq(walk[w].path, 1, Len(walk[w].path))
        BY <2>1 DEF Agreement, Inv, WalkExact, OnePerPath
      <3> QED  BY <2>1, <3>1, <3>2 DEF Agreement, OnePerPath
    <2> QED  BY <2>1 DEF Agreement, GoesOn
  <1> QED  BY <1>1, InitAgrees, NextAgrees, WalkAssumption, PTL DEF WalkSpec

=============================================================================
