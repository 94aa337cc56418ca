------------------------------ MODULE PathPolicy ------------------------------
(***************************************************************************)
(* The functions that decide what a path in a request or in a PV means:    *)
(* ValidateTargetPath and ValidateSourceSubPath (internal/security),       *)
(* NormalizeNFSSubDir (internal/node/nfspath.go), and what the mounter     *)
(* does with their results.                                                *)
(*                                                                         *)
(* A string is the sequence of segments that strings.Split(s, "/") returns:*)
(* "/a" is <<"", "a">>, the empty string is <<"">>.  Spaces stands for a   *)
(* segment of white space only, Nul for one with a NUL byte.               *)
(***************************************************************************)
EXTENDS Naturals, Sequences, SequencesExt

CONSTANTS
    Segments,        \* the segments that paths are made of
    MaxSegments,     \* bound on the segments of a path
    Spaces, Nul,
    DeniedTrees,     \* deniedTargetPrefixes, as segments below the root
    DeniedPlaces,    \* deniedExactTargetPaths and deniedTargetFiles
    Refused          \* the error

Nothing == ""         \* what is between two slashes, or before a leading one
Dot == "."
DotDot == ".."

ASSUME PolicyAssumption ==
    /\ MaxSegments \in Nat \ {0}
    /\ {Nothing, Dot, DotDot} \subseteq Segments
    /\ Nul \notin {Nothing, Dot, DotDot}
    /\ Refused \notin Seq(Segments)
    /\ DeniedTrees \subseteq Seq(Segments)

Strings == UNION {[1..n -> Segments] : n \in 1..MaxSegments}
Empty == <<Nothing>>

-----------------------------------------------------------------------------
(* The library functions used.                                             *)

IsAbs(s) == Len(s) >= 2 /\ s[1] = Nothing
HasSegment(s, x) == x \in Range(s)

\* strings.TrimSpace, and strings.TrimLeft(s, "/").
TrimSpace(s) ==
    [i \in DOMAIN s |-> IF i \in {1, Len(s)} /\ s[i] = Spaces THEN Nothing ELSE s[i]]
TrimLeftSlash(s) ==
    LET full == {i \in DOMAIN s : s[i] # Nothing}
    IN IF full = {} THEN Empty
       ELSE SubSeq(s, CHOOSE i \in full : \A j \in full : i <= j, Len(s))

\* path.Clean: the segments that are left, below the root or relative.
CleanStep(rooted, out, x) ==
    CASE x \in {Nothing, Dot} -> out
      [] x = DotDot /\ out # <<>> /\ Last(out) # DotDot -> Front(out)
      [] x = DotDot /\ (out = <<>> \/ Last(out) = DotDot) ->
            IF rooted THEN out ELSE Append(out, DotDot)
      [] OTHER -> Append(out, x)
CleanSegments(s) ==
    LET after[n \in 0..Len(s)] ==
            IF n = 0 THEN <<>> ELSE CleanStep(IsAbs(s), after[n - 1], s[n])
    IN after[Len(s)]
Clean(s) ==
    LET out == CleanSegments(s)
    IN IF IsAbs(s) THEN <<Nothing>> \o (IF out = <<>> THEN <<Nothing>> ELSE out)
       ELSE IF out = <<>> THEN <<Dot>> ELSE out

-----------------------------------------------------------------------------
(* The functions of the repository.                                        *)

\* What ValidateTargetPath denies, a cleaned path at a time.
DeniedIgnoringTreeRoot(out) ==
    out \in DeniedPlaces \/ \E t \in DeniedTrees : IsStrictPrefix(t, out)
Denied(out) == out \in DeniedPlaces \/ \E t \in DeniedTrees : IsPrefix(t, out)

ValidateTargetPathUncleaned(s) ==
    IF HasSegment(s, Nul) \/ ~IsAbs(s) \/ Denied(CleanSegments(s))
    THEN Refused ELSE s
ValidateTargetPath(s) ==
    IF HasSegment(s, Nul) \/ ~IsAbs(s) \/ Denied(CleanSegments(s))
    THEN Refused ELSE Clean(s)

ValidateSourceSubPathKeepingDot(s) ==
    IF s = Empty THEN Empty
    ELSE IF HasSegment(s, Nul) \/ IsAbs(s) \/ HasSegment(s, DotDot) THEN Refused
    ELSE Clean(s)
ValidateSourceSubPath(s) ==
    IF s = Empty THEN Empty
    ELSE IF HasSegment(s, Nul) \/ IsAbs(s) \/ HasSegment(s, DotDot) THEN Refused
    ELSE IF Clean(s) = <<Dot>> THEN Empty ELSE Clean(s)

NormalizeNFSSubDir(s) ==
    LET value == TrimSpace(s)
        cleaned == CleanSegments(<<Nothing>> \o TrimLeftSlash(value))
    IN IF HasSegment(value, Nul) \/ HasSegment(value, DotDot) THEN Refused
       ELSE IF cleaned = <<>> THEN Empty ELSE cleaned

\* IsNFSExportRoot, of a normalised subDir and sub-path.
IsNFSExportRoot(subDir, subPath) == subDir = Empty /\ subPath = Empty

\* sourceSubPathSegments: the segments that the walk opens one by one.
SourceSubPathSegmentsUnfiltered(s) ==
    IF IsAbs(s) \/ HasSegment(s, DotDot) \/ HasSegment(s, Nul) THEN Refused ELSE s
SourceSubPathSegments(s) ==
    IF IsAbs(s) \/ HasSegment(s, DotDot) \/ HasSegment(s, Nul) THEN Refused
    ELSE LET opened[n \in 0..Len(s)] ==
                 IF n = 0 THEN <<>>
                 ELSE IF s[n] \in {Nothing, Dot} THEN opened[n - 1]
                 ELSE Append(opened[n - 1], s[n])
         IN opened[Len(s)]

\* mountNFS: the directory below the share that the server is asked for.
RemoteSegments(subDir) ==
    IF subDir \in {Empty, <<Nothing, Nothing>>} THEN <<>> ELSE TrimLeftSlash(subDir)

-----------------------------------------------------------------------------
(* Inputs: all pairs of strings up to the bound, grown segment by segment. *)

VARIABLES path, other
pathVars == <<path, other>>

PathInit == path \in [1..1 -> Segments] /\ other \in [1..1 -> Segments]

Grow(x, y) == Len(x) < MaxSegments /\ \E z \in Segments : y = Append(x, z)

PathNext ==
    \/ Grow(path, path') /\ UNCHANGED other
    \/ Grow(other, other') /\ UNCHANGED path

PathSpec == PathInit /\ [][PathNext]_pathVars

-----------------------------------------------------------------------------
(* Reference: where a walk over the segments leads, step by step.          *)

\* Where segments lead from the root: ".." goes to the parent, the root is
\* its own parent.
Step(here, x) ==
    IF x \in {Nothing, Dot} THEN here
    ELSE IF x # DotDot THEN Append(here, x)
    ELSE IF here = <<>> THEN <<>> ELSE SubSeq(here, 1, Len(here) - 1)
Walk(segments) ==
    LET at[n \in 0..Len(segments)] ==
            IF n = 0 THEN <<>> ELSE Step(at[n - 1], segments[n])
    IN at[Len(segments)]

\* Both strings are valid names of a target, and of the same one.
SameTarget ==
    /\ ValidateTargetPath(path) # Refused /\ ValidateTargetPath(other) # Refused
    /\ Walk(path) = Walk(other)

\* Spelling does not get around the target policy: an absolute path is
\* refused exactly if the walk along it ends at a denied place or in a denied
\* tree, whatever dots and slashes it takes on the way.
PolicyIsAboutPlaces ==
    IsAbs(path) /\ ~HasSegment(path, Nul)
    => (ValidateTargetPath(path) = Refused
        <=> \/ Walk(path) \in DeniedPlaces
            \/ \E t \in DeniedTrees, n \in 0..Len(Walk(path)) :
                   SubSeq(Walk(path), 1, n) = t)

\* The reconciler normalises the persisted request again: that changes
\* nothing, so the record keeps its key and its request.
NormalFormsAreStable ==
    /\ ValidateTargetPath(path) # Refused
       => ValidateTargetPath(ValidateTargetPath(path)) = ValidateTargetPath(path)
    /\ ValidateSourceSubPath(path) # Refused
       => ValidateSourceSubPath(ValidateSourceSubPath(path)) = ValidateSourceSubPath(path)

\* Two requests get the same record exactly if they mean the same place: no
\* target can be registered twice under two spellings, and the key of a record
\* stays what it is when its request is normalised again.
OneKeyPerTarget ==
    /\ SameTarget => ValidateTargetPath(path) = ValidateTargetPath(other)
    /\ ValidateTargetPath(path) = ValidateTargetPath(other)
       /\ ValidateTargetPath(path) # Refused => Walk(path) = Walk(other)
    /\ NormalFormsAreStable

\* What the request check admits, the mounter opens: the walk below the staged
\* mount has the same meaning as the sub-path of the request.
AdmittedSubPathsOpen ==
    LET admitted == ValidateSourceSubPath(path)
    IN admitted # Refused => SourceSubPathSegments(admitted) = Walk(path)

\* The export-root decision is about the directory that is mounted: it says
\* "root" exactly if the subDir of the PV (path) and the sub-path of the request
\* (other) together end where the share begins.
RootDecisionIsExact ==
    LET subDir == NormalizeNFSSubDir(path)
        subPath == ValidateSourceSubPath(other)
    IN subDir # Refused /\ subPath # Refused
       => (IsNFSExportRoot(subDir, subPath)
           <=> Walk(RemoteSegments(subDir) \o SourceSubPathSegments(subPath)) = <<>>)

=============================================================================
