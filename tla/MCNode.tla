------------------------------- MODULE MCNode -------------------------------
(***************************************************************************)
(* The parts of the node mounter side by side: the staging of a PV, the    *)
(* threads that enter containers, the walk to a sub-path, against clients  *)
(* that obstruct it, against clients that rename, and against another      *)
(* walk, and the mode of the directories that it creates.  They meet only  *)
(* in values that each of the modules enumerates, so a behaviour exercises *)
(* one part and leaves the others in their initial states.                 *)
(***************************************************************************)
EXTENDS MCLinuxMounter, NamespaceSwitch, SubPathWalk

CONSTANTS
    Racers, Name,   \* walks that race with each other, and their only name
    Invalid         \* of FileModes

VARIABLES
    part,
    kind2, entry2, born2, moved2, create2, walk2,
    setting, kept, created

\* With renames, a smaller tree.
Renamed == INSTANCE SubPathWalk WITH
    MaxInodes <- 3, Changes <- Changes \cup {"rename"}

Race == INSTANCE SubPathWalk WITH
    Walkers <- Racers, Names <- {Name}, MaxDepth <- 3, MaxInodes <- 4,
    CreateMissing <- {TRUE}, Changes <- {"dir"},
    kind <- kind2, entry <- entry2, born <- born2, moved <- moved2,
    create <- create2, walk <- walk2

Modes == INSTANCE FileModes WITH MaxValue <- 8191

ASSUME PartAssumptions == Race!WalkAssumption /\ Modes!ModesAssumption

raceVars == <<kind2, entry2, born2, moved2, create2, walk2>>
modeVars == <<setting, kept, created>>
nodeVars == <<part, vars, switchVars, walkVars, raceVars, modeVars>>

SomeSource == CHOOSE s \in Sources : TRUE

NodeInit ==
    /\ part \in {"staging", "threads", "walk", "renamed", "race", "modes"}
    /\ Modes!Init /\ (part # "modes" => setting = 0)
    /\ IF part = "renamed" THEN Renamed!WalkInit ELSE WalkInit
    /\ part \notin {"walk", "renamed"} => create
    /\ Init /\ (part # "staging" => \A v \in PVs : source[v] = SomeSource)
    /\ SwitchInit /\ Race!WalkInit

NodeNext ==
    /\ UNCHANGED part
    /\ \/ /\ part = "staging" /\ Next
          /\ UNCHANGED <<switchVars, walkVars, raceVars, modeVars>>
       \/ /\ part = "threads" /\ SwitchNext
          /\ UNCHANGED <<vars, walkVars, raceVars, modeVars>>
       \/ /\ part = "walk" /\ WalkNext
          /\ UNCHANGED <<vars, switchVars, raceVars, modeVars>>
       \/ /\ part = "renamed" /\ Renamed!WalkNext
          /\ UNCHANGED <<vars, switchVars, raceVars, modeVars>>
       \/ /\ part = "race" /\ Race!WalkNext
          /\ UNCHANGED <<vars, switchVars, walkVars, modeVars>>
       \/ /\ part = "modes" /\ Modes!Next
          /\ UNCHANGED <<vars, switchVars, walkVars, raceVars>>

NodeSpec == NodeInit /\ [][NodeNext]_nodeVars

-----------------------------------------------------------------------------

\* The type invariants of the parts.
TypesOK ==
    /\ TypeOK /\ SwitchTypeOK
    /\ part = "walk" => WalkTypeOK
    /\ part = "renamed" => Renamed!WalkTypeOK
    /\ part = "race" => Race!WalkTypeOK

\* Walks that race to create the same directories do not fail each other and
\* reach the same directory (EEXIST of mkdirat), on the requested path and with
\* every descriptor closed.
RacersAgree ==
    Race!CreatorsAgree /\ Race!StaysOnPath /\ Race!DescriptorsBalanced

\* Every accepted mode setting reaches mkdirat as the number that was written,
\* and the mode that the usage text shows stands for the mode in force.
ModesSurvive == Modes!KernelGetsSetting /\ Modes!ShownModeIsKept
=============================================================================
