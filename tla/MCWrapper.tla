------------------------------ MODULE MCWrapper ------------------------------
(* TLC instances of the wrapper: one Pod, whose targets all hash to the    *)
(* same mutex.  Export-root keys are interchangeable.                      *)
EXTENDS Wrapper, TLC

CONSTANTS p1, s1, k2

MCStripe == [k \in Keys |-> s1]
MCPodOf == [k \in Keys |-> p1]

\* Targets without symbolic links, and a target k1 that a link leads from.
MCStraight == [k \in Keys |-> k]
MCLinked == [k \in Keys |-> k2]

KeySymmetry == Permutations(ExportKeys)
=============================================================================
