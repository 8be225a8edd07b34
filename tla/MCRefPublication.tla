-------------------------- MODULE MCRefPublication --------------------------
(***************************************************************************)
(* RefPublication on small instances.  A RefState is the sequence of the   *)
(* targets its ref has had, so Prev drops the last one: ids are equal      *)
(* exactly when the contents are.                                          *)
(***************************************************************************)
EXTENDS RefPublication, FiniteSets, TLC

CONSTANTS Target, MaxSeq

MCRefState == UNION {[1 .. n -> Target] : n \in 1 .. MaxSeq}
MCNoState == <<>>
MCPrev == [s \in MCRefState |-> SubSeq(s, 1, Len(s) - 1)]

\* Every ref name is its own case fold, or all of them fold alike.
DistinctFold == [r \in Ref |-> r]
CollidingFold == [r \in Ref |-> CHOOSE q \in Ref : TRUE]

\* RefPublication treats the members of each of these sets alike.
Symmetric ==
    Permutations(Proc) \cup Permutations(Ref) \cup Permutations(Key) \cup Permutations(Target)
=============================================================================
