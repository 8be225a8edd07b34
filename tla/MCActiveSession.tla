-------------------------- MODULE MCActiveSession --------------------------
(***************************************************************************)
(* ActiveSession on small instances.  A RefState is the sequence of Blocks *)
(* its branch has had, and a Block the sequence of its patches.            *)
(***************************************************************************)
EXTENDS ActiveSession, SequencesExt

CONSTANTS Patches, MaxSeq

MCPatch == 1 .. Patches

\* Patches are queued in commit order, so a Block's ids are increasing.
MCBlock ==
    UNION {{b \in [1 .. n -> MCPatch] : \A i, j \in 1 .. n : i < j => b[i] < b[j]} :
              n \in 1 .. MaxQueue}

MCRefState == UNION {[1 .. n -> MCBlock] : n \in 1 .. MaxSeq}
MCNoState == <<>>
MCPrev == [s \in MCRefState |-> SubSeq(s, 1, Len(s) - 1)]
MCBlockOf == [s \in MCRefState |-> s[Len(s)]]
MCChain == [s \in MCRefState \cup {<<>>} |-> [n \in 1 .. Len(s) |-> SubSeq(s, 1, n)]]
MCHistory == [s \in MCRefState \cup {<<>>} |-> FlattenSeq(s)]
MCFold == [r \in Ref |-> r]

\* The slots, the keys, and the branches other than the torn name, are alike.
Symmetric == Permutations(Proc) \cup Permutations(Key) \cup Permutations(Branch)
=============================================================================
