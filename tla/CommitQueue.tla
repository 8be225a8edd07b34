---------------------------- MODULE CommitQueue ----------------------------
(***************************************************************************)
(* What the active session promises: commits queue in order for one branch *)
(* at a time, and sealing moves the whole queue to the end of that         *)
(* branch's history in one step.                                           *)
(***************************************************************************)
EXTENDS Naturals, Sequences

CONSTANTS Ref, Patch

VARIABLES
    queue,       \* <<branch, patch>> of every queued commit, oldest first
    history      \* the patches published on every branch, oldest first

queueVars == <<queue, history>>

Published(x) == \E r \in Ref : \E i \in 1 .. Len(history[r]) : history[r][i] = x

Init == queue = <<>> /\ history = [r \in Ref |-> <<>>]

\* A new commit joins the queue if the queue is for the same branch.
Commit(r, x) ==
    /\ \A i \in 1 .. Len(queue) : queue[i][1] = r /\ queue[i][2] # x
    /\ ~Published(x)
    /\ queue' = Append(queue, <<r, x>>)
    /\ UNCHANGED history

Seal ==
    /\ queue # <<>>
    /\ LET r == queue[1][1]
           patches == [i \in 1 .. Len(queue) |-> queue[i][2]]
       IN  history' = [history EXCEPT ![r] = @ \o patches]
    /\ queue' = <<>>

Next == (\E r \in Ref, x \in Patch : Commit(r, x)) \/ Seal

Spec == Init /\ [][Next]_queueVars
=============================================================================
