---------------------------- MODULE RefRegister ----------------------------
(***************************************************************************)
(* What publication promises its callers: every ref is a register that is  *)
(* only ever compared-and-swapped, and a reported success names a RefState *)
(* the register really held.                                               *)
(***************************************************************************)
CONSTANTS Ref, RefState, NoState, Prev

VARIABLES
    tip,         \* the current RefState of every ref
    published,   \* <<ref, state>> of every swap that took effect
    acked        \* <<ref, state>> of every swap reported to its caller

registerVars == <<tip, published, acked>>

Init ==
    /\ tip = [r \in Ref |-> NoState]
    /\ published = {}
    /\ acked = {}

\* One atomic step: the new RefState names the current one as its previous.
Swap(r, s) ==
    /\ Prev[s] = tip[r]
    /\ tip' = [tip EXCEPT ![r] = s]
    /\ published' = published \cup {<<r, s>>}
    /\ UNCHANGED acked

Ack(r, s) ==
    /\ <<r, s>> \in published
    /\ acked' = acked \cup {<<r, s>>}
    /\ UNCHANGED <<tip, published>>

Next == \E r \in Ref, s \in RefState : Swap(r, s) \/ Ack(r, s)

Spec == Init /\ [][Next]_registerVars
=============================================================================
