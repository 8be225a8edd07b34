-------------------------- MODULE MCPatchExchange --------------------------
(* Two repositories, three patches: p2 needs p1, and q is the other side's. *)
EXTENDS PatchExchange

Two == {"a", "b"}
Main == {"heads/main"}
Seal(ps) == [do |-> "seal", ref |-> "heads/main", patches |-> ps, tag |-> None]
Tag == [do |-> "tag", ref |-> "heads/main", patches |-> <<>>, tag |-> "tags/v1"]

Both == [a |-> <<Seal(<<"p1", "p2">>)>>, b |-> <<Seal(<<"q">>)>>]
Tagged == [a |-> <<Seal(<<"p1">>), Tag>>, b |-> <<>>]
Plans == {Both, Tagged}

Contents == [p \in {"p1", "p2", "q"} |-> IF p = "q" THEN {} ELSE {"c"}]
Order == [p \in {"p1", "p2", "q"} |-> IF p = "p2" THEN {"p1"} ELSE {}]
Adopted == [a |-> {"a"}, b |-> {"a", "b"}]
=============================================================================
