----------------------------- MODULE NodeState -----------------------------
(***************************************************************************)
(* The node lifecycle state that replay folds over: which nodes live where *)
(* with which content, and which were deleted and with what.  A patch is a *)
(* sequence of operations, each a record with a field op:                  *)
(*   create  node, path, blob, mode      delete  node, path, blob, mode    *)
(*   edit    node, old, new              replace node, blob, to            *)
(*   perm    node, mode, to              rename  node, path, to            *)
(* A blob id is the hash of a kind and the bytes, so it is modelled by the *)
(* record of both.  A node's kind is its blob's kind.                      *)
(*                                                                         *)
(* A state carries the texts that replay has in hand, and err: "none", or  *)
(* why the fold stopped ("missing" content, or an operation that does not  *)
(* apply).  Every operator leaves a stopped state alone, as `?` does.      *)
(***************************************************************************)
EXTENDS Naturals, Sequences, FiniteSets, Functions, SequencesExt

CONSTANT ascii_fold   \* the spelling a path has on a store that ignores case

Blob(kind, body) == [kind |-> kind, body |-> body]
text_blob_id(text) == Blob("text", text)

LiveNode(path, blob, mode) == [path |-> path, blob |-> blob, mode |-> mode]

Empty == [n \in {} |-> 0]
NewState == [live |-> Empty, tomb |-> Empty, texts |-> Empty, err |-> "none"]

Stop(s, why) == IF s.err = "none" THEN [s EXCEPT !.err = why] ELSE s
Put(f, k, v) == [x \in DOMAIN f \cup {k} |-> IF x = k THEN v ELSE f[x]]
Drop(f, k) == Restrict(f, DOMAIN f \ {k})

Occupied(s, path) == \E n \in DOMAIN s.live : s.live[n].path = path
NodeAt(s, path) == CHOOSE n \in DOMAIN s.live : s.live[n].path = path

----------------------------------------------------------------------------
(* NodeLifecycleState: what each mutation requires and does. *)

\* A deleted node may come back only as exactly what it was.
ensure_restoration_equivalent(s, id, node) == id \in DOMAIN s.tomb => s.tomb[id] = node

create_node(s, id, node) ==
  IF \/ id \in DOMAIN s.live
     \/ Occupied(s, node.path)
     \/ ~ensure_restoration_equivalent(s, id, node)
  THEN Stop(s, "refused")
  ELSE [s EXCEPT !.live = Put(@, id, node), !.tomb = Drop(@, id)]

delete_node(s, id) ==
  IF id \notin DOMAIN s.live THEN Stop(s, "refused")
  ELSE [s EXCEPT !.live = Drop(@, id), !.tomb = Put(@, id, s.live[id])]

\* The node must be exactly what the operation says it deletes.
delete_node_checked(s, id, node) ==
  IF id \in DOMAIN s.live /\ s.live[id] = node THEN delete_node(s, id) ELSE Stop(s, "refused")

\* A run of renames moves at once: a destination may be a path another rename frees.
rename_nodes_checked_batch(s, renames) ==
  LET r == Range(renames)
      moved == {x.node : x \in r}
  IN  IF /\ Cardinality(moved) = Len(renames)
         /\ Cardinality({x.to : x \in r}) = Len(renames)
         /\ \A x \in r : x.node \in DOMAIN s.live /\ s.live[x.node].path = x.path
         /\ \A x \in r : Occupied(s, x.to) => NodeAt(s, x.to) \in moved
      THEN [s EXCEPT !.live = [n \in DOMAIN @ |->
              IF n \in moved THEN [@[n] EXCEPT !.path = (CHOOSE x \in r : x.node = n).to] ELSE @[n]]]
      ELSE Stop(s, "refused")

change_file_mode(s, id, old, new) ==
  IF id \in DOMAIN s.live /\ s.live[id].mode = old
  THEN [s EXCEPT !.live[id].mode = new] ELSE Stop(s, "refused")

replace_file_blob(s, id, old, new) ==
  IF id \in DOMAIN s.live /\ s.live[id].blob = old
  THEN [s EXCEPT !.live[id].blob = new] ELSE Stop(s, "refused")

set_text_blob(s, id, blob) ==
  IF id \in DOMAIN s.live /\ s.live[id].blob.kind = "text"
  THEN [s EXCEPT !.live[id].blob = blob] ELSE Stop(s, "refused")

seed_live_node(s, id, node) ==
  IF id \in DOMAIN s.live \/ Occupied(s, node.path) THEN Stop(s, "refused")
  ELSE [s EXCEPT !.live = Put(@, id, node)]

seed_tombstone(s, id, node) ==
  IF id \in DOMAIN s.live THEN Stop(s, "refused") ELSE [s EXCEPT !.tomb = Put(@, id, node)]

\* No two nodes at one path, and no node both live and deleted.
validate_internal_consistency(s) ==
  /\ \A m, n \in DOMAIN s.live : m # n => s.live[m].path # s.live[n].path
  /\ DOMAIN s.live \cap DOMAIN s.tomb = {}

\* No two paths that a case-insensitive store would take for one.
validate_no_path_collisions(s) ==
  \A m, n \in DOMAIN s.live : m # n => ascii_fold[s.live[m].path] # ascii_fold[s.live[n].path]

----------------------------------------------------------------------------
(* One operation's effect on the state (lifecycle_cache/replay/effect.rs); *)
(* stored is the set of blobs the object store holds.                      *)

\* The text is the one replay has in hand, else the stored one.  The edited text
\* is kept in hand and its blob is not stored.
apply_edit_text(s, stored, o) ==
  IF o.node \notin DOMAIN s.live \/ s.live[o.node].blob.kind # "text" THEN Stop(s, "refused")
  ELSE IF o.node \notin DOMAIN s.texts /\ s.live[o.node].blob \notin stored THEN Stop(s, "missing")
  ELSE LET text == IF o.node \in DOMAIN s.texts THEN s.texts[o.node] ELSE s.live[o.node].blob.body
       IN  IF text # o.old THEN Stop(s, "refused")
           ELSE [set_text_blob(s, o.node, text_blob_id(o.new)) EXCEPT !.texts = Put(@, o.node, o.new)]

expected_deleted_node(o) == LiveNode(o.path, o.blob, o.mode)

require_binary_blob(stored, blob) == blob \in stored /\ blob.kind = "binary"

apply_state_effect(s, stored, o) ==
  CASE o.op = "create" ->
         IF o.blob \notin stored THEN Stop(s, "missing")
         ELSE create_node(s, o.node, LiveNode(o.path, o.blob, o.mode))
    [] o.op = "delete" ->
         [delete_node_checked(s, o.node, expected_deleted_node(o)) EXCEPT !.texts = Drop(@, o.node)]
    [] o.op = "edit" -> apply_edit_text(s, stored, o)
    [] o.op = "perm" -> change_file_mode(s, o.node, o.mode, o.new_mode)
    [] o.op = "replace" ->
         IF \A b \in {o.blob, o.new_blob} : require_binary_blob(stored, b) THEN replace_file_blob(s, o.node, o.blob, o.new_blob)
         ELSE Stop(s, "missing")
    [] OTHER -> Stop(s, "refused")

IsRename(o) == o.op = "rename"

\* The operations of a patch, each run of consecutive renames gathered into one.
collect_rename_run(ops) ==
  FoldLeft(LAMBDA runs, o : IF runs # <<>> /\ IsRename(o) /\ IsRename(Last(Last(runs)))
                            THEN Append(Front(runs), Append(Last(runs), o))
                            ELSE Append(runs, <<o>>), <<>>, ops)

Live(s) == s.err = "none"

\* One patch applied whole.
apply_patch(s, stored, ops) ==
  FoldLeft(LAMBDA t, run : IF ~Live(t) THEN t
                           ELSE IF IsRename(run[1]) THEN rename_nodes_checked_batch(t, run)
                           ELSE apply_state_effect(t, stored, run[1]), s, collect_rename_run(ops))

apply_patches(s, stored, patches) ==
  FoldLeft(LAMBDA t, ops : apply_patch(t, stored, ops), s, patches)
=============================================================================
