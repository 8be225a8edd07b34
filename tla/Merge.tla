------------------------------- MODULE Merge -------------------------------
(***************************************************************************)
(* Merging one branch into another: the patch algebra that judges whether  *)
(* the two sides since a baseline are confluent (patch_algebra/), the       *)
(* choice of the patches on each side (merge/evidence.rs) and the merge     *)
(* itself, which adopts the other side's patches verbatim (merge/execute.rs)*)
(*                                                                         *)
(* A block is [parents, mainline, patches, base, state, signer]: state is  *)
(* the node state it was sealed with, mainline and base are 0 unless it is *)
(* a merge.  A patch is [ops, note]; its identity is its content, so two   *)
(* commits of the same operations with the same message are one patch.     *)
(* Operations are those of NodeState.  The text of a file is a pair of     *)
(* spans, and an edit names the whole old text, which stands for its span  *)
(* and anchors.                                                            *)
(***************************************************************************)
EXTENDS NodeState, FiniteSetsExt

CONSTANTS Local, Received,      \* the refs of this repository and the received ones
          Paths, MaxNodes,      \* where files may be; how many are ever created
          MaxCommits, MaxBlocks,
          Repeats               \* may a later commit carry an earlier one's message?

VARIABLES blocks, tip, minted, commits,
          judged                \* the merges whose evidence has been gathered, not yet executed
vars == <<blocks, tip, minted, commits, judged>>

\* Is there room for one more block?
Room == Len(blocks) + Cardinality(judged) < MaxBlocks

Refs == Local \cup Received
Blocks == DOMAIN blocks

----------------------------------------------------------------------------
(* The graph of blocks. *)

RECURSIVE ancestors_inclusive(_)
ancestors_inclusive(b) == {b} \cup UNION {ancestors_inclusive(p) : p \in Range(blocks[b].parents)}

\* Parents first; of the blocks that are ready, the one that became ready first.
RECURSIVE Ordered(_, _, _)
Ordered(queue, done, new) ==
  IF queue = <<>> THEN done
  ELSE LET id == Head(queue)
           now == Append(done, id)
           ready == {c \in new : /\ id \in Range(blocks[c].parents)
                                 /\ Range(blocks[c].parents) \cap new \subseteq Range(now)}
       IN  Ordered(Tail(queue) \o SetToSortSeq(ready, <), now, new)

topological_order(new) ==
  Ordered(SetToSortSeq({b \in new : Range(blocks[b].parents) \cap new = {}}, <), <<>>, new)

candidate_blocks(base, target) ==
  topological_order(ancestors_inclusive(target) \ ancestors_inclusive(base))

baseline_reachable_patch_ids(base) ==
  UNION {Range(blocks[b].patches) : b \in ancestors_inclusive(base)}

PatchesOf(order) == FlattenSeq([i \in DOMAIN order |-> blocks[order[i]].patches])

\* What execution adopts: the patches since the baseline, without the ones the
\* baseline already reaches.
candidate_patch_ids(base, target) ==
  SelectSeq(PatchesOf(candidate_blocks(base, target)),
            LAMBDA p : p \notin baseline_reachable_patch_ids(base))

\* What is judged: the operations of those patches, each with the patch it came from.
candidate_sequence(base, target) ==
  LET excluded == baseline_reachable_patch_ids(base)
      From(p) == [i \in DOMAIN p.ops |-> [patch |-> p, o |-> p.ops[i]]]
      patches == PatchesOf(candidate_blocks(base, target))
  IN  FlattenSeq([i \in DOMAIN patches |-> IF patches[i] \in excluded THEN <<>> ELSE From(patches[i])])

----------------------------------------------------------------------------
(* Evidence: what the store knows of the baseline and of the sides. *)

\* The blobs that some operation of the history stored; an edited text is not among them.
stored == UNION {{o.blob : o \in {q \in Range(p.ops) : q.op = "create"}} \cup
                 {o.new_blob : o \in {q \in Range(p.ops) : q.op = "replace"}} :
                   p \in UNION {Range(blocks[b].patches) : b \in Blocks}}

\* The stored text, else the one that replaying the node's edits gives.
baseline_text(base, n) ==
  IF base.live[n].blob \in stored THEN base.live[n].blob.body ELSE base.texts[n]

lifecycle_state_at(b) == blocks[b].state
from_replay_derived(s) == validate_internal_consistency(s)

resolve_text_span(text, o) == text = o.old

----------------------------------------------------------------------------
(* The oracle: operations replayed over the baseline (replay_oracle.rs). *)

OracleState(base) == [live |-> base.live, tomb |-> base.tomb, texts |-> Empty, err |-> "none"]

current_text(s, base, n) ==
  IF n \in DOMAIN s.texts THEN s.texts[n]
  ELSE IF n \notin DOMAIN base.live THEN s.live[n].blob.body
  ELSE baseline_text(base, n)

apply_text_edit(s, base, o) ==
  IF o.node \notin DOMAIN s.live \/ s.live[o.node].blob.kind # "text" THEN Stop(s, "refused")
  ELSE IF ~resolve_text_span(current_text(s, base, o.node), o) THEN Stop(s, "refused")
  ELSE [set_text_blob(s, o.node, text_blob_id(o.new)) EXCEPT !.texts = Put(@, o.node, o.new)]

\* derived are the contents that only a folded creation names.
map_blob_payload_evidence(derived, blob) == blob \in stored \cup derived

apply_create(s, derived, o) ==
  IF map_blob_payload_evidence(derived, o.blob)
  THEN create_node(s, o.node, LiveNode(o.path, o.blob, o.mode)) ELSE Stop(s, "evidence")

apply_delete_file(s, o) == delete_node_checked(s, o.node, LiveNode(o.path, o.blob, o.mode))

apply_replace_binary(s, o) ==
  IF map_blob_payload_evidence({}, o.new_blob) /\ o.new_blob.kind = "binary"
  THEN replace_file_blob(s, o.node, o.blob, o.new_blob) ELSE Stop(s, "evidence")

apply_operation(s, base, derived, o) ==
  CASE o.op = "create" -> apply_create(s, derived, o)
    [] o.op = "delete" -> apply_delete_file(s, o)
    [] o.op = "perm" -> change_file_mode(s, o.node, o.mode, o.new_mode)
    [] o.op = "replace" -> apply_replace_binary(s, o)
    [] o.op = "edit" -> apply_text_edit(s, base, o)

NoPatch == [ops |-> <<>>, note |-> 0]
same_rename_batch(x, y) ==
  /\ IsRename(x.o) /\ IsRename(y.o)
  /\ x.patch # NoPatch /\ x.patch = y.patch

\* The neighbouring renames of one patch move at once.
Units(seq) ==
  FoldLeft(LAMBDA us, x : IF us # <<>> /\ same_rename_batch(Last(Last(us)), x)
                          THEN Append(Front(us), Append(Last(us), x))
                          ELSE Append(us, <<x>>), <<>>, seq)

rename_triple(unit) == [i \in DOMAIN unit |-> unit[i].o]

replay_operations(base, derived, seq) ==
  FoldLeft(LAMBDA s, u : IF ~Live(s) THEN s
                         ELSE IF IsRename(u[1].o) THEN rename_nodes_checked_batch(s, rename_triple(u))
                         ELSE apply_operation(s, base, derived, u[1].o),
           OracleState(base), Units(seq))

\* The run of renames that an operation belongs to, or it alone.
replay_unit(seq, i) ==
  LET joined(j) == \A k \in (IF i < j THEN i..j ELSE j..i) : k = i \/ same_rename_batch(seq[i], seq[k])
  IN  SelectSeq([j \in DOMAIN seq |-> [at |-> j, x |-> seq[j]]], LAMBDA y : joined(y.at))

UnitOf(seq, i) == LET u == replay_unit(seq, i) IN [j \in DOMAIN u |-> u[j].x]

----------------------------------------------------------------------------
(* What two operations, one of each side, are to one another: "independent", *)
(* "left_first", "right_first", "conflict" or "deferred".                   *)

\* The paths an operation needs free, frees, and newly occupies.
operation_facts(o) ==
  CASE o.op = "create" -> [free |-> {o.path}, freed |-> {}, newly |-> {o.path}]
    [] o.op = "delete" -> [free |-> {}, freed |-> {o.path}, newly |-> {}]
    [] o.op = "rename" -> [free |-> {o.to}, freed |-> {o.path}, newly |-> {o.to}]
    [] OTHER -> [free |-> {}, freed |-> {}, newly |-> {}]

Seen(base, n) == n \in DOMAIN base.live \cup DOMAIN base.tomb

baseline_file_matches(base, n, blob, mode) ==
  n \in DOMAIN base.live /\ base.live[n].blob = blob /\ base.live[n].mode = mode

baseline_text_blob_for_mode(base, n, mode) ==
  n \in DOMAIN base.live /\ base.live[n].blob.kind = "text" /\ base.live[n].mode = mode

validate_text_preimage(base, o) ==
  /\ o.node \in DOMAIN base.live
  /\ base.live[o.node].blob.kind = "text"
  /\ resolve_text_span(baseline_text(base, o.node), o)

validate_preimage(base, o) ==
  CASE o.op = "create" -> ~Occupied(base, o.path) /\ ~Seen(base, o.node)
    [] o.op = "delete" -> /\ baseline_file_matches(base, o.node, o.blob, o.mode)
                          /\ base.live[o.node].path = o.path
    [] o.op = "edit" -> validate_text_preimage(base, o)
    [] o.op = "replace" -> /\ o.node \in DOMAIN base.live
                           /\ base.live[o.node].blob = o.blob /\ o.blob.kind = "binary"
    [] o.op = "perm" -> o.node \in DOMAIN base.live /\ base.live[o.node].mode = o.mode
    [] o.op = "rename" -> o.node \in DOMAIN base.live /\ base.live[o.node].path = o.path

is_delete_preimage_valid(base, o) == o.op = "delete" /\ validate_preimage(base, o)

is_create_after_delete_valid(base, d, c) ==
  d.op = "delete" /\ c.op = "create" /\ d.path = c.path /\ ~Seen(base, c.node)

classify_rename_destination_conflict(l, r) ==
  IsRename(l) /\ IsRename(r) /\ l.node = r.node /\ l.to # r.to

classify_same_path_create(l, r) == operation_facts(l).newly \cap operation_facts(r).newly # {}

Freed(l, r) == operation_facts(l).freed \cap operation_facts(r).freed # {}
Frees(l, r) == operation_facts(l).freed \cap operation_facts(r).free # {}

\* What the paths alone decide, or "none".
classify_path_relation(base, l, r) ==
  IF classify_rename_destination_conflict(l, r) \/ classify_same_path_create(l, r) THEN "conflict"
  ELSE IF IsRename(l) \/ IsRename(r) THEN (IF Freed(l, r) THEN "conflict" ELSE "none")
  ELSE IF Frees(l, r)
       THEN IF is_delete_preimage_valid(base, l) /\ is_create_after_delete_valid(base, l, r)
            THEN "left_first" ELSE "conflict"
  ELSE IF Frees(r, l)
       THEN IF is_delete_preimage_valid(base, r) /\ is_create_after_delete_valid(base, r, l)
            THEN "right_first" ELSE "conflict"
  ELSE IF Freed(l, r) THEN "conflict" ELSE "none"

classify_cross_node(base, l, r) ==
  IF validate_preimage(base, l) /\ validate_preimage(base, r) THEN "independent" ELSE "conflict"

classify_create_then_replace_binary(c, o) == c.blob = o.blob /\ c.blob.kind = "binary"
classify_create_then_edit_text(c, o) == c.blob.kind = "text" /\ resolve_text_span(c.blob.body, o)

invalid_create_in_same_node_pair(base, o) == o.op = "create" /\ ~validate_preimage(base, o)

\* Does the change follow from the creation?
Follows(c, o) == \/ o.op = "perm" /\ c.mode = o.mode
                 \/ o.op = "replace" /\ classify_create_then_replace_binary(c, o)
                 \/ o.op = "edit" /\ classify_create_then_edit_text(c, o)

classify_create_then_mutate(base, l, r) ==
  IF invalid_create_in_same_node_pair(base, l) \/ invalid_create_in_same_node_pair(base, r) THEN "conflict"
  ELSE IF l.op = "create" THEN (IF Follows(l, r) THEN "left_first" ELSE "conflict")
  ELSE IF r.op = "create" THEN (IF Follows(r, l) THEN "right_first" ELSE "conflict")
  ELSE "none"

\* Does the deletion name what the change leaves?
Precedes(base, o, d) ==
  \/ o.op = "perm" /\ o.new_mode = d.mode /\ baseline_file_matches(base, o.node, d.blob, o.mode)
  \/ o.op = "replace" /\ o.new_blob = d.blob /\ baseline_file_matches(base, o.node, o.blob, d.mode)

classify_mutate_then_delete(base, l, r) ==
  IF l.op \in {"perm", "replace"} /\ r.op = "delete"
  THEN IF Precedes(base, l, r) THEN "left_first" ELSE "conflict"
  ELSE IF r.op \in {"perm", "replace"} /\ l.op = "delete"
  THEN IF Precedes(base, r, l) THEN "right_first" ELSE "conflict"
  ELSE "none"

SpanOf(o) == [text |-> o.old, at |-> {i \in DOMAIN o.old : o.old[i] # o.new[i]}]

classify_mode_and_text_edit(base, p, e) ==
  /\ baseline_text_blob_for_mode(base, e.node, p.mode)
  /\ resolve_text_span(baseline_text(base, e.node), e)

\* Two changes of one node that is neither created nor deleted.
Both(l, r, x, y) == {l.op, r.op} = {x, y}
Of(l, r, x) == IF l.op = x THEN l ELSE r

ClassifyChanges(base, l, r) ==
  CASE l.op = "edit" /\ r.op = "edit" -> IF SpanOf(l) = SpanOf(r) THEN "conflict" ELSE "deferred"
    [] Both(l, r, "perm", "replace") ->
         IF baseline_file_matches(base, l.node, Of(l, r, "replace").blob, Of(l, r, "perm").mode)
         THEN "independent" ELSE "conflict"
    [] IsRename(l) # IsRename(r) /\ {l.op, r.op} \ {"rename"} \subseteq {"edit", "perm", "replace"} -> "independent"
    [] Both(l, r, "perm", "edit") ->
         IF classify_mode_and_text_edit(base, Of(l, r, "perm"), Of(l, r, "edit"))
         THEN "independent" ELSE "conflict"
    [] OTHER -> "conflict"

FirstSaid(class, otherwise) == IF class # "none" THEN class ELSE otherwise

classify_same_node(base, l, r) ==
  FirstSaid(classify_create_then_mutate(base, l, r),
            FirstSaid(classify_mutate_then_delete(base, l, r), ClassifyChanges(base, l, r)))

classify_pair_with_text_resolver(base, l, r) ==
  FirstSaid(classify_path_relation(base, l, r),
            IF l.node = r.node THEN classify_same_node(base, l, r) ELSE classify_cross_node(base, l, r))

----------------------------------------------------------------------------
(* Confluence of two sequences (commutation.rs).  A verdict is "confluent" or *)
(* the reason it is not.                                                     *)

Same(s, t) == Live(s) /\ Live(t) /\ s = t

prove_pair_replay(base, derived, x, y) ==
  Same(replay_operations(base, derived, <<x, y>>), replay_operations(base, derived, <<y, x>>))

commute_pair(base, derived, x, y) ==
  LET Unless(class, proved) ==
        IF class # "independent" THEN class ELSE IF proved THEN "commutes" ELSE "unsupported"
  IN  Unless(classify_pair_with_text_resolver(base, x.o, y.o), prove_pair_replay(base, derived, x, y))

has_prefix_dependency(base, seq, i) ==
  \E j \in 1..(i - 1) :
    \/ seq[j].o.node = seq[i].o.node
    \/ classify_pair_with_text_resolver(base, seq[j].o, seq[i].o) \in {"left_first", "right_first"}

\* Every operation of a side must stand on the baseline alone.
ensure_flat_sequence(base, derived, seq) ==
  LET state(i) == replay_operations(base, derived, UnitOf(seq, i))
      reason(i) == IF state(i).err = "evidence" THEN "evidence_failure"
                   ELSE IF has_prefix_dependency(base, seq, i) THEN "deferred" ELSE "not_confluent"
      first(fails) == IF fails = {} THEN "flat" ELSE reason(Min(fails))
  IN  first({i \in DOMAIN seq : ~Live(state(i))})

replay_sequence_order(base, derived, first, second) == replay_operations(base, derived, first \o second)

FirstOf(verdicts, good) ==
  IF verdicts = <<>> \/ Range(verdicts) \subseteq {good} THEN good
  ELSE verdicts[Min({i \in DOMAIN verdicts : verdicts[i] # good})]

PairVerdicts(base, derived, left, right) ==
  FlattenSeq([i \in DOMAIN left |-> [j \in DOMAIN right |-> commute_pair(base, derived, left[i], right[j])]])

\* The sides replayed in both orders.
InBothOrders(lr, rl) ==
  IF ~Live(lr) \/ ~Live(rl) THEN "evidence_failure"
  ELSE IF lr = rl THEN "confluent" ELSE "not_confluent"

Verdict(flat, pair, both) == IF flat # "flat" THEN flat ELSE IF pair # "commutes" THEN pair ELSE both

check_confluence(base, derived, left, right) ==
  Verdict(FirstOf(<<ensure_flat_sequence(base, derived, left), ensure_flat_sequence(base, derived, right)>>, "flat"),
          FirstOf(PairVerdicts(base, derived, left, right), "commutes"),
          InBothOrders(replay_sequence_order(base, derived, left, right),
                       replay_sequence_order(base, derived, right, left)))

----------------------------------------------------------------------------
(* A side folded to one change of the baseline per node (fold.rs). *)

IsChange(o) == o.op \in {"edit", "perm", "replace"}
Folded(o) == [patch |-> NoPatch, o |-> o]

\* A creation and the edits after it are one creation of the final text.
create_then_edits(base, after, run) ==
  IF /\ run[1].o.op = "create" /\ run[1].o.blob.kind = "text"
     /\ run[1].o.node \notin DOMAIN base.live
     /\ \A i \in 2..Len(run) : run[i].o.op = "edit"
  THEN <<Folded([run[1].o EXCEPT !.blob = text_blob_id(after.texts[run[1].o.node])])>>
  ELSE <<>>

plan_authored_text_span(n, old, new) ==
  IF old = new THEN <<>> ELSE <<Folded([op |-> "edit", node |-> n, old |-> old, new |-> new])>>

NetContent(base, after, n) ==
  IF base.live[n].blob.kind = "text"
  THEN plan_authored_text_span(n, baseline_text(base, n),
         IF n \in DOMAIN after.texts THEN after.texts[n] ELSE baseline_text(base, n))
  ELSE IF after.live[n].blob = base.live[n].blob THEN <<>>
  ELSE <<Folded([op |-> "replace", node |-> n, blob |-> base.live[n].blob, new_blob |-> after.live[n].blob])>>

NetMode(base, after, n) ==
  IF after.live[n].mode = base.live[n].mode THEN <<>>
  ELSE <<Folded([op |-> "perm", node |-> n, mode |-> base.live[n].mode, new_mode |-> after.live[n].mode])>>

\* The run's net effect as operations on the baseline; ok is FALSE when it has none.
net_effect(base, after, n, run) ==
  LET last == run[Len(run)].o
      before == {run[i].o : i \in 1..(Len(run) - 1)}
      none == [ok |-> FALSE, ops |-> <<>>]
  IN  IF n \notin DOMAIN base.live THEN none
      ELSE IF last.op = "delete"
           THEN IF \A o \in before : IsChange(o)
                THEN [ok |-> TRUE, ops |-> <<Folded([last EXCEPT !.blob = base.live[n].blob,
                                                                 !.mode = base.live[n].mode])>>]
                ELSE none
      ELSE IF IsChange(last) /\ \A o \in before : IsChange(o)
           THEN [ok |-> TRUE, ops |-> NetContent(base, after, n) \o NetMode(base, after, n)]
      ELSE none

\* Equal but for the content a folded deletion names.
equivalent(s, t, deletes) ==
  /\ s.live = t.live
  /\ DOMAIN s.tomb = DOMAIN t.tomb
  /\ \A n \in DOMAIN s.tomb :
       \/ s.tomb[n] = t.tomb[n]
       \/ n \in deletes /\ s.tomb[n].path = t.tomb[n].path /\ s.tomb[n].blob.kind = t.tomb[n].blob.kind
  /\ \A n \in DOMAIN s.texts \cup DOMAIN t.texts :
       IF n \in DOMAIN s.texts \cap DOMAIN t.texts THEN s.texts[n] = t.texts[n]
       ELSE n \in DOMAIN s.live =>
              text_blob_id(IF n \in DOMAIN s.texts THEN s.texts[n] ELSE t.texts[n]) = s.live[n].blob

unfolded(seq) == [ops |-> seq, derived |-> {}]

\* A run that comes to nothing may only be dropped when the other side leaves the
\* node alone: no pair would then be judged for it.
may_drop(n, other) == \A i \in DOMAIN other : other[i].o.node # n

\* The net effect of each node with two or more operations, at the place of its last.
Nets(base, seq, other, after) ==
  LET at(n) == SelectSeq([i \in DOMAIN seq |-> i], LAMBDA i : seq[i].o.node = n)
      run(n) == [i \in DOMAIN at(n) |-> seq[at(n)[i]]]
      net(n) == LET made == create_then_edits(base, after, run(n))
                IN  IF made # <<>> THEN [ok |-> TRUE, ops |-> made] ELSE net_effect(base, after, n, run(n))
      nodes == {n \in {seq[i].o.node : i \in DOMAIN seq} : Len(at(n)) >= 2}
      folds == {n \in nodes : net(n).ok /\ (net(n).ops = <<>> => may_drop(n, other))}
  IN  [n \in folds |-> [last |-> Last(at(n)), ops |-> net(n).ops]]

\* The side with the net effects in place, kept only when it replays to the same state.
Kept(base, seq, after, nets, ops, derived) ==
  LET deletes == {n \in DOMAIN nets : \E i \in DOMAIN nets[n].ops : nets[n].ops[i].o.op = "delete"}
      again == replay_operations(base, derived, ops)
  IN  IF Live(after) /\ DOMAIN nets # {} /\ Live(again) /\ equivalent(after, again, deletes)
      THEN [ops |-> ops, derived |-> derived] ELSE unfolded(seq)

DerivedBy(ops) ==
  {ops[i].o.blob : i \in {j \in DOMAIN ops : ops[j].patch = NoPatch /\ ops[j].o.op = "create"}}

InPlace(seq, nets) ==
  LET place(i) == IF seq[i].o.node \notin DOMAIN nets THEN <<seq[i]>>
                  ELSE IF nets[seq[i].o.node].last = i THEN nets[seq[i].o.node].ops ELSE <<>>
  IN  FlattenSeq([i \in DOMAIN seq |-> place(i)])

FoldInto(base, seq, after, nets) ==
  LET With(ops) == Kept(base, seq, after, nets, ops, DerivedBy(ops)) IN With(InPlace(seq, nets))

FoldAfter(base, seq, other, after) == FoldInto(base, seq, after, Nets(base, seq, other, after))

fold(base, seq, other) == FoldAfter(base, seq, other, replay_operations(base, {}, seq))

fold_side(base, seq, other) == fold(base, seq, other)

first_required_evidence_error(base, seq) ==
  \E i \in DOMAIN seq : replay_operations(base, {}, <<seq[i]>>).err = "evidence"

Judged(base, l, r) == check_confluence(base, l.derived \cup r.derived, l.ops, r.ops)

analyze_merge_evidence(base, left, right) ==
  IF first_required_evidence_error(base, left \o right) THEN "evidence_failure"
  ELSE Judged(base, fold_side(base, left, right), fold_side(base, right, left))

----------------------------------------------------------------------------
(* Sealing and merging. *)

\* The state a block with these patches would have.
derive_candidate(parent, patches) ==
  LET s == apply_patches(blocks[parent].state, stored, [i \in DOMAIN patches |-> patches[i].ops])
  IN  IF Live(s) /\ ~(validate_internal_consistency(s) /\ validate_no_path_collisions(s))
      THEN Stop(s, "refused") ELSE s

unknown_report(v) == IF v = "deferred" THEN "Deferred" ELSE "Unsupported"
witness_report(v) == CASE v \in {"left_first", "right_first"} -> "OrderedDependency"
                       [] v = "conflict" -> "Conflict"
                       [] OTHER -> "NotConfluent"
report_from_analysis(v) ==
  CASE v = "confluent" -> "Confluent"
    [] v \in {"deferred", "unsupported"} -> unknown_report(v)
    [] v = "evidence_failure" -> "EvidenceFailure"
    [] OTHER -> witness_report(v)

resolve_target(ref) == tip[ref]

\* The evidence for the tips as they are; base is the block the user names.
prepare_merge_evidence(base, left, right) ==
  IF \/ base \notin ancestors_inclusive(left) \cap ancestors_inclusive(right)
     \/ ~from_replay_derived(lifecycle_state_at(base))
  THEN "refused"
  ELSE report_from_analysis(analyze_merge_evidence(lifecycle_state_at(base),
         candidate_sequence(base, left), candidate_sequence(base, right)))

\* A received ref moves by what its own repository commits and merges.
MergeEvidence(into, from, base) ==
  /\ Room
  /\ from # into
  /\ prepare_merge_evidence(base, resolve_target(into), resolve_target(from)) = "Confluent"
  /\ judged' = judged \cup {[into |-> into, from |-> from, base |-> base,
                             left |-> tip[into], right |-> tip[from]]}
  /\ UNCHANGED <<blocks, tip, minted, commits>>

verify_candidate_blocks_trusted(base, target) ==
  \A b \in Range(candidate_blocks(base, target)) : blocks[b].signer = "trusted"

\* Mutant: the branch may have moved since the evidence was gathered.
ensure_into_ref_unmoved_never(j) == TRUE

ensure_into_ref_unmoved(j) == tip[j.into] = j.left

Adopted(j) == candidate_patch_ids(j.base, j.right)

execute_merge(j) ==
  LET state == derive_candidate(tip[j.into], Adopted(j))
      ok == /\ j.into \in Local /\ j.from \in Received => verify_candidate_blocks_trusted(j.base, j.right)
            /\ Adopted(j) # <<>>
            /\ ensure_into_ref_unmoved(j)
            /\ Live(state)
  IN  /\ judged' = judged \ {j}
      /\ IF ok
         THEN /\ blocks' = Append(blocks, [parents |-> <<tip[j.into], j.right>>, mainline |-> tip[j.into],
                                           patches |-> Adopted(j), base |-> j.base, state |-> state,
                                           signer |-> "trusted"])
              /\ tip' = [tip EXCEPT ![j.into] = Len(blocks')]
         ELSE UNCHANGED <<blocks, tip>>
      /\ UNCHANGED <<minted, commits>>

\* What a commit may change in the tree its branch holds.
Flip(text, i) == [text EXCEPT ![i] = 1 - @]
Changes(s, n) ==
  {[op |-> "perm", node |-> n, mode |-> s.live[n].mode, new_mode |-> 1 - s.live[n].mode],
   [op |-> "delete", node |-> n, path |-> s.live[n].path, blob |-> s.live[n].blob, mode |-> s.live[n].mode]}
  \cup {[op |-> "rename", node |-> n, path |-> s.live[n].path, to |-> p] :
          p \in {q \in Paths : ~Occupied(s, q)}}
  \cup (IF s.live[n].blob.kind = "binary"
        THEN {[op |-> "replace", node |-> n, blob |-> s.live[n].blob,
               new_blob |-> Blob("binary", Flip(s.live[n].blob.body, 1))]}
        ELSE {[op |-> "edit", node |-> n, old |-> s.live[n].blob.body,
               new |-> Flip(s.live[n].blob.body, i)] : i \in {1, 2}})

Created(s, n) == {[op |-> "create", node |-> n, path |-> p, blob |-> Blob("text", <<0, 0>>), mode |-> 0] :
                    p \in {q \in Paths : ~Occupied(s, q)}}

Single(s, n) == UNION {Changes(s, m) : m \in DOMAIN s.live} \cup Created(s, n)

\* One operation, or two files exchanging their places.
Authored(s, n) ==
  {<<o>> : o \in Single(s, n)} \cup
  {<<[op |-> "rename", node |-> m, path |-> s.live[m].path, to |-> s.live[k].path],
     [op |-> "rename", node |-> k, path |-> s.live[k].path, to |-> s.live[m].path]>> :
     <<m, k>> \in {x \in (DOMAIN s.live) \X (DOMAIN s.live) : x[1] < x[2]}}

Stores(ops) == {ops[i].new_blob : i \in {j \in DOMAIN ops : ops[j].op = "replace"}} \cup
               {ops[i].blob : i \in {j \in DOMAIN ops : ops[j].op = "create"}}

\* A commit sealed on a branch, or one received from elsewhere.
CommitAndSeal(r, ops, signer) ==
  /\ commits < MaxCommits /\ Room
  /\ LET patch == [ops |-> ops, note |-> IF Repeats THEN 0 ELSE commits + 1]
         state == apply_patch(blocks[tip[r]].state, stored \cup Stores(ops), ops)
     IN  /\ Live(state)
         /\ blocks' = Append(blocks, [parents |-> <<tip[r]>>, mainline |-> 0, patches |-> <<patch>>,
                                      base |-> 0, state |-> state, signer |-> signer])
  /\ tip' = [tip EXCEPT ![r] = Len(blocks')]
  /\ commits' = commits + 1
  /\ minted' = minted + (IF ops[1].op = "create" THEN 1 ELSE 0)
  /\ UNCHANGED judged

Commit(r) ==
  \E ops \in Authored(blocks[tip[r]].state, minted + 1) :
    /\ ops[1].op = "create" => minted < MaxNodes
    /\ \E signer \in (IF r \in Local THEN {"trusted"} ELSE {"trusted", "unknown"}) :
         CommitAndSeal(r, ops, signer)

\* A branch made at a local one's tip; at the root it stands for one not yet made.
CreateBranch(r, from) ==
  /\ tip[r] = 1 /\ tip[from] # 1
  /\ from \in Local
  /\ tip' = [tip EXCEPT ![r] = tip[from]]
  /\ UNCHANGED <<blocks, minted, commits, judged>>

Root ==
  LET ops == <<[op |-> "create", node |-> 1, path |-> "a", blob |-> Blob("text", <<0, 0>>), mode |-> 0],
               [op |-> "create", node |-> 2, path |-> "b", blob |-> Blob("binary", <<0, 0>>), mode |-> 0]>>
  IN  [parents |-> <<>>, mainline |-> 0, patches |-> <<[ops |-> ops, note |-> 0]>>, base |-> 0,
       state |-> apply_patch(NewState, Stores(ops), ops), signer |-> "trusted"]

Init ==
  /\ blocks = <<Root>>
  /\ tip = [r \in Refs |-> 1]
  /\ minted = 2 /\ commits = 0 /\ judged = {}

Next == \/ \E r \in Refs : Commit(r)
        \/ \E r, from \in Refs : CreateBranch(r, from)
        \/ \E into, from \in Refs, base \in Blocks : MergeEvidence(into, from, base)
        \/ \E j \in judged : execute_merge(j)

Spec == Init /\ [][Next]_vars

----------------------------------------------------------------------------
(* Properties *)

Merges == {b \in Blocks : blocks[b].mainline # 0}

\* The value of a field after both sides: the side that changed it wins.
Three(b, l, r) == IF r # b THEN r ELSE l

\* What a merge of three trees is, field by field: a node deleted by either side
\* is gone, one created by either side is there, and each field is the changed one.
ThreeWay(b, l, r) ==
  LET nodes == {n \in DOMAIN l \cup DOMAIN r :
                  n \in DOMAIN b => n \in DOMAIN l \cap DOMAIN r}
  IN  [n \in nodes |->
        IF n \notin DOMAIN b THEN (IF n \in DOMAIN l THEN l[n] ELSE r[n])
        ELSE LiveNode(Three(b[n].path, l[n].path, r[n].path), Three(b[n].blob, l[n].blob, r[n].blob),
                      Three(b[n].mode, l[n].mode, r[n].mode))]

\* A merge keeps both sides' work: the state it seals is the three-way merge of
\* the baseline, the branch and the adopted tip, whatever was folded and however
\* often the branches were merged before (execute.rs seal_block_at over
\* candidate_patch_ids).
MergeKeepsBothSides ==
  \A m \in Merges :
    blocks[m].state.live = ThreeWay(blocks[blocks[m].base].state.live, blocks[blocks[m].mainline].state.live,
                                    blocks[blocks[m].parents[2]].state.live)

\* What is judged confluent can be sealed where the sides share no node that one
\* of them changes more than once: the algebra judged folded operations, and no
\* step of the replay of the original patches onto the other tip is refused,
\* renames and paths freed by one side and taken by the other included (fold.rs
\* "Admissibility").
Touched(seq) == {seq[i].o.node : i \in DOMAIN seq}
Twice(seq) == {n \in Touched(seq) : \E i, k \in DOMAIN seq : i < k /\ seq[i].o.node = n /\ seq[k].o.node = n}
UnsharedFoldsSeal ==
  \A j \in judged :
    LET l == candidate_sequence(j.base, j.left)
        r == candidate_sequence(j.base, j.right)
    IN  /\ ensure_into_ref_unmoved(j)
        /\ (Twice(l) \cap Touched(r)) \cup (Twice(r) \cap Touched(l)) = {}
        => Live(derive_candidate(tip[j.into], Adopted(j)))

\* A merge never brings a block into a local history that no trusted maintainer
\* signed, whatever baseline the user names (verify_candidate_blocks_trusted).
HistoryIsTrusted ==
  \A r \in Local : \A b \in ancestors_inclusive(tip[r]) : blocks[b].signer = "trusted"

\* The class of a pair tells the truth about replay: an ordered pair replays in
\* the named order and in no other, and a conflict never replays to one state
\* both ways (classify.rs against replay_oracle.rs).
Pair(s, x, y) == replay_operations(s, {Blob("text", <<0, 0>>)}, <<Folded(x), Folded(y)>>)
ClassesAreTrue ==
  LET s == blocks[Len(blocks)].state
      second(o) == LET t == apply_patch(s, stored \cup Stores(<<o>>), <<o>>)
                   IN  {q \in Single(t, minted + 2) : q.op \in {"create", "delete"} \/ q.node = o.node}
  IN  (judged = {} /\ commits <= 1) =>
        \A l \in Single(s, minted + 1) :
          Stores(<<l>>) \subseteq stored \cup {Blob("text", <<0, 0>>)} =>
          \A r \in Single(s, minted + 2) \cup second(l) :
            LET class == classify_pair_with_text_resolver(s, l, r)
                lr == Pair(s, l, r)
                rl == Pair(s, r, l)
            IN  /\ class = "left_first" => (Live(lr) \/ lr.err = "evidence") /\ ~Live(rl)
                /\ class = "right_first" => (Live(rl) \/ rl.err = "evidence") /\ ~Live(lr)
                /\ class = "conflict" => ~Same(lr, rl)

\* What a merge seals is sound: both sides' work, no refusal of what was judged
\* confluent, trusted blocks only, and classes that tell the truth about replay.
MergeIsSound == MergeKeepsBothSides /\ UnsharedFoldsSeal /\ HistoryIsTrusted /\ ClassesAreTrue
=============================================================================
