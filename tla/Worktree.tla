------------------------------ MODULE Worktree ------------------------------
(***************************************************************************)
(* The worktree and what writes to it or from it: `mv` and the moves it    *)
(* declares, `commit`, which authors a patch from what is on disk, `seal`, *)
(* `branch switch`, the two checkouts, and the commands that move a branch *)
(* under the worktree (merge, sync, branch create) and then bring the      *)
(* files after it.  Between them stand three small files: the record of    *)
(* what the worktree was last written from, the marker of an unfinished    *)
(* write, and the declared moves.                                          *)
(*                                                                         *)
(* An operation is planned from one look at the disk, under the session    *)
(* lock, and then performs its durable steps one by one (todo); a crash    *)
(* drops the steps that are left.  The user edits between operations.      *)
(***************************************************************************)
EXTENDS NodeState

CONSTANTS Refs, NoRef, Paths, Bodies, Modes,
          Ignored,                               \* paths the ignore rules name
          Tangled,    \* whether commits are made over tangled moves (see MovesAreTangled)
          MaxBlocks, MaxQueue, MaxNodes,         \* bounds of the instance
          MaxActs, MaxCrashes                    \* what user and commands do, and crashes

VARIABLES blocks,    \* the published blocks: parent, patches, the state and the paths deleted
          tip,       \* the block each branch names, 0 for none
          current,   \* the branch the worktree is for
          queue,     \* the queued patches
          owner,     \* the branch they are for
          disk,      \* path -> body and mode
          decl,      \* the declared moves, old path -> new path
          record,    \* what the worktree was last written from, or NoRecord
          dirty,     \* what an unfinished write was for, or NotDirty
          prov,      \* whether the worktree came from a snapshot nobody has checked
          todo,      \* the steps left of the operation being performed
          minted, acts, crashes,
          base,      \* history: each path as prikk last wrote it or took it
          left,      \* history: the switch being made, or interrupted and not touched since
          lag        \* history: whether a crash came just before the record was to be written

vars == <<blocks, tip, current, queue, owner, disk, decl, record, dirty, prov, todo, minted, acts, crashes,
          base, left, lag>>
repo == <<blocks, tip, queue, owner, minted>>
notes == <<decl, record, dirty, prov, current>>

NoRecord == [ref |-> NoRef, block |-> 0, seq |-> 0, fold |-> <<>>]
NotDirty == [why |-> "none", ref |-> NoRef]
AllBlobs == {text_blob_id(x) : x \in Bodies}

File(body, mode) == [body |-> body, mode |-> mode]
NoFile == File(99, "none")
OnDisk(d, p) == IF p \in DOMAIN d THEN d[p] ELSE NoFile

----------------------------------------------------------------------------
(* The states a path is compared with. *)

StateAt(b) == IF b = 0 THEN NewState ELSE blocks[b].state

\* The sealed tip with the queue folded in, when the queue is this branch's.
active_ref_ownership(ref) == queue # <<>> /\ owner = ref
LiveQueue(ref) == IF active_ref_ownership(ref) THEN queue ELSE <<>>
resolve_folded_worktree_baseline(ref) == apply_patches(StateAt(tip[ref]), AllBlobs, LiveQueue(ref))

\* The record keeps the sequence number its queue had reached: the patches queued
\* now, up to that number, are folded onto the block it names.
resolve_state_at_recorded_baseline ==
  LET n == IF record.seq < Len(queue) THEN record.seq ELSE Len(queue)
  IN  apply_patches(StateAt(record.block), AllBlobs, SubSeq(queue, 1, n))

live_baseline_identity(ref) == [ref |-> ref, block |-> tip[ref], seq |-> Len(LiveQueue(ref)), fold |-> LiveQueue(ref)]

compare_worktree_baseline(ref) ==
  LET live == live_baseline_identity(ref)
  IN  CASE record = NoRecord -> "NoRecord"
        [] record.block = live.block /\ record.fold = live.fold -> "Current"
        [] OTHER -> "Behind"

worktree_baseline_matches_fold_being_sealed(ref) == compare_worktree_baseline(ref) # "Behind"

\* What a state says of a path: the node there and all of it, or nothing.
BaselinePathState(s, p) ==
  IF Occupied(s, p) THEN [node |-> NodeAt(s, p), is |-> s.live[NodeAt(s, p)]]
  ELSE [node |-> 0, is |-> LiveNode(p, text_blob_id(99), "none")]

split_baseline(s) ==
  [p \in {s.live[n].path : n \in DOMAIN s.live} |->
     LET node == s.live[NodeAt(s, p)] IN File(node.blob.body, node.mode)]

----------------------------------------------------------------------------
(* Declared moves. *)

record_rename_declaration(old, new) ==
  LET origins == {o \in DOMAIN decl : decl[o] = old}
  IN  IF origins = {} THEN Put(decl, old, new)
      ELSE LET origin == CHOOSE o \in origins : TRUE
           IN  IF origin = new THEN Drop(decl, origin) ELSE Put(Drop(decl, origin), origin, new)

should_skip_discovery(s, p) == p \in Ignored /\ ~Occupied(s, p)
enumerate_worktree_files(s) == {p \in DOMAIN disk : ~should_skip_discovery(s, p)}

entry_at(s, p) ==
  CASE should_skip_discovery(s, p) -> "Ignored"
    [] p \notin DOMAIN disk -> "Absent"
    [] OTHER -> "RegularFile"

\* Mutant: a file that stands at the destination is not looked for.
resolve_one_unoccupied(s, old) ==
  LET new == decl[old]
  IN  CASE ~Occupied(s, old) -> "NeverTracked"
        [] entry_at(s, old) = "RegularFile" /\ old \notin Range(decl) -> "Refused"
        [] entry_at(s, new) = "Ignored" -> "DeletionIgnored"
        [] entry_at(s, new) = "Absent" -> "Deletion"
        [] OTHER -> "Rename"

\* What a declared move comes to, judged with all the others.
resolve_one(s, old) ==
  LET new == decl[old]
  IN  CASE ~Occupied(s, old) -> "NeverTracked"
        [] entry_at(s, old) = "RegularFile" /\ old \notin Range(decl) -> "Refused"
        [] entry_at(s, new) = "Ignored" -> "DeletionIgnored"
        [] entry_at(s, new) = "Absent" -> "Deletion"
        [] Occupied(s, new) /\ NodeAt(s, new) # NodeAt(s, old) /\ new \notin DOMAIN decl -> "Refused"
        [] OTHER -> "Rename"

resolve_declarations(s) == [old \in DOMAIN decl |-> resolve_one(s, old)]

----------------------------------------------------------------------------
(* Authoring: the patch that turns the folded baseline into the worktree. *)

Body(s, n) == s.live[n].blob.body

\* The worktree was not written from what the branch now has at p.
path_is_stale(p, s) ==
  /\ record # NoRecord
  /\ BaselinePathState(resolve_state_at_recorded_baseline, p) # BaselinePathState(s, p)

\* The content and mode that p was found with, as changes of node n.
plan_edit_text(s, n, p) ==
  IF disk[p].body = Body(s, n) THEN {}
  ELSE {[op |-> "edit", node |-> n, old |-> Body(s, n), new |-> disk[p].body]}
plan_mode_change_if_observed(s, n, p) ==
  IF disk[p].mode = s.live[n].mode THEN {}
  ELSE {[op |-> "perm", node |-> n, mode |-> s.live[n].mode, new_mode |-> disk[p].mode]}
Differences(s, n, p) == plan_edit_text(s, n, p) \cup plan_mode_change_if_observed(s, n, p)

plan_delete(s, p) ==
  LET n == NodeAt(s, p)
  IN  [op |-> "delete", node |-> n, path |-> p, blob |-> s.live[n].blob, mode |-> s.live[n].mode]

Renamed(s) == {old \in DOMAIN decl : resolve_declarations(s)[old] = "Rename"}
RenameTargets(s) == {decl[old] : old \in Renamed(s)}

\* Two files moved to one path, or one moved onto the path of a file whose own move
\* came to a deletion.
MovesAreTangled(s) ==
  \/ \E p, q \in Renamed(s) : p # q /\ decl[p] = decl[q]
  \/ \E p \in DOMAIN decl \ Renamed(s) : Occupied(s, p) /\ p \in RenameTargets(s)

KeptPaths(s) == {p \in enumerate_worktree_files(s) \ RenameTargets(s) : Occupied(s, p)}
NewPaths(s) == {p \in enumerate_worktree_files(s) \ RenameTargets(s) : ~Occupied(s, p)}
GonePaths(s) == {p \in Paths : Occupied(s, p)} \ (enumerate_worktree_files(s) \cup Renamed(s))

\* The paths that a change would be authored for; a stale one stops the commit.
StalePaths(s) ==
  {p \in {q \in KeptPaths(s) : Differences(s, NodeAt(s, q), q) # {}} \cup NewPaths(s) \cup Renamed(s) \cup GonePaths(s)
     : path_is_stale(p, s)}

Moves(s) ==
  UNION {{[op |-> "rename", node |-> NodeAt(s, old), path |-> old, to |-> decl[old]]}
           \cup Differences(s, NodeAt(s, old), decl[old]) : old \in Renamed(s)}

Creates(s) ==
  LET ps == SetToSeq(NewPaths(s))
  IN  {[op |-> "create", node |-> minted + i, path |-> ps[i], blob |-> text_blob_id(disk[ps[i]].body),
        mode |-> disk[ps[i]].mode] : i \in DOMAIN ps}

kind_rank == <<"delete", "create", "perm", "edit", "rename">>

author_inner(s) ==
  LET ops == {plan_delete(s, p) : p \in GonePaths(s)} \cup Creates(s) \cup Moves(s)
               \cup UNION {Differences(s, NodeAt(s, p), p) : p \in KeptPaths(s)}
  IN  FlattenSeq([i \in DOMAIN kind_rank |-> SetToSeq({o \in ops : o.op = kind_rank[i]})])

----------------------------------------------------------------------------
(* Bringing files to a target. *)

\* Compared with the state the worktree was written from, if that is not the
\* branch's state now.  Modes are not compared.
baseline_files_against_record_or_live(ref) ==
  split_baseline(IF compare_worktree_baseline(ref) = "Behind" THEN resolve_state_at_recorded_baseline
                 ELSE resolve_folded_worktree_baseline(ref))

worktree_status_changes(files) == {p \in DOMAIN files : OnDisk(disk, p).body # files[p].body}

\* When an unfinished write is resumed, what it had already done is not a change.
resumed(p, target) ==
  dirty # NotDirty /\ IF p \in DOMAIN disk THEN p \in DOMAIN target /\ disk[p].body = target[p].body
                      ELSE p \notin DOMAIN target

dirty_worktree_entries(files, target) == {p \in worktree_status_changes(files) : ~resumed(p, target)} \cup DOMAIN decl

require_worktree_clean_for_current_branch(ref) ==
  /\ worktree_status_changes(baseline_files_against_record_or_live(ref)) = {}
  /\ DOMAIN decl = {}

\* Mutant: whatever stands at a path of the target is overwritten.
plan_materialization_over(target, old) ==
  LET differing == {p \in DOMAIN target : OnDisk(disk, p).body # target[p].body}
  IN  [writes |-> differing, unchanged |-> DOMAIN target \ differing,
       deletes |-> (DOMAIN old \ DOMAIN target) \cap DOMAIN disk, in_the_way |-> {}]

\* A file that is there and is neither the target's nor the one being left is in the way.
plan_materialization(target, old) ==
  LET AsLeft(p) == p \in DOMAIN old /\ disk[p].body = old[p].body
      differing == {p \in DOMAIN target : OnDisk(disk, p).body # target[p].body}
      leaving == (DOMAIN old \ DOMAIN target) \cap DOMAIN disk
  IN  [writes |-> differing,
       unchanged |-> DOMAIN target \ differing,
       deletes |-> {p \in leaving : AsLeft(p)},
       in_the_way |-> {p \in differing \cap DOMAIN disk : ~AsLeft(p)} \cup {p \in leaving : ~AsLeft(p)}]

require_nothing_in_the_way(target, old) == plan_materialization(target, old).in_the_way = {}

Step(what, arg) == [do |-> what, arg |-> arg]
Writes(target, ps) == [i \in 1..Cardinality(ps) |-> Step("write", [path |-> SetToSeq(ps)[i], file |-> target[SetToSeq(ps)[i]]])]
Removes(ps) == [i \in 1..Cardinality(ps) |-> Step("remove", SetToSeq(ps)[i])]

apply_materialization_plan(target, plan) ==
  Writes(target, plan.writes)
    \o Writes(target, {p \in plan.unchanged : disk[p].mode # target[p].mode})
    \o Removes(plan.deletes)

RecordOf(ref, block) == [ref |-> ref, block |-> block, seq |-> 0, fold |-> <<>>]

\* A checkout takes no file over: one that differs is a conflict.
refuse_manifest_conflicts(target) == \A p \in DOMAIN target \cap DOMAIN disk : disk[p].body = target[p].body

materialize_replay_manifest_entries(target) ==
  Writes(target, {p \in DOMAIN target : OnDisk(disk, p) # target[p]})

\* The paths some patch deleted and none created again, with what they held.
DeletedFiles(patches) ==
  FoldLeft(LAMBDA gone, o : CASE o.op = "delete" -> Put(gone, o.path, o.blob.body)
                              [] o.op = "create" -> Drop(gone, o.path)
                              [] OTHER -> gone, Empty, FlattenSeq(patches))

RECURSIVE PatchesTo(_)
PatchesTo(b) == IF b = 0 THEN <<>> ELSE PatchesTo(blocks[b].parent) \o blocks[b].patches

analyze_deletions(b) ==
  LET gone == DeletedFiles(PatchesTo(b))
  IN  [deletable |-> {p \in DOMAIN gone \cap DOMAIN disk : disk[p].body = gone[p]},
       already_absent |-> DOMAIN gone \ DOMAIN disk,
       conflicts |-> {p \in DOMAIN gone \cap DOMAIN disk : disk[p].body # gone[p]}]

----------------------------------------------------------------------------
(* The durable steps, performed in order. *)

Idle == todo = <<>>
Doing(what) == todo # <<>> /\ Head(todo).do = what /\ todo' = Tail(todo)
Arg == Head(todo).arg

\* The patch joins the queue; what is on disk is taken.
append_patch_and_witness ==
  /\ Doing("append")
  /\ queue' = Append(queue, Arg.ops) /\ owner' = Arg.ref
  /\ minted' = minted + Cardinality({i \in DOMAIN Arg.ops : Arg.ops[i].op = "create" /\ Arg.ops[i].node > minted})
  /\ base' = IF Arg.taken THEN disk ELSE base
  /\ UNCHANGED <<blocks, tip, disk, notes, acts, crashes, left, lag>>

\* The file is emptied and then written.
truncate_declarations ==
  /\ Doing("undeclare")
  /\ decl' = Empty
  /\ UNCHANGED <<repo, disk, record, dirty, prov, current, acts, crashes, base, left, lag>>

write_declarations_map ==
  /\ Doing("declare")
  /\ decl' = Arg
  /\ UNCHANGED <<repo, disk, record, dirty, prov, current, acts, crashes, base, left, lag>>

\* A file found as recorded counts as taken; one that the recorded state does not
\* track is the user's from here on.
record_worktree_baseline ==
  /\ Doing("record")
  /\ record' = Arg
  /\ base' = LET rec == split_baseline(apply_patches(StateAt(Arg.block), AllBlobs, Arg.fold))
                 same == {p \in DOMAIN rec : OnDisk(disk, p) = rec[p]}
             IN  [p \in same \cup (DOMAIN rec \cap DOMAIN base) |-> IF p \in same THEN rec[p] ELSE base[p]]
  /\ left' = IF Len(todo) = 1 THEN NoRef ELSE left
  /\ UNCHANGED <<repo, disk, decl, dirty, prov, current, acts, crashes, lag>>

\* The same after a seal, which has written no file.
record_sealed_baseline ==
  /\ Doing("advance")
  /\ record' = Arg
  /\ UNCHANGED <<repo, disk, decl, dirty, prov, current, acts, crashes, base, left, lag>>

mark_worktree_dirty ==
  /\ Doing("mark")
  /\ dirty' = Arg
  /\ UNCHANGED <<repo, disk, decl, record, prov, current, acts, crashes, base, left, lag>>

clear_worktree_dirty ==
  /\ Doing("clear")
  /\ dirty' = NotDirty
  /\ UNCHANGED <<repo, disk, decl, record, prov, current, acts, crashes, base, left, lag>>

mark_worktree_provisional ==
  /\ Doing("provisional")
  /\ prov' = TRUE
  /\ UNCHANGED <<repo, disk, decl, record, dirty, current, acts, crashes, base, left, lag>>

write_worktree_file ==
  /\ Doing("write")
  /\ disk' = Put(disk, Arg.path, Arg.file) /\ base' = Put(base, Arg.path, Arg.file)
  /\ UNCHANGED <<repo, notes, acts, crashes, left, lag>>

remove_worktree_file ==
  /\ Doing("remove")
  /\ disk' = Drop(disk, Arg) /\ base' = Drop(base, Arg)
  /\ UNCHANGED <<repo, notes, acts, crashes, left, lag>>

\* The rename of `mv`: the user's change, made for them.
rename_on_disk ==
  /\ Doing("move")
  /\ disk' = Put(Drop(disk, Arg.old), Arg.new, disk[Arg.old])
  /\ UNCHANGED <<repo, notes, acts, crashes, base, left, lag>>

write_current_branch ==
  /\ Doing("point")
  /\ current' = Arg
  /\ UNCHANGED <<repo, disk, decl, record, dirty, prov, acts, crashes, base, left, lag>>

\* A new block at the branch's tip; a seal drains the queue with it.
publish ==
  /\ Doing("publish")
  /\ blocks' = IF Arg.patches = <<>> THEN blocks
               ELSE Append(blocks, [parent |-> Arg.from, patches |-> Arg.patches,
                                    state |-> [apply_patches(StateAt(Arg.from), AllBlobs, Arg.patches) EXCEPT !.texts = Empty]])
  /\ tip' = [tip EXCEPT ![Arg.ref] = IF Arg.patches = <<>> THEN Arg.from ELSE Len(blocks) + 1]
  /\ queue' = IF Arg.drains THEN <<>> ELSE queue
  /\ owner' = IF Arg.drains THEN NoRef ELSE owner
  /\ UNCHANGED <<disk, notes, minted, acts, crashes, base, left, lag>>

----------------------------------------------------------------------------
(* The operations. *)

Start(steps) ==
  /\ Idle /\ acts < MaxActs
  /\ todo' = steps /\ acts' = acts + 1
  /\ UNCHANGED <<repo, notes, disk, crashes, base, lag>>

\* A moved or an already moved file; anything else is refused.
run_mv(old, new) ==
  /\ acts < MaxActs
  /\ Idle /\ old # new
  /\ new \in DOMAIN disk <=> old \notin DOMAIN disk
  /\ todo' = (IF old \in DOMAIN disk THEN <<Step("move", [old |-> old, new |-> new])>> ELSE <<>>)
             \o (IF prov THEN <<>> ELSE
                 <<Step("undeclare", Empty), Step("declare", record_rename_declaration(old, new))>>)
  /\ acts' = acts + 1 /\ left' = NoRef
  /\ UNCHANGED <<repo, notes, disk, crashes, base, lag>>

\* No commit over an unfinished write, or over files nobody has checked.
WorktreeIsVouchedFor == ~prov /\ dirty = NotDirty

\* The queue is this branch's, or empty, and not at its limit.
QueueIsOpen(ref) == (queue # <<>> => owner = ref) /\ Len(queue) < MaxQueue

AppendAndRecord(ref, ops) ==
  <<Step("append", [ref |-> ref, ops |-> ops, taken |-> TRUE])>>
    \o (IF decl = Empty THEN <<>> ELSE <<Step("undeclare", Empty)>>)
    \o <<Step("record", [ref |-> ref, block |-> tip[ref], seq |-> Len(queue) + 1, fold |-> Append(queue, ops)])>>

commit_worktree_changes_signed(ref) ==
  LET s == resolve_folded_worktree_baseline(ref)
      ops == author_inner(s)
  IN  /\ WorktreeIsVouchedFor /\ QueueIsOpen(ref)
      /\ Live(s) /\ (record # NoRecord => Live(resolve_state_at_recorded_baseline))
      /\ "Refused" \notin Range(resolve_declarations(s))
      /\ StalePaths(s) = {}
      /\ Tangled \/ ~MovesAreTangled(s)
      /\ ops # <<>>
      /\ minted + Cardinality(NewPaths(s)) <= MaxNodes
      /\ Start(AppendAndRecord(ref, ops))
      /\ left' = NoRef

\* The inverse of the tip's patches, queued without touching the worktree.
invert_operation(o) ==
  CASE o.op = "create" -> [o EXCEPT !.op = "delete"]
    [] o.op = "delete" -> [o EXCEPT !.op = "create"]
    [] o.op = "edit" -> [o EXCEPT !.old = o.new, !.new = o.old]
    [] o.op = "perm" -> [o EXCEPT !.mode = o.new_mode, !.new_mode = o.mode]
    [] o.op = "rename" -> [o EXCEPT !.path = o.to, !.to = o.path]

append_rollback_draft(ref) ==
  /\ ~prov /\ queue = <<>> /\ tip[ref] # 0
  /\ LET ops == FlattenSeq(blocks[tip[ref]].patches)
     IN  Start(<<Step("append", [ref |-> ref, ops |-> Reverse([i \in DOMAIN ops |-> invert_operation(ops[i])]), taken |-> FALSE])>>)
  /\ left' = NoRef

\* The record follows the seal only if the worktree was the fold being sealed.
SealRecords(ref) ==
  IF worktree_baseline_matches_fold_being_sealed(ref) THEN <<Step("advance", RecordOf(ref, Len(blocks) + 1))>> ELSE <<>>

run_seal(ref) ==
  /\ active_ref_ownership(ref) /\ Len(blocks) < MaxBlocks
  /\ Live(resolve_folded_worktree_baseline(ref))
  /\ Start(<<Step("publish", [ref |-> ref, from |-> tip[ref], patches |-> queue, drains |-> TRUE])>> \o SealRecords(ref))
  /\ left' = NoRef

AlreadyCurrent(target) == current = target /\ dirty = NotDirty /\ compare_worktree_baseline(target) # "Behind"

\* The current branch, never published, under a worktree written from something else.
SelfUnpublished(target) == current = target /\ tip[target] = 0 /\ compare_worktree_baseline(target) = "Behind"
SwitchTarget(target) == IF tip[target] = 0 THEN Empty ELSE split_baseline(StateAt(tip[target]))
SwitchPlan(target) == plan_materialization(SwitchTarget(target), baseline_files_against_record_or_live(current))

require_clean(target) ==
  dirty_worktree_entries(baseline_files_against_record_or_live(current), SwitchTarget(target)) = {}

MaySwitch(target) ==
  /\ ~prov
  /\ tip[target] # 0 \/ SelfUnpublished(target)
  /\ queue # <<>> => owner = target
  /\ ~(current = target /\ queue # <<>> /\ compare_worktree_baseline(target) = "Behind")
  /\ require_clean(target)
  /\ require_nothing_in_the_way(SwitchTarget(target), baseline_files_against_record_or_live(current))

SwitchSteps(target) ==
  <<Step("mark", [why |-> "switch", ref |-> target])>> \o apply_materialization_plan(SwitchTarget(target), SwitchPlan(target))
    \o <<Step("point", target), Step("clear", 0), Step("record", RecordOf(target, tip[target]))>>

switch_branch(target) ==
  /\ Idle /\ ~AlreadyCurrent(target)
  /\ MaySwitch(target)
  /\ Start(SwitchSteps(target))
  /\ left' = target

\* The checkouts do not move the branch pointer.
materialize_snapshot_checkout(ref, authenticated) ==
  LET target == split_baseline(StateAt(tip[ref]))
  IN  /\ tip[ref] # 0
      /\ refuse_manifest_conflicts(target)
      /\ Start((IF authenticated THEN <<>> ELSE <<Step("provisional", 0)>>)
               \o <<Step("mark", [why |-> "checkout", ref |-> ref])>> \o materialize_replay_manifest_entries(target)
               \o <<Step("clear", 0), Step("record", RecordOf(ref, tip[ref]))>>)
      /\ left' = NoRef

materialize_patch_checkout(ref, delete_removed) ==
  LET target == split_baseline(StateAt(tip[ref]))
      analysis == analyze_deletions(tip[ref])
  IN  /\ tip[ref] # 0
      /\ delete_removed => analysis.conflicts = {}
      /\ refuse_manifest_conflicts(target)
      /\ Start(<<Step("mark", [why |-> "checkout", ref |-> ref])>> \o materialize_replay_manifest_entries(target)
               \o (IF delete_removed THEN Removes(analysis.deletable) \o Removes(analysis.already_absent) ELSE <<>>)
               \o <<Step("clear", 0), Step("record", RecordOf(ref, tip[ref]))>>)
      /\ left' = NoRef

\* Another branch's tip, or a block with one more patch, is published on ref; the
\* worktree of the current branch must be clean and is brought after it.
PublishedUnder(ref, from, patches) ==
  LET block == IF patches = <<>> THEN from ELSE Len(blocks) + 1
      target == split_baseline(apply_patches(StateAt(from), AllBlobs, patches))
      plan == plan_materialization(target, baseline_files_against_record_or_live(ref))
      publication == Step("publish", [ref |-> ref, from |-> from, patches |-> patches, drains |-> FALSE])
  IN  /\ ~active_ref_ownership(ref)
      /\ current = ref => /\ require_worktree_clean_for_current_branch(ref)
                        /\ require_nothing_in_the_way(target, baseline_files_against_record_or_live(ref))
      /\ Start(IF current # ref THEN <<publication>>
               ELSE <<Step("mark", [why |-> "switch", ref |-> ref]), publication>>
                    \o apply_materialization_plan(target, plan)
                    \o <<Step("record", RecordOf(ref, block)), Step("clear", 0)>>)
      /\ left' = NoRef

\* One change to the files of a state, made elsewhere.
Incoming(s) ==
  {<<[op |-> "edit", node |-> n, old |-> Body(s, n), new |-> x]>> : n \in DOMAIN s.live, x \in Bodies}
    \cup {<<plan_delete(s, s.live[n].path)>> : n \in DOMAIN s.live}

execute_merge(ref) ==
  /\ ~prov /\ tip[ref] # 0 /\ Len(blocks) < MaxBlocks
  /\ \E ops \in Incoming(StateAt(tip[ref])) :
       /\ Live(apply_patch(StateAt(tip[ref]), AllBlobs, ops))
       /\ PublishedUnder(ref, tip[ref], <<ops>>)

run_create(ref, from) ==
  /\ tip[ref] = 0 /\ tip[from] # 0
  /\ PublishedUnder(ref, tip[from], <<>>)

\* A full check of the history clears the provisional mark.
verify_clears ==
  /\ Idle /\ prov
  /\ prov' = FALSE
  /\ UNCHANGED <<repo, disk, decl, record, dirty, current, todo, acts, crashes, base, left, lag>>

----------------------------------------------------------------------------
(* The user, and crashes. *)

EditFile ==
  /\ Idle /\ acts < MaxActs
  /\ \/ \E p \in Paths, x \in Bodies, m \in Modes :
          OnDisk(disk, p) # File(x, m) /\ disk' = Put(disk, p, File(x, m))
     \/ \E p \in DOMAIN disk : disk' = Drop(disk, p)
  /\ acts' = acts + 1 /\ left' = NoRef
  /\ UNCHANGED <<repo, notes, todo, crashes, base, lag>>

Crash ==
  /\ ~Idle /\ crashes < MaxCrashes
  /\ todo' = <<>> /\ crashes' = crashes + 1
  /\ lag' = (lag \/ (Head(todo).do \in {"undeclare", "record", "advance"} /\ Last(todo).do # "declare"))
  /\ UNCHANGED <<repo, notes, disk, acts, base, left>>

\* A repository with its first block sealed, or none yet.
InitWith(first) ==
  LET s == apply_patches(NewState, AllBlobs, first)
  IN  /\ blocks = IF first = <<>> THEN <<>> ELSE <<[parent |-> 0, patches |-> first, state |-> [s EXCEPT !.texts = Empty]]>>
      /\ current \in Refs
      /\ tip = [r \in Refs |-> IF r = current /\ first # <<>> THEN 1 ELSE 0]
      /\ queue = <<>> /\ owner = NoRef
      /\ disk = split_baseline(s) /\ base = disk
      /\ decl = Empty /\ record = RecordOf(current, Len(blocks)) /\ dirty = NotDirty /\ prov = FALSE
      /\ todo = <<>> /\ minted = Cardinality(DOMAIN s.live) /\ acts = 0 /\ crashes = 0 /\ left = NoRef /\ lag = FALSE

Steps ==
  \/ append_patch_and_witness \/ truncate_declarations \/ write_declarations_map
  \/ record_worktree_baseline \/ record_sealed_baseline \/ mark_worktree_dirty \/ clear_worktree_dirty
  \/ mark_worktree_provisional \/ write_worktree_file \/ remove_worktree_file
  \/ rename_on_disk \/ write_current_branch \/ publish

Next ==
  \/ Steps
  \/ \E old, new \in Paths : run_mv(old, new)
  \/ \E ref \in Refs : \/ commit_worktree_changes_signed(ref) \/ append_rollback_draft(ref) \/ run_seal(ref)
                       \/ switch_branch(ref) \/ execute_merge(ref)
                       \/ \E flag \in BOOLEAN : materialize_snapshot_checkout(ref, flag) \/ materialize_patch_checkout(ref, flag)
                       \/ \E from \in Refs : run_create(ref, from)
  \/ verify_clears \/ EditFile \/ Crash

----------------------------------------------------------------------------
(* Properties. *)

\* What is queued applies to the branch it is queued for, so that `seal` and the
\* next `commit` can fold it (author_inner plans operations path by path and
\* appends the patch without applying it).
QueuedApplies == queue # <<>> => Live(resolve_folded_worktree_baseline(owner))

\* A commit changes only what its worktree was written from: the content it
\* replaces, moves or deletes is the content prikk last put at that path or took
\* from it, and it creates no file that the branch deleted while prikk left it on
\* disk (path_is_stale, over a record that several commands write).  A crash just
\* before the record is written is left out: the record then says less.
NeverRevertsStep ==
  \A i \in DOMAIN queue' \ DOMAIN queue :
       Doing("append") /\ Arg.taken /\ ~lag =>
         LET s == resolve_folded_worktree_baseline(Arg.ref)
             ops == Arg.ops
         IN  \A j \in DOMAIN ops :
               LET o == ops[j]
               IN  IF o.op = "create"
                   THEN ~(o.path \in DOMAIN DeletedFiles(PatchesTo(tip[Arg.ref]) \o LiveQueue(Arg.ref)) /\ o.path \in DOMAIN base)
                   ELSE OnDisk(base, s.live[o.node].path) = File(Body(s, o.node), s.live[o.node].mode)

\* Whether some state the repository keeps has this body at this path.
Kept(p, body) ==
  \/ \E b \in DOMAIN blocks : \E n \in DOMAIN blocks[b].state.live :
       LET node == blocks[b].state.live[n] IN node.path = p /\ node.blob.body = body
  \/ \E r \in Refs : LET s == resolve_folded_worktree_baseline(r)
                     IN  \E n \in DOMAIN s.live : s.live[n].path = p /\ Body(s, n) = body

\* No command overwrites or removes a file whose content is nowhere else (the
\* "in the way" and conflict checks of switch, checkout and merge).
NothingLostStep ==
  \A p \in DOMAIN disk :
    Doing("write") \/ Doing("remove") => Kept(p, disk[p].body) \/ OnDisk(disk', p).body = disk[p].body

\* No step reverts or loses work.
WorkIsNotLost == [][NeverRevertsStep /\ NothingLostStep]_vars

\* While its marker stands and nothing is queued, an interrupted switch can be run
\* again: what it had done is taken for done (require_clean's resumed, with the
\* order of the writes, the pointer and the marker in switch_branch).
InterruptedSwitchResumes == Idle /\ left # NoRef /\ dirty # NotDirty /\ queue = <<>> => MaySwitch(left)

\* Whatever was interrupted, the next command can go on from it.
WorkGoesOn == QueuedApplies /\ InterruptedSwitchResumes

\* A checkout removes no file of the state it checks out (patch_checkout.rs: it
\* "removes only files for which the replayed patch chain contains a DeleteFile
\* operation and the current worktree bytes still match").
RemovesOnlyTheDeleted ==
  [][\A p \in DOMAIN disk : Doing("remove") /\ Arg = p /\ dirty.why = "checkout"
                            => p \notin DOMAIN split_baseline(StateAt(tip[dirty.ref]))]_vars
=============================================================================
