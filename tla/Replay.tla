------------------------------- MODULE Replay -------------------------------
(***************************************************************************)
(* Deriving the tree of a block.  A block stores patches, a claimed state  *)
(* root and, every CHECKPOINT_CADENCE blocks, a snapshot.  The tree at a   *)
(* block is asked for by `commit` (the folded baseline, through a cache),  *)
(* by `seal` (from an anchor, checking roots), by checkout and branch      *)
(* switch (bytes, from a recorded anchor), by reports (bytes, from any     *)
(* snapshot) and by extract.  Each has its own applier and its own short   *)
(* cuts; what they must share is the answer.                               *)
(*                                                                         *)
(* A state root is the hash of the live nodes, so it is modelled by them,  *)
(* and a snapshot that passes validation holds what its root says.         *)
(***************************************************************************)
EXTENDS NodeState

CONSTANTS Refs,
          Paths,
          KindOf,                          \* whether the n-th file made is text or binary
          CHECKPOINT_CADENCE,
          MaxBlocks, MaxQueue, MaxNodes,   \* bounds of the instance
          MaxFaults

VARIABLES blocks,    \* the block objects: parents, mainline, patches, root, snap
          tip,       \* the block each ref names, 0 for none
          queue,     \* the queued patches
          owner,     \* the ref they were committed for
          stored,    \* the blobs in the object store
          cache,     \* the lifecycle cache, None or base, steps and state
          verified,  \* the record of blocks whose root a replay has confirmed
          adopted,   \* whether the maintainer's key is adopted here
          minted,    \* node ids given out
          faults

vars == <<blocks, tip, queue, owner, stored, cache, verified, adopted, minted, faults>>

None == [none |-> TRUE]
MAX_ANCHOR_DISTANCE == CHECKPOINT_CADENCE - 1

----------------------------------------------------------------------------
(* The lineage of a block. *)

state_derivation_parent(b) ==
  CASE blocks[b].mainline # 0 -> blocks[b].mainline
    [] blocks[b].parents # <<>> -> blocks[b].parents[1]
    [] OTHER -> 0

\* From the root to b.
RECURSIVE single_parent_chain(_)
single_parent_chain(b) ==
  IF b = 0 THEN <<>> ELSE Append(single_parent_chain(state_derivation_parent(b)), b)

Horizon(b) == single_parent_chain(b)[1]

PatchesOf(chain) == FlattenSeq([i \in DOMAIN chain |-> blocks[chain[i]].patches])
OpsOf(patches) == FlattenSeq(patches)

Facts(s) == <<s.live, s.tomb>>

----------------------------------------------------------------------------
(* The lifecycle state by full replay. *)

replay_lineage_with_materialized_text(b) ==
  apply_patches(NewState, stored, PatchesOf(single_parent_chain(b)))

replay_lineage(b) == [replay_lineage_with_materialized_text(b) EXCEPT !.texts = Empty]

NoText == 9
TextIn(s, node) == IF s.err = "none" /\ node \in DOMAIN s.texts THEN s.texts[node] ELSE NoText
materialize_edited_text(b, node) ==
  TextIn(replay_lineage_with_materialized_text(b), node)

\* The reference: the patches applied with every blob at hand.
Everything == {Blob(k, n) : k \in {"text", "binary"}, n \in 0..2}
Truth(b) == apply_patches(NewState, Everything, PatchesOf(single_parent_chain(b)))

----------------------------------------------------------------------------
(* Anchors: snapshots a derivation may start at. *)

\* The snapshot is what the block's root says and every blob it names is stored.
validate_snapshot_manifest(b) ==
  blocks[b].snap = "sound" /\ \A n \in DOMAIN blocks[b].root : blocks[b].root[n].blob \in stored

admit(b, distance) ==
  CASE distance > MAX_ANCHOR_DISTANCE -> "TooFar"
    [] b \notin verified -> "NotRecorded"
    [] ~adopted -> "SignerNotAdopted"
    [] ~validate_snapshot_manifest(b) -> "Signal"
    [] OTHER -> "Usable"

\* The deleted nodes, read off the operations without applying them.
id_only_tombstones(patches) ==
  FoldLeft(LAMBDA t, o : CASE o.op = "create" -> Drop(t, o.node)
                           [] o.op = "delete" -> Put(t, o.node, expected_deleted_node(o))
                           [] OTHER -> t,
           Empty, OpsOf(patches))

\* Walk down to the first block with an admitted snapshot: its place in the
\* chain, or 0.
RECURSIVE AnchorAtOrBelow(_, _)
AnchorAtOrBelow(chain, i) ==
  IF i = 0 THEN 0
  ELSE LET b == chain[i]
           a == IF blocks[b].snap = "none" THEN "none" ELSE admit(b, Len(chain) - i)
       IN  CASE a = "Usable" -> i
             [] a = "Signal" -> 0
             [] Len(chain) - i >= MAX_ANCHOR_DISTANCE -> 0
             [] OTHER -> AnchorAtOrBelow(chain, i - 1)

\* The live nodes of the anchor's snapshot and the nodes deleted at or below it.
Seeded(chain, i) ==
  LET manifest == blocks[chain[i]].root
      dead == id_only_tombstones(PatchesOf(SubSeq(chain, 1, i)))
      alive == FoldLeft(LAMBDA s, n : seed_live_node(s, n, manifest[n]), NewState, SetToSeq(DOMAIN manifest))
  IN  FoldLeft(LAMBDA s, n : seed_tombstone(s, n, dead[n]), alive, SetToSeq(DOMAIN dead \ DOMAIN manifest))

\* Each block after the anchor is applied and its root compared.
FoldChecked(s, later, held) ==
  FoldLeft(LAMBDA t, b : LET n == apply_patches(t, held, blocks[b].patches)
                         IN  IF Live(n) /\ n.live # blocks[b].root THEN Stop(n, "refused") ELSE n,
           s, later)

\* Every block of the lineage has the root its patches give.
Honest(b) == LET chain == single_parent_chain(b)
             IN  \A i \in DOMAIN chain : blocks[chain[i]].root = Truth(chain[i]).live

Anchored(s, folded) == IF Live(s) THEN [state |-> s, folded |-> folded] ELSE None

AnchoredAt(chain, i, held) ==
  IF verified = {} \/ i = 0 THEN None
  ELSE Anchored(FoldChecked(Seeded(chain, i), SubSeq(chain, i + 1, Len(chain)), held),
                Range(SubSeq(chain, i + 1, Len(chain))))

anchored_parent_state(b, held) ==
  LET chain == single_parent_chain(b)
  IN  AnchoredAt(chain, AnchorAtOrBelow(chain, Len(chain)), held)

----------------------------------------------------------------------------
(* The text of an edited file, from the nearest recorded snapshot. *)

NoTexts == [n \in {0} |-> 0]   \* no node has id 0

RECURSIVE TextAnchor(_, _)
TextAnchor(chain, i) ==
  CASE i = 0 -> 0
    [] blocks[chain[i]].snap # "none" /\ chain[i] \in verified -> i
    [] Len(chain) - i >= CHECKPOINT_CADENCE -> 0
    [] OTHER -> TextAnchor(chain, i - 1)

materialize_wanted_text_forward(seeds, patches, wanted) ==
  FoldLeft(LAMBDA t, o :
    IF t = NoTexts \/ o.node \notin wanted THEN t
    ELSE CASE o.op = "edit" -> IF o.node \in DOMAIN t /\ t[o.node] = o.old
                               THEN Put(t, o.node, o.new) ELSE NoTexts
           [] o.op = "create" -> IF o.blob \in stored /\ o.blob.kind = "text"
                                 THEN Put(t, o.node, o.blob.body) ELSE Drop(t, o.node)
           [] o.op \in {"delete", "replace"} -> Drop(t, o.node)
           [] OTHER -> t,
    seeds, OpsOf(patches))

\* wanted maps nodes to the text blobs expected of them.
AsWanted(t, wanted) ==
  IF t # NoTexts /\ \A n \in DOMAIN wanted : n \in DOMAIN t /\ text_blob_id(t[n]) = wanted[n]
  THEN Restrict(t, DOMAIN wanted) ELSE NoTexts

TextsFrom(manifest, patches, wanted) ==
  LET seeded == {n \in DOMAIN wanted \cap DOMAIN manifest :
                   manifest[n].blob \in stored /\ manifest[n].blob.kind = "text"}
  IN  AsWanted(materialize_wanted_text_forward([n \in seeded |-> manifest[n].blob.body],
                                               patches, DOMAIN wanted), wanted)

TextsAt(chain, i, wanted) ==
  IF DOMAIN wanted = {} \/ verified = {} \/ i = 0 THEN NoTexts
  ELSE IF ~validate_snapshot_manifest(chain[i]) THEN NoTexts
  ELSE TextsFrom(blocks[chain[i]].root, PatchesOf(SubSeq(chain, i + 1, Len(chain))), wanted)

anchored_texts(b, wanted) ==
  LET chain == single_parent_chain(b)
  IN  TextsAt(chain, TextAnchor(chain, Len(chain)), wanted)

TextOr(t, node, otherwise) == IF t # NoTexts THEN t[node] ELSE otherwise

materialize_edited_text_anchored(b, node, blob) ==
  TextOr(anchored_texts(b, [n \in {node} |-> blob]), node, materialize_edited_text(b, node))

----------------------------------------------------------------------------
(* The lifecycle cache: one block's state, carried forward. *)

edited_text_nodes(b) == {o.node : o \in {p \in Range(OpsOf(blocks[b].patches)) : p.op = "edit"}}

\* The step again with the texts the store lacks taken from an anchor.
RetryWith(b, t) ==
  IF t = NoTexts THEN None ELSE apply_patches([cache.st EXCEPT !.texts = t], stored, blocks[b].patches)

anchored_text_retry(b) ==
  LET live == cache.st.live
      lacking == {n \in edited_text_nodes(b) \cap DOMAIN live :
                    live[n].blob.kind = "text" /\ live[n].blob \notin stored}
  IN  RetryWith(b, anchored_texts(cache.base, [n \in lacking |-> live[n].blob]))

\* Mutant: the block need not be the child of the cached one.
try_incremental_step_anywhere(b) ==
  LET s == apply_patches(cache.st, stored, blocks[b].patches)
  IN  IF s.err = "missing" THEN anchored_text_retry(b) ELSE s

UnlessMissing(r) == IF r # None /\ r.err = "missing" THEN None ELSE r

\* None where the step does not lead from the cached block; else the state, stopped
\* when an operation does not apply.
try_incremental_step(b) ==
  IF blocks[b].parents # <<cache.base>> THEN None
  ELSE LET s == apply_patches(cache.st, stored, blocks[b].patches)
       IN  IF s.err # "missing" THEN s ELSE UnlessMissing(anchored_text_retry(b))

Resolved(s, steps) == [state |-> [s EXCEPT !.texts = Empty], steps |-> steps]

\* The cheapest of: the cached state, one step from it, an anchor, a full replay.
Cheapest(b, same, step, anchored) ==
  CASE cache # None /\ cache.steps >= CHECKPOINT_CADENCE -> Resolved(replay_lineage(b), 0)
    [] same /\ cache.base = b -> Resolved(cache.st, cache.steps + 1)
    [] step # None -> Resolved(step, cache.steps + 1)
    [] anchored # None ->
         Resolved(anchored.state, IF cache = None THEN 0 ELSE cache.steps + 1)
    [] OTHER -> Resolved(replay_lineage(b), 0)

resolve_baseline_state_with(b) ==
  LET same == cache # None /\ cache.horizon = Horizon(b)
  IN  Cheapest(b, same, IF same /\ cache.base # b THEN try_incremental_step(b) ELSE None,
               anchored_parent_state(b, stored))

\* What is kept: nothing when the derivation failed.
persist(b, r) ==
  IF Live(r.state) /\ validate_internal_consistency(r.state)
  THEN [base |-> b, horizon |-> Horizon(b), steps |-> r.steps, st |-> r.state]
  ELSE cache

----------------------------------------------------------------------------
(* The folded baseline: the ref's tip with its queue on top. *)

\* An edit of a file whose text is neither in hand nor stored takes it from the
\* sealed history.
EditWith(s, o, text, otherwise) ==
  IF text = NoText THEN otherwise
  ELSE apply_state_effect([s EXCEPT !.texts = Put(@, o.node, text)], stored, o)

apply_state_effect_with_materialize_fallback(s, o, b) ==
  LET r == apply_state_effect(s, stored, o)
  IN  IF r.err # "missing" \/ o.op # "edit" \/ b = 0 THEN r
      ELSE EditWith(s, o, materialize_edited_text_anchored(b, o.node, s.live[o.node].blob), r)

apply_queued_patch_envelopes(s, patches, b) ==
  FoldLeft(LAMBDA t, run : IF ~Live(t) THEN t
                           ELSE IF IsRename(run[1]) THEN rename_nodes_checked_batch(t, run)
                           ELSE apply_state_effect_with_materialize_fallback(t, run[1], b),
           s, FlattenSeq([i \in DOMAIN patches |-> collect_rename_run(patches[i])]))

resolve_worktree_baseline(ref) ==
  IF tip[ref] = 0 THEN Resolved(NewState, 0) ELSE resolve_baseline_state_with(tip[ref])

Folded(ref, base) ==
  IF queue # <<>> /\ owner = ref THEN apply_queued_patch_envelopes(base.state, queue, tip[ref]) ELSE base.state

resolve_folded_worktree_baseline(ref) == Folded(ref, resolve_worktree_baseline(ref))

CacheAfter(ref, base) == IF tip[ref] = 0 THEN cache ELSE persist(tip[ref], base)

----------------------------------------------------------------------------
(* Replay of bytes (patch_replay/apply.rs): files by path, nodes, and what *)
(* was deleted and not created again at its path.                          *)

NewContent == [files |-> Empty, nodes |-> Empty, deleted |-> Empty, found |-> {}, err |-> "none"]

ApplyDelete(c, o) ==
  IF \/ o.path \notin DOMAIN c.files
     \/ Blob(o.blob.kind, c.files[o.path]) # o.blob
     \/ o.node \in DOMAIN c.nodes /\ (c.nodes[o.node].path # o.path \/ c.nodes[o.node].kind # o.blob.kind)
  THEN Stop(c, "refused")
  ELSE [c EXCEPT !.files = Drop(@, o.path), !.nodes = Drop(@, o.node),
                 !.deleted = Put(@, o.path, o.blob), !.found = @ \cup {o.blob}]

apply_replace_binary(c, o) ==
  IF \/ o.node \notin DOMAIN c.nodes
     \/ c.nodes[o.node].kind # "binary"
     \/ Blob("binary", c.files[c.nodes[o.node].path]) # o.blob
     \/ o.new_blob \notin stored \/ o.new_blob.kind # "binary"
  THEN Stop(c, "refused")
  ELSE [c EXCEPT !.files[c.nodes[o.node].path] = o.new_blob.body]

apply_change_perm(c, o) ==
  IF o.node \in DOMAIN c.nodes /\ c.nodes[o.node].mode = o.mode
  THEN [c EXCEPT !.nodes[o.node].mode = o.new_mode] ELSE Stop(c, "refused")

ApplyEdit(c, o) ==
  IF /\ o.node \in DOMAIN c.nodes
     /\ c.nodes[o.node].kind = "text"
     /\ c.files[c.nodes[o.node].path] = o.old
  THEN [c EXCEPT !.files[c.nodes[o.node].path] = o.new] ELSE Stop(c, "refused")

apply_decoded_operation(c, o) ==
  CASE o.op = "create" ->
         IF o.path \in DOMAIN c.files \/ o.node \in DOMAIN c.nodes \/ o.blob \notin stored
         THEN Stop(c, "refused")
         ELSE [c EXCEPT !.files = Put(@, o.path, o.blob.body), !.deleted = Drop(@, o.path),
                        !.nodes = Put(@, o.node, [path |-> o.path, kind |-> o.blob.kind, mode |-> o.mode])]
    [] o.op = "delete" -> ApplyDelete(c, o)
    [] o.op = "edit" -> ApplyEdit(c, o)
    [] o.op = "replace" -> apply_replace_binary(c, o)
    [] o.op = "perm" -> apply_change_perm(c, o)
    [] OTHER -> Stop(c, "refused")

\* All sources leave before any destination is written.
apply_rename_batch(c, run) ==
  LET r == Range(run)
      rest == Restrict(c.files, DOMAIN c.files \ {x.path : x \in r})
      to(n) == (CHOOSE x \in r : x.node = n).to
  IN  IF /\ Cardinality({x.node : x \in r}) = Len(run)
         /\ Cardinality({x.to : x \in r}) = Len(run)
         /\ \A x \in r : x.node \in DOMAIN c.nodes /\ c.nodes[x.node].path = x.path
         /\ {x.to : x \in r} \cap DOMAIN rest = {}
      THEN [c EXCEPT !.files = [p \in DOMAIN rest \cup {x.to : x \in r} |->
                                  IF p \in DOMAIN rest THEN rest[p]
                                  ELSE c.files[(CHOOSE x \in r : x.to = p).path]],
                     !.nodes = [n \in DOMAIN @ |->
                                  IF n \in {x.node : x \in r} THEN [@[n] EXCEPT !.path = to(n)] ELSE @[n]]]
      ELSE Stop(c, "refused")

apply_operation_sequence(c, patches) ==
  FoldLeft(LAMBDA d, run : IF ~Live(d) THEN d
                           ELSE IF IsRename(run[1]) THEN apply_rename_batch(d, run)
                           ELSE apply_decoded_operation(d, run[1]),
           c, FlattenSeq([i \in DOMAIN patches |-> collect_rename_run(patches[i])]))

\* What was deleted at or below the anchor.
decode_history(patches) ==
  FoldLeft(LAMBDA d, o : CASE o.op = "create" -> Drop(d, o.path)
                           [] o.op = "delete" -> Put(d, o.path, o.blob)
                           [] OTHER -> d, Empty, OpsOf(patches))

replay_state_from_snapshot(manifest) ==
  LET at == {manifest[n].path : n \in DOMAIN manifest}
  IN  [files |-> [p \in at |-> manifest[CHOOSE n \in DOMAIN manifest : manifest[n].path = p].blob.body],
       nodes |-> [n \in DOMAIN manifest |-> [path |-> manifest[n].path, kind |-> manifest[n].blob.kind,
                                             mode |-> manifest[n].mode]]]

\* The place in the chain of the snapshot a replay of bytes starts at: "never"
\* starts at none, "report" at the nearest, "write" at an admitted one.
RECURSIVE find_anchor(_, _, _)
find_anchor(chain, i, how) ==
  IF i = 0 \/ how = "never" THEN 0
  ELSE LET b == chain[i]
           far == Len(chain) - i
           a == IF blocks[b].snap = "none" THEN "none"
                ELSE IF how = "report" THEN (IF validate_snapshot_manifest(b) THEN "Usable" ELSE "Signal")
                ELSE admit(b, far)
       IN  CASE a = "Usable" -> i
             [] a = "Signal" -> 0
             [] a \notin {"none"} /\ far > MAX_ANCHOR_DISTANCE -> 0
             [] OTHER -> find_anchor(chain, i - 1, how)

ReplayFrom(chain, i) ==
  LET seed == replay_state_from_snapshot(blocks[chain[i]].root)
      start == IF i = 0 THEN NewContent
               ELSE [NewContent EXCEPT !.files = seed.files, !.nodes = seed.nodes,
                                       !.deleted = decode_history(PatchesOf(SubSeq(chain, 1, i)))]
  IN  apply_operation_sequence(start, PatchesOf(SubSeq(chain, i + 1, Len(chain))))

replay_chain(chain, how) == ReplayFrom(chain, find_anchor(chain, Len(chain), how))

files_to_replay_manifest(c) ==
  [p \in DOMAIN c.files |->
     LET n == CHOOSE n \in DOMAIN c.nodes : c.nodes[n].path = p
     IN  [blob |-> Blob(c.nodes[n].kind, c.files[p]), mode |-> c.nodes[n].mode]]

\* The content of deleted files, first from what follows a snapshot and then, for
\* what is still wanted, from the whole history.
Searched(chain, first, wanted) == first \cup (replay_chain(chain, "never").found \cap (wanted \ first))

derive_deleted_content(b, wanted) ==
  LET chain == single_parent_chain(b)
  IN  Searched(chain, replay_chain(chain, "report").found \cap wanted, wanted)

----------------------------------------------------------------------------
(* Extract: a third applier, over nodes whose content is in hand or named. *)

NewExtract == [nodes |-> Empty, err |-> "none"]
HeldAt(x, p) == \E n \in DOMAIN x.nodes : x.nodes[n].path = p

ExtractCreate(x, o) ==
  IF HeldAt(x, o.path) \/ o.node \in DOMAIN x.nodes \/ o.blob \notin stored THEN Stop(x, "refused")
  ELSE [x EXCEPT !.nodes = Put(@, o.node, [path |-> o.path, kind |-> o.blob.kind, mode |-> o.mode,
                                           body |-> o.blob.body, resident |-> o.blob.kind = "text"])]

ExtractDelete(x, o) ==
  LET n == x.nodes[o.node]
  IN  IF o.node \in DOMAIN x.nodes /\ n.path = o.path /\ Blob(n.kind, n.body) = o.blob
      THEN [x EXCEPT !.nodes = Drop(@, o.node)] ELSE Stop(x, "refused")

ExtractEdit(x, o) ==
  LET n == x.nodes[o.node]
  IN  IF /\ o.node \in DOMAIN x.nodes /\ n.kind = "text" /\ n.body = o.old
         /\ n.resident \/ Blob("text", n.body) \in stored
      THEN [x EXCEPT !.nodes[o.node].body = o.new, !.nodes[o.node].resident = TRUE]
      ELSE Stop(x, "refused")

ExtractReplace(x, o) ==
  LET n == x.nodes[o.node]
  IN  IF o.node \in DOMAIN x.nodes /\ n.kind = "binary" /\ Blob("binary", n.body) = o.blob /\ o.new_blob \in stored
      THEN [x EXCEPT !.nodes[o.node].body = o.new_blob.body] ELSE Stop(x, "refused")

ExtractPerm(x, o) ==
  IF o.node \in DOMAIN x.nodes /\ x.nodes[o.node].mode = o.mode
  THEN [x EXCEPT !.nodes[o.node].mode = o.new_mode] ELSE Stop(x, "refused")

apply_one_for_extract(x, o) ==
  CASE o.op = "create" -> ExtractCreate(x, o)
    [] o.op = "delete" -> ExtractDelete(x, o)
    [] o.op = "edit" -> ExtractEdit(x, o)
    [] o.op = "replace" -> ExtractReplace(x, o)
    [] o.op = "perm" -> ExtractPerm(x, o)
    [] OTHER -> Stop(x, "refused")

apply_rename_batch_for_extract(x, run) ==
  LET r == Range(run)
      moved == {y.node : y \in r}
  IN  IF /\ Cardinality(moved) = Len(run)
         /\ Cardinality({y.to : y \in r}) = Len(run)
         /\ \A y \in r : y.node \in DOMAIN x.nodes /\ x.nodes[y.node].path = y.path
         /\ \A n \in DOMAIN x.nodes \ moved : x.nodes[n].path \notin {y.to : y \in r}
      THEN [x EXCEPT !.nodes = [n \in DOMAIN @ |->
              IF n \in moved THEN [@[n] EXCEPT !.path = (CHOOSE y \in r : y.node = n).to] ELSE @[n]]]
      ELSE Stop(x, "refused")

seed_from_manifest(manifest) ==
  [NewExtract EXCEPT !.nodes = [n \in DOMAIN manifest |->
     [path |-> manifest[n].path, kind |-> manifest[n].blob.kind, mode |-> manifest[n].mode,
      body |-> manifest[n].blob.body, resident |-> FALSE]]]

\* The nearest admitted snapshot within reach, or 0.
RECURSIVE search_admitted_anchor(_, _)
search_admitted_anchor(chain, i) ==
  IF i = 0 THEN 0
  ELSE LET a == IF blocks[chain[i]].snap = "none" THEN "none" ELSE admit(chain[i], Len(chain) - i)
       IN  CASE a = "Usable" -> i
             [] a \in {"TooFar", "Signal"} -> 0
             [] OTHER -> search_admitted_anchor(chain, i - 1)

\* Whether a replay from the root is refused as too long.
refuse_past_the_bound_unless_allowed(chain) == Len(chain) > MAX_ANCHOR_DISTANCE + 1

apply_operations_for_extract(x, patches) ==
  FoldLeft(LAMBDA y, run : IF ~Live(y) THEN y
                           ELSE IF IsRename(run[1]) THEN apply_rename_batch_for_extract(y, run)
                           ELSE apply_one_for_extract(y, run[1]),
           x, FlattenSeq([i \in DOMAIN patches |-> collect_rename_run(patches[i])]))

replay_for_extract(chain) ==
  LET i == search_admitted_anchor(chain, Len(chain))
      start == IF i = 0 THEN NewExtract ELSE seed_from_manifest(blocks[chain[i]].root)
  IN  IF i = 0 /\ refuse_past_the_bound_unless_allowed(chain) THEN Stop(NewExtract, "too far")
      ELSE apply_operations_for_extract(start, PatchesOf(SubSeq(chain, i + 1, Len(chain))))

ExtractFiles(x) ==
  [p \in {x.nodes[n].path : n \in DOMAIN x.nodes} |->
     LET n == CHOOSE n \in DOMAIN x.nodes : x.nodes[n].path = p
     IN  [blob |-> Blob(x.nodes[n].kind, x.nodes[n].body), mode |-> x.nodes[n].mode]]

----------------------------------------------------------------------------
(* Sealing a block. *)

\* The whole lineage replayed, every root compared.
resolved_parent_state(b, held) == FoldChecked(NewState, single_parent_chain(b), held)

\* The state after the patches, and the blocks the derivation has confirmed.
derive_candidate(parent, patches, held) ==
  LET From(anchored) == IF anchored # None THEN anchored
                        ELSE [state |-> resolved_parent_state(parent, held),
                              folded |-> Range(single_parent_chain(parent))]
      Onto(start) == [state |-> IF Live(start.state) THEN apply_patches(start.state, held, patches)
                                ELSE start.state,
                      confirmed |-> start.folded]
  IN  Onto(From(IF parent = 0 THEN None ELSE anchored_parent_state(parent, held)))

\* No snapshot among the CADENCE - 1 blocks at or below the parent.
checkpoint_due(parent) ==
  LET chain == single_parent_chain(parent)
  IN  \A i \in DOMAIN chain : Len(chain) - i + 1 < CHECKPOINT_CADENCE => blocks[chain[i]].snap = "none"

\* The texts a snapshot needs are stored with it; what is neither stored nor in
\* hand fails it.
SnapshotTexts(s, held) ==
  {s.live[n].blob : n \in {m \in DOMAIN s.live : s.live[m].blob \notin held}}

write_checkpoint_snapshot(s, held) ==
  \A n \in DOMAIN s.live : s.live[n].blob \notin held =>
     n \in DOMAIN s.texts /\ s.live[n].blob = text_blob_id(s.texts[n])

\* Mutant: content that only the history holds is not put in the store.
store_nothing_for_candidate(parent, patches) == stored

\* What a restored file holds may be in no blob: it is derived from the history.
store_derived_content_for_candidate(parent, patches) ==
  LET wanted == {o.blob : o \in {q \in Range(OpsOf(patches)) : q.op = "create"}} \ stored
  IN  IF parent = 0 \/ wanted = {} THEN stored ELSE stored \cup derive_deleted_content(parent, wanted)

\* The block sealed over parent with these patches, or why there is none.
CheckedBlock(parents, mainline, patches, held, d, due) ==
  IF ~Live(d.state) THEN [err |-> d.state.err]
  ELSE IF ~validate_no_path_collisions(d.state) THEN [err |-> "collision"]
  ELSE IF due /\ ~write_checkpoint_snapshot(d.state, held) THEN [err |-> "snapshot"]
  ELSE [err |-> "none",
        block |-> [parents |-> parents, mainline |-> mainline, patches |-> patches,
                   root |-> d.state.live, snap |-> IF due THEN "sound" ELSE "none"],
        stored |-> held \cup (IF due THEN SnapshotTexts(d.state, held) ELSE {}),
        confirmed |-> d.confirmed]

SealHolding(parents, mainline, patches, parent, held) ==
  CheckedBlock(parents, mainline, patches, held, derive_candidate(parent, patches, held), checkpoint_due(parent))

seal_block(parents, mainline, patches) ==
  LET parent == IF mainline # 0 THEN mainline ELSE IF parents = <<>> THEN 0 ELSE parents[1]
  IN  SealHolding(parents, mainline, patches, parent, store_derived_content_for_candidate(parent, patches))

SealQueue == seal_block(IF tip[owner] = 0 THEN <<>> ELSE <<tip[owner]>>, 0, queue)

----------------------------------------------------------------------------
(* Rolling back: the inverse of the whole history of a ref. *)

InverseExistence(o) == [o EXCEPT !.op = IF @ = "create" THEN "delete" ELSE "create"]
InverseContent(o) == IF o.op = "edit" THEN [o EXCEPT !.old = o.new, !.new = o.old]
                     ELSE [o EXCEPT !.blob = o.new_blob, !.new_blob = o.blob]
InversePerm(o) == [o EXCEPT !.mode = o.new_mode, !.new_mode = o.mode]

derive_inverse_operation(o) ==
  CASE o.op \in {"create", "delete"} -> InverseExistence(o)
    [] o.op \in {"edit", "replace"} -> InverseContent(o)
    [] o.op = "perm" -> InversePerm(o)

\* Nothing when the history is empty or holds a rename.
prepare_patch_inverse_plan(ref) ==
  LET ops == OpsOf(PatchesOf(single_parent_chain(tip[ref])))
  IN  IF ops = <<>> \/ \E i \in DOMAIN ops : IsRename(ops[i]) THEN <<>>
      ELSE Reverse([i \in DOMAIN ops |-> derive_inverse_operation(ops[i])])

----------------------------------------------------------------------------
(* What a commit can find in the worktree: one change, a swap of two files,*)
(* or a file replaced by another at its path.                              *)

Fresh == minted + 1
NewFile(path, node) ==
  [op |-> "create", node |-> node, path |-> path, blob |-> Blob(KindOf[node], 0), mode |-> 0]
Removed(n, s) ==
  [op |-> "delete", node |-> n, path |-> s.live[n].path, blob |-> s.live[n].blob, mode |-> s.live[n].mode]
Moved(n, s, to) == [op |-> "rename", node |-> n, path |-> s.live[n].path, to |-> to]
Changed(n, s) ==
  LET b == s.live[n].blob
      next == (b.body + 1) % 3
  IN  IF b.kind = "text" THEN [op |-> "edit", node |-> n, old |-> b.body, new |-> next]
      ELSE [op |-> "replace", node |-> n, blob |-> b, new_blob |-> Blob("binary", next)]
Chmod(n, s) == [op |-> "perm", node |-> n, mode |-> s.live[n].mode, new_mode |-> 1 - s.live[n].mode]

Authored(s) ==
  LET live == DOMAIN s.live
      free == {p \in Paths : ~Occupied(s, p)}
      new == IF Fresh > MaxNodes THEN {} ELSE {Fresh}
  IN  UNION {{<<Changed(n, s)>>, <<Chmod(n, s)>>, <<Removed(n, s)>>} : n \in live}
      \cup {<<Moved(n, s, p)>> : n \in live, p \in free}
      \cup {<<Moved(m, s, s.live[n].path), Moved(n, s, s.live[m].path)>> :
              <<m, n>> \in {x \in live \X live : x[1] < x[2]}}
      \cup {<<NewFile(p, n)>> : p \in free, n \in new}
      \cup {<<Removed(m, s), NewFile(s.live[m].path, n)>> : m \in live, n \in new}

\* The blobs authoring writes: of new files and of replaced binaries.
BlobsOf(ops) == {o.blob : o \in {q \in Range(ops) : q.op = "create"}}
                \cup {o.new_blob : o \in {q \in Range(ops) : q.op = "replace"}}

----------------------------------------------------------------------------
Init ==
  /\ blocks = <<>>
  /\ tip = [r \in Refs |-> 0]
  /\ queue = <<>>
  /\ owner \in Refs
  /\ stored = {}
  /\ cache = None
  /\ verified = {}
  /\ adopted = TRUE
  /\ minted = 0
  /\ faults = 0

\* `prikk commit`: the folded baseline, refreshing the cache, then one patch.
Author(s) ==
  /\ Live(s)
  /\ \E ops \in Authored(s) :
       /\ queue' = Append(queue, ops)
       /\ stored' = stored \cup BlobsOf(ops)
       /\ minted' = minted + Cardinality({i \in DOMAIN ops : ops[i].op = "create"})

CommitOver(ref, base) ==
  /\ Author(Folded(ref, base))
  /\ owner' = ref
  /\ cache' = CacheAfter(ref, base)

Commit(ref) ==
  /\ Len(queue) < MaxQueue
  /\ queue = <<>> \/ owner = ref
  /\ CommitOver(ref, resolve_worktree_baseline(ref))
  /\ UNCHANGED <<blocks, tip, verified, adopted, faults>>

\* A command that reads the folded baseline and refreshes the cache.
Look(ref) ==
  /\ cache' = CacheAfter(ref, resolve_worktree_baseline(ref))
  /\ cache' # cache
  /\ UNCHANGED <<blocks, tip, queue, owner, stored, verified, adopted, minted, faults>>

append_rollback_draft(ref) ==
  /\ queue = <<>>
  /\ tip[ref] # 0
  /\ prepare_patch_inverse_plan(ref) # <<>>
  /\ Live(replay_chain(single_parent_chain(tip[ref]), "never"))
  /\ queue' = <<prepare_patch_inverse_plan(ref)>>
  /\ owner' = ref
  /\ UNCHANGED <<blocks, tip, stored, cache, verified, adopted, minted, faults>>

Sealed(ref, r) ==
  /\ Len(blocks) < MaxBlocks
  /\ r.err = "none"
  /\ blocks' = Append(blocks, r.block)
  /\ tip' = [tip EXCEPT ![ref] = Len(blocks')]
  /\ stored' = r.stored
  /\ verified' = verified \cup r.confirmed \cup {Len(blocks')}

Seal ==
  /\ queue # <<>>
  /\ Sealed(owner, SealQueue)
  /\ queue' = <<>>
  /\ UNCHANGED <<owner, cache, adopted, minted, faults>>

CreateBranch(ref) ==
  /\ tip[ref] = 0
  /\ queue = <<>> \/ owner # ref
  /\ \E other \in Refs : tip[other] # 0 /\ tip' = [tip EXCEPT ![ref] = tip[other]]
  /\ UNCHANGED <<blocks, queue, owner, stored, cache, verified, adopted, minted, faults>>

RECURSIVE Ancestors(_)
Ancestors(b) == IF b = 0 THEN {} ELSE {b} \cup UNION {Ancestors(p) : p \in Range(blocks[b].parents)}

\* The patches of other's blocks that ref has not got, in order.
Candidates(ref, other) ==
  LET mine == UNION {Range(blocks[b].patches) : b \in Ancestors(tip[ref])}
      theirs == SetToSortSeq(Ancestors(tip[other]) \ Ancestors(tip[ref]), <)
  IN  SelectSeq(FlattenSeq([i \in DOMAIN theirs |-> blocks[theirs[i]].patches]), LAMBDA p : p \notin mine)

SealMerge(ref, other) ==
  /\ queue = <<>>
  /\ tip[ref] # 0 /\ tip[other] # 0
  /\ tip[other] \notin Ancestors(tip[ref]) /\ tip[ref] \notin Ancestors(tip[other])
  /\ Horizon(tip[ref]) = Horizon(tip[other])
  /\ Sealed(ref, seal_block(<<tip[ref], tip[other]>>, tip[ref], Candidates(ref, other)))
  /\ UNCHANGED <<queue, owner, cache, adopted, minted, faults>>

\* A block that another tool made is adopted on top of a ref.  Its root need not
\* follow from its patches and its snapshot need not agree with its root.
AdoptForeign(ref) ==
  LET s == Truth(tip[ref])
  IN  /\ faults < MaxFaults
      /\ Len(blocks) < MaxBlocks
      /\ queue = <<>>
      /\ tip[ref] # 0
      /\ \E n \in DOMAIN s.live, right \in BOOLEAN, snap \in {"none", "sound", "unsound"} :
           LET ops == <<Changed(n, s)>>
               t == apply_patch(s, Everything, ops)
               root == IF right THEN t.live ELSE s.live
           IN  /\ blocks' = Append(blocks, [parents |-> <<tip[ref]>>, mainline |-> 0, patches |-> <<ops>>,
                                            root |-> root, snap |-> snap])
               /\ stored' = stored \cup BlobsOf(ops)
                                   \cup (IF snap = "sound" THEN {root[m].blob : m \in DOMAIN root} ELSE {})
      /\ tip' = [tip EXCEPT ![ref] = Len(blocks')]
      /\ faults' = faults + 1
      /\ UNCHANGED <<queue, owner, cache, verified, adopted, minted>>

\* `prikk verify` records every block whose lineage replays to its roots.
RunVerify ==
  /\ verified' = verified \cup {b \in DOMAIN blocks : Live(resolved_parent_state(b, stored))}
  /\ verified' # verified
  /\ UNCHANGED <<blocks, tip, queue, owner, stored, cache, adopted, minted, faults>>

Lose ==
  /\ faults < MaxFaults
  /\ faults' = faults + 1
  /\ \/ cache # None /\ cache' = None /\ UNCHANGED <<verified, adopted>>
     \/ verified # {} /\ verified' = {} /\ UNCHANGED <<cache, adopted>>
     \/ adopted' = ~adopted /\ UNCHANGED <<cache, verified>>
  /\ UNCHANGED <<blocks, tip, queue, owner, stored, minted>>

Next ==
  \/ \E ref \in Refs : Commit(ref) \/ Look(ref) \/ append_rollback_draft(ref) \/ CreateBranch(ref)
                       \/ AdoptForeign(ref)
  \/ \E ref, other \in Refs : SealMerge(ref, other)
  \/ Seal
  \/ RunVerify
  \/ Lose

Spec == Init /\ [][Next]_vars

----------------------------------------------------------------------------
(* What must hold. *)

\* Whatever the cache has been through (steps, anchors, losses, merges, blocks made
\* elsewhere), the state it hands to the next `commit` is the one the patches give,
\* deleted nodes included (lifecycle_cache/incremental.rs).
CacheAgrees == cache # None => Facts(cache.st) = Facts(Truth(cache.base))

FilesOf(s) ==
  [p \in {s.live[n].path : n \in DOMAIN s.live} |->
     [blob |-> s.live[NodeAt(s, p)].blob, mode |-> s.live[NodeAt(s, p)].mode]]

Tips == {tip[r] : r \in Refs} \ {0}

\* The three appliers and their short cuts give one tree: an anchored derivation
\* is the full one, what checkout writes and deletes is what a replay from the root
\* gives, a report agrees unless a snapshot in the history lies, and extract agrees
\* or says that it would have to read too far.  (Looked at between sessions: a
\* queued patch changes none of them.)
RoutesAgree ==
  queue = <<>> => \A b \in Tips :
    LET chain == single_parent_chain(b)
        truth == Truth(b)
        anchored == anchored_parent_state(b, stored)
        full == replay_chain(chain, "never")
        written == replay_chain(chain, "write")
        report == replay_chain(chain, "report")
        extracted == replay_for_extract(chain)
    IN  /\ Live(replay_lineage(b)) /\ Facts(replay_lineage(b)) = Facts(truth)
        /\ anchored # None => Facts(anchored.state) = Facts(truth)
        /\ Live(full) /\ files_to_replay_manifest(full) = FilesOf(truth)
        /\ Live(written) /\ files_to_replay_manifest(written) = FilesOf(truth)
                         /\ written.deleted = full.deleted
        /\ Honest(b) => Live(report) /\ files_to_replay_manifest(report) = FilesOf(truth)
                                     /\ report.deleted = full.deleted
        /\ Live(extracted) => ExtractFiles(extracted) = FilesOf(truth)
        /\ extracted.err # "refused"

\* A queued patch can be sealed: nothing `commit` or `rollback-draft` queues over a
\* sound history fails at `seal`, unless two paths differ only in case.
WhatIsQueuedSeals ==
  queue # <<>> /\ (tip[owner] = 0 \/ Honest(tip[owner])) => SealQueue.err \in {"none", "collision"}

\* What the next `commit` compares the worktree with is the ref's tree with the
\* queued patches on top, wherever the text an edit needs has to be found; only a
\* rollback draft that brings back content no blob holds cannot be folded in before
\* it is sealed.
QueueFoldsIn ==
  queue # <<>> =>
    LET base == IF tip[owner] = 0 THEN NewState ELSE Truth(tip[owner])
        Good(folded) == Facts(folded) = Facts(apply_patches(base, Everything, queue)) /\ Live(folded)
    IN  \/ Good(resolve_folded_worktree_baseline(owner))
        \/ \E o \in Range(OpsOf(queue)) : o.op = "create" /\ o.blob \notin stored

\* The record of confirmed blocks names only blocks whose whole lineage has the
\* roots its patches give, however the derivations that wrote it were cut short.
RecordIsEarned == \A b \in verified : Honest(b)

\* Sealing puts a snapshot within reach of every block whose history was all
\* sealed here.
SnapshotWithinReach ==
  faults = 0 =>
    \A b \in DOMAIN blocks :
      LET chain == single_parent_chain(b)
      IN  \E i \in DOMAIN chain : Len(chain) - i <= MAX_ANCHOR_DISTANCE /\ blocks[chain[i]].snap # "none"
=============================================================================
