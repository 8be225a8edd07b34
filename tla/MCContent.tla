------------------------------ MODULE MCContent ------------------------------
(***************************************************************************)
(* What users' content goes through: the payloads it is encoded in         *)
(* (Payload), the edits of texts (TextSpan) and the worktree (Worktree).   *)
(* A behaviour runs one of the three and leaves the others as they start.  *)
(***************************************************************************)
EXTENDS Payload, TLC

CONSTANTS NoRef, Branches, m

VARIABLES part,
          before, text, op, version, phase,
          blocks, tip, current, queue, owner, disk, decl, record, dirty, prov, todo, minted, acts, crashes,
          base, left, lag

(* Small payloads of every kind. *)

Plain(vals) == [i \in DOMAIN vals |-> [val |-> vals[i], sub |-> <<>>]]
None == [t \in Tags |-> <<>>]
\* The payloads with these values by tag.
Made(k, sv, choice) ==
  {[kind |-> k, schema |-> sv, p |-> [t \in Tags |-> IF t \in DOMAIN choice THEN Plain(v[t]) ELSE <<>>]] :
     v \in FoldLeft(LAMBDA all, c : {Append(x, y) : x \in all, y \in c}, {<<>>}, choice)}

Ones == {<<1>>, <<2>>}
Perhaps == {<<>>, <<1>>}
Lists == {<<>>, <<1>>, <<1, 2>>, <<2, 1>>, <<1, 1>>}
V(n) == {<<n>>}

Flat ==
  Made("blob", 1, <<V(1), {<<0>>, <<2>>}, {<<0>>, <<2>>}>>)
  \cup Made("block", 1, <<Lists, V(1), {<<>>, <<2, 1>>}, V(1), Perhaps, Perhaps, {<<>>}>>)
  \cup Made("ref_state", 1, <<V(1), V(1), V(1), Perhaps, Lists, V(1), {<<>>}>>)
  \cup Made("ref_state", 2, <<V(1), V(1), V(1), {<<>>}, {<<1>>}, V(2), Perhaps>>)
  \cup Made("ref_update", 1, <<V(1), Perhaps, V(1), V(1), V(0), V(1), V(1)>>)
  \cup Made("tag", 1, <<V(1), V(1), {<<>>, <<0>>}, V(1), V(1), V(1), V(1)>>)
  \cup Made("recognition_claim", 1, <<V(1), Lists, {<<>>, <<2, 1>>}>>)
  \cup Made("plugin_result", 1, <<V(1), V(1), V(1), V(1), V(1)>>)
  \cup Made("create_file", 4, <<V(1), {<<0>>, <<1>>}, V(1), {<<0>>, <<1>>}>>)
  \cup Made("delete_node", 4, <<V(1), V(1), Ones, V(1), {<<>>}, {<<0>>, <<1>>}>>)
  \cup Made("delete_node", 4, <<V(1), V(1), Ones, {<<>>}, V(1), {<<>>}>>)
  \cup Made("edit_text", 4, <<V(1), V(1), Ones, V(1), V(1), {<<1>>, <<3>>}, Perhaps, {<<>>}, Ones,
                              {<<>>, <<0>>, <<1>>}, Perhaps>>)
  \cup Made("rename_path", 4, <<V(1), {<<0>>, <<1>>}, Ones>>)
  \cup Made("change_perm", 4, <<V(1), {<<0>>, <<1>>}, Ones>>)
  \cup Made("create_symlink", 4, <<V(1), V(1), V(0)>>)
  \cup Made("replace_binary", 4, <<V(1), V(1), V(2)>>)
  \cup Made("node_record", 1, <<V(1), V(1), V(1), V(1), V(1), {<<>>}>>)
  \cup Made("node_record", 1, <<V(1), V(1), V(2), {<<>>}, {<<>>}, V(0)>>)

With(k, sv, plain, t, items) ==
  [kind |-> k, schema |-> sv, p |-> [plain EXCEPT ![t] = [i \in DOMAIN items |-> [val |-> 0, sub |-> items[i]]]]]

Result(id) == [None EXCEPT ![1] = Plain(<<id>>), ![2] = Plain(<<1>>), ![3] = Plain(<<1>>),
                           ![4] = Plain(<<1>>), ![5] = Plain(<<1>>)]
AttestationBase == [None EXCEPT ![1] = Plain(<<1>>), ![2] = Plain(<<1>>), ![3] = Plain(<<1>>),
                                ![5] = Plain(<<1>>), ![6] = Plain(<<1>>), ![7] = Plain(<<0>>)]
Attestations ==
  {With("attestation", 1, AttestationBase, 4, [i \in DOMAIN ids |-> Encode("plugin_result", Result(ids[i]))]) :
     ids \in {<<>>, <<1>>, <<1, 2>>, <<2, 1>>}}

Operation(n, t, k, p) ==
  Encode("operation", [None EXCEPT ![1] = Plain(<<n>>), ![t] = <<[val |-> 0, sub |-> Encode(k, p)]>>])
Renamed == [None EXCEPT ![1] = Plain(<<1>>), ![2] = Plain(<<1>>), ![3] = Plain(<<2>>)]
Replaced == [None EXCEPT ![1] = Plain(<<1>>), ![2] = Plain(<<1>>), ![3] = Plain(<<2>>)]
Patches ==
  {With("patch", 4, [None EXCEPT ![3] = Plain(i), ![5] = Plain(u), ![6] = Plain(w)], 1, ops) :
     i \in Perhaps, u \in {<<>>, <<2>>}, w \in {<<>>, <<0>>, <<1>>},
     ops \in {<<>>, <<Operation(1, 13, "rename_path", Renamed)>>,
              <<Operation(1, 13, "rename_path", Renamed), Operation(2, 16, "replace_binary", Replaced)>>,
              <<Operation(2, 13, "rename_path", Renamed)>>}}

FileRecord(path, node) == [None EXCEPT ![1] = Plain(<<path>>), ![2] = Plain(<<node>>), ![3] = Plain(<<1>>),
                                       ![4] = Plain(<<1>>), ![5] = Plain(<<1>>)]
LinkRecord(path, node) == [None EXCEPT ![1] = Plain(<<path>>), ![2] = Plain(<<node>>), ![3] = Plain(<<2>>),
                                       ![6] = Plain(<<0>>)]
CacheBase == [None EXCEPT ![1] = Plain(<<1>>), ![2] = Plain(<<1>>), ![3] = Plain(<<1>>), ![4] = Plain(<<0>>)]
Caches ==
  {With("cache", 1, With("cache", 1, CacheBase, 10, live).p, 11, gone) :
     live \in {<<>>, <<Encode("node_record", FileRecord(1, 1)), Encode("node_record", LinkRecord(2, 2))>>},
     gone \in {<<>>, <<Encode("node_record", FileRecord(1, 3))>>}}

Leaf(path, node, k, mode) ==
  Encode("leaf", [None EXCEPT ![1] = Plain(<<path>>), ![2] = Plain(<<node>>), ![3] = Plain(<<k>>),
                              ![4] = Plain(<<mode>>), ![5] = Plain(<<1>>)])
Snapshots ==
  {With("snapshot", 1, None, 1, leaves) :
     leaves \in {<<>>, <<Leaf(1, 1, 1, 1)>>, <<Leaf(1, 1, 1, 1), Leaf(2, 2, 2, 0)>>,
                 <<Leaf(2, 1, 1, 1), Leaf(1, 2, 1, 1)>>}}

SomePayloads == Flat \cup Attestations \cup Patches \cup Caches \cup Snapshots

SomeSignatures ==
  [key : {0, 1, 2}, role : {1}, bytes : {0, 1, 2, 3}, at : {1}] \cup [key : {1}, role : {1, 2}, bytes : {1}, at : {1, 2}]

-----------------------------------------------------------------------------
(* Texts of up to four bytes; one lead and two continuations, so that two    *)
(* characters may share their first byte.                                   *)

Spans == INSTANCE TextSpan WITH
  Ones <- {"a", "b"}, Leads <- {"L"}, Continuations <- {"x", "y"}, TEXT_ANCHOR_WINDOW <- 1, MaxLen <- 4,
  base <- before

-----------------------------------------------------------------------------
(* Worktrees of three paths on two branches. *)

SameCase == [p \in 1 .. 3 |-> p]

Tree == INSTANCE Worktree WITH
  Refs <- Branches, Paths <- 1 .. 3, ascii_fold <- SameCase, Bodies <- {0, 1}, Modes <- {"f"}, Ignored <- {},
  Tangled <- FALSE, MaxBlocks <- 2, MaxQueue <- 1, MaxNodes <- 3, MaxActs <- 4, MaxCrashes <- 1

New(n, p) == [op |-> "create", node |-> n, path |-> p, blob |-> Tree!text_blob_id(0), mode |-> "f"]
NoHistory == <<>>
TwoFiles == <<<<New(1, 1), New(2, 2)>>>>

\* A history that deleted one file and moved another to its path.
MovedOver == TwoFiles \o <<<<[New(2, 2) EXCEPT !.op = "delete"]>>,
                           <<[op |-> "rename", node |-> 1, path |-> 1, to |-> 2]>>>>

-----------------------------------------------------------------------------
payloadVars == <<kind, schema, made, fields, edits, sigs>>
spanVars == <<before, text, op, version, phase>>
treeVars == <<blocks, tip, current, queue, owner, disk, decl, record, dirty, prov, todo, minted, acts, crashes,
              base, left, lag>>
allVars == <<part, payloadVars, spanVars, treeVars>>

ContentInit ==
  /\ part \in {"payload", "spans", "tree"}
  /\ Init /\ Spans!Init
  /\ \E first \in {NoHistory, TwoFiles} : (part # "tree" => first = NoHistory) /\ Tree!InitWith(first)
  /\ part # "payload" => kind = "envelope"
  /\ part # "spans" => before = <<>> /\ version = 1

ContentNext ==
  \/ part = "payload" /\ Next /\ UNCHANGED <<part, spanVars, treeVars>>
  \/ part = "spans" /\ Spans!Next /\ UNCHANGED <<part, payloadVars, treeVars>>
  \/ part = "tree" /\ Tree!Next /\ UNCHANGED <<part, payloadVars, spanVars>>

ContentSpec == ContentInit /\ [][ContentNext]_allVars

\* The history above, not checked out yet.
FreshInit ==
  /\ part = "tree" /\ Init /\ kind = "envelope" /\ Spans!Init /\ before = <<>> /\ version = 1
  /\ blocks = <<[parent |-> 0, patches |-> MovedOver,
                 state |-> [Tree!apply_patches(Tree!NewState, Tree!AllBlobs, MovedOver) EXCEPT !.texts = Tree!Empty]]>>
  /\ current = m /\ tip = [r \in Branches |-> IF r = m THEN 1 ELSE 0]
  /\ queue = <<>> /\ owner = NoRef /\ disk = Tree!Empty /\ base = Tree!Empty /\ decl = Tree!Empty
  /\ record = Tree!RecordOf(m, 0) /\ dirty = Tree!NotDirty /\ prov = FALSE /\ todo = <<>> /\ minted = 2
  /\ acts = 0 /\ crashes = 0 /\ left = NoRef /\ lag = FALSE
FreshSpec == FreshInit /\ [][ContentNext]_allVars

Interchangeable == Permutations(Branches)

-----------------------------------------------------------------------------
\* An encoder and its decoder are inverses of each other (Payload!CodecsAreInverse).
PayloadsAreExact == part = "payload" => CodecsAreInverse

\* An edit arrives whole, its inverse undoes it and its id names one place
\* (TextSpan!SpansAreExact).
SpansAreExact == part = "spans" => Spans!SpansAreExact

\* No command reverts, overwrites or removes work that is nowhere else
\* (Worktree!WorkIsNotLost).
WorkIsNotLost == Tree!WorkIsNotLost

\* What is queued applies and an interrupted switch can be resumed
\* (Worktree!WorkGoesOn).
WorkGoesOn == part = "tree" => Tree!WorkGoesOn

\* A checkout removes no file of the state it checks out
\* (Worktree!RemovesOnlyTheDeleted).
RemovesOnlyTheDeleted == Tree!RemovesOnlyTheDeleted
=============================================================================
