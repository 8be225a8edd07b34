------------------------------ MODULE Payload ------------------------------
(* The canonical payloads: what each encoder writes, what each decoder takes, *)
(* and the signatures of an envelope.                                         *)
(*                                                                            *)
(* A payload's bytes are the sequence of its fields, each a tag, a wire type  *)
(* and a value; the value of a nested record is a sequence of fields again.   *)
(* A value is what the readers can tell of it: 3 is neither UTF-8 nor a known *)
(* code, 4 has a length no fixed-width reader takes, 0 is the empty text, the *)
(* zero node id, a path, file mode or anchor length that validation refuses,  *)
(* and the hash of text n is n.                                               *)
EXTENDS Integers, Sequences, FiniteSets, SequencesExt

CONSTANTS
  Samples,    \* the payloads authored, each [kind, schema, p]
  Signatures, \* the signatures that may be added to an envelope
  MaxEdits    \* bound on the fields changed in one byte string

VARIABLES
  kind,   \* which payload, or "envelope"
  schema, \* the schema version of the envelope that carries it
  made,   \* the payload as it was authored, by tag
  fields, \* the bytes to decode
  edits,  \* how many fields have been changed since they were encoded
  sigs    \* the signatures of the envelope

vars == <<kind, schema, made, fields, edits, sigs>>

Tags == 1..16
Values == 0..4
Wires == {"bytes", "string", "id", "u32", "u64", "bool", "enum", "path", "record", "item"}

F(tag, wire, val, sub) == [tag |-> tag, wire |-> wire, val |-> val, sub |-> sub]
Val(p, t) == p[t][1].val
Has(p, t) == p[t] # <<>>

\* A payload value, by tag.
Parsed(fs) == [t \in Tags |-> SelectSeq(fs, LAMBDA f : f.tag = t)]

--------------------------------------------------------------------------------
(* Readers: the wire type each requires and the values it takes. *)

read_string == [wire |-> "string", dom |-> {0, 1, 2, 4}]
read_bytes == [wire |-> "bytes", dom |-> Values]
read_object_id == [wire |-> "id", dom |-> 0..3]
read_u32 == [wire |-> "u32", dom |-> 0..3]
read_u64 == [wire |-> "u64", dom |-> 0..3]
read_bool == [wire |-> "bool", dom |-> {0, 1}]
read_hash == [wire |-> "bytes", dom |-> 0..3]
read_enum == [wire |-> "enum", dom |-> {1, 2}]
read_repo_path == [wire |-> "path", dom |-> {1, 2}]
read_node_id == [wire |-> "bytes", dom |-> 1..3]
\* Reads 32 bytes whatever the wire type.
read_array == [wire |-> "any", dom |-> 0..3]

Rule(tag, reader, card, of) == [tag |-> tag, wire |-> reader.wire, dom |-> reader.dom, card |-> card, of |-> of]
One(tag, reader) == Rule(tag, reader, "one", "")
Opt(tag, reader) == Rule(tag, reader, "opt", "")
Many(tag, reader) == Rule(tag, reader, "many", "")
Records(tag, wire, card, of) == Rule(tag, [wire |-> wire, dom |-> Values], card, of)
Skipped(tag) == Rule(tag, [wire |-> "any", dom |-> Values], "many", "")

\* Mutant: fields in any order.
next_field_any(fs) == \A i \in DOMAIN fs : fs[i].tag # 0
\* The next field's tag is never 0 and never below the last one's.
next_field(fs) == \A i \in DOMAIN fs : fs[i].tag # 0 /\ (i > 1 => fs[i - 1].tag <= fs[i].tag)

is_strictly_sorted(s) == \A i \in 1..Len(s) - 1 : s[i].val < s[i + 1].val

is_canonical_file_mode(m) == m # 0
TextOk(t) == t # 3
AnchorLenOk(n) == n # 0

--------------------------------------------------------------------------------
(* Decoders: the fields each takes, and what it asks of them together. *)

BlobFields == {One(1, read_enum), One(2, read_bytes), One(3, read_u64)}
BlobChecks(p) == Val(p, 3) = Val(p, 2)

BlockFields ==
  {Many(1, read_object_id), One(2, read_enum), Many(3, read_object_id), One(4, read_array),
   Opt(5, read_object_id), Opt(6, read_object_id), Opt(7, read_object_id)}
BlockChecks(p) == is_strictly_sorted(p[1])

\* The closed field exists from schema 2 on, and is only ever true.
RefStateFields(sv) ==
  {One(1, read_string), One(2, read_object_id), One(3, read_u64), Opt(4, read_object_id),
   Many(5, read_object_id), One(6, read_enum)}
  \cup IF sv < 2 THEN {} ELSE {Opt(7, [read_bool EXCEPT !.dom = {1}])}
RefStateChecks(p) == is_strictly_sorted(p[5])

RefUpdateFields ==
  {One(1, read_string), Opt(2, read_object_id), One(3, read_object_id), One(4, read_object_id),
   One(5, read_u64), One(6, read_u64), One(7, read_string)}

TagFields ==
  {One(1, read_string), One(2, read_object_id), Opt(3, read_string), One(4, read_u64),
   One(5, read_string), One(6, read_array), One(7, read_u64)}

RecognitionClaimFields == {One(1, read_object_id), Many(2, read_object_id), Many(3, read_object_id)}
RecognitionClaimChecks(p) == Has(p, 2)

PluginResultFields ==
  {One(1, read_string), One(2, read_string), One(3, read_enum), One(4, read_bytes), One(5, read_u32)}

AttestationFields ==
  {One(1, read_object_id), One(2, read_string), One(3, read_hash),
   Records(4, "item", "many", "plugin_result"), One(5, read_enum), One(6, read_u64), One(7, read_bool)}
results_sorted_by_plugin_id(p) ==
  LET id(i) == Val(Parsed(p[4][i].sub), 1) IN \A i \in 1..Len(p[4]) - 1 : id(i) < id(i + 1)

CreateFileFields == {One(1, read_repo_path), One(2, read_node_id), One(3, read_object_id), One(4, read_u32)}
CreateFileChecks(p) == is_canonical_file_mode(Val(p, 4))

DeleteNodeFields ==
  {One(1, read_repo_path), One(2, read_node_id), One(3, read_enum), Opt(4, read_object_id),
   Opt(5, read_string), Opt(6, read_u32)}
DeleteNodeChecks(p) ==
  IF Val(p, 3) = 1
  THEN ~Has(p, 5) /\ Has(p, 4) /\ Has(p, 6) /\ is_canonical_file_mode(Val(p, 6))
  ELSE ~Has(p, 4) /\ ~Has(p, 6) /\ Has(p, 5)

EditTextFields(sv) ==
  {One(1, read_node_id), One(2, read_hash), One(3, read_hash), One(4, read_hash), One(5, read_hash),
   One(6, read_bytes), Many(7, read_u32), Many(8, read_u32), One(9, read_bytes)}
  \cup IF sv < 3 THEN {} ELSE {Opt(10, read_u32), Opt(11, read_u32)}
EditTextChecks(p) ==
  /\ Val(p, 3) = Val(p, 9)
  /\ TextOk(Val(p, 9)) /\ TextOk(Val(p, 6))
  /\ Has(p, 10) = Has(p, 11)
  /\ Has(p, 10) => AnchorLenOk(Val(p, 10)) /\ AnchorLenOk(Val(p, 11))

RenamePathFields == {One(1, read_node_id), One(2, read_repo_path), One(3, read_repo_path)}

ChangePermFields == {One(1, read_node_id), One(2, read_u32), One(3, read_u32)}
ChangePermChecks(p) == is_canonical_file_mode(Val(p, 2)) /\ is_canonical_file_mode(Val(p, 3))

CreateSymlinkFields == {One(1, read_repo_path), One(2, read_node_id), One(3, read_string)}

ReplaceBinaryFields == {One(1, read_node_id), One(2, read_object_id), One(3, read_object_id)}

\* One kind record, of seven; the operation's id and preconditions are not read.
OperationKinds ==
  <<"create_file", "delete_node", "edit_text", "rename_path", "change_perm", "create_symlink", "replace_binary">>
OperationFields ==
  {One(1, read_u32), Skipped(2), Skipped(3)}
  \cup {Records(9 + k, "record", "opt", OperationKinds[k]) : k \in 1..7}
OperationChecks(p) == Cardinality({t \in 10..16 : Has(p, t)}) = 1

\* A normal purpose is left out.
PatchPurposeField == Opt(5, [read_enum EXCEPT !.dom = {2}])
\* Only the operations are decoded: the retired parents of schema 1, the intent
\* and the preconditions are not read.
PatchFields(sv) ==
  {Records(1, "item", "many", "operation"), Skipped(3), Skipped(4), PatchPurposeField}
  \cup (IF sv < 2 THEN {Skipped(2)} ELSE {})
  \cup (IF sv < 4 THEN {} ELSE {Many(6, read_string)})
\* Operations are numbered by their place.
PatchChecks(p) ==
  /\ Has(p, 1)
  /\ \A i \in DOMAIN p[1] : Val(Parsed(p[1][i].sub), 1) = i

NodeRecordFields ==
  {One(1, read_repo_path), One(2, read_node_id), One(3, read_enum), Opt(4, read_object_id),
   Opt(5, read_u32), Opt(6, read_string)}
NodeRecordChecks(p) ==
  IF Val(p, 3) = 1 THEN ~Has(p, 6) /\ Has(p, 4) /\ Has(p, 5) ELSE ~Has(p, 4) /\ ~Has(p, 5) /\ Has(p, 6)

\* The cache file of a replayed state; its schema version is 1 here.
CacheFields ==
  {One(1, read_u32), One(2, read_object_id), One(3, read_object_id), One(4, read_u32),
   Records(10, "item", "many", "node_record"), Records(11, "item", "many", "node_record")}
CacheChecks(p) ==
  LET node(t, i) == Val(Parsed(p[t][i].sub), 2)
      path(t, i) == Val(Parsed(p[t][i].sub), 1)
  IN /\ Val(p, 1) = 1
     /\ \A i, j \in DOMAIN p[10] : i # j => node(10, i) # node(10, j) /\ path(10, i) # path(10, j)
     /\ \A i \in DOMAIN p[10], j \in DOMAIN p[11] : node(10, i) # node(11, j)

\* A leaf of a snapshot is positional: its tags are the places of its parts.
LeafFields ==
  {One(1, read_repo_path), One(2, read_hash), One(3, read_enum), One(4, read_u32), One(5, read_bytes)}
validate_entry(p) ==
  /\ Val(p, 2) # 0
  /\ \/ Val(p, 3) = 1 /\ is_canonical_file_mode(Val(p, 4))
     \/ Val(p, 3) = 2 /\ Val(p, 4) = 0
LeafChecks(p) ==
  /\ IF Val(p, 3) = 1 THEN Val(p, 5) \in read_hash.dom ELSE Val(p, 5) \in read_string.dom
  /\ validate_entry(p)

SnapshotFields == {Records(1, "item", "many", "leaf")}
validate_entries(p) ==
  LET path(i) == Val(Parsed(p[1][i].sub), 1)
      node(i) == Val(Parsed(p[1][i].sub), 2)
  IN \A i, j \in DOMAIN p[1] : i < j => path(i) < path(j) /\ node(i) # node(j)

FieldsOf(k, sv) ==
  CASE k = "blob" -> BlobFields [] k = "block" -> BlockFields [] k = "ref_state" -> RefStateFields(sv)
    [] k = "ref_update" -> RefUpdateFields [] k = "tag" -> TagFields
    [] k = "recognition_claim" -> RecognitionClaimFields [] k = "plugin_result" -> PluginResultFields
    [] k = "attestation" -> AttestationFields [] k = "create_file" -> CreateFileFields
    [] k = "delete_node" -> DeleteNodeFields [] k = "edit_text" -> EditTextFields(sv)
    [] k = "rename_path" -> RenamePathFields [] k = "change_perm" -> ChangePermFields
    [] k = "create_symlink" -> CreateSymlinkFields [] k = "replace_binary" -> ReplaceBinaryFields
    [] k = "operation" -> OperationFields [] k = "patch" -> PatchFields(sv)
    [] k = "node_record" -> NodeRecordFields [] k = "cache" -> CacheFields
    [] k = "leaf" -> LeafFields [] k = "snapshot" -> SnapshotFields

ChecksOf(k, p) ==
  CASE k = "blob" -> BlobChecks(p) [] k = "block" -> BlockChecks(p) [] k = "ref_state" -> RefStateChecks(p)
    [] k = "recognition_claim" -> RecognitionClaimChecks(p)
    [] k = "attestation" -> results_sorted_by_plugin_id(p) [] k = "create_file" -> CreateFileChecks(p)
    [] k = "delete_node" -> DeleteNodeChecks(p) [] k = "edit_text" -> EditTextChecks(p)
    [] k = "change_perm" -> ChangePermChecks(p) [] k = "operation" -> OperationChecks(p)
    [] k = "patch" -> PatchChecks(p) [] k = "node_record" -> NodeRecordChecks(p)
    [] k = "cache" -> CacheChecks(p) [] k = "leaf" -> LeafChecks(p)
    [] k = "snapshot" -> validate_entries(p) [] OTHER -> TRUE

RECURSIVE Decodes(_, _, _)
\* Whether a decoder takes these bytes: tags in order, none unknown, each of its
\* wire type and readable, no single field twice and none missing.
Decodes(k, sv, fs) ==
  LET rules == FieldsOf(k, sv)
      p == Parsed(fs)
      reads(r, f) == /\ r.wire \in {"any", f.wire}
                     /\ f.val \in r.dom
                     /\ r.of # "" => Decodes(r.of, sv, f.sub)
  IN /\ next_field(fs)
     /\ \A i \in DOMAIN fs : \E r \in rules : r.tag = fs[i].tag /\ reads(r, fs[i])
     /\ \A r \in rules : /\ r.card = "one" => Len(p[r.tag]) = 1
                         /\ r.card = "opt" => Len(p[r.tag]) <= 1
     /\ ChecksOf(k, p)

\* The retired parents and the message of a patch are read by scans of their own.
decode_patch_parent_ids(fs) == Parsed(fs)[2]
decode_patch_message(fs, sv) ==
  LET found == Parsed(fs)[6]
  IN IF found = <<>> THEN [ok |-> TRUE, message |-> <<>>]
     ELSE [ok |-> sv >= 4 /\ Len(found) = 1 /\ found[1].wire = "string" /\ found[1].val \in {1, 2, 4},
           message |-> found]

--------------------------------------------------------------------------------
(* Encoders: the fields each writes, in order, and what it refuses to write. *)

W(tag, wire) == [tag |-> tag, wire |-> wire]

BlobLayout == <<W(1, "enum"), W(2, "bytes"), W(3, "u64")>>
BlockLayout == <<W(1, "id"), W(2, "enum"), W(3, "id"), W(4, "bytes"), W(5, "id"), W(6, "id"), W(7, "id")>>
RefStateLayout ==
  <<W(1, "string"), W(2, "id"), W(3, "u64"), W(4, "id"), W(5, "id"), W(6, "enum"), W(7, "bool")>>
RefUpdateLayout ==
  <<W(1, "string"), W(2, "id"), W(3, "id"), W(4, "id"), W(5, "u64"), W(6, "u64"), W(7, "string")>>
TagLayout ==
  <<W(1, "string"), W(2, "id"), W(3, "string"), W(4, "u64"), W(5, "string"), W(6, "bytes"), W(7, "u64")>>
RecognitionClaimLayout == <<W(1, "id"), W(2, "id"), W(3, "id")>>
PluginResultLayout == <<W(1, "string"), W(2, "string"), W(3, "enum"), W(4, "bytes"), W(5, "u32")>>
AttestationLayout ==
  <<W(1, "id"), W(2, "string"), W(3, "bytes"), W(4, "item"), W(5, "enum"), W(6, "u64"), W(7, "bool")>>
CreateFileLayout == <<W(1, "path"), W(2, "bytes"), W(3, "id"), W(4, "u32")>>
DeleteNodeLayout == <<W(1, "path"), W(2, "bytes"), W(3, "enum"), W(4, "id"), W(5, "string"), W(6, "u32")>>
EditTextLayout ==
  [i \in 1..11 |-> IF i \in {7, 8, 10, 11} THEN W(i, "u32") ELSE W(i, "bytes")]
RenamePathLayout == <<W(1, "bytes"), W(2, "path"), W(3, "path")>>
ChangePermLayout == <<W(1, "bytes"), W(2, "u32"), W(3, "u32")>>
CreateSymlinkLayout == <<W(1, "path"), W(2, "bytes"), W(3, "string")>>
ReplaceBinaryLayout == <<W(1, "bytes"), W(2, "id"), W(3, "id")>>
OperationLayout == <<W(1, "u32"), W(2, "string"), W(3, "record")>> \o [k \in 1..7 |-> W(9 + k, "record")]
PatchLayout == <<W(1, "item"), W(3, "enum"), W(4, "record"), W(5, "enum"), W(6, "string")>>
NodeRecordLayout == <<W(1, "path"), W(2, "bytes"), W(3, "enum"), W(4, "id"), W(5, "u32"), W(6, "string")>>
CacheLayout == <<W(1, "u32"), W(2, "id"), W(3, "id"), W(4, "u32"), W(10, "item"), W(11, "item")>>
LeafLayout == <<W(1, "path"), W(2, "bytes"), W(3, "enum"), W(4, "u32"), W(5, "bytes")>>
SnapshotLayout == <<W(1, "item")>>

LayoutOf(k) ==
  CASE k = "blob" -> BlobLayout [] k = "block" -> BlockLayout [] k = "ref_state" -> RefStateLayout
    [] k = "ref_update" -> RefUpdateLayout [] k = "tag" -> TagLayout
    [] k = "recognition_claim" -> RecognitionClaimLayout [] k = "plugin_result" -> PluginResultLayout
    [] k = "attestation" -> AttestationLayout [] k = "create_file" -> CreateFileLayout
    [] k = "delete_node" -> DeleteNodeLayout [] k = "edit_text" -> EditTextLayout
    [] k = "rename_path" -> RenamePathLayout [] k = "change_perm" -> ChangePermLayout
    [] k = "create_symlink" -> CreateSymlinkLayout [] k = "replace_binary" -> ReplaceBinaryLayout
    [] k = "operation" -> OperationLayout [] k = "patch" -> PatchLayout
    [] k = "node_record" -> NodeRecordLayout [] k = "cache" -> CacheLayout
    [] k = "leaf" -> LeafLayout [] k = "snapshot" -> SnapshotLayout

Encode(k, p) ==
  FlattenSeq([i \in DOMAIN LayoutOf(k) |->
    LET w == LayoutOf(k)[i]
    IN [j \in DOMAIN p[w.tag] |-> F(w.tag, w.wire, p[w.tag][j].val, p[w.tag][j].sub)]])

validate_repo_path(v) == v \in {1, 2}
is_zero(v) == v = 0

CreateFile_validate(p) ==
  ~is_zero(Val(p, 2)) /\ validate_repo_path(Val(p, 1)) /\ is_canonical_file_mode(Val(p, 4))
DeleteNode_validate(p) ==
  /\ ~is_zero(Val(p, 2)) /\ validate_repo_path(Val(p, 1))
  /\ (Val(p, 3) = 1) = Has(p, 4)
  /\ Has(p, 6) => is_canonical_file_mode(Val(p, 6))
EditText_validate(p) ==
  /\ ~is_zero(Val(p, 1)) /\ Val(p, 3) = Val(p, 9) /\ TextOk(Val(p, 9)) /\ TextOk(Val(p, 6))
  /\ \/ ~Has(p, 10) /\ ~Has(p, 11)
     \/ Has(p, 10) /\ Has(p, 11) /\ AnchorLenOk(Val(p, 10)) /\ AnchorLenOk(Val(p, 11))
RenamePath_validate(p) ==
  ~is_zero(Val(p, 1)) /\ validate_repo_path(Val(p, 2)) /\ validate_repo_path(Val(p, 3))
ChangePerm_validate(p) ==
  ~is_zero(Val(p, 1)) /\ is_canonical_file_mode(Val(p, 2)) /\ is_canonical_file_mode(Val(p, 3))
CreateSymlink_validate(p) == ~is_zero(Val(p, 2)) /\ validate_repo_path(Val(p, 1))
ReplaceBinary_validate(p) == ~is_zero(Val(p, 1))
is_contiguous_op_seq(s) == \A i \in DOMAIN s : s[i] = i
Patch_validate(p) ==
  /\ Has(p, 1)
  /\ is_contiguous_op_seq([i \in DOMAIN p[1] |-> Val(Parsed(p[1][i].sub), 1)])
  /\ is_strictly_sorted(p[4])
  /\ Has(p, 6) => Val(p, 6) # 0

\* What an encoder refuses itself; a record is written through its own encoder.
RECURSIVE Encodable(_, _)
Encodable(k, p) ==
  /\ CASE k = "blob" -> Val(p, 3) = Val(p, 2)
       [] k = "block" -> is_strictly_sorted(p[1])
       [] k = "ref_state" -> is_strictly_sorted(p[5])
       [] k = "recognition_claim" -> Has(p, 2)
       [] k = "attestation" -> results_sorted_by_plugin_id(p)
       [] k = "create_file" -> CreateFile_validate(p) [] k = "delete_node" -> DeleteNode_validate(p)
       [] k = "edit_text" -> EditText_validate(p) [] k = "rename_path" -> RenamePath_validate(p)
       [] k = "change_perm" -> ChangePerm_validate(p) [] k = "create_symlink" -> CreateSymlink_validate(p)
       [] k = "replace_binary" -> ReplaceBinary_validate(p) [] k = "patch" -> Patch_validate(p)
       [] k = "leaf" -> validate_entry(p) [] k = "snapshot" -> validate_entries(p)
       [] OTHER -> TRUE
  /\ \A r \in FieldsOf(k, 4) : r.of # "" =>
       \A i \in DOMAIN p[r.tag] : Encodable(r.of, Parsed(p[r.tag][i].sub))

--------------------------------------------------------------------------------
(* The signatures of an envelope. A signature is its key id, its signer's role, *)
(* its bytes and the time it was made, which is not signed; key id 0 is one     *)
(* that is refused, bytes 0 are empty and bytes 3 not of the algorithm's length.*)

\* Less by key id, then role, then bytes; the time does not count.
canonical_less(a, b) ==
  \/ a.key < b.key
  \/ a.key = b.key /\ a.role < b.role
  \/ a.key = b.key /\ a.role = b.role /\ a.bytes < b.bytes
canonical_equal(a, b) == ~canonical_less(a, b) /\ ~canonical_less(b, a)

validate_key_id(k) == k # 0
Signature_validate(s) == validate_key_id(s.key) /\ s.bytes # 0
validate_shape(s) == s.bytes # 3

signature_issues(s) ==
  [malformed_shape |-> \E i \in DOMAIN s : ~validate_shape(s[i]),
   duplicate |-> \E i, j \in DOMAIN s : i # j /\ canonical_equal(s[i], s[j]),
   noncanonical_order |-> \E i \in 1..Len(s) - 1 : canonical_less(s[i + 1], s[i])]

validate_strict(s) ==
  /\ \A i \in DOMAIN s : Signature_validate(s[i])
  /\ TRUE \notin {signature_issues(s)[x] : x \in DOMAIN signature_issues(s)}

\* The signature goes to its place; a second one of its tuple is refused.
add_signature(s) ==
  /\ kind = "envelope" /\ validate_strict(sigs)
  /\ Signature_validate(s) /\ validate_shape(s)
  /\ \A i \in DOMAIN sigs : ~canonical_equal(sigs[i], s)
  /\ sigs' = InsertAt(sigs, 1 + Cardinality({i \in DOMAIN sigs : canonical_less(sigs[i], s)}), s)
  /\ UNCHANGED <<kind, schema, made, fields, edits>>

--------------------------------------------------------------------------------
(* The bytes a decoder may be handed: what an encoder wrote, with fields        *)
(* dropped, repeated, swapped or changed.                                       *)

RECURSIVE Edited(_)
Edited(fs) ==
  UNION {{RemoveAt(fs, i), InsertAt(fs, i, fs[i])}
         \cup {[fs EXCEPT ![i].val = v] : v \in Values}
         \cup {[fs EXCEPT ![i].wire = w] : w \in Wires}
         \cup {[fs EXCEPT ![i].tag = t] : t \in {0, fs[i].tag - 1, fs[i].tag + 1}}
         \cup {[fs EXCEPT ![i].sub = s] : s \in Edited(fs[i].sub)} : i \in DOMAIN fs}
  \cup {[fs EXCEPT ![i] = fs[i + 1], ![i + 1] = fs[i]] : i \in 1..Len(fs) - 1}

\* A snapshot has neither tags nor wire types: only values and parts can change.
RECURSIVE EditedByPlace(_)
EditedByPlace(fs) ==
  UNION {{[fs EXCEPT ![i].val = v] : v \in Values}
         \cup {[fs EXCEPT ![i].sub = s] : s \in EditedByPlace(fs[i].sub)}
         \cup {x \in {RemoveAt(fs, i), InsertAt(fs, i, fs[i])} : fs[i].sub # <<>>} : i \in DOMAIN fs}
  \cup {x \in {[fs EXCEPT ![i] = fs[i + 1], ![i + 1] = fs[i]] : i \in 1..Len(fs) - 1} : x[1].sub # <<>>}

Edit ==
  /\ kind # "envelope" /\ edits < MaxEdits
  /\ fields' \in IF kind = "snapshot" THEN EditedByPlace(fields) ELSE Edited(fields)
  /\ edits' = edits + 1
  /\ UNCHANGED <<kind, schema, made, sigs>>

NoPayload == [t \in Tags |-> <<>>]
Init ==
  /\ edits = 0 /\ sigs = <<>>
  /\ \/ /\ kind = "envelope" /\ schema = 1 /\ made = NoPayload /\ fields = <<>>
     \/ \E x \in Samples : /\ Encodable(x.kind, x.p)
                           /\ kind = x.kind /\ schema = x.schema /\ made = x.p
                           /\ fields = Encode(x.kind, x.p)

Next == Edit \/ \E s \in Signatures : add_signature(s)

Spec == Init /\ [][Next]_vars

--------------------------------------------------------------------------------
(* What the codecs owe. *)

Meaning(p) == [t \in Tags |-> [i \in DOMAIN p[t] |-> [val |-> p[t][i].val, sub |-> p[t][i].sub]]]

\* What an encoder writes its decoder reads, and reads as the same value: no
\* payload can be authored, signed and stored that a later command cannot read.
\* An envelope signed in any order passes the strict reading of its signatures.
AuthoredIsRead ==
  /\ kind # "envelope" /\ edits = 0 =>
       /\ Decodes(kind, schema, fields)
       /\ Meaning(Parsed(fields)) = Meaning(made)
  /\ kind = "patch" /\ edits = 0 =>
       /\ decode_patch_parent_ids(fields) = <<>>
       /\ decode_patch_message(fields, schema).ok
  /\ kind = "envelope" => validate_strict(sigs)

\* The kinds whose decoders keep every field; a patch and its operations keep
\* fields they do not read, and a cache file is keyed by node.
Kept == {"blob", "block", "ref_state", "ref_update", "tag", "recognition_claim", "plugin_result",
         "attestation", "create_file", "delete_node", "edit_text", "rename_path", "change_perm",
         "create_symlink", "replace_binary", "node_record", "snapshot"}

\* Without what decoding drops: the hints of an edit, and the wire type of the
\* two fields read whatever their wire type.
Canonical(k, fs) ==
  LET kept == SelectSeq(fs, LAMBDA f : ~(k = "edit_text" /\ f.tag \in {7, 8}))
  IN [i \in DOMAIN kept |->
        IF \E r \in FieldsOf(k, 4) : r.tag = kept[i].tag /\ r.wire = "any"
        THEN [kept[i] EXCEPT !.wire = "bytes"] ELSE kept[i]]

\* Bytes that decode are the bytes their value encodes to, so that an object has
\* one encoding and one id: no other order, repetition or absence of fields is
\* read as the same value, and the writing side refuses nothing the reading side
\* takes.
DecodedReencodes ==
  kind \in Kept /\ Decodes(kind, schema, fields) =>
    /\ Encodable(kind, Parsed(fields))
    /\ Canonical(kind, Encode(kind, Parsed(fields))) = Canonical(kind, fields)

\* Encoders and decoders are inverses of each other.
CodecsAreInverse == AuthoredIsRead /\ DecodedReencodes
=============================================================================
