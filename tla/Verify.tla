------------------------------- MODULE Verify -------------------------------
(***************************************************************************)
(* `prikk verify` (verify.rs and verify/, refs/verify.rs and its scan, the *)
(* topological pass of block_state.rs, the verdict of cli verify_verdict)  *)
(* beside the writer whose commit and seal it reads without a lock, after  *)
(* a crash of that writer, and over damaged files.                         *)
(*                                                                         *)
(* The writer is a script of durable writes; a crash stops it between two  *)
(* of them or inside one.  Verification is the sequence of its reads: it   *)
(* opens one view of the object index at the start, and reads the ref log, *)
(* the pointers, the session and the containers at later moments.          *)
(***************************************************************************)
EXTENDS History, TLC

CONSTANTS Script,      \* the writer's durable writes, in order, see Effect
          FirstObjects,\* the objects a healthy repository starts with, in order
          FirstPtr, FirstReceived,   \* its refs, their log, received refs
          Remnants,    \* objects an earlier version left behind, held from the start
          BadRootSets, \* which blocks' patches may not give the state root they carry
          Between,     \* the positions of the script between two commands
          MaxMarks     \* materializations

VARIABLES rec,      \* [id -> absent | sound | rotted | torn]: the container records
          index,    \* the ids the object index names
          flaw,     \* [file -> sound | tail | damaged | deduced | ambiguous | diverged]
          ptr,      \* [ref -> id or None]
          log,      \* [ref -> the ref's records, each [state, sound]]
          logTail,  \* the ref whose record is torn at the end of the log, or None
          received, \* [name -> id]
          ses,      \* the default session: wal, tail, owner, witness
          marker,   \* blocks the provisional worktree marker names
          verified, \* blocks recorded as replayed (verified_blocks.rs)
          wpc, stopped, \* the writer's position; whether it crashed or a fault came
          bad,      \* the blocks whose replay gives another root
          struck,   \* the faults so far: an object's and a file's
          hurt,     \* ghost: the file's is one a run must report
          v,        \* the verification: its position, views and results
          cleared   \* ghost: blocks taken off the marker whose replay was not verified

vars == <<rec, index, flaw, ptr, log, logTail, received, ses, marker, verified, wpc, stopped, bad, struck,
          hurt, v, cleared>>

None == "none"
Ids == DOMAIN Meta
Refs == DOMAIN FirstPtr
SlotFiles == {"pointer index", "received index", "trust policy"}
Caches == {"commit index", "lifecycle cache"}
Files == SlotFiles \cup {"object index", "trust keys", "author keys"} \cup Caches
Elements(seq) == {seq[i] : i \in DOMAIN seq}
Only(set) == CHOOSE x \in set : TRUE
Kind(id) == Meta[id].kind

-----------------------------------------------------------------------------
(* Reading objects. *)

\* rebuild_index_from_containers indexes the records that read back.
rebuild_index_from_containers == {i \in Ids : rec[i] = "sound"}

\* One view of the index: rebuilt when the file has a tail or damage.
IndexSnapshot_open ==
  IF flaw["object index"] = "sound" THEN index ELSE rebuild_index_from_containers

\* An id the view lacks is missing; one it has whose record does not read is an error.
read_object(view, id) ==
  CASE id \notin view -> "missing" [] rec[id] = "sound" -> "found" [] OTHER -> "error"

Found(view, ids) == \A i \in ids : read_object(view, i) = "found"
Held(view) == {i \in view : rec[i] = "sound"}

\* A slot container that is damaged, or whose live slot cannot be told.
Unreadable(file) == flaw[file] \in {"damaged", "ambiguous"}

-----------------------------------------------------------------------------
(* Reachability. *)

WalRecords(wal) == SelectSeq(wal, LAMBDA w : w.sound)
QueuedBlobs(wal) == UNION {Meta[w.patch].blobs : w \in Elements(WalRecords(wal))}

compute_reachable_object_ids(view, wal) ==
  compute_reachable(Held(view), ({ptr[r] : r \in Refs} \cup {received[n] : n \in DOMAIN received}) \ {None})
    \cup QueuedBlobs(wal)

-----------------------------------------------------------------------------
(* Objects. *)

References(b) == Meta[b].parents \cup Meta[b].patches \cup Meta[b].snapshot

\* A block that is not reachable may name what is missing; none may name what
\* does not read, and a snapshot's own blobs are always wanted.
verify_block_payload(view, reachable, b) ==
  LET state(i) == read_object(view, i)
      manifest == UNION {Meta[s].blobs : s \in {s \in Meta[b].snapshot : state(s) = "found"}}
  IN  IF \/ \E i \in References(b) : state(i) = "error" \/ (state(i) = "missing" /\ b \in reachable)
         \/ ~Found(view, manifest)
      THEN "failed"
      ELSE IF Found(view, References(b)) THEN "checked" ELSE "remnant"

verify_object_record(view, reachable, id) ==
  IF Kind(id) = "block" THEN verify_block_payload(view, reachable, id) ELSE "checked"

\* Mutant: a record cut short by a crash is reported like a damaged one.
verify_object_type_container_strict(view, reachable) ==
  [i \in {i \in Ids : rec[i] # "absent"} |->
     IF rec[i] # "sound" THEN "failed" ELSE verify_object_record(view, reachable, i)]

\* What the scan of the containers says of each record in them.
verify_object_type_container(view, reachable) ==
  [i \in {i \in Ids : rec[i] # "absent"} |->
     CASE rec[i] = "torn" -> "interrupted"
       [] rec[i] = "rotted" -> "failed"
       [] OTHER -> verify_object_record(view, reachable, i)]

\* The chain of blocks whose patches make up a block's state.
StateLine(b) == Line("mainline", {}, {b})

\* Replaying the chain reads every block of it not already decoded, their patches and the content
\* the patches create, and compares each block's root with the one it carries.
verify_v2_lineage_roots(view, batch, b) ==
  LET line == StateLine(b)
      patches == UNION {Meta[x].patches : x \in line}
  IN  /\ Found(view, line \ batch) /\ Found(view, patches)
      /\ Found(view, UNION {Meta[p].blobs : p \in patches})
      /\ line \cap bad = {}

\* In a batch the parent's state is the memo of its own check, else the replay of its lineage.
verify_block_v2_state(view, batch, b) == verify_v2_lineage_roots(view, batch, b)

\* A block whose state parent is in the batch and did not verify is not evaluated.
verify_blocks_topological(view, pending) ==
  [b \in pending |->
     IF \E p \in Meta[b].mainline \cap pending : ~verify_block_v2_state(view, pending, p) THEN "NotEvaluated"
     ELSE IF verify_block_v2_state(view, pending, b) THEN "Verified" ELSE "Failed"]

\* A merge names a baseline both parents descend from.
verify_merge_baseline(b) ==
  \A a \in Meta[b].baseline : \A p \in Meta[b].parents : a \in ancestors_inclusive(p)

MergeBlocks(blocks) == {b \in blocks : Cardinality(Meta[b].parents) = 2}

\* The entries listed: rebuilt when the index is damaged, as they stand with a tail.
IndexEntries == IF flaw["object index"] = "damaged" THEN rebuild_index_from_containers ELSE index

NothingChecked == [ok |-> FALSE, failed |-> {}, interrupted |-> {}, remnants |-> {}, blocks |-> <<>>,
                   baseline |-> {}, reachable |-> {}]

\* The Objects stage.  An index entry that does not read is a failed item, and
\* then not also an interrupted append.
verify_objects(view, wal) ==
  LET reachable == compute_reachable_object_ids(view, wal)
      unread == {i \in IndexEntries : rec[i] # "sound"}
      records == verify_object_type_container(view, reachable)
      state(s) == {i \in DOMAIN records : records[i] = s}
      pending == {i \in state("checked") : Kind(i) = "block"}
  IN  IF \E f \in SlotFiles \cup {"trust keys", "author keys"} : Unreadable(f) THEN NothingChecked
      ELSE [ok |-> TRUE, failed |-> unread \cup state("failed"),
            interrupted |-> state("interrupted") \ unread, remnants |-> state("remnant"),
            blocks |-> verify_blocks_topological(view, pending),
            baseline |-> {b \in MergeBlocks(pending) : ~verify_merge_baseline(b)},
            reachable |-> reachable]

-----------------------------------------------------------------------------
(* Refs: the ref log as it was read, and a view of the objects and the
   pointers taken after it. *)

ensure_ref_target_valid(view, s) ==
  \A t \in Meta[s].target : Found(view, {t}) /\ (Kind(t) = "tag" => Found(view, Meta[t].target))

ensure_required_attestations_present(view, s) == Found(view, Meta[s].attests)

verified_ref_state_payload(view, s) ==
  /\ Found(view, {s})
  /\ ensure_ref_target_valid(view, s)
  /\ ensure_required_attestations_present(view, s)

read_one_pointer_entry(view, r) == verified_ref_state_payload(view, ptr[r])

\* The refs whose pointers read, and those whose pointers do not.
read_pointers(view) ==
  LET named == {r \in Refs : ptr[r] # None}
      good == {r \in named : read_one_pointer_entry(view, r)}
  IN  [good |-> good, bad |-> named \ good]

\* A ref's records chain from the first, each naming the state before it.
validate_log_replay(view, records) ==
  \A i \in DOMAIN records :
    /\ Meta[records[i].state].previous = IF i = 1 THEN {} ELSE {records[i - 1].state}
    /\ verified_ref_state_payload(view, records[i].state)

\* A torn record names a ref only where a whole record of that ref is.
read_logs(view, seen) ==
  LET named == {r \in Refs : seen.log[r] # <<>>}
      good == {r \in named : /\ \A i \in DOMAIN seen.log[r] : seen.log[r][i].sound
                             /\ validate_log_replay(view, seen.log[r])}
  IN  [good |-> good, bad |-> named \ good]

Tip(records) == IF records = <<>> THEN {} ELSE {records[Len(records)].state}
PreviousTip(records) == UNION {Meta[s].previous : s \in Tip(records)}
UpdateSeq(s) == Cardinality(RefStateChain(s))

classify_ref_state(seen, r, pointer, logged) ==
  LET records == IF logged THEN seen.log[r] ELSE <<>>
  IN  CASE pointer /\ logged /\ {ptr[r]} = Tip(records) -> IF seen.tail = r THEN "error" ELSE "agree"
        [] pointer /\ Meta[ptr[r]].previous = Tip(records) /\ UpdateSeq(ptr[r]) = Len(records) + 1
             -> "POINTER-LEADS-LOG"
        [] pointer /\ logged /\ {ptr[r]} = PreviousTip(records) -> "DIVERGENCE"
        [] ~pointer /\ logged /\ Len(records) = 1 -> "DIVERGENCE"
        [] OTHER -> "error"

\* A ref whose pointer or log does not read fails as an item and is not compared.
classify_ref_items(seen, pointers, logs) ==
  [r \in pointers.good \cup logs.good |->
     IF r \in pointers.bad \cup logs.bad THEN "error"
     ELSE classify_ref_state(seen, r, r \in pointers.good, r \in logs.good)]

verify_refs_with(seen) ==
  LET view == IndexSnapshot_open
      pointers == read_pointers(view)
      logs == read_logs(view, seen)
      items == classify_ref_items(seen, pointers, logs)
  IN  IF Unreadable("pointer index") THEN [ok |-> FALSE, failed |-> {}, issues |-> {}]
      ELSE [ok |-> TRUE,
            failed |-> pointers.bad \cup logs.bad \cup {r \in DOMAIN items : items[r] = "error"},
            issues |-> {[code |-> items[r], ref |-> r] :
                          r \in {r \in DOMAIN items : items[r] \notin {"agree", "error"}}}]

verify_received_ref_state(view, s) ==
  verified_ref_state_payload(view, s) /\ Found(view, Meta[s].previous)

verify_received_refs(view) ==
  [ok |-> ~Unreadable("received index"),
   failed |-> IF Unreadable("received index") THEN {}
              ELSE {n \in DOMAIN received : ~verify_received_ref_state(view, received[n])}]

\* Every pointer's ref state must be in the view; tags' signers are then judged.
verify_local_tag_publication_trust(view) ==
  ~Unreadable("pointer index") /\ Found(view, {ptr[r] : r \in Refs} \ {None})

-----------------------------------------------------------------------------
(* The session. *)

\* Judged over the records read at the start and the owner read now.
classify_active_wal_metadata(wal) ==
  IF WalRecords(wal) = <<>>
  THEN CASE ses.owner = "missing" -> "MissingForEmptyWal" [] ses.owner = "invalid" -> "InvalidForEmptyWal"
         [] OTHER -> "ValidForEmptyWal"
  ELSE CASE ses.owner = "missing" -> "MissingForNonEmptyWal" [] ses.owner = "invalid" -> "InvalidForNonEmptyWal"
         [] OTHER -> "ValidForNonEmptyWal"

\* The witnessed patch is in a block sealed after the tip the witness saw.
patch_is_sealed_and_reachable_since(w) ==
  \E s \in IF ptr[w.ref] = None THEN {} ELSE RefStateChain(ptr[w.ref]) \ RefStateChain(w.tip) :
    \E b \in Meta[s].target : w.patch \in Meta[b].patches

\* The verdict on the acknowledged commit, over the WAL read at the start.
classify(wal, tail, metadata, owner) ==
  LET records == WalRecords(wal)
      w == ses.witness
      lastSeq == IF records = <<>> THEN 0 ELSE records[Len(records)].seq
      unlessSealed(verdict) == IF patch_is_sealed_and_reachable_since(w) THEN "NoWitness" ELSE verdict
  IN  CASE records # <<>> /\ metadata # "ValidForNonEmptyWal" -> "OwnershipMissing"
        [] metadata \in {"ValidForNonEmptyWal", "ValidForEmptyWal"} /\ w.state = "valid" /\ w.ref # owner
             -> "OwnershipMissing"
        [] w.state = "damaged" -> IF tail THEN "UnknownWithDamagedWitness" ELSE "WitnessDamaged"
        [] w.state = "absent" -> "NoWitness"
        [] w.seq < lastSeq -> "Pending"
        [] w.seq = lastSeq /\ w.patch = records[Len(records)].patch -> IF tail THEN "CrashTail" ELSE "Healthy"
        [] w.seq = lastSeq -> unlessSealed("SubstitutedRecord")
        [] tail /\ w.seq = lastSeq + 1 -> unlessSealed("AcknowledgedDamage")
        [] OTHER -> unlessSealed("AcknowledgedLoss")

\* The tip's block holds exactly the patches of the queue.
block_matches_wal(b, records) ==
  records # <<>> /\ Meta[b].patches = {records[i].patch : i \in DOMAIN records}

\* Fails when the tip's ref state or block does not read.
add_incomplete_cleanup_issue(wal, metadata, owner, issues) ==
  LET applies == /\ metadata = "ValidForNonEmptyWal" /\ ptr[owner] # None
                 /\ \A i \in issues : i.ref # owner
      b == Only(Meta[ptr[owner]].target)
  IN  IF ~applies THEN [ok |-> TRUE, issues |-> issues]
      ELSE IF ~Found(IndexSnapshot_open, {ptr[owner], b}) THEN [ok |-> FALSE, issues |-> issues]
      ELSE [ok |-> TRUE,
            issues |-> issues \cup (IF block_matches_wal(b, WalRecords(wal))
                                    THEN {[code |-> "ACTIVE-CLEANUP-PENDING", ref |-> owner]} ELSE {})]

\* The content every queued patch names can be read.
verify_queued_patch_connectivity(view, wal) == {i \in QueuedBlobs(wal) : read_object(view, i) # "found"}

\* Files whose interior is damaged; where the live slot cannot be told, there is no row.
check_appended_file_tails(seen) ==
  {f \in {"trust keys", "trust policy", "author keys", "received index"} : flaw[f] = "damaged"}
    \cup (IF \E r \in Refs : \E i \in DOMAIN seen.log[r] : ~seen.log[r][i].sound THEN {"ref log"} ELSE {})

-----------------------------------------------------------------------------
(* The pipeline and the verdict.  A report is what the stages found. *)

Stage(name, needs, ok) == [stage |-> name, needs |-> needs, ok |-> ok]

\* In order: a stage another blocks is not evaluated, and a failure halts the
\* rest when the run is to stop at the first error.
RECURSIVE StagePipeline(_, _)
StagePipeline(stages, stop) ==
  IF stages = <<>> THEN <<>>
  ELSE LET before == StagePipeline(SubSeq(stages, 1, Len(stages) - 1), stop)
           this == stages[Len(stages)]
           status(name) == before[CHOOSE i \in DOMAIN before : stages[i].stage = name]
           halted == stop /\ \E i \in DOMAIN before : before[i] = "Failed"
       IN  Append(before, IF \E n \in this.needs : status(n) # "Evaluated" THEN "NotEvaluated"
                          ELSE IF halted THEN "Halted"
                          ELSE IF this.ok THEN "Evaluated" ELSE "Failed")

\* The stages of one run, from the results its reads left in r.
verify_repository_with_options(r) ==
  << Stage("Objects", {}, r.objects.ok), Stage("Refs", {}, r.refs.ok),
     Stage("ReceivedRefs", {}, r.received.ok), Stage("LocalTagTrust", {}, r.tagsOk),
     Stage("RefUpdateSchemaTrust", {"Refs"}, TRUE), Stage("WalReplay", {}, TRUE),
     Stage("ActiveWalMetadata", {"WalReplay"}, TRUE),
     Stage("CommitWitness", {"WalReplay", "ActiveWalMetadata"}, TRUE),
     Stage("PublicationReclassification", {"WalReplay", "Refs", "ActiveWalMetadata"}, r.reclassified.ok),
     Stage("CommitIndex", {}, TRUE), Stage("LifecycleCache", {}, TRUE),
     Stage("ObjectConnectivity", {}, TRUE), Stage("AppendedFileTails", {}, TRUE) >>

\* What a stage that did not evaluate would have reported is not in the report.
Evaluated(r, name) ==
  LET stages == verify_repository_with_options(r)
  IN  StagePipeline(stages, r.stop)[CHOOSE i \in DOMAIN stages : stages[i].stage = name] = "Evaluated"

has_stage_failure(r) == \E s \in Elements(StagePipeline(verify_repository_with_options(r), r.stop)) : s # "Evaluated"

has_item_failure(r) ==
  \/ r.objects.failed # {}
  \/ \E b \in DOMAIN r.objects.blocks : r.objects.blocks[b] # "Verified"
  \/ Evaluated(r, "Refs") /\ r.refs.failed # {}
  \/ Evaluated(r, "WalReplay") /\ \E w \in Elements(r.wal) : ~w.sound
  \/ Evaluated(r, "ReceivedRefs") /\ r.received.failed # {}
  \/ Evaluated(r, "ObjectConnectivity") /\ r.connectivity # {}
  \/ Evaluated(r, "AppendedFileTails") /\ r.damaged # {}

has_active_wal_metadata_integrity_issue(r) ==
  Evaluated(r, "ActiveWalMetadata") /\ r.metadata \in {"MissingForNonEmptyWal", "InvalidForNonEmptyWal"}

has_commit_witness_integrity_issue(r) ==
  /\ Evaluated(r, "CommitWitness")
  /\ r.witness \in {"AcknowledgedDamage", "AcknowledgedLoss", "SubstitutedRecord",
                    "UnknownWithDamagedWitness", "OwnershipMissing"}

has_blocking_ref_publication_issues(r) ==
  (IF Evaluated(r, "PublicationReclassification") THEN r.reclassified.issues
   ELSE IF Evaluated(r, "Refs") THEN r.refs.issues ELSE {}) # {}

\* The conditions that hold, and those of them that keep the marker.
all_true_conditions(r) ==
  {c \in {"stage-failure", "item-failure", "active-wal-metadata-integrity", "commit-witness-integrity",
          "blocking-ref-publication", "commit-index-divergence", "lifecycle-cache-divergence",
          "merge-baseline-divergence"} :
     CASE c = "stage-failure" -> has_stage_failure(r)
       [] c = "item-failure" -> has_item_failure(r)
       [] c = "active-wal-metadata-integrity" -> has_active_wal_metadata_integrity_issue(r)
       [] c = "commit-witness-integrity" -> has_commit_witness_integrity_issue(r)
       [] c = "blocking-ref-publication" -> has_blocking_ref_publication_issues(r)
       [] c = "commit-index-divergence" -> Evaluated(r, "CommitIndex") /\ r.commitIndex
       [] c = "lifecycle-cache-divergence" -> Evaluated(r, "LifecycleCache") /\ r.lifecycle
       [] OTHER -> r.objects.baseline # {}}

provisional_clear_blockers(r) ==
  all_true_conditions(r) \ {"commit-index-divergence", "lifecycle-cache-divergence"}

-----------------------------------------------------------------------------
(* A verification, one read at a time. *)

NoRefs == [ok |-> FALSE, failed |-> {}, issues |-> {}]
Idle == [pc |-> "idle", alone |-> TRUE, stop |-> FALSE, marker |-> <<>>, view |-> {}, wal |-> <<>>,
         tail |-> FALSE, log |-> [r \in Refs |-> <<>>], logTail |-> None, objects |-> NothingChecked,
         refs |-> NoRefs, received |-> NoRefs, tagsOk |-> FALSE, metadata |-> None, owner |-> None, witness |-> None,
         reclassified |-> NoRefs, connectivity |-> {}, damaged |-> {}, commitIndex |-> FALSE,
         lifecycle |-> FALSE]

Seen == [log |-> v.log, tail |-> v.logTail]
AtRest == UNCHANGED <<rec, index, flaw, ptr, log, logTail, received, ses, wpc, stopped, bad, struck, hurt>>
Read(from, to, change) ==
  v.pc = from /\ v' = [change EXCEPT !.pc = to] /\ UNCHANGED <<marker, verified, cleared>> /\ AtRest

ReadMarker == \E stop \in BOOLEAN :
  Read("idle", "open", [Idle EXCEPT !.stop = stop, !.marker = marker, !.alone = stopped \/ wpc > Len(Script)])
OpenView == Read("open", "wal", [v EXCEPT !.view = IndexSnapshot_open])
ReplayWal == Read("wal", "objects", [v EXCEPT !.wal = ses.wal, !.tail = ses.tail])
VerifyObjects == Read("objects", "log", [v EXCEPT !.objects = verify_objects(v.view, v.wal)])
ReadRefLog == Read("log", "refs", [v EXCEPT !.log = log, !.logTail = logTail])
VerifyRefs == Read("refs", "received", [v EXCEPT !.refs = verify_refs_with(Seen)])
VerifyReceived == Read("received", "owner", [v EXCEPT !.received = verify_received_refs(v.view) @@ [issues |-> {}],
                                            !.tagsOk = verify_local_tag_publication_trust(v.view)])
ReadOwner == Read("owner", "witness", [v EXCEPT !.metadata = classify_active_wal_metadata(v.wal), !.owner = ses.owner])
ReadWitness ==
  Read("witness", "finish", [v EXCEPT !.witness = classify(v.wal, v.tail, v.metadata, v.owner),
                            !.reclassified = add_incomplete_cleanup_issue(v.wal, v.metadata, v.owner, v.refs.issues) @@ NoRefs])

VerifiedBlocks(r) == {b \in DOMAIN r.objects.blocks : r.objects.blocks[b] = "Verified"}

record_verified_blocks ==
  /\ v.pc = "finish"
  /\ v' = [v EXCEPT !.pc = "clear", !.connectivity = verify_queued_patch_connectivity(v.view, v.wal),
                    !.damaged = check_appended_file_tails(Seen),
                    !.commitIndex = flaw["commit index"] = "diverged",
                    !.lifecycle = flaw["lifecycle cache"] = "diverged"]
  /\ verified' = verified \cup VerifiedBlocks(v)
  /\ UNCHANGED <<marker, cleared>> /\ AtRest

\* No command holds the session's lock.
Unlocked == stopped \/ wpc \in Between

\* Emptied under the session's lock, and only if it is still what the run read first.
clear_provisional_marker_if_unchanged ==
  /\ v.pc = "clear"
  /\ v' = [v EXCEPT !.pc = "done"]
  /\ IF v.marker # <<>> /\ provisional_clear_blockers(v) = {} /\ Unlocked /\ marker = v.marker
     THEN marker' = <<>> /\ cleared' = cleared \cup (Elements(marker) \ VerifiedBlocks(v))
     ELSE UNCHANGED <<marker, cleared>>
  /\ UNCHANGED verified /\ AtRest

-----------------------------------------------------------------------------
(* The writer.  Each write is durable before the next; a crash inside one
   leaves what its append had reached. *)

WitnessOf(r) == [state |-> "valid", ref |-> r, seq |-> Len(ses.wal), patch |-> ses.wal[Len(ses.wal)].patch,
                 tip |-> ptr[r]]
NoWitness == [state |-> "absent"]

\* The state after write w, whole or (torn) cut short.
WriteObject(w, torn) ==
  /\ rec' = [rec EXCEPT ![w.id] = IF torn THEN "torn" ELSE "sound"]
  /\ UNCHANGED <<index, flaw, ptr, log, logTail, ses>>
WriteIndex(w, torn) ==
  /\ IF torn THEN flaw' = [flaw EXCEPT !["object index"] = "tail"] /\ UNCHANGED index
     ELSE index' = index \cup {w.id} /\ UNCHANGED flaw
  /\ UNCHANGED <<rec, ptr, log, logTail, ses>>
WriteSession(w, torn) ==
  /\ ses' = CASE w.do = "owner" -> [ses EXCEPT !.owner = IF torn THEN "invalid" ELSE w.ref]
              [] w.do = "wal" /\ torn -> [ses EXCEPT !.tail = TRUE]
              [] w.do = "wal" /\ ~torn ->
                   [ses EXCEPT !.wal = Append(@, [patch |-> w.id, seq |-> Len(@) + 1, sound |-> TRUE])]
              [] w.do = "witness" -> [ses EXCEPT !.witness = IF torn THEN [state |-> "damaged"] ELSE WitnessOf(w.ref)]
              [] w.do = "drain wal" -> [ses EXCEPT !.wal = <<>>]
              [] w.do = "drain witness" -> [ses EXCEPT !.witness = NoWitness]
              [] w.do = "drain owner" -> [ses EXCEPT !.owner = "missing"]
  /\ UNCHANGED <<rec, index, flaw, ptr, log, logTail>>
WritePointer(w, torn) ==
  /\ IF torn THEN flaw' = [flaw EXCEPT !["pointer index"] = "tail"] /\ UNCHANGED ptr
     ELSE ptr' = [ptr EXCEPT ![w.ref] = w.id] /\ UNCHANGED flaw
  /\ UNCHANGED <<rec, index, log, logTail, ses>>
WriteLog(w, torn) ==
  /\ IF torn THEN logTail' = w.ref /\ UNCHANGED log
     ELSE log' = [log EXCEPT ![w.ref] = Append(@, [state |-> w.id, sound |-> TRUE])] /\ UNCHANGED logTail
  /\ UNCHANGED <<rec, index, flaw, ptr, ses>>

Effect(w, torn) ==
  CASE w.do = "object" -> WriteObject(w, torn)
    [] w.do = "index" -> WriteIndex(w, torn)
    [] w.do = "pointer" -> WritePointer(w, torn)
    [] w.do = "log" -> WriteLog(w, torn)
    [] OTHER -> WriteSession(w, torn)

Overlapped == v' = [v EXCEPT !.alone = FALSE]

Write ==
  /\ ~stopped /\ wpc <= Len(Script)
  /\ Effect(Script[wpc], FALSE)
  /\ wpc' = wpc + 1 /\ Overlapped
  /\ UNCHANGED <<received, marker, verified, stopped, bad, struck, hurt, cleared>>

Crash ==
  /\ ~stopped /\ wpc <= Len(Script) /\ v.pc = "idle"
  /\ \/ UNCHANGED <<rec, index, flaw, ptr, log, logTail, ses>>
     \/ Script[wpc].do \notin {"drain wal", "drain witness", "drain owner"} /\ Effect(Script[wpc], TRUE)
  /\ stopped' = TRUE
  /\ UNCHANGED <<received, marker, verified, wpc, bad, struck, hurt, v, cleared>>

\* A worktree written from a snapshot whose replay nobody has recorded.
mark_worktree_provisional ==
  LET b == resolve_ref_tip_block(ptr["m"])
  IN  /\ struck = {} /\ Unlocked /\ Len(marker) < MaxMarks /\ b \notin verified
      /\ marker' = Append(marker, b)
      /\ Overlapped
      /\ UNCHANGED <<verified, cleared>> /\ UNCHANGED <<rec, index, flaw, ptr, log, logTail, received, ses, wpc, stopped, bad, struck, hurt>>

-----------------------------------------------------------------------------
(* Faults, while nothing runs: one object and one file between commands, one
   of either after a crash; explored apart from false roots and provisional
   worktrees. *)

MayStrike(what) == bad = {} /\ marker = <<>> /\ (wpc \in Between \/ (stopped /\ struck = {})) /\ v.pc = "idle" /\ what \notin struck

\* What the refs and the queue need: the log keeps every state of a local ref,
\* a received ref the state it names and the one before it.
Needed ==
  LET states == UNION {{log[r][i].state : i \in DOMAIN log[r]} \cup ({ptr[r]} \ {None}) : r \in Refs}
                  \cup UNION {{received[n]} \cup Meta[received[n]].previous : n \in DOMAIN received}
      targets == UNION {Meta[s].target : s \in states}
  IN  states \cup compute_reachable(Ids, targets) \cup UNION {Meta[s].attests : s \in states}
        \cup QueuedBlobs(ses.wal)

StrikeObject(id, kind) ==
  /\ MayStrike("object") /\ rec[id] = "sound" /\ id \in index
  /\ IF kind = "unindexed" THEN index' = index \ {id} /\ UNCHANGED rec
     ELSE rec' = [rec EXCEPT ![id] = kind] /\ UNCHANGED index
  /\ struck' = struck \cup {"object"} /\ stopped' = TRUE
  /\ UNCHANGED <<hurt, flaw, ptr, log, logTail, received, ses, marker, verified, wpc, bad, v, cleared>>

StrikeFile(file, kind) ==
  /\ MayStrike("file") /\ flaw[file] = "sound"
  /\ flaw' = [flaw EXCEPT ![file] = kind]
  /\ struck' = struck \cup {"file"} /\ stopped' = TRUE
  /\ hurt' = (hurt \/ (file # "object index" /\ kind \in {"damaged", "ambiguous"}))
  /\ UNCHANGED <<rec, index, ptr, log, logTail, received, ses, marker, verified, wpc, bad, v, cleared>>

\* The newest record of the ref log, of the pointer index or of the queue rots or is gone.
Shorter(seq) == SubSeq(seq, 1, Len(seq) - 1)
Rotted(seq) == [seq EXCEPT ![Len(seq)].sound = FALSE]
StrikeRecord ==
  /\ MayStrike("file") /\ struck' = struck \cup {"file"} /\ stopped' = TRUE
  /\ \/ /\ \E change \in {Shorter(log["m"]), Rotted(log["m"])} : log' = [log EXCEPT !["m"] = change]
        /\ hurt' = TRUE /\ UNCHANGED <<ptr, ses>>
     \/ /\ Meta[ptr["m"]].previous # {}
        /\ ptr' = [ptr EXCEPT !["m"] = Only(Meta[ptr["m"]].previous)]
        /\ hurt' = (hurt \/ {ptr["m"]} = Tip(log["m"])) /\ UNCHANGED <<log, ses>>
     \/ /\ ses.wal # <<>>
        /\ \E change \in {Shorter(ses.wal), Rotted(ses.wal)} : ses' = [ses EXCEPT !.wal = change]
        /\ hurt' = \/ hurt
                   \/ ses.witness.state = "valid" /\ ~patch_is_sealed_and_reachable_since(ses.witness)
        /\ UNCHANGED <<log, ptr>>
  /\ UNCHANGED <<rec, index, flaw, logTail, received, marker, verified, wpc, bad, v, cleared>>

-----------------------------------------------------------------------------
FirstLog(r) ==
  LET chain == RefStateChain(FirstPtr[r])
  IN  IF FirstPtr[r] = None THEN <<>>
      ELSE [i \in 1..Cardinality(chain) |->
              [state |-> CHOOSE s \in chain : UpdateSeq(s) = i, sound |-> TRUE]]

Init ==
  /\ rec = [i \in Ids |-> IF i \in FirstObjects \cup Remnants THEN "sound" ELSE "absent"]
  /\ index = FirstObjects \cup Remnants
  /\ flaw = [f \in Files |-> "sound"]
  /\ ptr = FirstPtr /\ log = [r \in Refs |-> FirstLog(r)] /\ logTail = None
  /\ received = FirstReceived
  /\ ses = [wal |-> <<>>, tail |-> FALSE, owner |-> "missing", witness |-> NoWitness]
  /\ marker = <<>> /\ verified = {}
  /\ wpc = 1 /\ stopped = FALSE
  /\ bad \in BadRootSets
  /\ struck = {} /\ hurt = FALSE
  /\ v = Idle /\ cleared = {}

Verify ==
  \/ ReadMarker \/ OpenView \/ ReplayWal \/ VerifyObjects \/ ReadRefLog \/ VerifyRefs \/ VerifyReceived
  \/ ReadOwner \/ ReadWitness \/ record_verified_blocks \/ clear_provisional_marker_if_unchanged

Fault ==
  \/ \E id \in Ids, kind \in {"rotted", "torn", "absent", "unindexed"} : StrikeObject(id, kind)
  \/ \E file \in Files \ Caches, kind \in {"tail", "damaged"} : StrikeFile(file, kind)
  \/ \E file \in SlotFiles, kind \in {"ambiguous", "deduced"} : StrikeFile(file, kind)
  \/ \E file \in Caches : StrikeFile(file, "diverged")
  \/ StrikeRecord

Next == Verify \/ Write \/ Crash \/ mark_worktree_provisional \/ Fault
Spec == Init /\ [][Next]_vars

-----------------------------------------------------------------------------
Done == v.pc = "done" /\ v.alone

\* After a crash of the writer at any point, and no damage, a verification that
\* runs alone reports nothing but the publication left to complete
\* (verify.rs, verify/objects.rs, refs/verify.rs, commit_boundary/classification.rs).
CrashIsExplained ==
  Done /\ struck = {} /\ bad = {} => all_true_conditions(v) \subseteq {"blocking-ref-publication"}

\* A verification that runs alone fails when something a ref, a received ref or
\* the queue needs is damaged or gone, even with the object index damaged too
\* (verify/objects.rs falls back on the containers).
DamageIsReported == Done /\ (hurt \/ ~Found(IndexSnapshot_open, Needed)) => all_true_conditions(v) # {}

\* A block is recorded as replayed, and the marker of a worktree made from a
\* snapshot is emptied, only for what the run really replayed, also when the
\* worktree is written again while the run is under way (worktree_marker.rs, verified_blocks.rs).
ReplayIsEarned == cleared = {} /\ \A b \in verified : StateLine(b) \cap bad = {}

=============================================================================
