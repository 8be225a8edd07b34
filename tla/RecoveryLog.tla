---------------------------- MODULE RecoveryLog ----------------------------
(***************************************************************************)
(* The recovery log of a repository, the repairs that write it and the     *)
(* restore that reads it (recovery_log.rs, recovery_log/restore.rs and the *)
(* `doctor` verbs).  A repair saves what it is about to remove, as one or  *)
(* more entries of one run, before it truncates or rewrites a file; a      *)
(* restore undoes a run from its last entry to its first, after checking   *)
(* every condition over an overlay of the files.  A crash may fall between *)
(* any two writes of either, and inside an append.                         *)
(*                                                                         *)
(* The bytes of a file are a sequence of atoms: n > 0 is the n-th whole    *)
(* record written, -n its torn part; a hash is the bytes it is a hash of.  *)
(* The commands hold the locks of every file they read, so one runs at a   *)
(* time.                                                                   *)
(***************************************************************************)
EXTENDS Integers, Sequences, FiniteSets, SequencesExt

CONSTANTS Faults,       \* initial states of the files, see MCStorage
          MaxWrites,    \* ordinary records written after the fault
          MaxRuns,      \* repair runs
          MaxRestores,  \* restores executed
          MaxCrashes,   \* crashes of a repair or a restore
          MaxRot        \* entries of the log that rot

VARIABLES file,     \* the bytes of each file
          live,     \* the pointer index slot the generation log names
          log,      \* the frames of recovery/log
          cmd,      \* the command running: its run and the writes it has left
          before,   \* ghost: the files as each run found them
          stamp,    \* ghost: the ordinary writes made before each run
          count     \* bounds: writes, restores, crashes, rot

vars == <<file, live, log, cmd, before, stamp, count>>

(* Bytes. *)
Whole(bytes) == SelectSeq(bytes, LAMBDA a : a > 0)
Torn(bytes) == bytes # <<>> /\ Last(bytes) < 0
Prefix(bytes, n) == SubSeq(bytes, 1, n)
Newest(bytes) == IF Whole(bytes) = <<>> THEN 0 ELSE Last(Whole(bytes))
Valid == <<1>>  \* a ref-name file that names a branch
Idle == [by |-> "none", run |-> 0, todo |-> <<>>]
Later == count.writes + 10  \* the number of the next ordinary record

-----------------------------------------------------------------------------
(* The table of meaning files, and the sources a restore may write. *)

meaning_paths_for(source) ==
  CASE source \in {"witness", "ref_name"} -> <<"wal">>
    [] source = "wal" -> <<"ref_name", "witness">>
    [] source \in {"pointer_a", "pointer_b"} -> <<"ref_log">>
    [] source = "ref_log" -> <<live>>
    [] source \in {"received_a", "received_b"} -> <<"received_gen">>
    [] OTHER -> <<>>

\* Outside the session's own files the table refuses while the generation log
\* of the pointer index is lost.
generation_log_lost == file["pointer_gen"] = <<>> /\ file["pointer_b"] # <<>>

MeaningIsKnown(source) ==
  source \in {"wal", "witness", "ref_name"} \/ ~generation_log_lost

repairable_sources == DOMAIN file

meaning_now(paths) == [i \in DOMAIN paths |-> file[paths[i]]]

(* What one save records. *)
entry_for(run, source, cut) ==
  [frame |-> "entry", kind |-> "Cut", run |-> run, source |-> source, offset |-> cut,
   prefix_hash |-> Prefix(file[source], cut), new_hash |-> <<>>,
   removed |-> SubSeq(file[source], cut + 1, Len(file[source])),
   paths |-> meaning_paths_for(source), meaning |-> meaning_now(meaning_paths_for(source))]

save_replace(run, source, written) ==
  [frame |-> "entry", kind |-> "Replace", run |-> run, source |-> source, offset |-> 0,
   prefix_hash |-> file[source], new_hash |-> written, removed |-> file[source],
   paths |-> meaning_paths_for(source), meaning |-> meaning_now(meaning_paths_for(source))]

\* The ids a rebuilt object index no longer names: the list of the ids, not
\* bytes the index held (100 + id is the text of id).
save_lost_ids(run, lost) ==
  [frame |-> "entry", kind |-> "Cut", run |-> run, source |-> "index", offset |-> 0,
   prefix_hash |-> <<>>, new_hash |-> <<>>, removed |-> [i \in DOMAIN lost |-> 100 + lost[i]],
   paths |-> <<>>, meaning |-> <<>>]

-----------------------------------------------------------------------------
(* Reading the log back. *)

Entries(frames) == SelectSeq(frames, LAMBDA f : f.frame = "entry")

\* A torn frame is a tail only while no sound frame follows it.
sound_frame_after(i) == \E j \in i + 1 .. Len(log) : log[j].frame = "entry"

classify_at(i) ==
  CASE log[i].frame = "entry" -> "Entry"
    [] log[i].frame = "torn" /\ ~sound_frame_after(i) -> "Prefix"
    [] OTHER -> "Damage"

list == [entries |-> Entries(log),
         damaged_regions |-> Cardinality({i \in DOMAIN log : classify_at(i) = "Damage"}),
         torn_tail |-> \E i \in DOMAIN log : classify_at(i) = "Prefix"]

-----------------------------------------------------------------------------
(* The restore of a run: its entries are undone last to first, each over    *)
(* the files the later ones leave.                                          *)

Members(run) == SelectSeq(list.entries, LAMBDA e : e.run = run)

cut_undone(bytes, e) ==
  /\ Len(bytes) = e.offset + Len(e.removed)
  /\ Prefix(bytes, e.offset) = e.prefix_hash
  /\ SubSeq(bytes, e.offset + 1, Len(bytes)) = e.removed

Done(bytes, e) ==
  IF e.kind = "Cut" THEN cut_undone(bytes, e) ELSE bytes = e.prefix_hash

\* Mutant: a cut is put back whatever the file has become.
source_unmeasured(bytes, e) == e.kind = "Replace" => bytes = e.new_hash

SourceAsLeft(bytes, e) ==
  IF e.kind = "Cut" THEN Len(bytes) = e.offset /\ Prefix(bytes, e.offset) = e.prefix_hash
                    ELSE bytes = e.new_hash

MeaningAsLeft(overlay, e) == \A i \in DOMAIN e.paths : overlay[e.paths[i]] = e.meaning[i]

undo_step(plan, e) ==
  LET bytes == plan.overlay[e.source]
      after == IF e.kind = "Replace" THEN e.removed
               ELSE IF Len(bytes) = e.offset THEN bytes \o e.removed ELSE bytes
  IN IF Done(bytes, e) THEN plan
     ELSE [overlay |-> [plan.overlay EXCEPT ![e.source] = after],
           writes |-> Append(plan.writes, e),
           can |-> plan.can /\ SourceAsLeft(bytes, e) /\ MeaningAsLeft(plan.overlay, e)]

MatchesTable(e) ==
  /\ e.source \in repairable_sources
  /\ MeaningIsKnown(e.source)
  /\ e.paths = meaning_paths_for(e.source)

restore_plan(run) ==
  LET members == Members(run)
      start == [overlay |-> file, writes |-> <<>>, can |-> TRUE]
      plan == FoldLeft(undo_step, start, Reverse(members))
      known == members # <<>> /\ \A i \in DOMAIN members : MatchesTable(members[i])
  IN [plan EXCEPT !.can = @ /\ known]

-----------------------------------------------------------------------------
(* A command is the sequence of its writes; each is a step of its own. *)

SaveCut(source, cut) == [op |-> "save_cut", source |-> source, bytes |-> <<cut>>]
SaveReplace(source, written) == [op |-> "save_replace", source |-> source, bytes |-> written]
SaveIds(ids) == [op |-> "save_ids", source |-> "index", bytes |-> ids]
Truncate(source, len) == [op |-> "truncate", source |-> source, bytes |-> <<len>>]
AppendTo(source, bytes) == [op |-> "append", source |-> source, bytes |-> bytes]
Overwrite(source, bytes) == [op |-> "overwrite", source |-> source, bytes |-> bytes]
Install(source, bytes) == [op |-> "install", source |-> source, bytes |-> bytes]

SaveOps == {"save_cut", "save_replace", "save_ids"}

Entry(w) ==
  CASE w.op = "save_cut" -> entry_for(cmd.run, w.source, w.bytes[1])
    [] w.op = "save_replace" -> save_replace(cmd.run, w.source, w.bytes)
    [] w.op = "save_ids" -> save_lost_ids(cmd.run, w.bytes)

Written(w) ==
  CASE w.op = "truncate" -> Prefix(file[w.source], w.bytes[1])
    [] w.op = "append" -> file[w.source] \o w.bytes
    [] w.op = "install" -> w.bytes
    [] w.op = "overwrite" ->
         w.bytes \o SubSeq(file[w.source], Len(w.bytes) + 1, Len(file[w.source]))

\* Every tail repair is this pair of writes; nothing when there is no tail.
\* Mutant: the tail is removed before its bytes are saved.
truncate_then_save(source) ==
  IF Torn(file[source])
  THEN <<Truncate(source, Len(file[source]) - 1), SaveCut(source, Len(file[source]) - 1)>>
  ELSE <<>>

truncate_one_tail(source) ==
  IF Torn(file[source])
  THEN <<SaveCut(source, Len(file[source]) - 1), Truncate(source, Len(file[source]) - 1)>>
  ELSE <<>>

truncate_trailing_partial == truncate_one_tail("wal")
truncate_pointer_index_trailing_partial == truncate_one_tail(live)

write_witness_in_place(bytes) == <<Overwrite("witness", bytes), Truncate("witness", Len(bytes))>>

rebuild_witness_over_sound_wal ==
  LET wal == Whole(file["wal"])
      bytes == IF wal = <<>> THEN <<>> ELSE <<Last(wal)>>
  IN <<SaveReplace("witness", bytes)>> \o write_witness_in_place(bytes)

-----------------------------------------------------------------------------
(* What the session's files say, and the repairs. *)

classify ==
  LET wal == file["wal"]  witness == file["witness"]  last == Newest(wal)
  IN CASE last # 0 /\ file["ref_name"] # Valid -> "OwnershipMissing"
       [] witness = <<>> -> "NoWitness"
       [] witness[1] < 0 -> IF Torn(wal) THEN "UnknownWithDamagedWitness" ELSE "WitnessDamaged"
       [] witness[1] = last -> IF Torn(wal) THEN "CrashTail" ELSE "Healthy"
       [] witness[1] < last -> "Pending"
       [] Torn(wal) /\ Last(wal) = -witness[1] -> "AcknowledgedDamage"
       [] OTHER -> "AcknowledgedLoss"

write_refusal_reason ==
  classify \in {"AcknowledgedDamage", "AcknowledgedLoss", "UnknownWithDamagedWitness",
               "OwnershipMissing"}

\* The session's own issues of severity error, which make repair_repository skip it.
commit_witness_error == write_refusal_reason

no_incomplete_publication == Whole(file[live]) = Whole(file["ref_log"])

witness_repair ==
  IF classify # "WitnessDamaged" THEN <<>>
  ELSE IF file["ref_name"] = Valid THEN rebuild_witness_over_sound_wal
  ELSE write_witness_in_place(<<>>)

\* One repair at a time, each a run of its own.
Begin(todo) ==
  /\ cmd = Idle /\ Len(before) < MaxRuns
  /\ todo # <<>>
  /\ cmd' = [by |-> "repair", run |-> Len(before) + 1, todo |-> todo]
  /\ before' = Append(before, file)
  /\ stamp' = Append(stamp, count.writes)
  /\ UNCHANGED <<file, live, log, count>>

run_repair_tails ==
  /\ ~generation_log_lost
  /\ ~write_refusal_reason
  /\ Torn(file["ref_log"]) => no_incomplete_publication
  /\ Begin(truncate_trailing_partial \o truncate_pointer_index_trailing_partial \o truncate_one_tail("keys")
           \o truncate_one_tail("ref_log") \o witness_repair)

discard_damaged_commits ==
  /\ no_incomplete_publication
  /\ write_refusal_reason /\ classify # "OwnershipMissing"
  /\ file["ref_name"] = Valid
  /\ Begin(truncate_trailing_partial \o rebuild_witness_over_sound_wal)

restore_queue_target ==
  /\ no_incomplete_publication
  /\ classify = "OwnershipMissing"
  /\ ~Torn(file["wal"])
  /\ Begin(<<SaveReplace("ref_name", Valid), Truncate("ref_name", 0), AppendTo("ref_name", Valid)>>)

\* repair_repository skips a session whose own check reports an error.
repair_repository ==
  /\ no_incomplete_publication
  /\ ~commit_witness_error
  /\ Begin(truncate_trailing_partial)

repair_pointer_index_tail ==
  /\ ~generation_log_lost
  /\ Begin(truncate_pointer_index_trailing_partial)

\* The index is rebuilt from the object containers and installed atomically.
Lost == SelectSeq(file["index"], LAMBDA id : id \notin ToSet(file["objects"]))

repair_object_index ==
  /\ ToSet(file["index"]) # ToSet(file["objects"])
  /\ Begin((IF Lost = <<>> THEN <<>> ELSE <<SaveIds(Lost)>>)
           \o <<Install("index", file["objects"])>>)

\* `received remove` and `compact --keep-slot` save both files, then write both.
ReceivedSlot(n) == IF n % 2 = 0 THEN "received_a" ELSE "received_b"
ReceivedLive == ReceivedSlot(Len(file["received_gen"]))

run_received_remove ==
  LET target == ReceivedSlot(Len(file["received_gen"]) + 1)
      kept == Tail(file[ReceivedLive])
      switch == <<Len(file["received_gen"]) + 1>>
  IN /\ file[ReceivedLive] # <<>> /\ ~Torn(file[ReceivedLive]) /\ ~Torn(file["received_gen"])
     /\ Begin(<<SaveReplace(target, kept),
                SaveReplace("received_gen", file["received_gen"] \o switch),
                Truncate(target, 0), AppendTo(target, kept), AppendTo("received_gen", switch)>>)

-----------------------------------------------------------------------------
(* Steps of a command, and its crashes. *)

Step ==
  /\ cmd # Idle
  /\ LET w == Head(cmd.todo)
     IN IF w.op \in SaveOps
        THEN /\ w.op # "save_ids" => MeaningIsKnown(w.source)
             /\ log' = Append(log, Entry(w))
             /\ UNCHANGED file
        ELSE /\ file' = [file EXCEPT ![w.source] = Written(w)]
             /\ UNCHANGED log
  /\ cmd' = IF Len(cmd.todo) = 1 THEN Idle ELSE [cmd EXCEPT !.todo = Tail(@)]
  /\ UNCHANGED <<live, before, stamp, count>>

\* A crash leaves the write it interrupts undone, or an append torn.
Crash ==
  /\ cmd # Idle /\ count.crashes < MaxCrashes
  /\ LET w == Head(cmd.todo)
     IN \/ UNCHANGED <<file, log>>
        \/ /\ w.op \in SaveOps
           /\ log' = Append(log, [Entry(w) EXCEPT !.frame = "torn"])
           /\ UNCHANGED file
        \/ /\ w.op = "append"
           /\ file' = [file EXCEPT ![w.source] = @ \o <<-99>>]
           /\ UNCHANGED log
  /\ cmd' = Idle
  /\ count' = [count EXCEPT !.crashes = @ + 1]
  /\ UNCHANGED <<live, before, stamp>>

-----------------------------------------------------------------------------
(* Restore and clear. *)

UndoWrites(e) ==
  IF e.kind = "Cut" THEN <<AppendTo(e.source, e.removed)>>
  ELSE <<Overwrite(e.source, e.removed), Truncate(e.source, Len(e.removed))>>

recovery_restore(run) ==
  /\ cmd = Idle /\ count.restores < MaxRestores
  /\ LET plan == restore_plan(run)
     IN /\ plan.can /\ plan.writes # <<>>
        /\ cmd' = [by |-> "restore", run |-> run,
                   todo |-> FlattenSeq([i \in DOMAIN plan.writes |-> UndoWrites(plan.writes[i])])]
  /\ count' = [count EXCEPT !.restores = @ + 1]
  /\ UNCHANGED <<file, live, log, before, stamp>>

recovery_clear ==
  /\ cmd = Idle /\ log # <<>>
  /\ log' = <<>>
  /\ UNCHANGED <<file, live, cmd, before, stamp, count>>

Rot ==
  /\ cmd = Idle /\ count.rot < MaxRot
  /\ \E i \in DOMAIN log : log' = [log EXCEPT ![i].frame = "rot"]
  /\ count' = [count EXCEPT !.rot = @ + 1]
  /\ UNCHANGED <<file, live, cmd, before, stamp>>

-----------------------------------------------------------------------------
(* Ordinary commands; a crash inside one leaves a torn append. *)

Ordinary(new) ==
  /\ cmd = Idle /\ count.writes < MaxWrites
  /\ file' = new
  /\ count' = [count EXCEPT !.writes = @ + 1]
  /\ UNCHANGED <<log, cmd, before, stamp>>

Commit ==
  /\ ~write_refusal_reason /\ ~Torn(file["wal"])
  /\ \/ Ordinary([file EXCEPT !["wal"] = Append(@, Later), !["witness"] = <<Later>>,
                              !["ref_name"] = Valid])
     \/ Ordinary([file EXCEPT !["wal"] = Append(@, -Later), !["ref_name"] = Valid])
  /\ UNCHANGED live

Publish ==
  /\ ~generation_log_lost /\ ~Torn(file[live]) /\ ~Torn(file["ref_log"])
  /\ no_incomplete_publication
  /\ \/ Ordinary([file EXCEPT ![live] = Append(@, Later), !["ref_log"] = Append(@, Later)])
     \/ Ordinary([file EXCEPT ![live] = Append(@, -Later)])
     \/ Ordinary([file EXCEPT ![live] = Append(@, Later), !["ref_log"] = Append(@, -Later)])
  /\ UNCHANGED live

AddKey ==
  /\ ~Torn(file["keys"])
  /\ \E key \in {Later, -Later} : Ordinary([file EXCEPT !["keys"] = Append(@, key)])
  /\ UNCHANGED live

CompactPointerIndex ==
  LET other == IF live = "pointer_a" THEN "pointer_b" ELSE "pointer_a"
  IN /\ ~generation_log_lost /\ ~Torn(file[live]) /\ no_incomplete_publication
     /\ Ordinary([file EXCEPT ![other] = file[live], !["pointer_gen"] = Append(@, Later)])
     /\ live' = other

write_received_pointer ==
  /\ ~Torn(file[ReceivedLive]) /\ ~Torn(file["received_gen"])
  /\ Ordinary([file EXCEPT ![ReceivedLive] = Append(@, Later)])
  /\ UNCHANGED live

-----------------------------------------------------------------------------
Init ==
  /\ file \in Faults
  /\ live = "pointer_a"
  /\ log = <<>> /\ cmd = Idle /\ before = <<>> /\ stamp = <<>>
  /\ count = [writes |-> 0, restores |-> 0, crashes |-> 0, rot |-> 0]

Repair == \/ run_repair_tails \/ discard_damaged_commits \/ restore_queue_target
          \/ repair_repository \/ repair_pointer_index_tail \/ repair_object_index
          \/ run_received_remove

Next == \/ Repair \/ Step \/ Crash
        \/ \E run \in 1 .. MaxRuns : recovery_restore(run)
        \/ recovery_clear \/ Rot
        \/ Commit \/ Publish \/ AddKey \/ CompactPointerIndex \/ write_received_pointer

Spec == Init /\ [][Next]_vars

-----------------------------------------------------------------------------
(* Properties *)

Completes == cmd.by = "restore" /\ cmd' = Idle /\ count'.crashes = count.crashes

\* A restore that runs to its end leaves every file the run's entries name as
\* the run found it, whatever crashes cut the repair or an earlier restore of
\* it short (recovery_log/restore.rs).
FoundAgain ==
  Completes => \A i \in DOMAIN Members(cmd.run) :
    file'[Members(cmd.run)[i].source] = before[cmd.run][Members(cmd.run)[i].source]

\* A queue tail comes back only beside the witness and the ref-name it was cut
\* beside: without them its records would belong to another branch or be
\* acknowledged by another history (the first row of meaning_paths_for).
TailReturnsToItsSession ==
  Completes /\ file'["wal"] # file["wal"]
    => \A f \in {"witness", "ref_name"} : file'[f] = before[cmd.run][f]

\* No step of a restore drops a record written after the repair it undoes.
LaterWorkSurvives ==
  cmd.by = "restore" => \A f \in DOMAIN file : \A i \in DOMAIN file[f] :
    file[f][i] >= stamp[cmd.run] + 10 => file[f][i] \in ToSet(file'[f])

\* What a restore does is exactly to undo its run.
RestoreUndoes == [][FoundAgain /\ TailReturnsToItsSession /\ LaterWorkSurvives]_vars

\* What a repair has removed from a file is in the log before it leaves the
\* file: at every step, and at every crash, of the repair.
SavedBeforeRemoved ==
  cmd.by = "repair" => \A f \in DOMAIN file \ {"index"} :
    LET was == before[cmd.run][f]
    IN file[f] # was => \E i \in DOMAIN log :
         /\ log[i].frame # "torn" /\ log[i].run = cmd.run /\ log[i].source = f
         /\ was = IF log[i].kind = "Cut" THEN log[i].prefix_hash \o log[i].removed
                                         ELSE log[i].removed
=============================================================================
