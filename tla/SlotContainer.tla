---------------------------- MODULE SlotContainer ----------------------------
(***************************************************************************)
(* The three compacting containers of the store: the ref pointer index,    *)
(* the received index and the maintainer trust policy.  Each has two slot  *)
(* files, A and B, and a generation log whose last record names the live   *)
(* one.  Writers append to the live slot; compaction, received remove,     *)
(* --keep-slot and the pointer rebuild write the other slot and then       *)
(* append the generation record that makes it live.  All of them hold the  *)
(* container's lock, so one runs at a time; a reader holds none.  When the *)
(* generation log is lost, foundation/generation.rs deduces the live slot  *)
(* from what the two slots hold.  What a frame is, and when a tail is a    *)
(* tail, is module FrameScan; here a slot is its entries and a torn flag.  *)
(***************************************************************************)
EXTENDS Integers, Sequences, FiniteSets, SequencesExt

CONSTANTS Kinds,           \* the containers under check
          Keys,            \* ref names, or maintainer key ids
          Values,          \* RefStates a bundle may carry
          MaxAppends,      \* appends in one behaviour, for each kind
          MaxCompactions,  \* rewrites of the other slot in one behaviour
          MaxCrashes,
          MaxLosses        \* times the generation log is lost

VARIABLES kind,            \* which container this is
          slot,            \* the two slot files
          gen,             \* the generation log
          log,             \* the ref log: what a pointer rebuild derives from
          op,              \* the rewrite in progress, under the lock
          recov,           \* slot contents saved in the recovery log
          reader,          \* one lock-free reader, step by step
          truth,           \* what the container means to its users
          cut,             \* a rebuild over a lost log was not finished
          during,          \* what it meant at some moment of the reader's read
          count            \* appends, rewrites, crashes and losses so far
vars == <<kind, slot, gen, log, op, recov, reader, truth, cut, during, count>>

Slot == {"A", "B"}
\* Mutant: the rewrite goes to the live slot itself.
same_slot(s) == s

other(s) == IF s = "A" THEN "B" ELSE "A"
File(es) == [entries |-> es, torn |-> FALSE]
NoLog == [records |-> <<>>, torn |-> FALSE]
NoOp == [name |-> "none"]

(***************************************************************************)
(* What a run of entries means.                                            *)
(***************************************************************************)
\* refs/pointer_index.rs fold_one_pointer_index_entry: the last entry of a
\* name is the only one, and moves to the end.
fold_one_pointer_index_entry(running, e) ==
    Append(SelectSeq(running, LAMBDA x : x.key # e.key), e)

\* received/received_index.rs fold_one_received_index_entry.
fold_one_received_index_entry(running, e) ==
    Append(SelectSeq(running, LAMBDA x : x.key # e.key), e)

\* trust_index.rs fold_one_trust_policy_entry: a snapshot replaces the last.
fold_one_trust_policy_entry(running, e) == <<e>>

fold_entry(running, e) ==
    CASE kind = "pointer"  -> fold_one_pointer_index_entry(running, e)
      [] kind = "received" -> fold_one_received_index_entry(running, e)
      [] kind = "trust"    -> fold_one_trust_policy_entry(running, e)

\* foundation/generation.rs fold_all, and the three reduce_*_entries.
fold_all(es) == FoldLeft(fold_entry, <<>>, es)
Means(es) == Range(fold_all(es))

(***************************************************************************)
(* Which slot is live.                                                     *)
(***************************************************************************)
\* foundation/generation.rs stale_beside: y was compacted from all of x, or x
\* is a compaction, complete or cut short, of an earlier y.
stale_beside(x, y) ==
    \/ IsPrefix(fold_all(x), y)
    \/ x = <<>>
    \/ \E n \in 1 .. Len(y) : IsPrefix(x, fold_all(SubSeq(y, 1, n)))

\* foundation/generation.rs slot_b_has_data: a stat, so a torn entry counts.
slot_b_has_data == slot["B"].entries # <<>> \/ slot["B"].torn

\* foundation/generation.rs generation_log_lost.
generation_log_lost == gen.records = <<>> /\ slot_b_has_data

\* foundation/generation.rs resolve_or_deduce, from the records of the log, a
\* stat of slot B and the entries of both slots.
deduce(a, b) ==
    LET aStale == stale_beside(a, b)
        bStale == stale_beside(b, a)
    IN CASE ~aStale /\ bStale -> "A"
         [] aStale /\ ~bStale -> "B"
         [] aStale /\ bStale /\ fold_all(a) = fold_all(b) -> "A"
         [] OTHER -> "ambiguous"

\* Mutant: an empty log means slot A, whatever slot B holds.
resolve_defaulting(records, bHasData, a, b) ==
    IF records # <<>> THEN Last(records) ELSE "A"

resolve_or_deduce(records, bHasData, a, b) ==
    CASE records # <<>> -> Last(records)
      [] records = <<>> /\ ~bHasData -> "A"
      [] OTHER -> deduce(a, b)

resolve_live_slot ==
    resolve_or_deduce(gen.records, slot_b_has_data,
                      slot["A"].entries, slot["B"].entries)
Deduced == generation_log_lost

\* The precondition every rewrite shares: no torn tail on the generation log
\* or on the live slot (foundation/tail_guard.rs).
require_no_unclean_tail(live) == ~gen.torn /\ ~slot[live].torn

(***************************************************************************)
(* Ordinary appends, whole or torn by a crash.                             *)
(***************************************************************************)
Bump(c) == [count EXCEPT ![c] = @ + 1]
Torn(f) == [f EXCEPT !.torn = TRUE]
CrashedAppend ==
    /\ count.crashes < MaxCrashes
    /\ count' = [count EXCEPT !.appends = @ + 1, !.crashes = @ + 1]

AppendTo(live, e, after) ==
    /\ op = NoOp
    /\ live \in Slot
    /\ ~slot[live].torn
    /\ count.appends < MaxAppends[kind]
    /\ \/ /\ slot' = [slot EXCEPT ![live].entries = Append(@, e)]
          /\ truth' = Range(fold_entry(SetToSeq(truth), e))
          /\ \/ log' = after /\ count' = Bump("appends")
             \/ after # log /\ log' = log /\ CrashedAppend
       \/ /\ slot' = [slot EXCEPT ![live] = Torn(@)]
          /\ UNCHANGED <<truth, log>>
          /\ CrashedAppend
    /\ UNCHANGED <<kind, gen, op, recov, reader, cut>>

AppendEntry(e, after) == AppendTo(resolve_live_slot, e, after)

PointersMeanTheLog ==
    resolve_live_slot \in Slot
        /\ Means(slot[resolve_live_slot].entries) = Means(log)

\* refs/pointer_index.rs append_ref_pointer_entry, then the log record of the
\* same publication; a crash between them leaves a lead.  A publication
\* starts only when the pointers mean what the log says.
append_ref_pointer_entry(k) ==
    LET e == [key |-> k, val |-> count.appends + 1] IN
    /\ kind = "pointer"
    /\ PointersMeanTheLog
    /\ AppendEntry(e, Append(log, e))

\* ref_completion.rs: the log record of a lead.
complete_lead(k) ==
    LET live == resolve_live_slot
        leads == {e \in Means(slot[live].entries) : e \notin Range(log) /\ e.key = k} IN
    /\ kind = "pointer"
    /\ op = NoOp
    /\ live \in Slot
    /\ ~slot[live].torn
    /\ \E e \in leads :
         /\ \A l \in Range(log) : l.val < e.val
         /\ log' = Append(log, e)
    /\ UNCHANGED <<kind, slot, gen, op, recov, reader, truth, cut, count>>

\* received.rs write_received_pointer: any RefState a bundle brings.
append_received_index_entry(k, v) ==
    /\ kind = "received"
    /\ AppendEntry([key |-> k, val |-> v], log)

\* The snapshot the code reads: current_adopted_key_ids of the live slot.
current_adopted_key_ids ==
    LET live == resolve_live_slot IN
    IF live \notin Slot \/ slot[live].entries = <<>> THEN <<>> ELSE fold_all(slot[live].entries)[1].ids

\* trust.rs add_trusted_maintainer: adopting an adopted key writes nothing.
add_trusted_maintainer(k) ==
    /\ kind = "trust"
    /\ k \notin Range(current_adopted_key_ids)
    /\ AppendEntry([ids |-> Append(current_adopted_key_ids, k)], log)

\* trust.rs remove_trusted_maintainer: the last key cannot be removed.
remove_trusted_maintainer(k) ==
    LET ids == current_adopted_key_ids
        rest == SelectSeq(ids, LAMBDA x : x # k) IN
    /\ kind = "trust"
    /\ k \in Range(ids)
    /\ rest # <<>>
    /\ AppendEntry([ids |-> rest], log)

(***************************************************************************)
(* Rewrites of the other slot: truncate it, write it, switch to it.        *)
(***************************************************************************)
\* How many rewrites of its slot a read that overlaps o has to fear.
Overlap(o) ==
    CASE o = NoOp -> 0 [] o # NoOp /\ o.deduced -> 2 [] OTHER -> 1

Begin(name, live, buffer, save, means) ==
    /\ op = NoOp
    /\ count.rewrites < MaxCompactions
    /\ op' = [name |-> name, step |-> "truncate", target |-> other(live),
              buffer |-> buffer, means |-> means, deduced |-> Deduced]
    /\ recov' = IF save THEN recov \cup {slot[other(live)].entries} ELSE recov
    /\ count' = [count EXCEPT !.rewrites = @ + 1,
                              !.removes = IF name = "remove" THEN @ + 1 ELSE @]
    /\ reader' = IF reader.pc = "idle" THEN reader
                 ELSE [reader EXCEPT !.rewrites = @ + Overlap(op')]
    /\ UNCHANGED <<kind, slot, gen, log, truth, cut>>

\* compact.rs run_ref_pointer_index_compaction: refuses a deduced slot.
run_ref_pointer_index_compaction ==
    LET live == resolve_live_slot IN
    /\ kind = "pointer"
    /\ live \in Slot
    /\ ~Deduced
    /\ require_no_unclean_tail(live)
    /\ Begin("compact", live, fold_all(slot[live].entries), FALSE, truth)

\* Mutant: the received index is compacted over a deduced slot unsaved.
run_received_index_compaction_unsaved ==
    LET live == resolve_live_slot IN
    /\ kind = "received"
    /\ live \in Slot
    /\ require_no_unclean_tail(live)
    /\ Begin("compact", live, fold_all(slot[live].entries), FALSE, truth)

\* compact.rs run_received_index_compaction: over a deduced slot the bytes of
\* the other one are saved first.
run_received_index_compaction ==
    LET live == resolve_live_slot IN
    /\ kind = "received"
    /\ live \in Slot
    /\ require_no_unclean_tail(live)
    /\ Begin("compact", live, fold_all(slot[live].entries), Deduced, truth)

\* compact.rs run_trust_policy_compaction.
run_trust_policy_compaction ==
    LET live == resolve_live_slot IN
    /\ kind = "trust"
    /\ live \in Slot
    /\ require_no_unclean_tail(live)
    /\ Begin("compact", live, fold_all(slot[live].entries), Deduced, truth)

\* received/remove.rs run_received_remove: a compaction that also drops one
\* name, saved whether or not the slot was deduced.
run_received_remove(k) ==
    LET live == resolve_live_slot
        gone(e) == e.key # k IN
    /\ kind = "received"
    /\ live \in Slot
    /\ \E e \in Means(slot[live].entries) : e.key = k
    /\ require_no_unclean_tail(live)
    /\ Begin("remove", live, SelectSeq(fold_all(slot[live].entries), gone), TRUE,
             {e \in truth : e.key # k})

\* foundation/generation.rs keep_slot_state.
keep_slot_state ==
    CASE gen.records # <<>> -> "live_slot_recorded"
      [] gen.records = <<>> /\ ~slot_b_has_data -> "never_compacted"
      [] OTHER -> "lost_log"

\* compact.rs keep_slot_precondition: only for a lost log, and a slot without
\* entries cannot be the live one.
keep_slot_precondition(chosen) ==
    keep_slot_state = "lost_log" /\ slot[chosen].entries # <<>>

\* compact.rs run_trust_policy_keep_slot: the user says which slot is live.
run_trust_policy_keep_slot(chosen) ==
    /\ kind = "trust"
    /\ keep_slot_precondition(chosen)
    /\ Begin("keep", chosen, fold_all(slot[chosen].entries), TRUE,
             Means(slot[chosen].entries))

\* compact.rs run_received_index_keep_slot.
run_received_index_keep_slot(chosen) ==
    /\ kind = "received"
    /\ keep_slot_precondition(chosen)
    /\ Begin("keep", chosen, fold_all(slot[chosen].entries), TRUE,
             Means(slot[chosen].entries))

\* pointer_rebuild.rs: the pointers a rebuild compares with the ref log; none
\* are read when the generation log is lost.
rebuild_before ==
    IF generation_log_lost THEN {} ELSE Means(slot[resolve_live_slot].entries)

\* pointer_rebuild.rs: a pointer the log does not hold, or holds no newer one
\* of.  A lead that can be completed, or that is deeper, stops the rebuild.
rebuild_leads ==
    {e \in rebuild_before : \A l \in Range(log) : l.key = e.key => l.val < e.val}

\* pointer_rebuild.rs run_pointer_index_rebuild: every entry of the ref log,
\* into the slot that is not live, or into B when the generation log is lost,
\* if the pointers do not mean what the log says.
run_pointer_index_rebuild ==
    LET live == IF generation_log_lost THEN "A" ELSE resolve_live_slot IN
    /\ kind = "pointer"
    /\ live \in Slot
    /\ generation_log_lost \/ require_no_unclean_tail(live)
    /\ rebuild_leads = {}
    /\ rebuild_before # Means(log)
    /\ Begin("rebuild", live, log, FALSE, Means(log))

\* truncate_file_empty_required on the target.  What --keep-slot or a rebuild
\* gives up is gone from here on.
truncate_target ==
    /\ op # NoOp
    /\ op.step = "truncate"
    /\ slot' = [slot EXCEPT ![op.target] = File(<<>>)]
    /\ op' = [op EXCEPT !.step = "write"]
    /\ truth' = IF op.name \in {"keep", "rebuild"} THEN op.means ELSE truth
    /\ cut' = (cut \/ (op.name = "rebuild" /\ op.deduced))
    /\ UNCHANGED <<kind, gen, log, recov, reader, count>>

\* append_file_required of the whole buffer; a crash may cut it anywhere.
append_buffer ==
    /\ op # NoOp
    /\ op.step = "write"
    /\ \/ /\ slot' = [slot EXCEPT ![op.target].entries = op.buffer]
          /\ op' = [op EXCEPT !.step = "switch"]
          /\ count' = count
       \/ /\ count.crashes < MaxCrashes
          /\ \E n \in 0 .. Len(op.buffer) - 1 :
               slot' = [slot EXCEPT ![op.target] = Torn(File(SubSeq(op.buffer, 1, n)))]
          /\ op' = NoOp
          /\ count' = Bump("crashes")
    /\ UNCHANGED <<kind, gen, log, recov, reader, truth, cut>>

\* foundation/generation.rs append_generation_record: the switch.  The pointer
\* rebuild saves what it replaced only after it.
append_generation_record ==
    /\ op # NoOp
    /\ op.step = "switch"
    /\ \/ /\ gen' = [gen EXCEPT !.records = Append(@, op.target)]
          /\ truth' = op.means
          /\ cut' = FALSE
          /\ count' = count
       \/ /\ count.crashes < MaxCrashes
          /\ gen' = Torn(gen)
          /\ count' = Bump("crashes")
          /\ UNCHANGED <<truth, cut>>
    /\ op' = NoOp
    /\ UNCHANGED <<kind, slot, log, recov, reader>>

Crash ==
    /\ op # NoOp
    /\ count.crashes < MaxCrashes
    /\ op' = NoOp
    /\ count' = Bump("crashes")
    /\ UNCHANGED <<kind, slot, gen, log, recov, reader, truth, cut>>

(***************************************************************************)
(* Tails are repaired, and the generation log is lost.                     *)
(***************************************************************************)
\* doctor/repair_tails.rs run_repair_tails: the tails of the live slot and of
\* the generation log are cut; nothing is touched when no slot resolves.
run_repair_tails ==
    LET live == resolve_live_slot IN
    /\ op = NoOp
    /\ live \in Slot
    /\ slot[live].torn \/ gen.torn
    /\ slot' = [slot EXCEPT ![live].torn = FALSE]
    /\ gen' = [gen EXCEPT !.torn = FALSE]
    /\ UNCHANGED <<kind, log, op, recov, reader, truth, cut, count>>

\* The medium loses the generation log, between two commands.  A received remove
\* leaves a prefix of the slot it replaces, which stale_beside cannot tell from
\* the older slot: what is deduced after one is outside what is checked here.
LoseGenerationLog ==
    /\ reader.pc = "idle"
    /\ op = NoOp
    /\ count.losses < MaxLosses
    /\ gen.records # <<>>
    /\ count.removes = 0
    /\ gen' = NoLog
    /\ count' = Bump("losses")
    /\ UNCHANGED <<kind, slot, log, op, recov, reader, truth, cut>>

(***************************************************************************)
(* A reader without the lock: the generation log, then a stat of slot B,   *)
(* then both slots when the log names none, then the slot it settled on.   *)
(***************************************************************************)
NoRead == [pc |-> "idle", a |-> <<>>, live |-> "A", seen |-> {}, rewrites |-> 0]
Read(pc) == [reader EXCEPT !.pc = pc]

replay_generation_log ==
    /\ reader.pc = "idle"
    /\ LET start == [NoRead EXCEPT !.rewrites = Overlap(op)] IN
       reader' = IF gen.records # <<>>
                 THEN [start EXCEPT !.pc = "slot", !.live = Last(gen.records)]
                 ELSE [start EXCEPT !.pc = "stat"]

stat_slot_b ==
    /\ reader.pc = "stat"
    /\ reader' = IF slot_b_has_data THEN Read("a") ELSE Read("slot")

read_slot_a ==
    /\ reader.pc = "a"
    /\ reader' = [Read("b") EXCEPT !.a = slot["A"].entries]

read_slot_b ==
    /\ reader.pc = "b"
    /\ LET s == deduce(reader.a, slot["B"].entries) IN
       reader' = IF s \in Slot THEN [Read("slot") EXCEPT !.live = s] ELSE Read("refused")

\* replay_pointer_index, replay_received_index, replay_trust_policy.
read_live_slot ==
    /\ reader.pc = "slot"
    /\ reader' = [Read("done") EXCEPT !.seen = Means(slot[reader.live].entries)]

ReadStep ==
    /\ \/ replay_generation_log
       \/ stat_slot_b
       \/ read_slot_a
       \/ read_slot_b
       \/ read_live_slot
    /\ UNCHANGED <<kind, slot, gen, log, op, recov, truth, cut, count>>

Init ==
    /\ kind \in Kinds
    /\ slot = [s \in Slot |-> File(<<>>)]
    /\ gen = NoLog
    /\ log = <<>>
    /\ op = NoOp
    /\ recov = {}
    /\ reader = NoRead
    /\ truth = {}
    /\ cut = FALSE
    /\ during = {}
    /\ count = [appends |-> 0, rewrites |-> 0, removes |-> 0, crashes |-> 0, losses |-> 0]

Write ==
    \/ \E k \in Keys : \/ append_ref_pointer_entry(k)
                       \/ complete_lead(k)
                       \/ \E v \in Values : append_received_index_entry(k, v)
                       \/ add_trusted_maintainer(k)
                       \/ remove_trusted_maintainer(k)
                       \/ run_received_remove(k)
    \/ run_ref_pointer_index_compaction
    \/ run_received_index_compaction
    \/ run_trust_policy_compaction
    \/ \E s \in Slot : \/ run_trust_policy_keep_slot(s)
                       \/ run_received_index_keep_slot(s)
    \/ run_pointer_index_rebuild
    \/ truncate_target
    \/ append_buffer
    \/ append_generation_record
    \/ Crash
    \/ run_repair_tails
    \/ LoseGenerationLog

\* The answer goes to the caller.
EndRead ==
    /\ reader.pc \in {"done", "refused"}
    /\ reader' = NoRead
    /\ UNCHANGED <<kind, slot, gen, log, op, recov, truth, cut, count>>

\* With what the container meant while the current read was under way.
Next ==
    /\ IF reader.pc \in {"done", "refused"} THEN EndRead ELSE Write \/ ReadStep
    /\ during' = CASE reader'.pc = "idle" -> {}
                   [] reader.pc = "idle" -> {truth}
                   [] OTHER -> during \cup {truth'}

Spec == Init /\ [][Next]_vars

(***************************************************************************)
(* Properties.                                                             *)
(***************************************************************************)
\* Whatever crashed and although the generation log was lost once, the slot
\* that resolve_or_deduce names holds what the container means: a deduction is
\* right or refused.  Only a pointer rebuild over a lost log that was cut
\* short may leave stale pointers, and its rerun replaces them.
ResolvedIsTruth ==
    resolve_live_slot \in Slot /\ ~cut
        => Means(slot[resolve_live_slot].entries) = truth

\* A reader that resolves the live slot and then reads it, without the lock,
\* answers with what the container meant at some moment of its read, unless
\* two rewrites overlap the read and the second truncates the slot it reads,
\* or one does while the generation log is lost.
ReaderSeesATruth ==
    reader.pc = "done" /\ reader.rewrites < 2 /\ ~cut => reader.seen \in during

\* Before a slot that might be the live one is truncated, because the log did
\* not name it and a deduction or the user decided, its entries are in the
\* recovery log; the pointer index has the ref log instead.
UndoableStep ==
    \A s \in Slot :
        Len(slot'[s].entries) < Len(slot[s].entries) /\ kind # "pointer"
            => \/ gen.records # <<>> /\ Last(gen.records) # s
               \/ slot[s].entries \in recov

\* Every step is undoable in that sense (compact.rs, received/remove.rs).
DeducedChoiceIsUndoable == [][UndoableStep]_vars
=============================================================================
