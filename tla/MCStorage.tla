------------------------------ MODULE MCStorage ------------------------------
(***************************************************************************)
(* The storage layer on small instances: a frame container byte by byte    *)
(* (FrameScan), the compacting containers (SlotContainer), the repairs and *)
(* the recovery log (RecoveryLog) and the object store (ObjectStore).  The *)
(* four share no variable; a behaviour runs one of them and leaves the     *)
(* others as they start.                                                   *)
(***************************************************************************)
EXTENDS Integers, Sequences, TLC

CONSTANTS Keys, Values, Writers, Readers, Signers

VARIABLES part,
          fmt, bytes, replay, written, rotted,
          kind, slot, gen, log, op, recov, reader, truth, cut, during, count,
          file, live, saved, cmd, before, stamp, used,
          containers, index, holder, proc, acked, writes, crashes, rots, overtaken

AllFormats == {"generation", "trust_key", "trust_policy", "received", "author_key",
               "pointer", "ref_log", "wal", "container", "index"}
\* A container is appended to behind damage and tails: the most files for a bound.
Appended == [f \in AllFormats |-> IF f = "container" THEN 2 ELSE 3]
AllKinds == {"pointer", "received", "trust"}
Appends == [pointer |-> 3, received |-> 2, trust |-> 3]

\* Two object ids of two types.
TypesInOrder == <<"block", "patch">>
Typed == [x |-> "block", y |-> "patch"]

\* The files a repair is run on: a crash tail in the queue, an acknowledged
\* record torn or gone, a damaged witness over a sound and over a torn queue, a
\* lost owner; tails of the pointer index, of the ref log and of both with a key
\* tail; an index that names an object no container holds; a received index.
Sound == [wal |-> <<1, 2>>, witness |-> <<2>>, ref_name |-> <<1>>,
          pointer_a |-> <<1>>, pointer_b |-> <<>>, pointer_gen |-> <<>>, ref_log |-> <<1>>,
          keys |-> <<1>>, index |-> <<1>>, objects |-> <<1>>,
          received_a |-> <<>>, received_b |-> <<>>, received_gen |-> <<>>]
SessionAndContainerFaults ==
  {[Sound EXCEPT !["wal"] = <<1, 2, -3>>],
   [Sound EXCEPT !["wal"] = <<1, -2>>],
   [Sound EXCEPT !["wal"] = <<1>>],
   [Sound EXCEPT !["witness"] = <<-2>>],
   [Sound EXCEPT !["wal"] = <<1, -2>>, !["witness"] = <<-2, -2>>],
   [Sound EXCEPT !["ref_name"] = <<0>>],
   [Sound EXCEPT !["pointer_a"] = <<1, -2>>, !["keys"] = <<1, -2>>],
   [Sound EXCEPT !["ref_log"] = <<1, -2>>],
   [Sound EXCEPT !["pointer_a"] = <<1, -2>>, !["ref_log"] = <<1, -2>>],
   [Sound EXCEPT !["index"] = <<1, 2>>],
   [Sound EXCEPT !["received_a"] = <<1, 2>>]}

Frames == INSTANCE FrameScan WITH Formats <- AllFormats, MaxFrames <- Appended, MaxCells <- 81, MaxRot <- 1
Slots == INSTANCE SlotContainer WITH Kinds <- AllKinds, MaxAppends <- Appends, MaxCompactions <- 2,
                                     MaxCrashes <- 1, MaxLosses <- 1
Recovery == INSTANCE RecoveryLog WITH Faults <- SessionAndContainerFaults, log <- saved, count <- used,
                                      MaxWrites <- 1, MaxRuns <- 2, MaxRestores <- 2,
                                      MaxCrashes <- 1, MaxRot <- 1
Objects == INSTANCE ObjectStore WITH Types <- TypesInOrder, TypeOf <- Typed, MergesSigners <- TRUE,
                                     MaxWrites <- 2, MaxCrashes <- 1, MaxRot <- 1

frameVars == <<fmt, bytes, replay, written, rotted>>
slotVars == <<kind, slot, gen, log, op, recov, reader, truth, cut, during, count>>
recoveryVars == <<file, live, saved, cmd, before, stamp, used>>
objectVars == <<containers, index, holder, proc, acked, writes, crashes, rots, overtaken>>
vars == <<part, frameVars, slotVars, recoveryVars, objectVars>>

Init ==
  /\ part \in {"frames", "slots", "recovery", "objects"}
  /\ Frames!Init /\ Slots!Init /\ Recovery!Init /\ Objects!Init
  /\ part # "frames" => fmt = "index"
  /\ part # "slots" => kind = "trust"
  /\ part # "recovery" => file["wal"] = <<1>>

Next ==
  \/ /\ part = "frames" /\ Frames!Next
     /\ UNCHANGED <<part, slotVars, recoveryVars, objectVars>>
  \/ /\ part = "slots" /\ Slots!Next
     /\ UNCHANGED <<part, frameVars, recoveryVars, objectVars>>
  \/ /\ part = "recovery" /\ Recovery!Next
     /\ UNCHANGED <<part, frameVars, slotVars, objectVars>>
  \/ /\ part = "objects" /\ Objects!Next
     /\ UNCHANGED <<part, frameVars, slotVars, recoveryVars>>

Spec == Init /\ [][Next]_vars

\* The keys of the slots are also the writers of the object store, the values its
\* signers; object ids stay apart, since they have a type each.
Alike == Permutations(Keys) \cup Permutations(Values)

-----------------------------------------------------------------------------
\* A container reader that reports no damage returns a prefix of what was written
\* (FrameScan!SilenceMeansPrefix).
SilenceMeansPrefix == part = "frames" => Frames!SilenceMeansPrefix

\* Sound records are found behind damage; damage is not taken for a crash tail
\* nor a crash tail for damage (FrameScan).
RecordsDamageAndTailsAreToldApart == part = "frames" => Frames!RecordsDamageAndTailsAreToldApart

\* The slot a compacting container resolves or deduces holds what it means
\* (SlotContainer!ResolvedIsTruth).
ResolvedIsTruth == part = "slots" => Slots!ResolvedIsTruth

\* A reader without the lock sees what the container meant at some moment of its
\* read (SlotContainer!ReaderSeesATruth).
ReaderSeesATruth == part = "slots" => Slots!ReaderSeesATruth

\* A slot that might be the live one is saved before it is truncated
\* (SlotContainer!DeducedChoiceIsUndoable).
DeducedChoiceIsUndoable == Slots!DeducedChoiceIsUndoable

\* What a repair removes is in the recovery log before it leaves its file
\* (RecoveryLog!SavedBeforeRemoved).
SavedBeforeRemoved == part = "recovery" => Recovery!SavedBeforeRemoved

\* A restore undoes its run, beside the session the run was made in, and drops
\* nothing written since (RecoveryLog!RestoreUndoes).
RestoreUndoes == Recovery!RestoreUndoes

\* An acknowledged object is found with every acknowledged signature, and a cache
\* kept under the index's length is good (ObjectStore).
AcknowledgedIsKeptUnlessOvertaken ==
  part = "objects" =>
    (Objects!AcknowledgedIsKeptUnlessOvertaken /\ Objects!CacheIsCurrent)
=============================================================================
