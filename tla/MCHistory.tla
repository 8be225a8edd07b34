------------------------------ MODULE MCHistory ------------------------------
(***************************************************************************)
(* Small histories that are verified and repaired (Verify, Doctor) and     *)
(* replayed (Replay).  A behaviour runs one of the two and leaves the      *)
(* other as it starts.                                                     *)
(***************************************************************************)
EXTENDS Naturals, Sequences, TLC

CONSTANTS Branches, Paths

VARIABLES part,
          rec, index, flaw, ptr, log, logTail, received, ses, marker, verified, wpc, stopped, bad, struck,
          hurt, v, cleared,
          blocks, tip, queue, owner, stored, cache, confirmed, adopted, minted, faults

(* A merge on main, a tag, a received ref, and a commit and seal under way. *)

\* b0 <- bs, b1 = the merge of b0 and bs, b2 the block the writer seals.
Obj(kind) == [kind |-> kind, parents |-> {}, mainline |-> {}, patches |-> {}, snapshot |-> {}, target |-> {},
              previous |-> {}, blobs |-> {}, baseline |-> {}, attests |-> {}]
Graph ==
  "c0" :> Obj("blob") @@
  "p0" :> [Obj("patch") EXCEPT !.blobs = {"c0"}] @@
  "b0" :> [Obj("block") EXCEPT !.patches = {"p0"}] @@
  "ps" :> Obj("patch") @@
  "bs" :> [Obj("block") EXCEPT !.parents = {"b0"}, !.mainline = {"b0"}, !.patches = {"ps"}] @@
  "m1" :> [Obj("blob") EXCEPT !.blobs = {"c0"}] @@
  "b1" :> [Obj("block") EXCEPT !.parents = {"b0", "bs"}, !.mainline = {"b0"}, !.baseline = {"b0"},
                               !.patches = {"ps"}, !.snapshot = {"m1"}] @@
  "a1" :> [Obj("attestation") EXCEPT !.target = {"b1"}] @@
  "s0" :> [Obj("refstate") EXCEPT !.target = {"b0"}] @@
  "s1" :> [Obj("refstate") EXCEPT !.target = {"b1"}, !.previous = {"s0"}, !.attests = {"a1"}] @@
  "t1" :> [Obj("tag") EXCEPT !.target = {"b0"}] @@
  "st" :> [Obj("refstate") EXCEPT !.target = {"t1"}] @@
  "r0" :> [Obj("refstate") EXCEPT !.target = {"b0"}] @@
  "r1" :> [Obj("refstate") EXCEPT !.target = {"bs"}, !.previous = {"r0"}] @@
  "r2" :> [Obj("refstate") EXCEPT !.target = {"bs"}, !.previous = {"r1"}] @@
  "c2" :> Obj("blob") @@
  "p2" :> [Obj("patch") EXCEPT !.blobs = {"c2"}] @@
  "b2" :> [Obj("block") EXCEPT !.parents = {"b1"}, !.mainline = {"b1"}, !.patches = {"p2"}] @@
  "s2" :> [Obj("refstate") EXCEPT !.target = {"b2"}, !.previous = {"s1"}] @@
  "px" :> Obj("patch") @@
  "bx" :> [Obj("block") EXCEPT !.patches = {"px"}]

Heads == "m" :> "s1" @@ "t" :> "st"
Remotes == "remotes/m" :> "r2"
AtFirst == {"c0", "p0", "b0", "ps", "bs", "m1", "b1", "a1", "s0", "s1", "t1", "st", "r0", "r1", "r2"}

Do(what, id) == [do |-> what, id |-> id, ref |-> "m"]
Object(id) == <<Do("object", id), Do("index", id)>>
CommitSteps == Object("c2") \o <<Do("owner", "none"), Do("wal", "p2"), Do("witness", "none")>>
SealSteps == Object("p2") \o Object("b2") \o Object("s2")
          \o <<Do("pointer", "s2"), Do("log", "s2"), Do("drain wal", "none"), Do("drain witness", "none"),
               Do("drain owner", "none")>>
Writes == CommitSteps \o SealSteps
Rests == {1, Len(CommitSteps) + 1, Len(Writes) + 1}

\* A block whose patch never arrived.
Remnant == {"bx"}
SomeBad == {{}, {"b0"}, {"b2"}}

\* A quiet repository, one with an import left unfinished and one whose other
\* session lost an acknowledged commit.
Quiet == [directories |-> "present", sessions |-> <<>>, currentBranch |-> "main", worktree |-> "clean",
          journal |-> "absent", locks |-> {}]
Others == {Quiet, [Quiet EXCEPT !.journal = "present"],
           [Quiet EXCEPT !.sessions = "other" :> [wal |-> "tail", metadata |-> "ValidForNonEmptyWal",
                                                  verdict |-> "AcknowledgedDamage"]]}

Verify == INSTANCE Doctor WITH
  Meta <- Graph, MaxCountedSignatures <- 1, Script <- Writes, FirstObjects <- AtFirst, FirstPtr <- Heads,
  FirstReceived <- Remotes, Remnants <- Remnant, BadRootSets <- SomeBad, Between <- Rests, MaxMarks <- 1,
  Surroundings <- Others

-----------------------------------------------------------------------------
(* Short histories over two paths and two branches, a snapshot every second  *)
(* block; the first file made is text, the second binary.                    *)

SameCase == [p \in Paths |-> p]

Replay == INSTANCE Replay WITH
  Refs <- Branches, KindOf <- <<"text", "binary">>, ascii_fold <- SameCase, CHECKPOINT_CADENCE <- 2,
  MaxBlocks <- 3, MaxQueue <- 1, MaxNodes <- 2, MaxFaults <- 1, verified <- confirmed

-----------------------------------------------------------------------------
verifyVars == <<rec, index, flaw, ptr, log, logTail, received, ses, marker, verified, wpc, stopped, bad, struck,
                hurt, v, cleared>>
replayVars == <<blocks, tip, queue, owner, stored, cache, confirmed, adopted, minted, faults>>
vars == <<part, verifyVars, replayVars>>

Init ==
  /\ part \in {"verify", "replay"}
  /\ Verify!Init /\ Replay!Init
  /\ part # "verify" => bad = {}
  /\ part # "replay" => owner = CHOOSE r \in Branches : TRUE

Next ==
  \/ part = "verify" /\ Verify!Next /\ UNCHANGED <<part, replayVars>>
  \/ part = "replay" /\ Replay!Next /\ UNCHANGED <<part, verifyVars>>

Spec == Init /\ [][Next]_vars

Interchangeable == Permutations(Branches) \cup Permutations(Paths)

-----------------------------------------------------------------------------
\* A verification that runs alone reports damage that matters and takes nothing a
\* crash leaves for damage (Verify!DamageIsReported, Verify!CrashIsExplained).
VerdictIsExact == part = "verify" => (Verify!DamageIsReported /\ Verify!CrashIsExplained)

\* What is recorded, cleared or truncated on the word of a verification is what the
\* run really showed (Verify!ReplayIsEarned, Doctor!RepairIsGated).
ActedOnWhatWasShown == part = "verify" => (Verify!ReplayIsEarned /\ Verify!RepairIsGated)

\* Whatever short cut a derivation takes, cache, anchor, snapshot or record, it
\* gives the state the patches give (Replay).
DerivationsAgree ==
  part = "replay" =>
    (Replay!CacheAgrees /\ Replay!RoutesAgree /\ Replay!RecordIsEarned /\ Replay!SnapshotWithinReach)

\* What `commit` queued is what the next `commit` builds on, and it seals
\* (Replay!QueueFoldsIn, Replay!WhatIsQueuedSeals).
QueueIsGood == part = "replay" => (Replay!QueueFoldsIn /\ Replay!WhatIsQueuedSeals)
=============================================================================
