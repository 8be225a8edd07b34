------------------------- MODULE ActiveSessionProofs ------------------------
(***************************************************************************)
(* No commit is lost in silence, for every number of slots, branches,      *)
(* keys, commits and crashes, and at most one media fault.                 *)
(*                                                                         *)
(* A commit that was reported successful is queued, published or given up  *)
(* (Settled); or its record is destroyed, and the witness and the owner    *)
(* still tell (Awaits), which makes classify's verdict a blocking one.  A  *)
(* command that has passed classify therefore knows that no commit awaits  *)
(* (ClearedInv), and no step unsettles a settled one.                      *)
(***************************************************************************)
EXTENDS ActiveSessionOnce

USE LockAssumption, RefStateAssumption

\* The commit is queued, published on the branch it was made on, or given up.
Settled(x) == x \in Range(wal) \/ x \in Range(HistoryOf(authored[x])) \/ x \in discarded

\* The commit's record is destroyed; the witness and the owner still tell.
Awaits(x) ==
    /\ x \in lost /\ Valid(witness)
    /\ witness.patch = x /\ witness.seq = Len(wal) + 1 /\ witness.ref = authored[x]
    /\ owner = Named(witness.ref)

\* The witness and the owner vouch for the newest record.
Vouched ==
    /\ Valid(witness) /\ witness.seq = Len(wal) /\ witness.patch = Newest
    /\ witness.ref = authored[Newest] /\ owner = Named(authored[Newest])

\* The files that say whose queue it is do not say another branch than x's.
Attributed(x) ==
    /\ owner \in {Named(authored[x]), Named(TornName), Missing, Invalid}
    /\ Valid(witness) => witness.ref \in {authored[x], TornName}

\* Before any media fault: the newest commit is published or vouched for.
SoundInv ==
    faults = 0 =>
        /\ lost = {}
        /\ wal # <<>> /\ Newest \in committed =>
              Newest \in Range(HistoryOf(authored[Newest])) \/ Vouched

\* After at most one: every commit is settled, or its loss is noticed.
NoticedInv == faults <= 1 => \A x \in committed : Settled(x) \/ Awaits(x)

AttributedInv ==
    faults <= 1 => \A x \in committed :
        x \in Range(wal) /\ x \notin Range(HistoryOf(authored[x])) => Attributed(x)

NoneAwaits == faults <= 1 => \A x \in committed : Settled(x)

\* Points that a command reaches only past classify, or past giving up.
Cleared(p) ==
    \/ pc[p] \in CommitPoints \ {"commit"}
    \/ pc[p] \in {"drain_witness", "drain_owner", "discard_rebuild"}
    \/ pc[p] \in PublishPoints /\ cmd[p].op = "seal"

ClearedInv == \A p \in Proc : Cleared(p) => NoneAwaits

LossInv == SoundInv /\ NoticedInv /\ AttributedInv /\ ClearedInv

\* What a sealed witness's patch is in: its branch's history.
LEMMA SealedIsPublished ==
    ASSUME ChainInv, witness.ref \in Ref, SealedAndReachableSince(witness)
    PROVE  witness.patch \in Range(HistoryOf(witness.ref))
<1> DEFINE c == Chain[ptr[witness.ref]]
<1>1. PICK i \in 1 .. Len(c) : witness.patch \in Range(BlockOf[c[i]])
  BY Zenon DEF SealedAndReachableSince
<1>2. Range(BlockOf[c[i]]) \subseteq Range(HistoryOf(witness.ref))
  BY <1>1, Zenon DEF ChainInv
<1> QED BY <1>1, <1>2

\* classify blocks every writer while an unpublished commit awaits.
LEMMA AwaitedBlocks ==
    ASSUME BaseInv, NEW x \in committed, Awaits(x), ~Settled(x)
    PROVE  Verdict \in Blocking /\ ~OwnershipMissing /\ Valid(witness)
<1>1. Valid(witness) /\ witness # Damaged /\ witness # Absent
  BY DEF Awaits, Valid, Damaged, Absent
<1>2. witness.ref \in Ref /\ witness.seq \in Nat /\ Len(wal) \in Nat
  BY <1>1 DEF BaseInv, SessionTypeOK, WitnessRecord
<1>3. ~SealedAndReachableSince(witness)
  BY <1>2, SealedIsPublished DEF BaseInv, Awaits, Settled
<1>4. ~OwnershipMissing
  BY DEF Awaits, OwnershipMissing, Named
<1>5. Verdict = WitnessVerdict(witness)
  BY <1>1, <1>4 DEF Verdict
<1>6. witness.seq = Len(wal) + 1
  BY DEF Awaits
<1>7. WitnessVerdict(witness) \in {"AcknowledgedDamage", "AcknowledgedLoss"}
  BY <1>2, <1>3, <1>6 DEF WitnessVerdict
<1> QED BY <1>1, <1>4, <1>5, <1>7 DEF Blocking, Discardable

\* A command that passes classify knows that no commit awaits.
LEMMA NotBlockedSettled ==
    ASSUME BaseInv, NoticedInv, Verdict \notin Blocking
    PROVE  NoneAwaits
BY AwaitedBlocks, Zenon DEF NoneAwaits, NoticedInv

\* The commits' branches.
LEMMA CommitsBranch ==
    ASSUME BaseInv, NEW x \in committed
    PROVE  x \in 1 .. Len(authored) /\ authored[x] \in Branch
<1>1. x \in Patch /\ x <= Len(authored) /\ authored \in Seq(Branch)
  BY DEF BaseInv, SessionTypeOK, NumberInv
<1>2. x \in 1 .. Len(authored)
  BY <1>1, PatchAssumption
<1> QED BY <1>1, <1>2

\* A drained queue is in the history of the branch it was for.
LEMMA DrainedIsPublished ==
    ASSUME BaseInv, NEW p \in Proc, DrainWal(p), NEW x \in committed, x \in Range(wal),
           x \notin Range(HistoryOf(authored[x])), Attributed(x)
    PROVE  FALSE
<1>1. /\ pc[p] = "published" /\ cmd[p].op = "seal"
  BY Zenon DEF DrainWal
<1>2. /\ owner = Named(cmd[p].ref) /\ BlockOf[cmd[p].state] = wal /\ ptr[cmd[p].ref] = cmd[p].state
  BY <1>1, Zenon DEF BaseInv, FoundInv, Found, SealFound, PublishPoints
<1>3. cmd[p].ref \in Branch /\ cmd[p].state \in RefState
  BY <1>1 DEF BaseInv, SessionSlots, SessionCommandAt, PublishPoints, SealCommand, CompleteCommand, Prepared
<1>4. cmd[p].ref = authored[x]
  BY <1>2, <1>3, NamedOnce, Zenon DEF Attributed
<1>5. Range(wal) \subseteq Range(History[cmd[p].state])
  BY <1>2, <1>3, ChainGrows, ZenonT(20)
<1> QED BY <1>2, <1>4, <1>5, Zenon DEF HistoryOf
\* Which steps of a slot write the WAL, and what they do to the ghosts.
LEMMA WalMoves ==
    ASSUME SessionSlots, NEW p \in Proc, StepBy(p)
    PROVE  /\ UNCHANGED <<lost, faults>>
           /\ UNCHANGED <<wal, authored>> \/ AppendWal(p) \/ (DrainWal(p) /\ UNCHANGED authored)
           /\ UNCHANGED committed \/ WriteWitness(p)
           /\ UNCHANGED discarded \/ CutDiscarded(p)
BY WhoWritesSession, Zenon
   DEF ClearOwner, WriteOwner, AppendWal, WriteWitness, CheckSeal, DrainWal, DrainWitness, DrainOwner,
       CutDiscarded, RebuildDiscarded, RestoreOwner, RepairWal, CutWalTail, RebuildWitness,
       InterruptSession, sessionVars

\* A commit stays on the branch it was made on, and histories only grow.
LEMMA PublishedKept ==
    ASSUME BaseInv, NEW p \in Proc, StepBy(p), NEW x \in committed
    PROVE  /\ authored'[x] = authored[x]
           /\ Range(HistoryOf(authored[x])) \subseteq Range(History[ptr'[authored[x]]])
<1>1. x \in 1 .. Len(authored) /\ authored[x] \in Branch /\ authored \in Seq(Branch)
  BY CommitsBranch DEF BaseInv, SessionTypeOK
<1>2. authored'[x] = authored[x]
  <2>1. CASE AppendWal(p)
    <3>1. authored' = Append(authored, cmd[p].ref) /\ cmd[p].ref \in Branch
      BY <2>1, Zenon DEF AppendWal, BaseInv, SessionSlots, SessionCommandAt, CommitPoints, CommitCommand
    <3> QED BY <1>1, <3>1
  <2> QED BY <2>1, WalMoves DEF BaseInv
<1>3. UNCHANGED ptr \/ \E r, s : Swaps(r, s)
  BY PointerMoves, Zenon DEF BaseInv, SessionNext, StepBy
<1>4. CASE UNCHANGED ptr
  BY <1>2, <1>4, Zenon DEF HistoryOf
<1>5. ASSUME NEW r, NEW s, Swaps(r, s)
      PROVE  Range(HistoryOf(authored[x])) \subseteq Range(History[ptr'[authored[x]]])
  BY <1>1, <1>5, SwapGrows, NamedOnce, ZenonT(20) DEF BaseInv
<1> QED BY <1>2, <1>3, <1>4, <1>5

\* The elements of the queue with one more record.
LEMMA RangeAppend ==
    ASSUME NEW S, NEW s \in Seq(S), NEW y \in S
    PROVE  Range(Append(s, y)) = Range(s) \cup {y}
<1>1. /\ Len(Append(s, y)) = Len(s) + 1 /\ Len(s) \in Nat
      /\ Append(s, y)[Len(s) + 1] = y
      /\ \A i \in 1 .. Len(s) : Append(s, y)[i] = s[i]
  OBVIOUS
<1>2. DOMAIN Append(s, y) = 1 .. Len(s) + 1 /\ DOMAIN s = 1 .. Len(s)
  BY <1>1
<1>3. ASSUME NEW x \in Range(Append(s, y)) PROVE x \in Range(s) \cup {y}
  <2>1. PICK i \in 1 .. Len(s) + 1 : x = Append(s, y)[i]
    BY <1>2, <1>3 DEF Range
  <2>2. i \in 1 .. Len(s) \/ i = Len(s) + 1
    BY <1>1, <2>1
  <2> QED BY <1>1, <1>2, <2>1, <2>2, ZenonT(20) DEF Range
<1>4. ASSUME NEW x \in Range(s) \cup {y} PROVE x \in Range(Append(s, y))
  <2>1. Len(s) + 1 \in 1 .. Len(s) + 1 /\ \A i \in 1 .. Len(s) : i \in 1 .. Len(s) + 1
    BY <1>1
  <2> QED BY <1>1, <1>2, <2>1 DEF Range
<1> QED BY <1>3, <1>4, Zenon

\* What AppendWal puts into the queue is a patch that nobody has committed yet.
LEMMA AppendedIsNew ==
    ASSUME BaseInv, NEW p \in Proc, AppendWal(p)
    PROVE  /\ Range(wal') = Range(wal) \cup {Len(authored) + 1}
           /\ wal' # <<>> /\ wal'[Len(wal')] = Len(authored) + 1
           /\ Len(authored) + 1 \notin committed
<1>1. wal \in Seq(Nat) /\ Len(authored) \in Nat /\ wal' = Append(wal, Len(authored) + 1)
  BY PatchAssumption DEF AppendWal, BaseInv, SessionTypeOK
<1>2. Range(wal') = Range(wal) \cup {Len(authored) + 1}
  <2>1. Len(authored) + 1 \in Nat
    BY <1>1
  <2> QED BY <1>1, <2>1, RangeAppend
<1>3. wal' # <<>> /\ wal'[Len(wal')] = Len(authored) + 1
  BY <1>1
<1>4. Len(authored) + 1 \notin committed
  BY <1>1, CommitsBranch
<1> QED BY <1>2, <1>3, <1>4, ZenonT(20)

\* No step unsettles a commit: the WAL is emptied only of what is published.
LEMMA SettledKept ==
    ASSUME BaseInv, AttributedInv, faults <= 1, NEW p \in Proc, StepBy(p), NEW x \in committed, Settled(x)
    PROVE  Settled(x)'
<1>1. /\ authored'[x] = authored[x]
      /\ Range(HistoryOf(authored[x])) \subseteq Range(History[ptr'[authored[x]]])
  BY PublishedKept, Zenon
<1>2. CASE x \in discarded
  <2>1. discarded \subseteq discarded'
    BY WalMoves, Zenon DEF CutDiscarded, BaseInv, SessionTypeOK
  <2> QED BY <1>2, <2>1, Zenon DEF Settled
<1>3. CASE x \in Range(HistoryOf(authored[x]))
  BY <1>1, <1>3, Zenon DEF Settled, HistoryOf
<1>4. CASE x \in Range(wal) /\ x \notin Range(HistoryOf(authored[x]))
  <2>1. Attributed(x)
    BY <1>4, Zenon DEF AttributedInv
  <2>2. ~DrainWal(p)
    BY <1>4, <2>1, DrainedIsPublished, Zenon
  <2>3. Range(wal) \subseteq Range(wal')
    BY <2>2, WalMoves, AppendedIsNew, Zenon DEF BaseInv
  <2> QED BY <1>4, <2>3, Zenon DEF Settled
<1> QED BY <1>2, <1>3, <1>4, Zenon DEF Settled

\* Who writes the files that say what is queued and for whom.
LEMMA FilesMove ==
    ASSUME BaseInv, NEW p \in Proc, StepBy(p), ~UNCHANGED <<wal, witness, owner>>
    PROVE  \/ Cleared(p) /\ (wal = <<>> \/ wal' # wal \/ pc[p] \in {"write_witness", "discard_rebuild"})
           \/ wal = <<>> /\ Verdict \notin Blocking
           \/ OwnershipMissing
           \/ ~Valid(witness)
<1>1. Found(p)
  BY Zenon DEF BaseInv, FoundInv
<1>2. CASE ClearOwner(p) \/ WriteOwner(p)
  BY <1>1, <1>2, Zenon DEF ClearOwner, WriteOwner, Found, CommitFound, Cleared, CommitPoints
<1>3. CASE AppendWal(p) \/ WriteWitness(p)
  <2>1. AppendWal(p) => wal' # wal
    <3>1. wal \in Seq(Nat) /\ Len(authored) + 1 \in Nat
      BY PatchAssumption DEF BaseInv, SessionTypeOK
    <3> QED BY <3>1, Zenon DEF AppendWal
  <2> QED BY <1>3, <2>1, Zenon DEF AppendWal, WriteWitness, Cleared, CommitPoints
<1>4. CASE CheckSeal(p)
  BY <1>4, Zenon DEF CheckSeal, sessionVars
<1>5. CASE DrainWal(p) \/ DrainWitness(p) \/ DrainOwner(p)
  <2>1. Cleared(p)
    BY <1>5, Zenon DEF DrainWal, DrainWitness, DrainOwner, Cleared, PublishPoints
  <2>2. DrainWal(p) => wal # <<>> /\ wal' = <<>>
    BY <1>1, Zenon DEF DrainWal, Found, SealFound, PublishPoints
  <2>3. DrainWitness(p) \/ DrainOwner(p) => wal = <<>>
    BY <1>1, ZenonT(20) DEF DrainWitness, DrainOwner, Found, SealFound
  <2> QED BY <1>5, <2>1, <2>2, <2>3, ZenonT(20)
<1>6. CASE RebuildDiscarded(p)
  BY <1>6, Zenon DEF RebuildDiscarded, Cleared
<1>7. CASE RebuildWitness(p)
  BY <1>7 DEF RebuildWitness, Valid, Damaged
<1>8. CASE RestoreOwner(p)
  BY <1>1, <1>8, ZenonT(20) DEF RestoreOwner, Found, RepairFound
<1>9. CASE InterruptSession(p)
  <2>1. UNCHANGED wal /\ witness' \in TornWitness(p) /\ owner' \in TornOwner(p)
    BY <1>9, Zenon DEF InterruptSession
  <2>2. pc[p] \in {"write_witness", "discard_rebuild", "write_owner", "restore_write"}
    BY <2>1, Zenon DEF TornWitness, TornOwner
  <2>3. pc[p] = "write_owner" => wal = <<>>
    BY <1>1, Zenon DEF Found, CommitFound
  <2>4. pc[p] = "restore_write" => OwnershipMissing
    BY <1>1, Zenon DEF Found, RepairFound
  <2> QED BY <2>2, <2>3, <2>4, Zenon DEF Cleared, CommitPoints
<1> QED BY <1>2, <1>3, <1>4, <1>5, <1>6, <1>7, <1>8, <1>9, WhoWritesSession, ZenonT(20)
        DEF CutDiscarded, RepairWal, CutWalTail, sessionVars

\* What a write over a queue says about an unpublished commit in it.
LEMMA AttributedKept ==
    ASSUME BaseInv, NEW p \in Proc, StepBy(p), NEW x, x \in 1 .. Len(authored), authored[x] \in Branch,
           authored'[x] = authored[x], wal # <<>>, x \in Range(wal), wal' # <<>>, Attributed(x)
    PROVE  Attributed(x)'
<1>1. Found(p)
  BY DEF BaseInv, FoundInv
<1>2. ASSUME owner' \in {owner, Missing, Invalid, Named(TornName)}, witness' = witness \/ ~Valid(witness)'
      PROVE  Attributed(x)'
  BY <1>2, Zenon DEF Attributed
<1>3. CASE WriteWitness(p)
  <2>1. owner = Named(cmd[p].ref) /\ cmd[p].ref \in Branch /\ owner' = owner
    BY <1>1, <1>3, Zenon DEF WriteWitness, Found, CommitFound, BaseInv, SessionSlots, SessionCommandAt,
                             CommitPoints, CommitCommand
  <2>2. authored[x] = cmd[p].ref
    BY <2>1, NamedOnce, ZenonT(20) DEF Attributed
  <2>3. witness'.ref = cmd[p].ref
    BY <1>3 DEF WriteWitness, NextWitness, WitnessOver
  <2> QED BY <2>1, <2>2, <2>3, Zenon DEF Attributed
<1>4. CASE RestoreOwner(p)
  <2>1. /\ owner' = Named(cmd[p].ref) /\ cmd[p].ref \in Branch /\ witness' = witness
        /\ IF Valid(witness) THEN witness.ref = cmd[p].ref ELSE Confirmed(cmd[p].ref)
    BY <1>1, <1>4, ZenonT(20) DEF RestoreOwner, Found, RepairFound, BaseInv, SessionSlots, SessionCommandAt,
                             RestoreCommand
  <2>2. Valid(witness) => authored[x] = cmd[p].ref
    BY <2>1, NamedOnce, ZenonT(20) DEF Attributed
  <2>3. ~Valid(witness) => authored[x] = cmd[p].ref
    <3>1. PICK i \in 1 .. Len(wal) : wal[i] = x
      BY DEF Range, BaseInv, SessionTypeOK
    <3> QED BY <2>1, <3>1, ZenonT(20) DEF Confirmed
  <2> QED BY <2>1, <2>2, <2>3, ZenonT(20) DEF Attributed
<1>5. CASE RebuildDiscarded(p) \/ RebuildWitness(p)
  <2>1. owner' = owner
    BY <1>5, Zenon DEF RebuildDiscarded, RebuildWitness
  <2>2. \/ witness' \in {witness, Absent}
        \/ owner.name = "valid" /\ witness' = WitnessOver(owner.ref, <<>>, 0)
    BY <1>1, <1>5, Zenon DEF RebuildDiscarded, RebuildWitness, RebuiltWitness, Found, RepairFound
  <2>3. ~Valid(Absent)
    BY DEF Valid, Absent
  <2>4. ASSUME owner.name = "valid", witness' = WitnessOver(owner.ref, <<>>, 0)
        PROVE  Attributed(x)'
    <3>1. owner.ref \in {authored[x], TornName}
      BY <2>4 DEF Attributed, Named, Missing, Invalid
    <3>2. witness'.ref = owner.ref
      BY <2>4, Zenon DEF WitnessOver
    <3> QED BY <2>1, <3>1, <3>2, ZenonT(20) DEF Attributed
  <2> QED BY <1>2, <2>1, <2>2, <2>3, <2>4, ZenonT(20)
<1>6. CASE InterruptSession(p)
  <2>1. owner' \in {owner, Missing, Invalid, Named(TornName)} /\ witness' \in {witness, Damaged}
    BY <1>6, Zenon DEF InterruptSession, TornWitness, TornOwner
  <2>2. ~Valid(Damaged)
    BY DEF Valid, Damaged
  <2> QED BY <1>2, <2>1, <2>2, Zenon
<1>7. CASE ClearOwner(p) \/ WriteOwner(p)
  BY <1>1, <1>7, Zenon DEF ClearOwner, WriteOwner, Found, CommitFound
<1>8. CASE DrainWal(p) \/ DrainWitness(p) \/ DrainOwner(p)
  BY <1>1, <1>8, ZenonT(20) DEF DrainWal, DrainWitness, DrainOwner, Found, SealFound
<1> QED BY <1>2, <1>3, <1>4, <1>5, <1>6, <1>7, <1>8, WhoWritesSession, ZenonT(20)
        DEF AppendWal, CheckSeal, CutDiscarded, RepairWal, CutWalTail, sessionVars
\* A step of a slot that is past classify starts there, or comes from classify
\* or from the operator's giving up.
LEMMA WhoClears ==
    ASSUME BaseInv, NEW p \in Proc, StepBy(p), Cleared(p)'
    PROVE  Cleared(p) \/ Verdict \notin Blocking \/ CutDiscarded(p)
<1>1. /\ \A at : Goto(p, at) => pc'[p] = at
      /\ SessionCommandAt(pc[p], cmd[p])
  BY MovesTo, Zenon DEF BaseInv, SessionSlots
<1>2. pc'[p] # "idle"
  BY Zenon DEF Cleared, CommitPoints, PublishPoints
<1>3. ~Refuse(p) /\ ~Finish(p) /\ \A left : ~EndCommand(p, left)
  BY <1>1, <1>2, Zenon DEF Refuse, Finish, EndCommand
<1>4. pc'[p] \notin Outside \cup RepairPoints
        \cup {"commit", "seal", "restore", "discard", "repair_wal", "discard_cut", "restore_write"}
  BY DEF Cleared, CommitPoints, PublishPoints, Outside, RepairPoints
<1>5. ~StartSession(p)
  BY <1>1, <1>4, Zenon DEF StartSession, StartCommit, StartRestore, StartSeal, BeginSession, Start, FirstStep, Outside
<1>6. ~AcquireSessionLock(p)
  <2>1. SUFFICES ASSUME AcquireSessionLock(p) PROVE FALSE
    BY Zenon
  <2>2. pc[p] = "session_lock" /\ pc'[p] = cmd[p].op
    BY <1>1, <1>3, <2>1, Zenon DEF AcquireSessionLock, RefuseSession
  <2>3. cmd[p].op \in {"commit", "seal", "restore", "discard", "repair_wal"}
    BY <1>1, <2>2, Zenon DEF SessionCommandAt, SealCommand, CommitCommand, RestoreCommand
  <2> QED BY <1>4, <2>2, <2>3
<1>7. CASE CheckCommit(p) \/ ClearOwner(p) \/ WriteOwner(p) \/ AppendWal(p) \/ WriteWitness(p)
  BY <1>3, <1>7, ZenonT(20)
     DEF CheckCommit, MayCommit, RefuseSession, ClearOwner, WriteOwner, AppendWal, WriteWitness, Cleared, CommitPoints
<1>8. CASE CheckSeal(p) \/ DrainWal(p) \/ DrainWitness(p) \/ DrainOwner(p)
  BY <1>3, <1>8, ZenonT(20) DEF CheckSeal, MaySeal, DrainWal, DrainWitness, DrainOwner, Cleared, PublishPoints
<1>9. ~(GuardSeal(p) \/ PlanCompletion(p) \/ ReportCompletion(p))
  BY <1>1, <1>3, <1>4, ZenonT(20)
     DEF GuardSeal, RefuseSession, Proceed, PlanCompletion, Plan, ReportCompletion, Report, Outside
<1>10. ~(CheckDiscard(p) \/ RebuildDiscarded(p) \/ CheckRestore(p) \/ RestoreOwner(p) \/ CheckRepairWal(p)
         \/ RepairWal(p) \/ RebuildWitness(p))
  BY <1>1, <1>3, <1>4, Zenon
     DEF CheckDiscard, RebuildDiscarded, CheckRestore, RestoreOwner, CheckRepairWal, RepairWal, RebuildWitness,
         RefuseSession, Proceed, Outside
<1>11. ~(ExamineSession(p) \/ CutWalTail(p) \/ CutLogTailAndGoOn(p))
  BY <1>1, <1>3, <1>4, Zenon DEF ExamineSession, CutWalTail, CutLogTailAndGoOn, RefuseSession, Proceed, RepairPoints
<1>12. CASE PublicationStep(p)
  <2>1. CASE AcquireActiveLock(p)
    <3>1. pc[p] = "active_lock" /\ pc'[p] = AfterActiveLock(cmd[p].op) /\ cmd' = cmd
      BY <1>1, <1>3, <2>1, ZenonT(20) DEF AcquireActiveLock
    <3>2. cmd[p].op \in {"complete", "repair"} /\ pc'[p] \in {"ref_lock", "pointer_lock"}
      BY <1>1, <3>1, SMTT(20) DEF SessionCommandAt, RepairCommand, CompleteCommand, AfterActiveLock
    <3> QED BY <3>1, <3>2, Zenon DEF Cleared, CommitPoints
  <2>2. CASE CutPointerTail(p)
    BY <1>1, <1>3, <1>4, <2>2, Zenon DEF CutPointerTail, RepairPoints
  <2>3. ASSUME pc[p] \in PublishPoints, cmd' = cmd,
               pc'[p] \in PublishPoints \cup {"cut_pointer", "examine"}
        PROVE  Cleared(p)
    <3>1. pc'[p] \in PublishPoints
      BY <1>4, <2>3, Zenon DEF RepairPoints
    <3>2. cmd[p].op = "seal"
      BY <2>3, <3>1, Zenon DEF Cleared, PublishPoints, CommitPoints
    <3> QED BY <2>3, <3>2, Zenon DEF Cleared
  <2>4. CASE AcquireRefLock(p) \/ AcquirePointerLock(p) \/ AcquireLogLock(p)
    BY <1>1, <1>3, <2>3, <2>4, ZenonT(20) DEF AcquireRefLock, AcquirePointerLock, AcquireLogLock, PublishPoints
  <2>5. CASE PublishBody(p)
    <3>1. pc[p] \in PublishPoints /\ cmd' = cmd /\ pc'[p] \in PublishPoints
      BY <1>1, <1>3, <2>5, AdmittedGoesOn, ZenonT(20) DEF PublishBody, PublishPoints
    <3> QED BY <2>3, <3>1, Zenon
  <2>6. CASE AppendPointer(p) \/ AppendLog(p)
    BY <1>1, <1>3, <2>3, <2>6, ZenonT(20) DEF AppendPointer, AppendLog, PublishPoints
  <2> QED BY <1>12, <2>1, <2>2, <2>4, <2>5, <2>6, ZenonT(20) DEF PublicationStep
<1>13. ~InterruptSession(p)
  BY <1>3, Zenon DEF InterruptSession, Interrupt
<1> QED BY <1>5, <1>6, <1>7, <1>8, <1>9, <1>10, <1>11, <1>12, <1>13, ZenonT(20) DEF StepBy, SessionStep
\* A commit that becomes one is the newest record, on the commit's branch, and
\* the witness and the owner vouch for it.
LEMMA CommittedIsVouched ==
    ASSUME BaseInv, NEW p \in Proc, WriteWitness(p)
    PROVE  /\ committed' = committed \cup {Newest} /\ UNCHANGED <<wal, authored, lost, faults>>
           /\ wal # <<>> /\ Newest \in Range(wal)
           /\ Newest \in 1 .. Len(authored) /\ authored[Newest] \in Branch
           /\ Vouched'
<1>1. /\ pc[p] = "write_witness" /\ witness' = NextWitness(cmd[p].ref)
      /\ committed' = committed \cup {Newest} /\ UNCHANGED <<wal, owner, authored, lost, faults>>
  BY Zenon DEF WriteWitness
<1>2. /\ wal # <<>> /\ Newest = Len(authored) /\ authored[Newest] = cmd[p].ref
      /\ owner = Named(cmd[p].ref)
  BY <1>1, Zenon DEF BaseInv, FoundInv, Found, CommitFound
<1>3. cmd[p].ref \in Branch
  BY <1>1, Zenon DEF BaseInv, SessionSlots, SessionCommandAt, CommitPoints, CommitCommand
<1>4. /\ Len(wal) \in 1 .. Len(wal) /\ DOMAIN wal = 1 .. Len(wal)
      /\ Newest \in Patch /\ Len(authored) \in Nat
  BY <1>2 DEF BaseInv, SessionTypeOK, Newest
<1>5. Newest \in Range(wal)
  BY <1>4, Zenon DEF Range, Newest
<1>6. Newest \in 1 .. Len(authored)
  BY <1>2, <1>4, PatchAssumption, SMTT(20)
<1>7. /\ Valid(witness)' /\ witness'.seq = Len(wal) /\ witness'.patch = Newest
      /\ witness'.ref = cmd[p].ref
  BY <1>1 DEF NextWitness, WitnessOver, Valid
<1>8. Vouched'
  BY <1>1, <1>2, <1>7, Zenon DEF Vouched, Newest
<1> QED BY <1>1, <1>2, <1>3, <1>5, <1>6, <1>8, ZenonT(20)

\* Settled commits stay settled, and a new one is in the queue.
LEMMA NoneAwaitsKept ==
    ASSUME BaseInv, AttributedInv, NoneAwaits, NEW p \in Proc, StepBy(p)
    PROVE  NoneAwaits'
<1>1. UNCHANGED faults /\ (UNCHANGED committed \/ WriteWitness(p))
  BY WalMoves, Zenon DEF BaseInv
<1>2. SUFFICES ASSUME faults <= 1, NEW x \in committed' PROVE Settled(x)'
  BY <1>1, Zenon DEF NoneAwaits
<1>3. CASE x \in committed
  BY <1>2, <1>3, SettledKept, Zenon DEF NoneAwaits
<1>4. CASE x \notin committed
  BY <1>1, <1>2, <1>4, CommittedIsVouched, ZenonT(20) DEF Settled
<1> QED BY <1>3, <1>4, Zenon

\* Every step of a slot keeps every commit settled or its loss noticed.
LEMMA NoticedStepBy ==
    ASSUME BaseInv, LossInv, NEW p \in Proc, StepBy(p)
    PROVE  NoticedInv'
<1>1. /\ UNCHANGED <<lost, faults>> /\ (UNCHANGED committed \/ WriteWitness(p))
  BY WalMoves, Zenon DEF BaseInv
<1>2. SUFFICES ASSUME faults <= 1, NEW x \in committed' PROVE Settled(x)' \/ Awaits(x)'
  BY <1>1, Zenon DEF NoticedInv
<1>3. CASE x \in committed /\ Settled(x)
  BY <1>2, <1>3, SettledKept, Zenon DEF LossInv
<1>4. CASE x \in committed /\ ~Settled(x)
  <2>1. Awaits(x)
    BY <1>2, <1>4, Zenon DEF LossInv, NoticedInv
  <2>2. Verdict \in Blocking /\ ~OwnershipMissing /\ Valid(witness)
    BY <1>4, <2>1, AwaitedBlocks, ZenonT(20)
  <2>3. ~Cleared(p)
    BY <1>2, <1>4, Zenon DEF LossInv, ClearedInv, NoneAwaits
  <2>4. UNCHANGED <<wal, witness, owner>>
    BY <2>2, <2>3, FilesMove, Zenon
  <2>5. authored'[x] = authored[x]
    BY <1>4, PublishedKept, Zenon
  <2> QED BY <1>1, <2>1, <2>4, <2>5, ZenonT(20) DEF Awaits
<1>5. CASE x \notin committed
  BY <1>1, <1>2, <1>5, CommittedIsVouched, ZenonT(20) DEF Settled
<1> QED BY <1>3, <1>4, <1>5, Zenon

\* Every step of a slot leaves the queue attributed as its commits are.
LEMMA AttributedStepBy ==
    ASSUME BaseInv, LossInv, NEW p \in Proc, StepBy(p)
    PROVE  AttributedInv'
<1>1. UNCHANGED faults /\ (UNCHANGED committed \/ WriteWitness(p))
  BY WalMoves, Zenon DEF BaseInv
<1>2. SUFFICES ASSUME faults <= 1, NEW x \in committed', x \in Range(wal'),
                      x \notin Range(History[ptr'[authored'[x]]])
               PROVE  Attributed(x)'
  BY <1>1, Zenon DEF AttributedInv, HistoryOf
<1>3. wal' # <<>>
  BY <1>2, SMTT(20) DEF Range
<1>4. CASE x \in committed
  <2>1. /\ authored'[x] = authored[x]
        /\ Range(HistoryOf(authored[x])) \subseteq Range(History[ptr'[authored[x]]])
    BY <1>4, PublishedKept, Zenon
  <2>2. x \in Range(wal)
    <3>1. ~DrainWal(p)
      BY <1>3, Zenon DEF DrainWal
    <3> QED BY <1>2, <1>4, <3>1, WalMoves, AppendedIsNew, ZenonT(20) DEF BaseInv
  <2>3. wal # <<>>
    BY <2>2 DEF Range
  <2>4. Attributed(x)
    BY <1>2, <1>4, <2>1, <2>2, ZenonT(20) DEF LossInv, AttributedInv
  <2>5. x \in 1 .. Len(authored) /\ authored[x] \in Branch
    BY <1>4, CommitsBranch, Zenon
  <2> QED BY <1>3, <2>1, <2>2, <2>3, <2>4, <2>5, AttributedKept, ZenonT(20)
<1>5. CASE x \notin committed
  <2>1. x = Newest /\ Vouched' /\ UNCHANGED wal
    BY <1>1, <1>2, <1>5, CommittedIsVouched
  <2>2. owner' = Named(authored'[x]) /\ witness'.ref = authored'[x]
    BY <2>1, Zenon DEF Vouched, Newest
  <2> QED BY <2>2, Zenon DEF Attributed
<1> QED BY <1>4, <1>5, Zenon

\* Before any fault the newest commit is published or vouched for: who writes
\* the witness or the owner over a queue either commits, or finds a witness
\* that vouches for nothing.
LEMMA SoundStepBy ==
    ASSUME BaseInv, LossInv, NEW p \in Proc, StepBy(p)
    PROVE  SoundInv'
<1>1. /\ UNCHANGED <<lost, faults>> /\ (UNCHANGED committed \/ WriteWitness(p))
      /\ UNCHANGED <<wal, authored>> \/ AppendWal(p) \/ DrainWal(p)
  BY WalMoves, Zenon DEF BaseInv
<1>2. SUFFICES ASSUME faults = 0, wal' # <<>>, wal'[Len(wal')] \in committed'
               PROVE  Newest' \in Range(HistoryOf(authored[Newest])') \/ Vouched'
  BY <1>1, Zenon DEF LossInv, SoundInv, Newest
<1>3. CASE WriteWitness(p)
  BY <1>3, CommittedIsVouched, Zenon
<1>4. CASE ~WriteWitness(p)
  <2>1. UNCHANGED committed /\ UNCHANGED <<wal, authored>>
    BY <1>1, <1>2, <1>4, AppendedIsNew, ZenonT(20) DEF DrainWal
  <2>2. wal # <<>> /\ Newest \in committed /\ Newest' = Newest
    BY <1>2, <2>1, ZenonT(20) DEF Newest
  <2>3. CASE Newest \in Range(HistoryOf(authored[Newest]))
    <3>1. Range(HistoryOf(authored[Newest])) \subseteq Range(History[ptr'[authored[Newest]]])
      BY <2>2, PublishedKept, ZenonT(20)
    <3> QED BY <2>1, <2>2, <2>3, <3>1, ZenonT(20) DEF HistoryOf
  <2>4. CASE Vouched
    <3>1. Valid(witness) /\ ~OwnershipMissing
      BY <2>4, Zenon DEF Vouched, OwnershipMissing, Named
    <3>2. witness.seq = Len(wal) /\ Len(wal) \in Nat /\ Found(p) /\ witness # Damaged
      BY <2>4, <3>1 DEF Vouched, BaseInv, SessionTypeOK, FoundInv, Valid, Damaged
    <3>3. pc[p] # "write_witness"
      BY <2>2, <3>2, ZenonT(20) DEF Found, CommitFound
    <3>4. pc[p] # "discard_rebuild"
      BY <3>2 DEF Found, RepairFound
    <3>5. UNCHANGED <<wal, witness, owner>>
      BY <2>1, <2>2, <3>1, <3>3, <3>4, FilesMove, ZenonT(20)
    <3> QED BY <2>1, <2>4, <3>5, ZenonT(20) DEF Vouched, Newest
  <2> QED BY <1>2, <2>2, <2>3, <2>4, ZenonT(20) DEF LossInv, SoundInv
<1> QED BY <1>3, <1>4, Zenon

\* A command is past classify only when no commit awaits.
LEMMA ClearedStepBy ==
    ASSUME BaseInv, LossInv, NEW p \in Proc, StepBy(p)
    PROVE  ClearedInv'
<1>1. NoneAwaits => NoneAwaits'
  BY NoneAwaitsKept DEF LossInv
<1>2. ASSUME NEW q \in Proc \ {p}, Cleared(q)' PROVE NoneAwaits'
  <2>1. pc'[q] = pc[q] /\ cmd'[q] = cmd[q]
    BY StepControlled DEF Controlled, BaseInv
  <2>2. Cleared(q)
    BY <1>2, <2>1, ZenonT(20) DEF Cleared
  <2> QED BY <1>1, <2>2, Zenon DEF LossInv, ClearedInv
<1>3. ASSUME Cleared(p)' PROVE NoneAwaits'
  <2>1. CASE Cleared(p)
    BY <1>1, <2>1, Zenon DEF LossInv, ClearedInv
  <2>2. CASE Verdict \notin Blocking
    BY <1>1, <2>2, NotBlockedSettled, ZenonT(20) DEF LossInv
  <2>3. CASE CutDiscarded(p)
    <3>1. discarded' = lost /\ UNCHANGED <<committed, faults>>
      BY <2>3, Zenon DEF CutDiscarded
    <3>2. SUFFICES ASSUME faults <= 1, NEW x \in committed PROVE Settled(x)'
      BY <3>1, Zenon DEF NoneAwaits
    <3>3. Settled(x) => Settled(x)'
      BY <3>2, SettledKept, Zenon DEF LossInv
    <3>4. Awaits(x) => Settled(x)'
      BY <3>1, Zenon DEF Awaits, Settled
    <3> QED BY <3>2, <3>3, <3>4, ZenonT(20) DEF LossInv, NoticedInv
  <2> QED BY <1>3, <2>1, <2>2, <2>3, WhoClears, ZenonT(20)
<1> QED BY <1>2, <1>3, Zenon DEF ClearedInv

\* The first media fault takes a record the witness and the owner vouch for,
\* or the owner of a queue that the witness or its commits name.
LEMMA LossByFault ==
    ASSUME BaseInv, LossInv, Fault
    PROVE  LossInv'
<1>1. /\ activeLock = Free /\ faults' = faults + 1 /\ faults \in Nat
      /\ UNCHANGED <<pc, cmd, ptr, witness, authored, committed, discarded>>
      /\ LoseLastRecord \/ LoseOwner
  BY DEF Fault, vars, storeVars, BaseInv, SessionTypeOK
<1>2. SoundInv'
  BY <1>1 DEF SoundInv
<1>3. ClearedInv'
  <2>1. \A p \in Proc : pc[p] \in Outside
    BY <1>1, Zenon DEF BaseInv, ActiveInv
  <2>2. ASSUME NEW p \in Proc, Cleared(p)' PROVE FALSE
    BY <1>1, <2>1, <2>2, ZenonT(20) DEF Cleared, Outside, CommitPoints, PublishPoints
  <2> QED BY <2>2, Zenon DEF ClearedInv
<1>4. SUFFICES ASSUME faults = 0, NEW x \in committed
               PROVE  /\ Settled(x)' \/ Awaits(x)'
                      /\ x \in Range(wal') /\ x \notin Range(HistoryOf(authored[x]))' => Attributed(x)'
  <2>1. faults' <= 1 => faults = 0
    BY <1>1
  <2> QED BY <1>1, <1>2, <1>3, <2>1, ZenonT(20) DEF LossInv, NoticedInv, AttributedInv
<1>5. /\ lost = {} /\ Settled(x) /\ discarded = {}
      /\ x \in Range(wal) /\ x \notin Range(HistoryOf(authored[x])) => Attributed(x)
      /\ wal # <<>> /\ Newest \in committed => Newest \in Range(HistoryOf(authored[Newest])) \/ Vouched
  BY <1>4 DEF LossInv, SoundInv, NoticedInv, AttributedInv, Awaits, BaseInv, SessionTypeOK
<1>6. CASE LoseOwner
  BY <1>1, <1>5, <1>6, ZenonT(20) DEF LoseOwner, Settled, Attributed, HistoryOf
<1>7. CASE LoseLastRecord
  <2>1. wal # <<>> /\ wal' = SubSeq(wal, 1, Len(wal) - 1) /\ lost' = lost \cup {Newest} /\ UNCHANGED owner
    BY <1>7, Zenon DEF LoseLastRecord
  <2>2. /\ wal \in Seq(Patch) /\ wal' \in Seq(Patch) /\ Len(wal) \in Nat \ {0} /\ Len(wal') = Len(wal) - 1
        /\ \A i \in 1 .. Len(wal) - 1 : wal'[i] = wal[i]
    BY <2>1, ShorterSeq, Zenon DEF BaseInv, SessionTypeOK
  <2>3. Range(wal') \subseteq Range(wal)
    BY <2>2 DEF Range
  <2>4. Range(wal) \subseteq Range(wal') \cup {Newest}
    <3>1. SUFFICES ASSUME NEW i \in 1 .. Len(wal) PROVE wal[i] \in Range(wal') \cup {Newest}
      BY <2>2 DEF Range
    <3>2. i \in 1 .. Len(wal) - 1 \/ i = Len(wal)
      BY <2>2
    <3> QED BY <2>2, <3>2 DEF Range, Newest
  <2>5. x \in Range(wal') /\ x \notin Range(HistoryOf(authored[x]))' => Attributed(x)'
    BY <1>1, <1>5, <2>1, <2>3, ZenonT(20) DEF Attributed, HistoryOf
  <2>6. CASE x \in Range(HistoryOf(authored[x])) \/ x \in Range(wal')
    BY <1>1, <2>5, <2>6, ZenonT(20) DEF Settled, HistoryOf
  <2>7. CASE x = Newest /\ Vouched
    <3>1. witness.seq = Len(wal') + 1
      BY <2>2, <2>7, SMTT(20) DEF Vouched
    <3> QED BY <1>1, <2>1, <2>5, <2>7, <3>1, ZenonT(20) DEF Vouched, Awaits
  <2> QED BY <1>4, <1>5, <2>1, <2>4, <2>6, <2>7, ZenonT(20) DEF Settled
<1> QED BY <1>1, <1>6, <1>7, ZenonT(20)

\* Every step of every command, crash and media fault keeps it.
LEMMA LossStep ==
    ASSUME BaseInv, LossInv, [SessionNext]_allVars
    PROVE  LossInv'
<1>1. ASSUME NEW p \in Proc, StepBy(p) PROVE LossInv'
  BY <1>1, SoundStepBy, NoticedStepBy, AttributedStepBy, ClearedStepBy, ZenonT(20) DEF LossInv
<1>2. CASE UNCHANGED <<pc, cmd, ptr>> /\ UNCHANGED sessionVars
  <2>1. SoundInv' /\ NoticedInv'
    BY <1>2, Zenon DEF LossInv, SoundInv, NoticedInv, Settled, Awaits, Vouched, Newest, HistoryOf, sessionVars
  <2>2. AttributedInv'
    BY <1>2, Zenon DEF LossInv, AttributedInv, Attributed, HistoryOf, sessionVars
  <2>3. ClearedInv'
    BY <1>2, ZenonT(20) DEF LossInv, ClearedInv, Cleared, NoneAwaits, Settled, HistoryOf, sessionVars
  <2> QED BY <2>1, <2>2, <2>3, Zenon DEF LossInv
<1> QED BY <1>1, <1>2, LossByFault, ZenonT(20) DEF SessionNext, StepBy, Unlock, allVars, vars, storeVars

\* A new session has committed nothing.
LEMMA LossInit == SessionInit => LossInv
<1>1. SessionInit => lost = {} /\ committed = {}
  BY DEF SessionInit
<1> QED BY <1>1, Zenon DEF LossInv, SoundInv, NoticedInv, AttributedInv, ClearedInv, NoneAwaits

\* RFC 166: a commit that was reported successful stays queued until it is
\* published on the branch it was made on, and one whose record a media fault
\* destroys makes classify block every writer until the operator discards it.
THEOREM CommitsNotLostInSilence == SessionSpec => []NoSilentLoss
<1>1. BaseInv /\ LossInv => NoSilentLoss
  <2>1. SUFFICES ASSUME BaseInv, LossInv, faults <= 1, NEW x \in committed, ~Settled(x)
                 PROVE  x \in lost /\ Verdict \in Blocking
    BY Zenon DEF NoSilentLoss, Settled, HistoryOf
  <2>2. Awaits(x)
    BY <2>1, ZenonT(20) DEF LossInv, NoticedInv
  <2> QED BY <2>1, <2>2, AwaitedBlocks, ZenonT(20) DEF Awaits
<1>2. SessionInit => BaseInv /\ LossInv
  BY BaseInit, LossInit, ZenonT(20)
<1>3. BaseInv /\ LossInv /\ [SessionNext]_allVars => (BaseInv /\ LossInv)'
  BY BaseStep, LossStep
<1> QED BY <1>1, <1>2, <1>3, PTL DEF SessionSpec
=============================================================================
