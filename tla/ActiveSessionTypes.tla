------------------------- MODULE ActiveSessionTypes -------------------------
(***************************************************************************)
(* The active session's files and refs, for every number of slots,         *)
(* branches, keys, commits, crashes and media faults: they keep their      *)
(* types as long as what a command found out under the active lock holds   *)
(* while it acts on it (FoundInv, which module ActiveSessionFound proves). *)
(***************************************************************************)
EXTENDS ActiveSessionControl

USE LockAssumption, RefStateAssumption

(***************************************************************************)
(* The refs.  What publish_body decided under the active lock still holds  *)
(* at the two appends, so module RefPublicationProofs's facts about the    *)
(* appends apply to those of seal and of ref complete.                     *)
(***************************************************************************)
SessionDecided ==
    \A p \in Proc : pc[p] \in {"append_pointer", "append_log"} => StillDecided(p)

\* At most an incomplete last frame is cut off a container.
TailsCut ==
    /\ UNCHANGED <<ptr, log, logDamage>>
    /\ logTail' \in {logTail, NoTail} /\ ptrTail' \in {ptrTail, FALSE}

\* Which steps of a slot write the containers.
LEMMA WhoWritesContainers ==
    ASSUME SessionSlots, NEW p \in Proc, StepBy(p)
    PROVE  TailsCut \/ AppendPointer(p) \/ AppendLog(p) \/ Interrupt(p)
<1>1. CASE UNCHANGED storeVars
  BY <1>1 DEF TailsCut, storeVars
<1>2. CASE Refuse(p) \/ Finish(p)
  BY <1>1, <1>2 DEF Refuse, Finish
<1>3. ASSUME NEW at, Proceed(p, at) PROVE TailsCut
  BY <1>1, <1>3 DEF Proceed, TailsCut, storeVars
<1>4. CASE StartSession(p)
  BY <1>1, <1>4 DEF StartSession, StartCommit, StartRestore, StartSeal, BeginSession, Start
<1>5. CASE AcquireSessionLock(p) \/ CheckCommit(p) \/ ClearOwner(p) \/ WriteOwner(p)
           \/ AppendWal(p) \/ WriteWitness(p)
  BY <1>1, <1>2, <1>3, <1>5, Zenon
     DEF AcquireSessionLock, CheckCommit, ClearOwner, WriteOwner, AppendWal, WriteWitness, RefuseSession
<1>6. CASE GuardSeal(p) \/ CheckSeal(p) \/ DrainWal(p) \/ DrainWitness(p) \/ DrainOwner(p)
  BY <1>1, <1>2, <1>3, <1>6, Zenon DEF GuardSeal, CheckSeal, DrainWal, DrainWitness, DrainOwner, RefuseSession
<1>7. CASE PlanCompletion(p) \/ ReportCompletion(p)
  BY <1>1, <1>2, <1>7 DEF PlanCompletion, Plan, ReportCompletion, Report
<1>8. CASE CheckDiscard(p) \/ CutDiscarded(p) \/ RebuildDiscarded(p) \/ CheckRestore(p) \/ RestoreOwner(p)
  BY <1>2, <1>3, <1>8
     DEF CheckDiscard, CutDiscarded, RebuildDiscarded, CheckRestore, RestoreOwner, RefuseSession
<1>9. CASE CheckRepairWal(p) \/ RepairWal(p) \/ ExamineSession(p) \/ CutWalTail(p) \/ RebuildWitness(p)
  BY <1>2, <1>3, <1>9
     DEF CheckRepairWal, RepairWal, ExamineSession, CutWalTail, RebuildWitness, RefuseSession
<1>10. CASE CutLogTailAndGoOn(p)
  BY <1>10 DEF CutLogTailAndGoOn, TailsCut
<1>11. CASE PublicationStep(p)
  <2>1. CASE AcquireActiveLock(p) \/ AcquireRefLock(p) \/ AcquirePointerLock(p) \/ AcquireLogLock(p)
    BY <1>1, <1>2, <2>1 DEF AcquireActiveLock, AcquireRefLock, AcquirePointerLock, AcquireLogLock
  <2>2. CASE PublishBody(p) /\ ~Refuse(p)
    BY <2>2, Zenon DEF PublishBody, TailsCut
  <2>3. CASE CutPointerTail(p)
    BY <2>3, Zenon DEF CutPointerTail, TailsCut
  <2> QED BY <1>2, <1>11, <2>1, <2>2, <2>3, Zenon DEF PublicationStep
<1> QED BY <1>4, <1>5, <1>6, <1>7, <1>8, <1>9, <1>10, <1>11 DEF StepBy, SessionStep, InterruptSession

\* Only publish_body sends a command to its appends.
LEMMA WhoAppends ==
    ASSUME SessionSlots, NEW p \in Proc, StepBy(p), pc'[p] \in {"append_pointer", "append_log"}
    PROVE  (PublishBody(p) /\ ~Refuse(p)) \/ AppendPointer(p)
<1>1. ~Refuse(p) /\ ~Finish(p) /\ \A left : ~EndCommand(p, left)
  BY DEF SessionSlots, Refuse, Finish, EndCommand, Goto
<1>2. ASSUME NEW at, Goto(p, at) PROVE at \in {"append_pointer", "append_log"}
  BY <1>2 DEF SessionSlots, Goto
<1>3. ~StartSession(p)
  BY <1>2 DEF StartSession, StartCommit, StartRestore, StartSeal, BeginSession, Start, FirstStep
<1>4. ~AcquireSessionLock(p)
  <2>1. SUFFICES ASSUME AcquireSessionLock(p) PROVE FALSE
    OBVIOUS
  <2>2. SessionCommandAt("session_lock", cmd[p])
    BY <2>1 DEF SessionSlots, AcquireSessionLock
  <2>3. cmd[p].op \notin {"append_pointer", "append_log"}
    BY <2>2 DEF SessionCommandAt, SealCommand, CommitCommand, RestoreCommand
  <2> QED BY <1>1, <1>2, <2>1, <2>3 DEF AcquireSessionLock, RefuseSession
<1>5. ~(CheckCommit(p) \/ ClearOwner(p) \/ WriteOwner(p) \/ AppendWal(p) \/ WriteWitness(p))
  BY <1>1, <1>2
     DEF CheckCommit, ClearOwner, WriteOwner, AppendWal, WriteWitness, RefuseSession, Proceed
<1>6. ~(GuardSeal(p) \/ CheckSeal(p) \/ DrainWal(p) \/ DrainWitness(p) \/ DrainOwner(p))
  BY <1>1, <1>2
     DEF GuardSeal, CheckSeal, DrainWal, DrainWitness, DrainOwner, RefuseSession, Proceed
<1>7. ~(PlanCompletion(p) \/ ReportCompletion(p))
  BY <1>1, <1>2 DEF PlanCompletion, Plan, ReportCompletion, Report
<1>8. ~(CheckDiscard(p) \/ CutDiscarded(p) \/ RebuildDiscarded(p) \/ CheckRestore(p) \/ RestoreOwner(p))
  BY <1>1, <1>2
     DEF CheckDiscard, CutDiscarded, RebuildDiscarded, CheckRestore, RestoreOwner, RefuseSession, Proceed
<1>9. ~(CheckRepairWal(p) \/ RepairWal(p) \/ ExamineSession(p) \/ CutWalTail(p) \/ CutLogTailAndGoOn(p)
        \/ RebuildWitness(p))
  BY <1>1, <1>2
     DEF CheckRepairWal, RepairWal, ExamineSession, CutWalTail, CutLogTailAndGoOn, RebuildWitness,
         RefuseSession, Proceed
<1>10. CASE PublicationStep(p)
  <2>1. ~(AcquireRefLock(p) \/ AcquirePointerLock(p) \/ AcquireLogLock(p))
    BY <1>1, <1>2 DEF AcquireRefLock, AcquirePointerLock, AcquireLogLock
  <2>2. ~AcquireActiveLock(p)
    BY <1>1, <1>2 DEF AcquireActiveLock, AfterActiveLock
  <2>3. ~(AppendLog(p) \/ CutPointerTail(p))
    BY <1>1, <1>2 DEF AppendLog, CutPointerTail
  <2> QED BY <1>1, <1>10, <2>1, <2>2, <2>3, Zenon DEF PublicationStep
<1>11. ~InterruptSession(p)
  BY <1>1 DEF InterruptSession, Interrupt
<1> QED BY <1>3, <1>4, <1>5, <1>6, <1>7, <1>8, <1>9, <1>10, <1>11, Zenon DEF StepBy, SessionStep

\* A command at an append carries the RefState it publishes, and is alone.
LEMMA AtAppend ==
    ASSUME SessionSlots, NEW p \in Proc, pc[p] \in {"body", "append_pointer", "append_log"}
    PROVE  Prepared(cmd[p]) /\ pc[p] \notin Outside
BY DEF SessionSlots, SessionCommandAt, PublishPoints, Outside

\* The containers stay typed, chained and led by at most one RefState.
LEMMA ContainersStep ==
    ASSUME StoreType, StoreInv, SessionSlots, ActiveInv, SessionDecided, [SessionNext]_allVars
    PROVE  StoreType' /\ StoreInv' /\ SessionDecided'
<1>1. CASE UNCHANGED <<storeVars, pc, cmd>>
  <2>1. TailsCut
    BY <1>1 DEF TailsCut, storeVars
  <2>2. StoreType' /\ StoreInv'
    BY <1>1, <2>1, TailCutKeepsStore, Zenon DEF TailsCut, StoreType, storeVars
  <2> QED BY <1>1, <2>2 DEF SessionDecided, StillDecided, LogTip, NameCollision, Logged, Leads, storeVars
<1>2. ASSUME NEW p \in Proc, StepBy(p)
      PROVE  StoreType' /\ StoreInv' /\ SessionDecided'
  <2>1. AppendPointer(p) \/ AppendLog(p) => Prepared(cmd[p]) /\ StillDecided(p)
    BY AtAppend DEF AppendPointer, AppendLog, SessionDecided
  <2>2. Interrupt(p) => (pc[p] = "append_log" => Prepared(cmd[p]) /\ StillDecided(p))
    BY AtAppend, Zenon DEF SessionDecided
  <2>3. StoreType' /\ StoreInv'
    <3>1. CASE TailsCut
      BY <3>1, TailCutKeepsStore, Zenon DEF TailsCut, StoreType, Tail_
    <3> QED BY <1>2, <2>1, <2>2, <3>1, WhoWritesContainers, AppendPointerStoreType, AppendLogStoreType,
               InterruptStoreType, AppendPointerKeepsStore, AppendLogKeepsStore, InterruptKeepsStore, ZenonT(20)
  <2>4. ASSUME pc'[p] \in {"append_pointer", "append_log"} PROVE StillDecided(p)'
    <3>1. CASE PublishBody(p) /\ ~Refuse(p)
      BY <3>1, AtAppend, PublishBodyDecides, Zenon DEF PublishBody, SessionSlots
    <3>2. CASE AppendPointer(p)
      BY <2>1, <3>2, AppendPointerDecides, ZenonT(20) DEF SessionSlots
    <3> QED BY <1>2, <2>4, <3>1, <3>2, WhoAppends, Zenon
  <2>5. ASSUME NEW q \in Proc \ {p}, pc'[q] \in {"append_pointer", "append_log"}
        PROVE  StillDecided(q)'
    <3>1. pc'[q] = pc[q] /\ cmd'[q] = cmd[q]
      BY <1>2, StepControlled DEF Controlled
    <3>2. pc[p] \in Outside
      BY <2>5, <3>1, OneInside, AtAppend
    <3>3. UNCHANGED storeVars
      BY <1>2, <3>2, OutsideWritesNothing
    <3> QED BY <2>5, <3>1, <3>3
            DEF SessionDecided, StillDecided, LogTip, NameCollision, Logged, Leads, storeVars
  <2> QED BY <2>3, <2>4, <2>5, ZenonT(20) DEF SessionDecided
<1> QED BY <1>1, <1>2, ZenonT(20) DEF SessionNext, StepBy, Unlock, Fault, allVars, vars

(***************************************************************************)
(* What the verdict tells its readers.                                     *)
(***************************************************************************)
\* A verdict that lets writers go on: the owner vouches for the queue, the
\* witness is for the owner's branch, and its record is there or published.
LEMMA NotBlocked ==
    ASSUME Verdict \notin Blocking
    PROVE  /\ wal # <<>> => owner.name = "valid"
           /\ owner.name = "valid" /\ Valid(witness) => witness.ref = owner.ref
           /\ Valid(witness) => \/ witness.seq < Len(wal)
                                \/ witness.seq = Len(wal) /\ IdentityMatches(witness)
                                \/ SealedAndReachableSince(witness)
<1> USE DEF Blocking, Discardable
<1>1. ~OwnershipMissing
  BY DEF Verdict
<1>2. ASSUME Valid(witness), ~SealedAndReachableSince(witness)
      PROVE  witness.seq < Len(wal) \/ (witness.seq = Len(wal) /\ IdentityMatches(witness))
  <2>1. witness # Damaged /\ witness # Absent
    BY <1>2 DEF Valid, Damaged, Absent
  <2>2. WitnessVerdict(witness) \notin Blocking
    BY <1>1, <2>1 DEF Verdict
  <2> QED BY <1>2, <2>2 DEF WitnessVerdict
<1> QED BY <1>1, <1>2 DEF OwnershipMissing

\* What the operator may discard: a damaged witness's tail, or a record the
\* witness knows of and the WAL no longer has.
LEMMA Discarded ==
    ASSUME Verdict \in Discardable, SessionTypeOK
    PROVE  \/ witness = Damaged
           \/ Valid(witness) /\ witness.seq > Len(wal) /\ ~SealedAndReachableSince(witness)
<1>1. witness = Damaged \/ witness = Absent \/ Valid(witness)
  BY DEF SessionTypeOK, WitnessRecord, Valid
<1>2. witness = Absent => witness # Damaged
  BY DEF Absent, Damaged
<1>3. ~OwnershipMissing
  BY DEF Verdict, Discardable
<1>4. witness # Absent
  BY <1>2, <1>3 DEF Verdict, Discardable
<1>5. ASSUME Valid(witness), witness # Damaged
      PROVE  witness.seq > Len(wal) /\ ~SealedAndReachableSince(witness)
  <2>1. WitnessVerdict(witness) \in Discardable
    BY <1>3, <1>4, <1>5 DEF Verdict
  <2>2. witness.seq \in Nat /\ Len(wal) \in Nat
    BY <1>1, <1>4, <1>5 DEF SessionTypeOK, WitnessRecord
  <2> QED BY <2>1, <2>2 DEF WitnessVerdict, Discardable
<1> QED BY <1>1, <1>4, <1>5

\* Which steps of a slot write the session's files.
LEMMA WhoWritesSession ==
    ASSUME NEW p \in Proc, StepBy(p)
    PROVE  \/ UNCHANGED sessionVars
           \/ ClearOwner(p) \/ WriteOwner(p) \/ AppendWal(p) \/ WriteWitness(p)
           \/ CheckSeal(p) \/ DrainWal(p) \/ DrainWitness(p) \/ DrainOwner(p)
           \/ CutDiscarded(p) \/ RebuildDiscarded(p) \/ RestoreOwner(p)
           \/ RepairWal(p) \/ CutWalTail(p) \/ RebuildWitness(p)
           \/ InterruptSession(p)
<1>1. StartSession(p) => UNCHANGED sessionVars
  BY Zenon DEF StartSession, StartCommit, StartRestore, StartSeal, BeginSession
<1>2. AcquireSessionLock(p) \/ CheckCommit(p) \/ GuardSeal(p) => UNCHANGED sessionVars
  BY DEF AcquireSessionLock, CheckCommit, GuardSeal, RefuseSession
<1>3. PlanCompletion(p) \/ ReportCompletion(p) \/ PublicationStep(p) => UNCHANGED sessionVars
  BY Zenon DEF PlanCompletion, ReportCompletion, PublicationStep
<1>4. CheckDiscard(p) \/ CheckRestore(p) \/ CheckRepairWal(p) \/ ExamineSession(p)
        \/ CutLogTailAndGoOn(p) => UNCHANGED sessionVars
  BY DEF CheckDiscard, CheckRestore, CheckRepairWal, ExamineSession, CutLogTailAndGoOn, RefuseSession
<1> QED BY <1>1, <1>2, <1>3, <1>4 DEF StepBy, SessionStep

(***************************************************************************)
(* What a command has found out under the lock, while it acts on it.       *)
(***************************************************************************)
HistoryOf(r) == History[ptr[r]]

\* Patches are numbered as they are made.
NumberInv ==
    /\ \A i \in 1 .. Len(wal) : wal[i] <= Len(authored)
    /\ \A x \in committed : x <= Len(authored)

\* commit: there is room, an empty queue's witness is spent, the owner is the
\* commit's branch once it is written, the queue is not the branch's tip, and
\* the record is written before the witness.
CommitFound(p) ==
    /\ pc[p] \in {"clear_owner", "write_owner"} => wal = <<>>
    /\ pc[p] \in {"clear_owner", "write_owner", "append_wal"} =>
          /\ Len(wal) < MaxQueue /\ Len(authored) < Cardinality(Patch)
          /\ wal = <<>> /\ Valid(witness) => SealedAndReachableSince(witness)
    /\ pc[p] \in {"append_wal", "write_witness"} => owner = Named(cmd[p].ref)
    /\ pc[p] = "append_wal" => ~TipIsQueue(cmd[p].ref)
    /\ pc[p] = "write_witness" =>
          /\ wal # <<>> /\ Newest = Len(authored) /\ authored[Newest] = cmd[p].ref
          /\ Newest \notin committed

\* seal: the Block is the queue, and the branch's pointer is at its parent, which
\* is another Block, or at the Block itself.
SealFound(p) ==
    LET c == cmd[p] IN
    /\ pc[p] \in PublishPoints /\ c.op = "seal" =>
          /\ wal # <<>> /\ owner = Named(c.ref) /\ BlockOf[c.state] = wal
          /\ Valid(witness) => witness.ref = c.ref
          /\ ptr[c.ref] \in {c.base, c.state}
          /\ ptr[c.ref] = c.base => ~TipIsQueue(c.ref)
          /\ pc[p] \in {"append_log", "published"} => ptr[c.ref] = c.state
    /\ pc[p] \in {"drain_witness", "drain_owner"} => wal = <<>>

\* A completion confirms a RefState its ref's pointer has reached already.
CompleteFound(p) ==
    /\ pc[p] \in PublishPoints \cup {"active_lock"} /\ cmd[p].op = "complete" =>
          Len(Chain[cmd[p].state]) <= Len(Chain[ptr[cmd[p].ref]])
    /\ pc[p] = "append_pointer" => cmd[p].op = "seal"

\* restore: the branch is the one the witness or the commits name.  discard:
\* a witness that is damaged, or that knows of a record the WAL has not.
RepairFound(p) ==
    /\ pc[p] = "restore_write" =>
          /\ OwnershipMissing /\ wal # <<>>
          /\ IF Valid(witness) THEN witness.ref = cmd[p].ref ELSE Confirmed(cmd[p].ref)
    /\ pc[p] \in {"discard_cut", "discard_rebuild"} =>
          /\ owner.name = "valid"
          /\ \/ witness = Damaged
             \/ Valid(witness) /\ witness.seq > Len(wal) /\ ~SealedAndReachableSince(witness)

Found(p) == CommitFound(p) /\ SealFound(p) /\ CompleteFound(p) /\ RepairFound(p)

FoundInv == \A p \in Proc : Found(p)

\* A sequence without its last element.
LEMMA ShorterSeq ==
    ASSUME NEW S, NEW s \in Seq(S), s # <<>>
    PROVE  /\ SubSeq(s, 1, Len(s) - 1) \in Seq(S)
           /\ Len(SubSeq(s, 1, Len(s) - 1)) = Len(s) - 1
           /\ \A i \in 1 .. Len(s) - 1 : SubSeq(s, 1, Len(s) - 1)[i] = s[i]
           /\ Len(s) \in Nat \ {0} /\ s[Len(s)] \in S
<1>1. Len(s) \in Nat \ {0}
  OBVIOUS
<1>2. ASSUME NEW m \in Nat, m <= Len(s)
      PROVE  /\ SubSeq(s, 1, m) \in Seq(S)
             /\ Len(SubSeq(s, 1, m)) = m
             /\ \A i \in 1 .. m : SubSeq(s, 1, m)[i] = s[i]
  BY <1>2
<1>3. Len(s) - 1 \in Nat /\ Len(s) - 1 <= Len(s) /\ s[Len(s)] \in S
  BY <1>1
<1> QED BY <1>1, <1>2, <1>3, Zenon

\* The witness that write_witness and the rebuilds build is a witness record.
LEMMA WitnessOverType ==
    ASSUME StoreType, SessionTypeOK, wal # <<>>, NEW r \in Ref, NEW run \in Seq(Patch), NEW covered \in Nat
    PROVE  /\ WitnessOver(r, run, covered) \in WitnessRecord
           /\ Newest \in Patch
<1>1. wal \in Seq(Patch) /\ Len(wal) \in 1 .. MaxQueue /\ Newest \in Patch
  BY PatchAssumption DEF SessionTypeOK, Newest
<1>2. SubSeq(wal, covered + 1, Len(wal)) \in Seq(Patch)
  BY <1>1
<1>3. FoldRunningHash(run, covered, Len(wal)) \in Seq(Patch)
  BY <1>2 DEF FoldRunningHash
<1>4. ptr[r] \in RefState \cup {NoState}
  BY DEF StoreType
<1> QED BY <1>1, <1>3, <1>4, Zenon DEF WitnessOver, WitnessRecord

\* A rebuilt witness is one, or there is none.
LEMMA RebuiltType ==
    ASSUME StoreType, SessionTypeOK, NEW r \in Ref
    PROVE  RebuiltWitness(r) \in WitnessRecord \cup {Absent}
<1>1. <<>> \in Seq(Patch) /\ 0 \in Nat
  OBVIOUS
<1>2. wal # <<>> => WitnessOver(r, <<>>, 0) \in WitnessRecord
  BY <1>1, WitnessOverType, Zenon
<1> QED BY <1>2 DEF RebuiltWitness

\* A valid owner names a ref.
LEMMA OwnerType ==
    ASSUME SessionTypeOK, owner.name = "valid"
    PROVE  owner.ref \in Ref /\ owner = Named(owner.ref)
BY DEF SessionTypeOK, Named, Missing, Invalid

\* The session's files keep their types, and the WAL stays below the limit.
LEMMA TypesStep ==
    ASSUME StoreType, SessionTypeOK, NumberInv, SessionSlots, FoundInv, [SessionNext]_allVars
    PROVE  SessionTypeOK' /\ NumberInv'
<1> DEFINE Witness == WitnessRecord \cup {Absent, Damaged}
           Owner == {Named(r) : r \in Ref} \cup {Missing, Invalid}
<1>1. /\ wal \in Seq(Patch) /\ Len(wal) <= MaxQueue /\ Len(wal) \in Nat
      /\ authored \in Seq(Branch) /\ Len(authored) \in Nat
      /\ witness \in Witness /\ owner \in Owner /\ walTail \in BOOLEAN
  BY DEF SessionTypeOK
<1>2. CASE UNCHANGED sessionVars
  BY <1>2, Zenon DEF SessionTypeOK, NumberInv, sessionVars
<1>3. ASSUME UNCHANGED <<wal, authored, committed, lost, faults>>,
             walTail' \in BOOLEAN, witness' \in Witness, owner' \in Owner, discarded' \subseteq lost
      PROVE  SessionTypeOK' /\ NumberInv'
  BY <1>3 DEF SessionTypeOK, NumberInv
<1>4. ASSUME NEW p \in Proc,
             ClearOwner(p) \/ CheckSeal(p) \/ DrainOwner(p) \/ DrainWitness(p) \/ CutDiscarded(p)
               \/ RepairWal(p) \/ CutWalTail(p)
      PROVE  SessionTypeOK' /\ NumberInv'
  <2>1. owner' \in {owner, Missing} /\ witness' \in {witness, Absent} /\ walTail' \in {walTail, FALSE}
        /\ discarded' \in {discarded, lost} /\ UNCHANGED <<wal, authored, committed, lost, faults>>
    BY <1>4, Zenon DEF ClearOwner, CheckSeal, DrainOwner, DrainWitness, CutDiscarded, RepairWal, CutWalTail,
                sessionVars
  <2> QED BY <1>1, <1>3, <2>1, Zenon DEF SessionTypeOK
<1>5. ASSUME NEW p \in Proc, WriteOwner(p) \/ RestoreOwner(p)
      PROVE  SessionTypeOK' /\ NumberInv'
  <2>1. cmd[p].ref \in Ref
    BY <1>5, Zenon DEF WriteOwner, RestoreOwner, SessionSlots, SessionCommandAt, CommitPoints, CommitCommand,
                RestoreCommand, Branch
  <2> QED BY <1>1, <1>3, <1>5, <2>1, Zenon DEF WriteOwner, RestoreOwner, SessionTypeOK
<1>6. ASSUME NEW p \in Proc, AppendWal(p)
      PROVE  SessionTypeOK' /\ NumberInv'
  <2>1. /\ Len(wal) < MaxQueue /\ Len(authored) < Cardinality(Patch)
        /\ cmd[p].ref \in Branch
    BY <1>6, Zenon DEF AppendWal, FoundInv, Found, CommitFound, SessionSlots, SessionCommandAt, CommitPoints,
                CommitCommand
  <2>2. Len(authored) + 1 \in Patch
    BY <1>1, <2>1, PatchAssumption
  <2>3. /\ wal' = Append(wal, Len(authored) + 1) /\ authored' = Append(authored, cmd[p].ref)
        /\ UNCHANGED <<walTail, witness, owner, committed, lost, discarded, faults>>
    BY <1>6, Zenon DEF AppendWal
  <2>4. SessionTypeOK'
    BY <1>1, <2>1, <2>2, <2>3, PatchAssumption DEF SessionTypeOK
  <2>5. Len(authored') = Len(authored) + 1 /\ Len(wal') = Len(wal) + 1
    BY <1>1, <2>1, <2>2, <2>3
  <2>6. ASSUME NEW i \in 1 .. Len(wal') PROVE wal'[i] <= Len(authored')
    BY <1>1, <2>2, <2>3, <2>5, PatchAssumption DEF NumberInv
  <2>7. \A x \in committed' : x <= Len(authored')
    BY <1>1, <2>3, <2>5, PatchAssumption DEF NumberInv, SessionTypeOK
  <2> QED BY <2>4, <2>6, <2>7, Zenon DEF NumberInv
<1>7. ASSUME NEW p \in Proc, WriteWitness(p)
      PROVE  SessionTypeOK' /\ NumberInv'
  <2>1. wal # <<>> /\ Newest = Len(authored) /\ cmd[p].ref \in Ref
    BY <1>7, Zenon DEF WriteWitness, FoundInv, Found, CommitFound, SessionSlots, SessionCommandAt, CommitPoints,
                CommitCommand, Branch
  <2>2. Valid(witness) => witness.run \in Seq(Patch) /\ witness.seq \in Nat
    BY <1>1 DEF Valid, WitnessRecord, Absent, Damaged
  <2>3. witness' \in WitnessRecord /\ Newest \in Patch
    <3>1. <<>> \in Seq(Patch) /\ 0 \in Nat
      OBVIOUS
    <3>2. WitnessOver(cmd[p].ref, <<>>, 0) \in WitnessRecord /\ Newest \in Patch
      BY <2>1, <3>1, WitnessOverType, Zenon
    <3>3. Valid(witness) => WitnessOver(cmd[p].ref, witness.run, witness.seq) \in WitnessRecord
      BY <2>1, <2>2, WitnessOverType, Zenon
    <3> QED BY <1>7, <3>2, <3>3, Zenon DEF WriteWitness, NextWitness
  <2>4. committed' = committed \cup {Newest} /\ UNCHANGED <<wal, walTail, owner, authored, lost, discarded, faults>>
    BY <1>7, Zenon DEF WriteWitness
  <2> QED BY <1>1, <2>1, <2>3, <2>4, SMTT(20) DEF SessionTypeOK, NumberInv
<1>8. ASSUME NEW p \in Proc, DrainWal(p)
      PROVE  SessionTypeOK' /\ NumberInv'
  <2>1. /\ wal' = <<>> /\ walTail' = FALSE
        /\ UNCHANGED <<witness, owner, authored, committed, lost, discarded, faults>>
    BY <1>8, Zenon DEF DrainWal
  <2>2. wal' \in Seq(Patch) /\ Len(wal') = 0 /\ Len(wal') <= MaxQueue
    BY <2>1, PatchAssumption
  <2>3. SessionTypeOK'
    BY <2>1, <2>2, Zenon DEF SessionTypeOK
  <2>4. NumberInv'
    BY <2>1, <2>2 DEF NumberInv
  <2> QED BY <2>3, <2>4, Zenon
<1>9. ASSUME NEW p \in Proc, RebuildDiscarded(p) \/ RebuildWitness(p)
      PROVE  SessionTypeOK' /\ NumberInv'
  <2>1. RebuildDiscarded(p) => owner.name = "valid"
    BY DEF RebuildDiscarded, FoundInv, Found, RepairFound
  <2>2. owner.name = "valid" => RebuiltWitness(owner.ref) \in Witness
    BY OwnerType, RebuiltType
  <2>3. witness' \in Witness
    BY <1>1, <1>9, <2>1, <2>2, Zenon DEF RebuildDiscarded, RebuildWitness
  <2> QED BY <1>1, <1>3, <1>9, <2>3, Zenon DEF RebuildDiscarded, RebuildWitness, SessionTypeOK
<1>10. ASSUME NEW p \in Proc, InterruptSession(p)
       PROVE  SessionTypeOK' /\ NumberInv'
  <2>1. walTail' \in BOOLEAN /\ witness' \in Witness
    BY <1>1, <1>10, ZenonT(20) DEF InterruptSession, TornWal, TornWitness
  <2>2. owner' \in Owner
    BY <1>1, <1>10, PatchAssumption, Zenon DEF InterruptSession, TornOwner
  <2> QED BY <1>3, <1>10, <2>1, <2>2, Zenon DEF InterruptSession, SessionTypeOK
<1>11. CASE Fault
  <2>1. faults' \in 0 .. MaxFaults /\ UNCHANGED <<witness, authored, committed, discarded>>
    BY <1>11, PatchAssumption DEF Fault, SessionTypeOK
  <2>2. CASE LoseOwner
    BY <2>1, <2>2, Zenon DEF SessionTypeOK, NumberInv, LoseOwner
  <2>3. CASE LoseLastRecord
    <3>1. /\ wal # <<>> /\ wal' = SubSeq(wal, 1, Len(wal) - 1) /\ lost' = lost \cup {Newest}
          /\ walTail' \in BOOLEAN /\ UNCHANGED owner
      BY <1>1, <2>3, Zenon DEF LoseLastRecord
    <3>2. /\ wal' \in Seq(Patch) /\ Len(wal') = Len(wal) - 1 /\ Newest \in Patch
          /\ \A i \in 1 .. Len(wal') : wal'[i] = wal[i]
      BY <1>1, <3>1, ShorterSeq, Zenon DEF Newest
    <3>3. SessionTypeOK'
      BY <1>1, <2>1, <3>1, <3>2, PatchAssumption DEF SessionTypeOK
    <3>4. NumberInv'
      <4>1. \A i \in 1 .. Len(wal') : i \in 1 .. Len(wal)
        BY <1>1, <3>2
      <4> QED BY <2>1, <3>2, <4>1, Zenon DEF NumberInv
    <3> QED BY <3>3, <3>4, Zenon
  <2> QED BY <1>11, <2>2, <2>3, Zenon DEF Fault
<1>12. CASE Unlock /\ UNCHANGED sessionVars
  BY <1>2, <1>12, Zenon
<1> QED BY <1>2, <1>4, <1>5, <1>6, <1>7, <1>8, <1>9, <1>10, <1>11, <1>12, WhoWritesSession, ZenonT(20)
        DEF SessionNext, StepBy, allVars

(***************************************************************************)
(* The chains.  Nobody publishes under a torn name, a ref's history holds  *)
(* every Block of its chain, and no ref falls back behind a witness's tip. *)
(***************************************************************************)
ChainInv ==
    /\ ptr[TornName] = NoState
    /\ \A r \in Ref : \A i \in 1 .. Len(Chain[ptr[r]]) :
          Range(BlockOf[Chain[ptr[r]][i]]) \subseteq Range(HistoryOf(r))
    /\ Valid(witness) => Len(Chain[witness.tip]) <= Len(Chain[ptr[witness.ref]])

\* The elements of two sequences in a row.
LEMMA RangeConcat ==
    ASSUME NEW S, NEW s \in Seq(S), NEW t \in Seq(S)
    PROVE  Range(s \o t) = Range(s) \cup Range(t)
<1>1. /\ Len(s \o t) = Len(s) + Len(t) /\ Len(s) \in Nat /\ Len(t) \in Nat
      /\ \A i \in 1 .. Len(s) : (s \o t)[i] = s[i]
      /\ \A i \in 1 .. Len(t) : (s \o t)[Len(s) + i] = t[i]
  OBVIOUS
<1>2. /\ DOMAIN (s \o t) = 1 .. Len(s) + Len(t)
      /\ DOMAIN s = 1 .. Len(s) /\ DOMAIN t = 1 .. Len(t)
  BY <1>1
<1>3. ASSUME NEW x \in Range(s \o t) PROVE x \in Range(s) \cup Range(t)
  <2>1. PICK i \in 1 .. Len(s) + Len(t) : x = (s \o t)[i]
    BY <1>2, <1>3, Zenon DEF Range
  <2>2. CASE i <= Len(s)
    BY <1>1, <1>2, <2>1, <2>2 DEF Range
  <2>3. CASE i > Len(s)
    <3>1. i - Len(s) \in 1 .. Len(t) /\ i = Len(s) + (i - Len(s))
      BY <1>1, <2>3
    <3>2. x = t[i - Len(s)]
      BY <1>1, <2>1, <3>1, Zenon
    <3> QED BY <1>2, <3>1, <3>2, Zenon DEF Range
  <2> QED BY <1>1, <2>2, <2>3
<1>4. ASSUME NEW x \in Range(s) PROVE x \in Range(s \o t)
  <2>1. PICK i \in 1 .. Len(s) : x = s[i]
    BY <1>2, <1>4, Zenon DEF Range
  <2>2. i \in 1 .. Len(s) + Len(t) /\ x = (s \o t)[i]
    BY <1>1, <2>1
  <2> QED BY <1>2, <2>2 DEF Range
<1>5. ASSUME NEW x \in Range(t) PROVE x \in Range(s \o t)
  <2>1. PICK i \in 1 .. Len(t) : x = t[i]
    BY <1>2, <1>5, Zenon DEF Range
  <2>2. Len(s) + i \in 1 .. Len(s) + Len(t) /\ x = (s \o t)[Len(s) + i]
    BY <1>1, <2>1, SMTT(20)
  <2> QED BY <1>2, <2>2, Zenon DEF Range
<1> QED BY <1>3, <1>4, <1>5, Zenon

\* A chain has a length, the empty one of a ref that is not there included.
LEMMA ChainLength == \A x \in RefState \cup {NoState} : Len(Chain[x]) \in Nat
BY ChainAssumption

\* Lengths of chains are compared along the pointer's moves.
LEMMA LeqTransitive == \A i, j, k \in Nat : i <= j /\ j <= k => i <= k
OBVIOUS

\* A RefState's chain and history are its predecessor's with one more Block.
LEMMA ChainGrows ==
    ASSUME NEW s \in RefState
    PROVE  /\ Prev[s] \in RefState \cup {NoState}
           /\ Chain[Prev[s]] \in Seq(RefState) /\ Len(Chain[Prev[s]]) \in Nat
           /\ Len(Chain[s]) = Len(Chain[Prev[s]]) + 1
           /\ Chain[s][Len(Chain[s])] = s
           /\ \A i \in 1 .. Len(Chain[Prev[s]]) : Chain[s][i] = Chain[Prev[s]][i]
           /\ Range(History[s]) = Range(History[Prev[s]]) \cup Range(BlockOf[s])
<1>1. Prev[s] \in RefState \cup {NoState}
  OBVIOUS
<1>2. Chain[s] = Append(Chain[Prev[s]], s) /\ Chain[Prev[s]] \in Seq(RefState)
  BY <1>1, ChainAssumption, Zenon
<1>3. History[s] = History[Prev[s]] \o BlockOf[s] /\ History[Prev[s]] \in Seq(Patch) /\ BlockOf[s] \in Seq(Patch)
  BY <1>1, ChainAssumption, PatchAssumption, ZenonT(20)
<1> QED BY <1>1, <1>2, <1>3, RangeConcat

\* The pointer append, as the refs' readers see it.
Swaps(r, s) ==
    /\ r \in Ref /\ s \in RefState /\ Prev[s] = ptr[r]
    /\ ptr' = [ptr EXCEPT ![r] = s]

\* Every chain and every history only grows.
LEMMA SwapGrows ==
    ASSUME StoreType, NEW r, NEW s, Swaps(r, s), NEW q \in Ref
    PROVE  /\ Len(Chain[ptr[q]]) <= Len(Chain[ptr'[q]])
           /\ Range(HistoryOf(q)) \subseteq Range(History[ptr'[q]])
<1>1. ptr'[q] = IF q = r THEN s ELSE ptr[q]
  BY Zenon DEF Swaps, StoreType
<1>2. Len(Chain[ptr[q]]) \in Nat
  BY ChainLength, Zenon DEF StoreType
<1>3. CASE q # r
  BY <1>1, <1>2, <1>3, SMTT(20) DEF HistoryOf
<1>4. CASE q = r
  <2>1. s \in RefState /\ Prev[s] = ptr[q] /\ ptr'[q] = s
    BY <1>1, <1>4 DEF Swaps
  <2>2. /\ Len(Chain[s]) = Len(Chain[ptr[q]]) + 1
        /\ Range(History[s]) = Range(History[ptr[q]]) \cup Range(BlockOf[s])
    BY <2>1, ChainGrows, Zenon
  <2> QED BY <1>2, <2>1, <2>2 DEF HistoryOf
<1> QED BY <1>3, <1>4, Zenon

\* What the witness's patch was sealed in stays reachable.
LEMMA SwapKeepsSealed ==
    ASSUME StoreType, NEW r, NEW s, Swaps(r, s), UNCHANGED witness, witness \in WitnessRecord, ChainInv,
           SealedAndReachableSince(witness)
    PROVE  SealedAndReachableSince(witness)'
<1> DEFINE c == Chain[ptr[witness.ref]]
           d == Chain[ptr'[witness.ref]]
<1>1. witness.ref \in Ref /\ Valid(witness)
  BY DEF WitnessRecord, Valid
<1>2. PICK i \in 1 .. Len(c) :
         /\ witness.patch \in Range(BlockOf[c[i]])
         /\ \A j \in i .. Len(c) : c[j] # witness.tip
  BY Zenon DEF SealedAndReachableSince
<1>3. CASE witness.ref # r
  <2>1. d = c
    BY <1>1, <1>3 DEF Swaps, StoreType
  <2> QED BY <1>2, <2>1, ZenonT(20) DEF SealedAndReachableSince
<1>4. CASE witness.ref = r
  <2>1. ptr'[witness.ref] = s /\ Prev[s] = ptr[witness.ref] /\ s \in RefState
    BY <1>1, <1>4, Zenon DEF Swaps, StoreType
  <2>2. /\ Len(d) = Len(c) + 1 /\ d[Len(d)] = s /\ Len(c) \in Nat
        /\ \A j \in 1 .. Len(c) : d[j] = c[j]
    <3>1. c = Chain[Prev[s]] /\ d = Chain[s]
      BY <2>1, Zenon
    <3> HIDE DEF c, d
    <3> QED BY <2>1, <3>1, ChainGrows, ZenonT(20)
  <2>3. s # witness.tip
    <3>1. Len(Chain[witness.tip]) <= Len(c)
      BY <1>1 DEF ChainInv
    <3> QED BY <2>1, <2>2, <3>1
  <2> HIDE DEF c, d
  <2>4. i \in 1 .. Len(d) /\ witness.patch \in Range(BlockOf[d[i]])
    <3>1. i \in 1 .. Len(d) /\ d[i] = c[i]
      BY <2>2
    <3> QED BY <1>2, <3>1, Zenon
  <2>5. ASSUME NEW j \in i .. Len(d) PROVE d[j] # witness.tip
    <3>1. j \in i .. Len(c) \/ j = Len(d)
      BY <2>2
    <3>2. j \in i .. Len(c) => j \in 1 .. Len(c)
      BY <2>2
    <3> QED BY <1>2, <2>2, <2>3, <3>1, <3>2, Zenon
  <2> QED BY <2>4, <2>5, Zenon DEF SealedAndReachableSince, c, d
<1> QED BY <1>3, <1>4, Zenon

\* A pointer moves only at seal's pointer append, which writes nothing else.
LEMMA PointerMoves ==
    ASSUME StoreType, SessionSlots, SessionDecided, FoundInv, [SessionNext]_allVars
    PROVE  \/ UNCHANGED ptr
           \/ \E p \in Proc : /\ AppendPointer(p) /\ UNCHANGED sessionVars
                              /\ Swaps(cmd[p].ref, cmd[p].state)
                              /\ cmd[p].op = "seal" /\ cmd[p].ref \in Branch
<1>1. ASSUME NEW p \in Proc, AppendPointer(p), StepBy(p)
      PROVE  /\ UNCHANGED sessionVars /\ Swaps(cmd[p].ref, cmd[p].state)
             /\ cmd[p].op = "seal" /\ cmd[p].ref \in Branch
  <2>1. pc[p] = "append_pointer"
    BY <1>1, Zenon DEF AppendPointer
  <2>2. Prepared(cmd[p]) /\ StillDecided(p)
    BY <2>1, AtAppend DEF SessionDecided
  <2>3. Swaps(cmd[p].ref, cmd[p].state)
    BY <1>1, <2>2, AppendPointerSwaps, ZenonT(20) DEF Swaps
  <2>4. cmd[p].op = "seal"
    BY <2>1, Zenon DEF FoundInv, Found, CompleteFound
  <2>5. cmd[p].ref \in Branch
    BY <2>1, Zenon DEF SessionSlots, SessionCommandAt, PublishPoints, SealCommand, CompleteCommand
  <2>6. UNCHANGED sessionVars
    <3>1. ~(ClearOwner(p) \/ WriteOwner(p) \/ AppendWal(p) \/ WriteWitness(p) \/ CheckSeal(p) \/ DrainWal(p)
            \/ DrainWitness(p) \/ DrainOwner(p))
      BY <2>1 DEF ClearOwner, WriteOwner, AppendWal, WriteWitness, CheckSeal, DrainWal, DrainWitness, DrainOwner
    <3>2. ~(CutDiscarded(p) \/ RebuildDiscarded(p) \/ RestoreOwner(p) \/ RepairWal(p) \/ CutWalTail(p)
            \/ RebuildWitness(p))
      BY <2>1, Zenon DEF CutDiscarded, RebuildDiscarded, RestoreOwner, RepairWal, CutWalTail, RebuildWitness
    <3>3. ~InterruptSession(p)
      BY <1>1 DEF InterruptSession, Interrupt, EndCommand, AppendPointer, Goto, SessionSlots
    <3> QED BY <1>1, <3>1, <3>2, <3>3, WhoWritesSession, Zenon
  <2> QED BY <2>3, <2>4, <2>5, <2>6
<1>2. ASSUME NEW p \in Proc, StepBy(p), ~AppendPointer(p) PROVE UNCHANGED ptr
  BY <1>2, WhoWritesContainers, ZenonT(20) DEF TailsCut, AppendLog, Interrupt
<1> QED BY <1>1, <1>2, ZenonT(20) DEF SessionNext, StepBy, Unlock, Fault, allVars, vars, storeVars

\* The witness is kept, removed, torn, or written over the WAL as it is.
LEMMA WitnessMoves ==
    ASSUME SessionTypeOK, SessionSlots, FoundInv, [SessionNext]_allVars
    PROVE  \/ witness' \in {witness, Absent, Damaged}
           \/ \E r \in Ref : \E run, covered : witness' = WitnessOver(r, run, covered) /\ UNCHANGED ptr
<1>1. ASSUME NEW p \in Proc, WriteWitness(p) PROVE \E r \in Ref : \E run, covered :
         witness' = WitnessOver(r, run, covered) /\ UNCHANGED ptr
  <2>1. cmd[p].ref \in Ref
    BY <1>1 DEF WriteWitness, SessionSlots, SessionCommandAt, CommitPoints, CommitCommand, Branch
  <2> QED BY <1>1, <2>1, ZenonT(20) DEF WriteWitness, NextWitness, Finish, storeVars
<1>2. ASSUME NEW p \in Proc, RebuildDiscarded(p) \/ RebuildWitness(p)
      PROVE  \/ witness' \in {witness, Absent, Damaged}
             \/ \E r \in Ref : \E run, covered : witness' = WitnessOver(r, run, covered) /\ UNCHANGED ptr
  <2>1. RebuildDiscarded(p) => owner.name = "valid"
    BY Zenon DEF RebuildDiscarded, FoundInv, Found, RepairFound
  <2>2. owner.name = "valid" => owner.ref \in Ref
    BY OwnerType
  <2>3. witness' \in {witness, Absent} \/ (owner.name = "valid" /\ witness' = WitnessOver(owner.ref, <<>>, 0))
    BY <1>2, <2>1, Zenon DEF RebuildDiscarded, RebuildWitness, RebuiltWitness
  <2> QED BY <1>2, <2>2, <2>3 DEF RebuildDiscarded, RebuildWitness, Finish, storeVars
<1>3. ASSUME NEW p \in Proc, StepBy(p), ~WriteWitness(p), ~RebuildDiscarded(p), ~RebuildWitness(p)
      PROVE  witness' \in {witness, Absent, Damaged}
  <2>1. ClearOwner(p) \/ WriteOwner(p) \/ AppendWal(p) \/ CheckSeal(p) \/ DrainWal(p) \/ DrainWitness(p)
          \/ DrainOwner(p) => witness' \in {witness, Absent}
    BY Zenon DEF ClearOwner, WriteOwner, AppendWal, CheckSeal, DrainWal, DrainWitness, DrainOwner, sessionVars
  <2>2. CutDiscarded(p) \/ RestoreOwner(p) \/ RepairWal(p) \/ CutWalTail(p) => witness' = witness
    BY DEF CutDiscarded, RestoreOwner, RepairWal, CutWalTail
  <2>3. InterruptSession(p) => witness' \in {witness, Damaged}
    BY Zenon DEF InterruptSession, TornWitness
  <2> QED BY <1>3, <2>1, <2>2, <2>3, WhoWritesSession, Zenon DEF sessionVars
<1> QED BY <1>1, <1>2, <1>3, Zenon DEF SessionNext, StepBy, Fault, allVars, sessionVars

\* No ref falls back behind a witness's tip, whoever writes either.
LEMMA ChainStep ==
    ASSUME StoreType, SessionTypeOK, SessionSlots, SessionDecided, FoundInv, ChainInv, [SessionNext]_allVars
    PROVE  ChainInv'
<1>1. CASE UNCHANGED ptr
  <2>1. ASSUME Valid(witness') PROVE Len(Chain[witness'.tip]) <= Len(Chain[ptr[witness'.ref]])
    <3>1. CASE witness' = witness
      BY <2>1, <3>1, Zenon DEF ChainInv
    <3>2. CASE witness' \in {Absent, Damaged}
      BY <2>1, <3>2 DEF Valid, Absent, Damaged
    <3>3. ASSUME NEW r \in Ref, NEW run, NEW covered, witness' = WitnessOver(r, run, covered)
          PROVE  Len(Chain[witness'.tip]) <= Len(Chain[ptr[witness'.ref]])
      <4>1. witness'.tip = ptr[r] /\ witness'.ref = r
        BY <3>3, Zenon DEF WitnessOver
      <4>2. Len(Chain[ptr[r]]) \in Nat
        BY ChainLength, Zenon DEF StoreType
      <4> QED BY <4>1, <4>2
    <3> QED BY <3>1, <3>2, <3>3, WitnessMoves, Zenon
  <2> QED BY <1>1, <2>1, Zenon DEF ChainInv, HistoryOf, Valid
<1>2. ASSUME NEW r \in Branch, NEW s, Swaps(r, s), UNCHANGED witness PROVE ChainInv'
  <2>1. s \in RefState /\ r \in Ref /\ Prev[s] = ptr[r] /\ ptr'[r] = s /\ \A q \in Ref \ {r} : ptr'[q] = ptr[q]
    BY <1>2, Zenon DEF Swaps, StoreType
  <2>2. ptr'[TornName] = NoState
    BY <2>1, PatchAssumption DEF ChainInv, Branch
  <2>3. ASSUME NEW q \in Ref, NEW i \in 1 .. Len(Chain[ptr'[q]])
        PROVE  Range(BlockOf[Chain[ptr'[q]][i]]) \subseteq Range(History[ptr'[q]])
    <3>1. CASE q # r
      BY <2>1, <2>3, <3>1, Zenon DEF ChainInv, HistoryOf
    <3>2. CASE q = r
      <4> DEFINE n == Len(Chain[ptr[r]])
      <4>1. /\ n \in Nat /\ Len(Chain[s]) = n + 1 /\ Chain[s][n + 1] = s
            /\ \A j \in 1 .. n : Chain[s][j] = Chain[ptr[r]][j]
            /\ Range(History[s]) = Range(History[ptr[r]]) \cup Range(BlockOf[s])
        <5>1. /\ Len(Chain[s]) = Len(Chain[Prev[s]]) + 1 /\ Len(Chain[Prev[s]]) \in Nat
              /\ Chain[s][Len(Chain[s])] = s
              /\ \A j \in 1 .. Len(Chain[Prev[s]]) : Chain[s][j] = Chain[Prev[s]][j]
              /\ Range(History[s]) = Range(History[Prev[s]]) \cup Range(BlockOf[s])
          BY <2>1, ChainGrows, ZenonT(20)
        <5> QED BY <2>1, <5>1
      <4>2. i \in 1 .. n \/ i = n + 1
        BY <2>1, <2>3, <3>2, <4>1
      <4>3. i \in 1 .. n => Range(BlockOf[Chain[ptr[r]][i]]) \subseteq Range(History[ptr[r]])
        BY <2>1, Zenon DEF ChainInv, HistoryOf
      <4> HIDE DEF n
      <4> QED BY <2>1, <3>2, <4>1, <4>2, <4>3, ZenonT(20)
    <3> QED BY <3>1, <3>2, Zenon
  <2>4. ASSUME Valid(witness) PROVE Len(Chain[witness.tip]) <= Len(Chain[ptr'[witness.ref]])
    <3>1. witness.ref \in Ref /\ witness.tip \in RefState \cup {NoState}
      BY <2>4 DEF SessionTypeOK, WitnessRecord, Valid, Absent, Damaged
    <3>2. /\ Len(Chain[ptr[witness.ref]]) <= Len(Chain[ptr'[witness.ref]])
          /\ Len(Chain[witness.tip]) <= Len(Chain[ptr[witness.ref]])
      BY <1>2, <2>4, <3>1, SwapGrows, ZenonT(20) DEF ChainInv
    <3>3. ptr[witness.ref] \in RefState \cup {NoState} /\ ptr'[witness.ref] \in RefState \cup {NoState}
      BY <2>1, <3>1, Zenon DEF StoreType
    <3> QED BY <3>1, <3>2, <3>3, ChainLength, LeqTransitive, ZenonT(20)
  <2> QED BY <1>2, <2>2, <2>3, <2>4, Zenon DEF ChainInv, HistoryOf, Valid
<1> QED BY <1>1, <1>2, PointerMoves, Zenon DEF sessionVars
=============================================================================
