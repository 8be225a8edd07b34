-------------------------- MODULE ActiveSessionFound ------------------------
(***************************************************************************)
(* The active session, for every number of slots, branches, keys, commits, *)
(* crashes and media faults: what a command found out under the active     *)
(* lock holds while it acts on it.  With it the session's files keep their *)
(* types, and a queue that is published and not drained can be sealed      *)
(* again.                                                                  *)
(***************************************************************************)
EXTENDS ActiveSessionTypes

USE LockAssumption, RefStateAssumption

\* seal's retry of a queue that is published and not drained: if the ref's log
\* has not confirmed it yet the retry finishes the lead, else it is complete.
LEMMA UndrainedAdmitsRetry ==
    ASSUME StoreType, StoreInv, NEW r \in Ref, Undrained(r)
    PROVE  \E k \in Key : Admits(Retry(r, k))
<1>1. ~ptrTail /\ ~HasDamage /\ ptr[r] # NoState /\ (logTail # NoTail => Leads(r))
  BY Zenon DEF Undrained, MaySeal, EnsureMaySeal, EnsureMayPublish, NoIncompletePublicationExcept, TipIsQueue
<1>2. ASSUME NEW k PROVE /\ Retry(r, k).ref = r /\ Retry(r, k).base = Prev[ptr[r]]
                         /\ Retry(r, k).state = ptr[r] /\ Retry(r, k).key = k
                         /\ Retry(r, k).op = "seal"
  BY DEF Retry
<1>3. CASE Leads(r)
  <2>1. Prev[ptr[r]] = LogTip(r)
    BY <1>3, Zenon DEF StoreInv, PointerLeadsByAtMostOne
  <2>2. PICK k \in Key : Admits(Completion(r, k))
    BY <1>1, <1>3, LeadAdmitsCompletion, Zenon
  <2>3. /\ Completion(r, k).ref = r /\ Completion(r, k).base = Prev[ptr[r]]
        /\ Completion(r, k).state = ptr[r] /\ Completion(r, k).key = k
    BY <2>1, Zenon DEF Completion
  <2>4. Admits(Retry(r, k))
    BY <1>2, <2>2, <2>3, ZenonT(20) DEF Admits, AllowsTailRepair
  <2> QED BY <2>4, Zenon
<1>4. CASE ~Leads(r)
  <2> DEFINE n == Len(log[r])
             k == log[r][n].key
  <2>1. log[r] # <<>> /\ log[r][n].state = ptr[r]
    BY <1>1, <1>4, Zenon DEF Leads, LogTip, LogTipOf
  <2>2. n \in Nat \ {0}
    BY <2>1, LogLength, Zenon
  <2>3. log[r][n] \in [state : RefState, key : Key]
    <3> DEFINE Record == [state : RefState, key : Key]
    <3>1. log[r] \in Seq(Record)
      BY Zenon DEF StoreType
    <3> HIDE DEF Record
    <3>2. log[r][n] \in Record
      BY <2>2, <3>1
    <3> QED BY <3>2 DEF Record
  <2>4. k \in Key /\ log[r][n] = [state |-> ptr[r], key |-> k]
    BY <2>1, <2>3, Zenon
  <2>5. ExactLast(r, ptr[r], k)
    BY <2>1, <2>4, Zenon DEF ExactLast
  <2>6. PreviousLogTip(r) = Prev[ptr[r]]
    <3>1. n \in 1 .. Len(log[r])
      BY <2>2
    <3>2. Prev[log[r][n].state] = IF n = 1 THEN NoState ELSE log[r][n - 1].state
      BY <3>1, Zenon DEF StoreInv, LogIsAChain
    <3>3. PreviousLogTip(r) = IF n < 2 THEN NoState ELSE log[r][n - 1].state
      BY DEF PreviousLogTip
    <3> HIDE DEF n
    <3>4. n < 2 <=> n = 1
      BY <2>2
    <3> QED BY <2>1, <3>2, <3>3, <3>4
  <2>7. Classify(r, Prev[ptr[r]], ptr[r], k) = "complete"
    BY <2>5, <2>6, Zenon DEF Classify
  <2>8. ~MustTruncate(r)
    BY <1>1, <1>4, AnonAssumption DEF MustTruncate, AttributedTo, NoTail
  <2>9. ~NameCollision(r) /\ r \notin logDamage
    BY <1>1, Zenon DEF StoreInv, NoCaseCollision, NameCollision, HasDamage
  <2> HIDE DEF n, k
  <2>10. Admits(Retry(r, k))
    BY <1>1, <1>2, <2>7, <2>8, <2>9, SMTT(20) DEF Admits
  <2> QED BY <2>4, <2>10, Zenon
<1> QED BY <1>3, <1>4, Zenon

(***************************************************************************)
(* What a command found out under the lock holds while it acts on it.      *)
(***************************************************************************)
\* Points at which a command has found out nothing yet, or has finished.
Unfounded == (Outside \ {"active_lock"}) \cup RepairPoints
             \cup {"commit", "seal", "discard", "restore", "repair_wal"}

\* A command at such a point claims nothing.
LEMMA NothingFound ==
    ASSUME NEW p \in Proc, pc'[p] \in Unfounded
    PROVE  Found(p)'
BY Zenon DEF Unfounded, Outside, RepairPoints, PublishPoints, Found, CommitFound, SealFound, CompleteFound,
       RepairFound

\* While one command is in the section, the others' findings do not change.
LEMMA OthersFound ==
    ASSUME StoreType, SessionSlots, ActiveInv, SessionDecided, FoundInv, NEW p \in Proc, StepBy(p),
           NEW q \in Proc \ {p}
    PROVE  Found(q)'
<1>1. pc'[q] = pc[q] /\ cmd'[q] = cmd[q] /\ SessionCommandAt(pc[q], cmd[q])
  BY StepControlled, Zenon DEF Controlled, SessionSlots
<1>2. CASE pc[q] \notin Outside
  <2>1. UNCHANGED <<storeVars, sessionVars>>
    BY <1>2, OneInside, OutsideWritesNothing
  <2>2. UNCHANGED <<ptr, wal, walTail, witness, owner, authored, committed, lost, discarded, faults>>
    BY <2>1 DEF storeVars, sessionVars
  <2>3. Found(q)
    BY DEF FoundInv
  <2>4. CommitFound(q)'
    BY <1>1, <2>2, <2>3, ZenonT(20) DEF Found, CommitFound, SealedAndReachableSince, Newest, TipIsQueue
  <2>5. SealFound(q)' /\ CompleteFound(q)'
    BY <1>1, <2>2, <2>3, Zenon DEF Found, SealFound, CompleteFound, TipIsQueue
  <2>6. RepairFound(q)'
    BY <1>1, <2>2, <2>3, Zenon DEF Found, RepairFound, SealedAndReachableSince, OwnershipMissing, Confirmed
  <2> QED BY <2>4, <2>5, <2>6 DEF Found
<1>3. CASE pc[q] \in Outside /\ pc[q] # "active_lock"
  BY <1>1, <1>3, NothingFound, Zenon DEF Unfounded
<1>4. CASE pc[q] = "active_lock"
  <2>1. ASSUME cmd[q].op = "complete"
        PROVE  Len(Chain[cmd[q].state]) <= Len(Chain[ptr'[cmd[q].ref]])
    <3>1. /\ cmd[q].ref \in Ref /\ cmd[q].state \in RefState
          /\ Len(Chain[cmd[q].state]) <= Len(Chain[ptr[cmd[q].ref]])
      BY <1>1, <1>4, <2>1
         DEF SessionCommandAt, RepairCommand, CompleteCommand, Prepared, Branch, FoundInv, Found, CompleteFound
    <3>2. UNCHANGED ptr \/ \E r, s : Swaps(r, s)
      BY PointerMoves, Zenon DEF SessionNext, StepBy
    <3>3. CASE UNCHANGED ptr
      BY <3>1, <3>3, Zenon
    <3>4. ASSUME NEW r, NEW s, Swaps(r, s)
          PROVE  Len(Chain[cmd[q].state]) <= Len(Chain[ptr'[cmd[q].ref]])
      <4>1. Len(Chain[ptr[cmd[q].ref]]) <= Len(Chain[ptr'[cmd[q].ref]])
        BY <3>1, <3>4, SwapGrows, Zenon
      <4>2. ptr[cmd[q].ref] \in RefState \cup {NoState} /\ ptr'[cmd[q].ref] \in RefState \cup {NoState}
        BY <3>1, <3>4, Zenon DEF StoreType, Swaps
      <4> QED BY <3>1, <4>1, <4>2, ChainLength, LeqTransitive, Zenon
    <3> QED BY <3>2, <3>3, <3>4, Zenon
  <2> QED BY <1>1, <1>4, <2>1, Zenon
          DEF Found, CommitFound, SealFound, CompleteFound, RepairFound, PublishPoints
<1> QED BY <1>2, <1>3, <1>4

\* The inductive invariant of the session's commands.
BaseInv ==
    /\ StoreType /\ StoreInv /\ SessionTypeOK
    /\ SessionSlots /\ ActiveInv /\ SessionDecided
    /\ ChainInv /\ NumberInv /\ FoundInv

\* A command that ends, or goes to a point of its own checks, claims nothing.
LEMMA MovesTo ==
    ASSUME SessionSlots, NEW p \in Proc
    PROVE  /\ \A at : Goto(p, at) => pc'[p] = at
           /\ (\E left : EndCommand(p, left)) \/ Refuse(p) \/ Finish(p) => Found(p)'
<1>1. \A at : Goto(p, at) => pc'[p] = at
  BY DEF SessionSlots, Goto
<1>2. (\E left : EndCommand(p, left)) \/ Refuse(p) \/ Finish(p) => pc'[p] = "idle"
  BY <1>1 DEF Refuse, Finish, EndCommand
<1> QED BY <1>1, <1>2, NothingFound DEF Unfounded, Outside

\* commit writes the owner, the record and the witness of what it checked.
LEMMA CommitKeepsFound ==
    ASSUME BaseInv, NEW p \in Proc,
           CheckCommit(p) \/ ClearOwner(p) \/ WriteOwner(p) \/ AppendWal(p) \/ WriteWitness(p)
    PROVE  Found(p)'
<1> USE DEF PublishPoints
<1>1. /\ \A at : Goto(p, at) => pc'[p] = at
      /\ Refuse(p) \/ Finish(p) => Found(p)'
  BY MovesTo DEF BaseInv
<1>2. /\ Len(wal) \in Nat /\ (wal = <<>> => Len(wal) = 0)
      /\ Valid(witness) => witness.seq \in Nat \ {0}
  BY PatchAssumption DEF BaseInv, SessionTypeOK, WitnessRecord, Valid, Absent, Damaged
<1>3. ASSUME NEW at, Proceed(p, at) PROVE pc'[p] = at /\ cmd' = cmd /\ ptr' = ptr
  BY <1>1, <1>3 DEF Proceed, storeVars
<1>4. CASE CheckCommit(p) /\ ~Refuse(p)
  <2>1. /\ MayCommit(cmd[p].ref) /\ cmd' = cmd /\ ptr' = ptr /\ UNCHANGED sessionVars
        /\ pc'[p] = CASE wal # <<>> -> "append_wal"
                      [] wal = <<>> /\ owner = Missing -> "write_owner"
                      [] OTHER -> "clear_owner"
    BY <1>3, <1>4 DEF CheckCommit, RefuseSession
  <2>2. /\ pc'[p] \in {"append_wal", "write_owner", "clear_owner"}
        /\ pc'[p] = "append_wal" <=> wal # <<>>
    BY <2>1
  <2>3. wal = <<>> /\ Valid(witness) => SealedAndReachableSince(witness)
    BY <1>2, <2>1, NotBlocked DEF MayCommit
  <2>4. wal # <<>> => owner = Named(cmd[p].ref) /\ ~TipIsQueue(cmd[p].ref)
    <3>1. cmd[p].ref \in Ref
      BY <1>4, Zenon DEF CheckCommit, BaseInv, SessionSlots, SessionCommandAt, CommitPoints, CommitCommand, Branch
    <3> QED BY <2>1, <3>1, Zenon DEF MayCommit, EnsureNoIncompletePublication, CleanupPendingExcept
  <2>5. CommitFound(p)'
    BY <2>1, <2>2, <2>3, <2>4, Zenon DEF MayCommit, CommitFound, sessionVars, SealedAndReachableSince, TipIsQueue
  <2> QED BY <2>2, <2>5, Zenon DEF Found, SealFound, CompleteFound, RepairFound
<1>5. ASSUME ClearOwner(p) \/ WriteOwner(p) PROVE Found(p)'
  <2>1. /\ pc'[p] = "write_owner" \/ (pc'[p] = "append_wal" /\ owner' = Named(cmd[p].ref))
        /\ cmd' = cmd /\ ptr' = ptr
        /\ UNCHANGED <<wal, walTail, witness, authored, committed, lost, discarded, faults>>
    BY <1>3, <1>5, Zenon DEF ClearOwner, WriteOwner
  <2>2. CommitFound(p) /\ pc[p] \in {"clear_owner", "write_owner"}
    BY <1>5, Zenon DEF ClearOwner, WriteOwner, BaseInv, FoundInv, Found
  <2>3. CommitFound(p)'
    BY <2>1, <2>2, Zenon DEF CommitFound, SealedAndReachableSince, TipIsQueue
  <2> QED BY <2>1, <2>3, Zenon DEF Found, SealFound, CompleteFound, RepairFound
<1>6. CASE AppendWal(p)
  <2>1. /\ pc[p] = "append_wal" /\ pc'[p] = "write_witness" /\ cmd' = cmd
        /\ wal' = Append(wal, Len(authored) + 1) /\ authored' = Append(authored, cmd[p].ref)
        /\ UNCHANGED <<owner, committed>>
    BY <1>3, <1>6, Zenon DEF AppendWal
  <2>2. owner = Named(cmd[p].ref)
    BY <2>1 DEF BaseInv, FoundInv, Found, CommitFound
  <2>3. /\ wal \in Seq(Patch) /\ authored \in Seq(Branch) /\ Len(authored) \in Nat
        /\ committed \subseteq Patch /\ Patch \subseteq Nat
        /\ \A x \in committed : x <= Len(authored)
    BY PatchAssumption DEF BaseInv, SessionTypeOK, NumberInv
  <2>4. cmd[p].ref \in Branch
    BY <2>1, Zenon DEF BaseInv, SessionSlots, SessionCommandAt, CommitPoints, CommitCommand
  <2>5. /\ wal' # <<>> /\ wal'[Len(wal')] = Len(authored) + 1
    BY <2>1, <2>3
  <2>6. Len(authored') = Len(authored) + 1 /\ authored'[Len(authored) + 1] = cmd[p].ref
    BY <2>1, <2>3, <2>4
  <2>7. Len(authored) + 1 \notin committed
    BY <2>3
  <2>8. CommitFound(p)'
    BY <2>1, <2>2, <2>5, <2>6, <2>7, Zenon DEF CommitFound, Newest
  <2> QED BY <2>1, <2>8, Zenon DEF Found, SealFound, CompleteFound, RepairFound
<1> QED BY <1>1, <1>4, <1>5, <1>6, Zenon DEF WriteWitness

\* Taking the publication's locks and deciding change nothing a seal found.
LEMMA PublishingKeepsFound ==
    ASSUME BaseInv, NEW p \in Proc, pc[p] \in PublishPoints, pc'[p] \in PublishPoints, cmd'[p] = cmd[p],
           UNCHANGED <<ptr, wal, witness, owner>>,
           pc'[p] \in {"append_log", "published"} /\ cmd[p].op = "seal" => ptr[cmd[p].ref] = cmd[p].state,
           pc'[p] = "append_pointer" => cmd[p].op = "seal"
    PROVE  Found(p)'
<1>1. SealFound(p) /\ CompleteFound(p)
  BY DEF BaseInv, FoundInv, Found
<1>2. SealFound(p)' /\ CompleteFound(p)'
  BY <1>1, Zenon DEF SealFound, CompleteFound, PublishPoints, TipIsQueue
<1>3. CommitFound(p)' /\ RepairFound(p)'
  BY Zenon DEF CommitFound, RepairFound, PublishPoints
<1> QED BY <1>2, <1>3, Zenon DEF Found

\* seal publishes the queue it checked.
LEMMA CheckSealFinds ==
    ASSUME BaseInv, NEW p \in Proc, CheckSeal(p), ~Refuse(p)
    PROVE  Found(p)'
<1>1. pc[p] = "seal" /\ cmd[p] \in SealCommand /\ cmd[p].ref \in Branch
  BY DEF CheckSeal, BaseInv, SessionSlots, SessionCommandAt, SealCommand
<1> DEFINE r == cmd[p].ref
<1>2. PICK plan \in SealPlans(r) :
         cmd' = [cmd EXCEPT ![p].base = plan.base, ![p].state = plan.state]
  BY Zenon DEF CheckSeal
<1>3. MaySeal(r) /\ pc'[p] = "ref_lock" /\ UNCHANGED <<ptr, sessionVars>>
  BY MovesTo DEF CheckSeal, BaseInv, storeVars
<1>4. /\ cmd'[p].ref = r /\ cmd'[p].op = "seal"
      /\ cmd'[p].base = plan.base /\ cmd'[p].state = plan.state
  BY <1>1, <1>2, Zenon DEF BaseInv, SessionSlots, SealCommand, Publication
<1>5. ptr[r] \in {plan.base, plan.state} /\ BlockOf[plan.state] = wal
  BY <1>2 DEF SealPlans, TipIsQueue
<1>6. /\ wal # <<>> /\ owner = Named(r)
      /\ Valid(witness) => witness.ref = r
  BY <1>3, NotBlocked, Zenon DEF MaySeal, Named
<1>7. ptr[r] = plan.base => ~TipIsQueue(r)
  <2>1. ptr[r] \in RefState \cup {NoState}
    BY <1>1 DEF BaseInv, StoreType, Branch
  <2> QED BY <1>2, <2>1 DEF SealPlans, TipIsQueue
<1>8. SealFound(p)'
  BY <1>3, <1>4, <1>5, <1>6, <1>7, Zenon DEF SealFound, PublishPoints, TipIsQueue, sessionVars
<1> QED BY <1>3, <1>4, <1>8, Zenon DEF Found, CommitFound, CompleteFound, RepairFound

\* A completion never takes publish_body for a new RefState: its pointer is
\* there already.
LEMMA BodyKeepsFound ==
    ASSUME BaseInv, NEW p \in Proc, PublishBody(p), ~Refuse(p), UNCHANGED sessionVars
    PROVE  Found(p)'
<1>1. pc[p] = "body" /\ Prepared(cmd[p]) /\ cmd' = cmd /\ UNCHANGED ptr
  BY AtAppend, Zenon DEF PublishBody, BaseInv
<1>2. cmd[p].ref \in Ref /\ cmd[p].state \in RefState /\ cmd[p] \in SealCommand \cup CompleteCommand
  BY <1>1, Zenon DEF Prepared, Publication, BaseInv, SessionSlots, SessionCommandAt, PublishPoints
<1>3. /\ StillDecided(p)'
      /\ pc'[p] \in {"append_log", "published"} => ptr[cmd[p].ref] = cmd[p].state
  BY <1>1, PublishBodyDecides, Zenon DEF BaseInv, SessionSlots
<1>4. pc'[p] \in {"append_pointer", "append_log", "published"}
  BY MovesTo, AdmittedGoesOn, Zenon DEF PublishBody, BaseInv
<1>5. ASSUME pc'[p] = "append_pointer", cmd[p].op = "complete" PROVE FALSE
  <2>1. ptr[cmd[p].ref] = Prev[cmd[p].state]
    BY <1>1, <1>3, <1>5, Zenon DEF StillDecided, Prepared
  <2>2. Len(Chain[cmd[p].state]) <= Len(Chain[Prev[cmd[p].state]])
    BY <1>1, <1>5, <2>1, Zenon DEF BaseInv, FoundInv, Found, CompleteFound, PublishPoints
  <2> QED BY <1>2, <2>2, ChainGrows
<1>6. cmd[p].op \in {"seal", "complete"}
  BY <1>2, Zenon DEF SealCommand, CompleteCommand
<1> QED BY <1>1, <1>3, <1>4, <1>5, <1>6, PublishingKeepsFound, Zenon DEF PublishPoints, sessionVars

\* seal and ref complete, from the active lock to the drained queue.
LEMMA SealKeepsFound ==
    ASSUME BaseInv, NEW p \in Proc,
           \/ GuardSeal(p) \/ CheckSeal(p) \/ DrainWal(p) \/ DrainWitness(p) \/ DrainOwner(p)
           \/ PlanCompletion(p) \/ ReportCompletion(p) \/ PublicationStep(p)
    PROVE  Found(p)'
<1>1. /\ \A at : Goto(p, at) => pc'[p] = at
      /\ (\E left : EndCommand(p, left)) \/ Refuse(p) => Found(p)'
  BY MovesTo DEF BaseInv
<1>2. SessionCommandAt(pc[p], cmd[p]) /\ Found(p)
  BY Zenon DEF BaseInv, SessionSlots, FoundInv
<1>3. CASE GuardSeal(p)
  BY <1>1, <1>3, NothingFound, Zenon DEF GuardSeal, RefuseSession, Proceed, Unfounded, Outside
<1>4. CASE DrainWal(p) \/ DrainWitness(p)
  <2>1. pc'[p] \in {"drain_witness", "drain_owner"} /\ wal' = <<>>
    BY <1>1, <1>2, <1>4, Zenon DEF DrainWal, DrainWitness, Proceed, Found, SealFound
  <2> QED BY <2>1, Zenon DEF Found, CommitFound, SealFound, CompleteFound, RepairFound, PublishPoints
<1>5. CASE DrainOwner(p) \/ ReportCompletion(p)
  BY <1>1, <1>5, Zenon DEF DrainOwner, ReportCompletion, Report
<1>6. CASE PlanCompletion(p) /\ ~Refuse(p)
  <2>1. Plan(p) /\ Completable(cmd[p].ref) /\ cmd[p] \in CompleteCommand
    BY <1>2, <1>6, Zenon DEF PlanCompletion, Plan, SessionCommandAt
  <2>2. /\ pc'[p] = "active_lock" /\ ptr' = ptr
        /\ cmd' = [cmd EXCEPT ![p].base = LogTip(cmd[p].ref), ![p].state = ptr[cmd[p].ref]]
    BY <1>1, <1>6, <2>1, Zenon DEF Plan, storeVars
  <2>3. cmd'[p].state = ptr[cmd[p].ref] /\ cmd'[p].ref = cmd[p].ref
    BY <2>1, <2>2, ZenonT(20) DEF BaseInv, SessionSlots, CompleteCommand, Publication
  <2>4. Len(Chain[ptr[cmd[p].ref]]) \in Nat
    BY <2>1, ChainAssumption DEF BaseInv, StoreType, CompleteCommand, Branch
  <2>5. CompleteFound(p)'
    BY <2>2, <2>3, <2>4 DEF CompleteFound
  <2> QED BY <2>2, <2>5, Zenon DEF Found, CommitFound, SealFound, RepairFound, PublishPoints
<1>7. CASE PublicationStep(p) /\ ~Refuse(p)
  <2>1. UNCHANGED sessionVars
    BY <1>7 DEF PublicationStep
  <2>2. CASE AcquireActiveLock(p)
    <3>1. /\ pc[p] = "active_lock" /\ pc'[p] = AfterActiveLock(cmd[p].op)
          /\ cmd' = cmd /\ ptr' = ptr
      BY <1>1, <1>7, <2>2, Zenon DEF AcquireActiveLock, storeVars
    <3>2. cmd[p].op \in {"complete", "repair"} /\ pc'[p] \in {"ref_lock", "pointer_lock"}
      BY <1>2, <3>1 DEF SessionCommandAt, RepairCommand, CompleteCommand, AfterActiveLock
    <3>3. CompleteFound(p)'
      BY <1>2, <3>1, <3>2, Zenon DEF Found, CompleteFound
    <3> QED BY <3>1, <3>2, <3>3, Zenon DEF Found, CommitFound, SealFound, RepairFound
  <2>3. CASE AcquireRefLock(p) \/ AcquirePointerLock(p)
    <3>1. /\ pc[p] \in PublishPoints /\ pc'[p] \in {"pointer_lock", "log_lock", "cut_pointer"}
          /\ cmd' = cmd /\ ptr' = ptr
      BY <1>1, <1>7, <2>3, Zenon DEF AcquireRefLock, AcquirePointerLock, PublishPoints, storeVars
    <3> QED BY <2>1, <3>1, PublishingKeepsFound, NothingFound, Zenon
            DEF PublishPoints, sessionVars, Unfounded, RepairPoints
  <2>4. CASE AcquireLogLock(p)
    <3>1. /\ pc[p] \in PublishPoints /\ pc'[p] \in {"body", "examine"}
          /\ cmd' = cmd /\ ptr' = ptr
      BY <1>1, <1>7, <2>4, Zenon DEF AcquireLogLock, PublishPoints, storeVars
    <3> QED BY <2>1, <3>1, PublishingKeepsFound, NothingFound, Zenon
            DEF PublishPoints, sessionVars, Unfounded, RepairPoints
  <2>5. CASE AppendLog(p)
    <3>1. /\ pc[p] = "append_log" /\ pc'[p] = "published" /\ cmd' = cmd /\ ptr' = ptr
      BY <1>1, <2>5, Zenon DEF AppendLog
    <3>2. cmd[p].op = "seal" => ptr[cmd[p].ref] = cmd[p].state
      BY <1>2, <3>1, Zenon DEF Found, SealFound, PublishPoints
    <3> QED BY <2>1, <3>1, <3>2, PublishingKeepsFound, Zenon DEF PublishPoints, sessionVars
  <2>6. CASE AppendPointer(p)
    <3>1. /\ pc[p] = "append_pointer" /\ pc'[p] = "append_log" /\ cmd' = cmd
          /\ ptr' = [ptr EXCEPT ![cmd[p].ref] = cmd[p].state]
      BY <1>1, <2>6, Zenon DEF AppendPointer
    <3>2. Prepared(cmd[p]) /\ cmd[p].op = "seal" /\ SealFound(p)
      BY <1>2, <3>1, AtAppend, ZenonT(20) DEF Found, CompleteFound, BaseInv
    <3>3. ptr'[cmd[p].ref] = cmd[p].state /\ cmd[p].base # cmd[p].state
      BY <3>1, <3>2, Zenon DEF Prepared, Publication, BaseInv, StoreType
    <3>4. SealFound(p)' /\ CompleteFound(p)'
      BY <2>1, <3>1, <3>2, <3>3, Zenon DEF SealFound, CompleteFound, PublishPoints, sessionVars
    <3> QED BY <3>1, <3>4, Zenon DEF Found, CommitFound, RepairFound
  <2>7. CASE CutPointerTail(p)
    <3>1. pc'[p] = "cut_log" \/ \E left : EndCommand(p, left)
      BY <1>1, <2>7, Zenon DEF CutPointerTail
    <3> QED BY <1>1, <3>1, NothingFound, Zenon DEF Unfounded, RepairPoints
  <2> QED BY <1>7, <2>1, <2>2, <2>3, <2>4, <2>5, <2>6, <2>7, BodyKeepsFound, ZenonT(20) DEF PublicationStep
<1> QED BY <1>1, <1>3, <1>4, <1>5, <1>6, <1>7, CheckSealFinds, ZenonT(20)

\* discard and restore act on the verdict they checked; the other repairs act
\* on nothing they found out.
LEMMA RepairKeepsFound ==
    ASSUME BaseInv, NEW p \in Proc,
           \/ CheckDiscard(p) \/ CutDiscarded(p) \/ RebuildDiscarded(p)
           \/ CheckRestore(p) \/ RestoreOwner(p) \/ CheckRepairWal(p) \/ RepairWal(p)
           \/ ExamineSession(p) \/ CutWalTail(p) \/ CutLogTailAndGoOn(p) \/ RebuildWitness(p)
    PROVE  Found(p)'
<1>1. /\ \A at : Goto(p, at) => pc'[p] = at
      /\ Refuse(p) \/ Finish(p) => Found(p)'
  BY MovesTo, Zenon DEF BaseInv
<1>2. ASSUME NEW at, Proceed(p, at) PROVE pc'[p] = at /\ cmd' = cmd /\ ptr' = ptr
  BY <1>1, <1>2, Zenon DEF Proceed, storeVars
<1>3. CASE CheckDiscard(p) /\ ~Refuse(p)
  <2>1. MayDiscard /\ pc'[p] = "discard_cut" /\ ptr' = ptr /\ UNCHANGED sessionVars
    BY <1>2, <1>3, Zenon DEF CheckDiscard, RefuseSession
  <2>2. /\ owner.name = "valid"
        /\ \/ witness = Damaged
           \/ Valid(witness) /\ witness.seq > Len(wal) /\ ~SealedAndReachableSince(witness)
    BY <2>1, Discarded DEF MayDiscard, BaseInv
  <2>3. RepairFound(p)'
    BY <2>1, <2>2, Zenon DEF RepairFound, SealedAndReachableSince, sessionVars
  <2> QED BY <2>1, <2>3, Zenon DEF Found, CommitFound, SealFound, CompleteFound, PublishPoints
<1>4. CASE CutDiscarded(p)
  <2>1. /\ pc[p] = "discard_cut" /\ pc'[p] = "discard_rebuild" /\ ptr' = ptr
        /\ UNCHANGED <<wal, witness, owner>>
    BY <1>2, <1>4 DEF CutDiscarded
  <2>2. RepairFound(p)
    BY DEF BaseInv, FoundInv, Found
  <2>3. RepairFound(p)'
    BY <2>1, <2>2, Zenon DEF RepairFound, SealedAndReachableSince
  <2> QED BY <2>1, <2>3, Zenon DEF Found, CommitFound, SealFound, CompleteFound, PublishPoints
<1>5. CASE CheckRestore(p) /\ ~Refuse(p)
  <2>1. /\ MayRestore(cmd[p].ref) /\ pc'[p] = "restore_write" /\ ptr' = ptr /\ cmd' = cmd
        /\ UNCHANGED sessionVars
    BY <1>2, <1>5 DEF CheckRestore, RefuseSession
  <2>2. OwnershipMissing
    <3>1. Verdict = "OwnershipMissing"
      BY <2>1 DEF MayRestore
    <3> QED BY <3>1, Zenon DEF Verdict, WitnessVerdict
  <2>3. RepairFound(p)'
    BY <2>1, <2>2, Zenon DEF MayRestore, RepairFound, OwnershipMissing, Confirmed, sessionVars
  <2> QED BY <2>1, <2>3, Zenon DEF Found, CommitFound, SealFound, CompleteFound, PublishPoints
<1>6. CASE CheckRepairWal(p) /\ ~Refuse(p)
  BY <1>2, <1>6, NothingFound, ZenonT(20) DEF CheckRepairWal, RefuseSession, Unfounded, Outside
<1>7. CASE (ExamineSession(p) \/ CutWalTail(p) \/ CutLogTailAndGoOn(p)) /\ ~Refuse(p)
  <2>1. pc'[p] \in RepairPoints
    BY <1>1, <1>2, <1>7, Zenon DEF ExamineSession, CutWalTail, CutLogTailAndGoOn, RefuseSession, RepairPoints
  <2> QED BY <2>1, NothingFound, Zenon DEF Unfounded
<1> QED BY <1>1, <1>3, <1>4, <1>5, <1>6, <1>7, Zenon
        DEF RebuildDiscarded, RestoreOwner, RepairWal, RebuildWitness

\* A command that begins, or takes the lock, has found out nothing.
LEMMA EntryKeepsFound ==
    ASSUME BaseInv, NEW p \in Proc, StartSession(p) \/ AcquireSessionLock(p)
    PROVE  Found(p)'
<1>1. /\ \A at : Goto(p, at) => pc'[p] = at
      /\ Refuse(p) => Found(p)'
  BY MovesTo, Zenon DEF BaseInv
<1>2. CASE AcquireSessionLock(p) /\ ~Refuse(p)
  <2>1. pc'[p] = cmd[p].op /\ pc[p] = "session_lock"
    BY <1>1, <1>2, Zenon DEF AcquireSessionLock, RefuseSession
  <2>2. cmd[p].op \in {"commit", "seal", "restore", "discard", "repair_wal"}
    BY <2>1 DEF BaseInv, SessionSlots, SessionCommandAt, SealCommand, CommitCommand, RestoreCommand
  <2> QED BY <2>1, <2>2, NothingFound, Zenon DEF Unfounded
<1>3. CASE StartSession(p) /\ ~BeginSession(p, [op |-> "repair"], "active_lock")
  <2>1. pc'[p] \in {"session_lock", "guard_seal", "plan", "check_repair_wal"}
    BY <1>1, <1>3, Zenon DEF StartSession, StartCommit, StartRestore, StartSeal, BeginSession, Start, FirstStep
  <2> QED BY <2>1, NothingFound, ZenonT(20) DEF Unfounded, Outside
<1>4. CASE BeginSession(p, [op |-> "repair"], "active_lock")
  <2>1. pc'[p] = "active_lock" /\ cmd'[p].op = "repair"
    BY <1>1, <1>4, Zenon DEF BeginSession, BaseInv, SessionSlots
  <2> QED BY <2>1, ZenonT(20) DEF Found, CommitFound, SealFound, CompleteFound, RepairFound, PublishPoints
<1> QED BY <1>1, <1>2, <1>3, <1>4, Zenon DEF AcquireSessionLock, RefuseSession

\* No step, of this slot or of another, undoes what a command has found out.
\* Media faults strike a session that nobody holds.
LEMMA FoundStep ==
    ASSUME BaseInv, [SessionNext]_allVars
    PROVE  FoundInv'
<1>1. ASSUME NEW p \in Proc, StepBy(p) PROVE FoundInv'
  <2>1. ASSUME InterruptSession(p) PROVE Found(p)'
    <3>1. \E left : EndCommand(p, left)
      BY <2>1, Zenon DEF InterruptSession, Interrupt
    <3> QED BY <3>1, MovesTo, Zenon DEF BaseInv
  <2>2. Found(p)'
    BY <1>1, <2>1, EntryKeepsFound, CommitKeepsFound, SealKeepsFound, RepairKeepsFound, ZenonT(20)
       DEF StepBy, SessionStep
  <2>3. ASSUME NEW q \in Proc \ {p} PROVE Found(q)'
    BY <1>1, OthersFound, Zenon DEF BaseInv
  <2> QED BY <2>2, <2>3 DEF FoundInv
<1>2. CASE UNCHANGED <<pc, cmd, ptr>> /\ UNCHANGED sessionVars
  <2>1. SUFFICES ASSUME NEW p \in Proc PROVE Found(p)'
    BY DEF FoundInv
  <2>2. Found(p)
    BY DEF BaseInv, FoundInv
  <2>3. CommitFound(p)' /\ SealFound(p)' /\ CompleteFound(p)'
    BY <1>2, <2>2, ZenonT(20)
       DEF Found, CommitFound, SealFound, CompleteFound, SealedAndReachableSince, Newest, TipIsQueue,
           sessionVars
  <2>4. RepairFound(p)'
    BY <1>2, <2>2, Zenon
       DEF Found, RepairFound, SealedAndReachableSince, OwnershipMissing, Confirmed, sessionVars
  <2> QED BY <2>3, <2>4, Zenon DEF Found
<1>3. CASE Fault
  <2>1. activeLock = Free /\ UNCHANGED <<pc, cmd, ptr>>
    BY <1>3, Zenon DEF Fault, vars, storeVars
  <2>2. SUFFICES ASSUME NEW p \in Proc PROVE Found(p)'
    BY DEF FoundInv
  <2>3. pc[p] \in Outside /\ pc'[p] = pc[p]
    BY <2>1 DEF BaseInv, ActiveInv
  <2>4. CASE pc[p] # "active_lock"
    BY <2>3, <2>4, NothingFound, Zenon DEF Unfounded
  <2>5. CASE pc[p] = "active_lock"
    <3>1. CompleteFound(p)
      BY DEF BaseInv, FoundInv, Found
    <3>2. CompleteFound(p)'
      BY <2>1, <3>1, Zenon DEF CompleteFound
    <3> QED BY <2>1, <2>5, <3>2, Zenon DEF Found, CommitFound, SealFound, RepairFound, PublishPoints
  <2> QED BY <2>4, <2>5
<1> QED BY <1>1, <1>2, <1>3, Zenon DEF SessionNext, StepBy, Unlock, allVars, vars, storeVars

\* A new session: empty files, free locks, idle slots.
LEMMA BaseInit == SessionInit => BaseInv
<1> SUFFICES ASSUME SessionInit PROVE BaseInv
  OBVIOUS
<1>1. Init /\ StoreInv
  BY StoreInit, Zenon DEF SessionInit
<1>2. /\ wal = <<>> /\ walTail = FALSE /\ witness = Absent /\ owner = Missing
      /\ authored = <<>> /\ committed = {} /\ lost = {} /\ discarded = {} /\ faults = 0
  BY DEF SessionInit
<1>3. \A p \in Proc : pc[p] = "idle"
  BY <1>1, Zenon DEF Init
<1>4. StoreType
  BY <1>1, TypeInit, Zenon DEF TypeInv
<1>5. SessionTypeOK /\ NumberInv
  <2>1. wal \in Seq(Patch) /\ Len(wal) = 0 /\ authored \in Seq(Branch)
    BY <1>2
  <2>2. NumberInv
    BY <1>2, <2>1 DEF NumberInv
  <2>3. Len(wal) <= MaxQueue /\ faults \in 0 .. MaxFaults
    BY <1>2, <2>1, PatchAssumption
  <2>4. SessionTypeOK
    BY <1>2, <2>1, <2>3, Zenon DEF SessionTypeOK
  <2> QED BY <2>2, <2>4
<1>6. SessionSlots /\ ActiveInv /\ SessionDecided
  <2>1. \A c : SessionCommandAt("idle", c)
    BY DEF SessionCommandAt, CommitPoints, PublishPoints, RepairPoints
  <2>2. DOMAIN pc = Proc /\ DOMAIN cmd = Proc
    BY <1>1 DEF Init
  <2> QED BY <1>3, <2>1, <2>2, Zenon DEF SessionSlots, ActiveInv, Outside, SessionDecided
<1>7. ChainInv
  <2>1. \A r \in Ref : ptr[r] = NoState
    BY <1>1 DEF Init
  <2>2. Chain[NoState] = <<>> /\ Len(<<>>) = 0
    BY ChainAssumption
  <2>3. ~Valid(witness)
    BY <1>2 DEF Valid, Absent
  <2> QED BY <2>1, <2>2, <2>3, PatchAssumption DEF ChainInv
<1>8. FoundInv
  BY <1>3, Zenon DEF FoundInv, Found, CommitFound, SealFound, CompleteFound, RepairFound, PublishPoints
<1> QED BY <1>1, <1>4, <1>5, <1>6, <1>7, <1>8, Zenon DEF BaseInv

\* Every step of every command, crash and media fault keeps it.
LEMMA BaseStep ==
    ASSUME BaseInv, [SessionNext]_allVars
    PROVE  BaseInv'
<1>1. StoreType' /\ StoreInv' /\ SessionDecided'
  BY ContainersStep DEF BaseInv
<1>2. SessionTypeOK' /\ NumberInv'
  BY TypesStep DEF BaseInv
<1>3. SessionSlots' /\ ActiveInv'
  BY ControlStep DEF BaseInv
<1>4. ChainInv' /\ FoundInv'
  BY ChainStep, FoundStep, Zenon DEF BaseInv
<1> QED BY <1>1, <1>2, <1>3, <1>4, Zenon DEF BaseInv

\* What every command of the session relies on holds in every reachable state.
THEOREM SessionInvariance == SessionSpec => []BaseInv
BY BaseInit, BaseStep, PTL DEF SessionSpec

\* The session's files keep their types through every crash, repair and fault,
\* and the WAL never outgrows the active patch limit.
THEOREM SessionTypeCorrect == SessionSpec => []SessionTypeOK
BY SessionInvariance, PTL DEF BaseInv

\* DC-38: a queue that is published and not drained can always be sealed again
\* with some adopted key, so no crash strands it.
THEOREM UndrainedRetriable == SessionSpec => []UndrainedIsRetriable
<1>1. BaseInv => UndrainedIsRetriable
  BY UndrainedAdmitsRetry DEF BaseInv, UndrainedIsRetriable, Branch
<1> QED BY <1>1, SessionInvariance, PTL
=============================================================================
