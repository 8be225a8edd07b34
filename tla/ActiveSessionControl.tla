------------------------- MODULE ActiveSessionControl -----------------------
(***************************************************************************)
(* The active session, for every number of slots, branches, keys, commits, *)
(* crashes and media faults: every command works under the active lock.    *)
(***************************************************************************)
EXTENDS ActiveSession, RefPublicationProofs

USE LockAssumption

(***************************************************************************)
(* Every command of the session works under the active lock.               *)
(***************************************************************************)
\* Where a slot is before it takes the active lock: it has written nothing.
Outside == {"idle", "plan", "active_lock", "session_lock", "guard_seal", "check_repair_wal"}

ActiveInv == \A p \in Proc : pc[p] \notin Outside => activeLock = p

SealCommand == {c \in Publication : c.op = "seal" /\ c.ref \in Branch}
CompleteCommand == {c \in Publication : c.op = "complete" /\ c.ref \in Branch}
CommitCommand == [op : {"commit"}, ref : Branch]
RestoreCommand == [op : {"restore"}, ref : Branch]
RepairCommand == [op |-> "repair"]

CommitPoints == {"commit", "clear_owner", "write_owner", "append_wal", "write_witness"}
PublishPoints == {"ref_lock", "pointer_lock", "log_lock", "body", "append_pointer",
                  "append_log", "published"}
RepairPoints == {"examine", "cut_wal", "cut_pointer", "cut_log", "rebuild"}

\* What a command of the session carries at each point of its run.
SessionCommandAt(at, c) ==
    /\ at = "plan" => c \in CompleteCommand
    /\ at = "active_lock" => c = RepairCommand \/ (c \in CompleteCommand /\ Prepared(c))
    /\ at \in {"guard_seal", "seal"} => c \in SealCommand
    /\ at = "check_repair_wal" => c \in [op : {"repair_wal"}]
    /\ at = "session_lock" =>
          \/ c \in SealCommand \cup CommitCommand \cup RestoreCommand
          \/ c \in [op : {"discard", "repair_wal"}]
    /\ at \in CommitPoints => c \in CommitCommand
    /\ at \in {"restore", "restore_write"} => c \in RestoreCommand
    /\ at \in PublishPoints =>
          \/ Prepared(c) /\ c \in SealCommand \cup CompleteCommand
          \/ at \in {"pointer_lock", "log_lock"} /\ c = RepairCommand
    /\ at \in {"drain_witness", "drain_owner"} => Prepared(c) /\ c \in SealCommand
    /\ at \in RepairPoints => c = RepairCommand

SessionSlots ==
    /\ DOMAIN pc = Proc /\ DOMAIN cmd = Proc
    /\ \A p \in Proc : SessionCommandAt(pc[p], cmd[p])

\* Only one slot moves at a time.
LEMMA SessionSlotMoves ==
    ASSUME SessionSlots, NEW p \in Proc, NEW at, NEW c, SessionCommandAt(at, c),
           pc' = [pc EXCEPT ![p] = at],
           cmd' = [cmd EXCEPT ![p] = c] \/ (UNCHANGED cmd /\ c = cmd[p])
    PROVE  /\ SessionSlots' /\ pc'[p] = at /\ cmd'[p] = c
           /\ \A q \in Proc \ {p} : pc'[q] = pc[q] /\ cmd'[q] = cmd[q]
<1>1. pc'[p] = at /\ cmd'[p] = c
  BY DEF SessionSlots
<1>2. \A q \in Proc \ {p} : pc'[q] = pc[q] /\ cmd'[q] = cmd[q]
  BY DEF SessionSlots
<1>3. \A q \in Proc : SessionCommandAt(pc'[q], cmd'[q])
  BY <1>1, <1>2 DEF SessionSlots
<1> QED BY <1>1, <1>2, <1>3 DEF SessionSlots

\* A slot in the section has the lock, and nothing another slot does takes it.
LEMMA ActiveKept ==
    ASSUME ActiveInv, NEW p \in Proc,
           \A q \in Proc \ {p} : pc'[q] = pc[q] /\ (activeLock = q => activeLock' = q),
           pc'[p] \notin Outside => activeLock' = p
    PROVE  ActiveInv'
BY DEF ActiveInv

\* Two commands are never in the section together.
LEMMA OneInside ==
    ASSUME ActiveInv, NEW p \in Proc, NEW q \in Proc, pc[p] \notin Outside, pc[q] \notin Outside
    PROVE  p = q
BY DEF ActiveInv

\* A command that ends, by success, refusal, panic, error or death, is outside.
LEMMA SessionEnds ==
    ASSUME SessionSlots, ActiveInv, NEW p \in Proc, NEW left \in {Free, Stale}, EndCommand(p, left)
    PROVE  /\ SessionSlots' /\ ActiveInv' /\ pc'[p] = "idle"
           /\ \A q \in Proc \ {p} : pc'[q] = pc[q] /\ cmd'[q] = cmd[q]
<1>1. SessionCommandAt("idle", NoCommand)
  BY DEF SessionCommandAt, CommitPoints, PublishPoints, RepairPoints
<1>2. /\ SessionSlots' /\ pc'[p] = "idle"
      /\ \A q \in Proc \ {p} : pc'[q] = pc[q] /\ cmd'[q] = cmd[q]
  BY <1>1, SessionSlotMoves, Zenon DEF EndCommand, Goto
<1>3. \A q \in Proc \ {p} : activeLock = q => activeLock' = q
  BY DEF EndCommand, DropLocks
<1> QED BY <1>2, <1>3, ActiveKept DEF Outside

\* A command goes on, in the section or still outside it.
LEMMA SessionGoesOn ==
    ASSUME SessionSlots, ActiveInv, NEW p \in Proc, NEW at, Goto(p, at), UNCHANGED <<cmd, activeLock>>,
           SessionCommandAt(at, cmd[p]), pc[p] \notin Outside \/ at \in Outside
    PROVE  /\ SessionSlots' /\ ActiveInv' /\ pc'[p] = at /\ cmd' = cmd
           /\ \A q \in Proc \ {p} : pc'[q] = pc[q]
<1>1. /\ SessionSlots' /\ pc'[p] = at
      /\ \A q \in Proc \ {p} : pc'[q] = pc[q]
  BY SessionSlotMoves, Zenon DEF Goto
<1>2. pc'[p] \notin Outside => activeLock' = p
  BY <1>1 DEF ActiveInv
<1> QED BY <1>1, <1>2, ActiveKept

\* Locks and slots after a step of p: the other slots are where they were.
Controlled(p) ==
    /\ SessionSlots' /\ ActiveInv'
    /\ \A q \in Proc \ {p} : pc'[q] = pc[q] /\ cmd'[q] = cmd[q]

\* A command begins, outside the section.
LEMMA SessionBegins ==
    ASSUME SessionSlots, ActiveInv, NEW p \in Proc, NEW c, NEW at \in Outside, SessionCommandAt(at, c),
           cmd' = [cmd EXCEPT ![p] = c], Goto(p, at), UNCHANGED activeLock
    PROVE  Controlled(p)
<1>1. /\ SessionSlots' /\ pc'[p] = at
      /\ \A q \in Proc \ {p} : pc'[q] = pc[q] /\ cmd'[q] = cmd[q]
  BY SessionSlotMoves, Zenon DEF Goto
<1> QED BY <1>1, ActiveKept DEF Controlled

\* Every command of the session starts with what it carries to its first check.
LEMMA StartControlled ==
    ASSUME SessionSlots, ActiveInv, NEW p \in Proc, StartSession(p)
    PROVE  Controlled(p)
<1> USE DEF Outside, SessionCommandAt, CommitPoints, PublishPoints, RepairPoints
<1>1. ASSUME NEW c, NEW at \in Outside, SessionCommandAt(at, c), BeginSession(p, c, at)
      PROVE  Controlled(p)
  BY <1>1, SessionBegins, Zenon DEF BeginSession, lockVars
<1>2. ASSUME NEW r \in Branch, StartCommit(p, r) \/ StartRestore(p, r)
      PROVE  Controlled(p)
  <2>1. ASSUME NEW op \in {"commit", "restore"}
        PROVE  SessionCommandAt("session_lock", [op |-> op, ref |-> r])
    BY DEF CommitCommand, RestoreCommand
  <2> QED BY <1>1, <1>2, <2>1 DEF StartCommit, StartRestore
<1>3. ASSUME NEW r \in Branch, NEW k \in Key, StartSeal(p, r, k)
      PROVE  Controlled(p)
  <2> DEFINE c == [op |-> "seal", ref |-> r, key |-> k, base |-> NoState, state |-> NoState]
  <2>1. SessionCommandAt("guard_seal", c)
    BY DEF SealCommand, Publication, Publisher, Branch
  <2> QED BY <1>1, <1>3, <2>1, Zenon DEF StartSeal
<1>4. ASSUME NEW r \in Branch, NEW k \in Key, Start(p, "complete", r, k)
      PROVE  Controlled(p)
  <2> DEFINE c == [op |-> "complete", ref |-> r, key |-> k, base |-> NoState, state |-> NoState]
  <2>1. SessionCommandAt("plan", c)
    BY DEF CompleteCommand, Publication, Publisher, Branch
  <2>2. cmd' = [cmd EXCEPT ![p] = c] /\ Goto(p, "plan") /\ UNCHANGED activeLock
    BY <1>4 DEF Start, FirstStep, lockVars
  <2> QED BY <2>1, <2>2, SessionBegins, Zenon
<1>5. CASE BeginSession(p, [op |-> "discard"], "session_lock")
  BY <1>1, <1>5
<1>6. CASE BeginSession(p, [op |-> "repair_wal"], "check_repair_wal")
  BY <1>1, <1>6
<1>7. CASE BeginSession(p, [op |-> "repair"], "active_lock")
  BY <1>1, <1>7 DEF RepairCommand
<1> QED BY <1>2, <1>3, <1>4, <1>5, <1>6, <1>7 DEF StartSession

\* A command takes the free active lock, and is in the section alone.
LEMMA SessionEnters ==
    ASSUME SessionSlots, ActiveInv, NEW p \in Proc, NEW at, SessionCommandAt(at, cmd[p]),
           activeLock = Free, activeLock' = p, Goto(p, at), UNCHANGED cmd
    PROVE  Controlled(p)
<1>1. /\ SessionSlots' /\ pc'[p] = at
      /\ \A q \in Proc \ {p} : pc'[q] = pc[q] /\ cmd'[q] = cmd[q]
  BY SessionSlotMoves, Zenon DEF Goto
<1> QED BY <1>1, ActiveKept DEF Controlled

\* An error return ends the command.
LEMMA RefuseControlled ==
    ASSUME SessionSlots, ActiveInv, NEW p \in Proc, Refuse(p)
    PROVE  Controlled(p)
BY SessionEnds DEF Refuse, Controlled

\* The two ways into the section: every command's lock is taken first.
LEMMA EntryControlled ==
    ASSUME SessionSlots, ActiveInv, NEW p \in Proc, AcquireSessionLock(p) \/ AcquireActiveLock(p)
    PROVE  Controlled(p)
<1> USE DEF SessionCommandAt, CommitPoints, PublishPoints, RepairPoints
<1>1. CASE Refuse(p)
  BY <1>1, RefuseControlled, Zenon
<1>2. CASE AcquireSessionLock(p) /\ ~Refuse(p)
  <2>1. SessionCommandAt("session_lock", cmd[p])
    BY <1>2, Zenon DEF SessionSlots, AcquireSessionLock
  <2>2. SessionCommandAt(cmd[p].op, cmd[p])
    BY <2>1, Zenon DEF SealCommand, CommitCommand, RestoreCommand, Publication
  <2> QED BY <1>2, <2>2, SessionEnters, Zenon DEF AcquireSessionLock, RefuseSession
<1>3. CASE AcquireActiveLock(p) /\ ~Refuse(p)
  <2>1. SessionCommandAt("active_lock", cmd[p])
    BY <1>3 DEF SessionSlots, AcquireActiveLock
  <2>2. SessionCommandAt(AfterActiveLock(cmd[p].op), cmd[p])
    BY <2>1 DEF RepairCommand, CompleteCommand, AfterActiveLock
  <2> QED BY <1>3, <2>2, SessionEnters, Zenon DEF AcquireActiveLock
<1> QED BY <1>1, <1>2, <1>3

\* A command goes on in the section, with the command it has.
LEMMA InsideGoesOn ==
    ASSUME SessionSlots, ActiveInv, NEW p \in Proc, NEW at, Goto(p, at), UNCHANGED <<cmd, activeLock>>,
           SessionCommandAt(at, cmd[p]), pc[p] \notin Outside \/ at \in Outside
    PROVE  Controlled(p)
BY SessionGoesOn DEF Controlled

\* The steps of commit and of doctor's repairs.
LEMMA CommandControlled ==
    ASSUME SessionSlots, ActiveInv, NEW p \in Proc,
           \/ CheckCommit(p) \/ ClearOwner(p) \/ WriteOwner(p) \/ AppendWal(p) \/ WriteWitness(p)
           \/ CheckDiscard(p) \/ CutDiscarded(p) \/ RebuildDiscarded(p)
           \/ CheckRestore(p) \/ RestoreOwner(p) \/ CheckRepairWal(p) \/ RepairWal(p)
           \/ ExamineSession(p) \/ CutWalTail(p) \/ CutLogTailAndGoOn(p) \/ RebuildWitness(p)
    PROVE  Controlled(p)
<1> USE DEF SessionCommandAt, CommitPoints, PublishPoints, RepairPoints, Outside
<1>1. SessionCommandAt(pc[p], cmd[p])
  BY DEF SessionSlots
<1>2. CASE Refuse(p)
  BY <1>2, RefuseControlled, Zenon
<1>3. CASE Finish(p)
  BY <1>3, SessionEnds, ZenonT(20) DEF Finish, Controlled
<1>4. ASSUME NEW at, Proceed(p, at), SessionCommandAt(at, cmd[p]), pc[p] \notin Outside \/ at \in Outside
      PROVE  Controlled(p)
  BY <1>4, InsideGoesOn DEF Proceed, lockVars
<1>5. CASE CheckCommit(p) /\ ~Refuse(p)
  <2>1. ASSUME NEW at \in {"append_wal", "write_owner", "clear_owner"}, Proceed(p, at)
        PROVE  Controlled(p)
    BY <1>1, <1>4, <1>5, <2>1 DEF CheckCommit
  <2> QED BY <1>5, <2>1 DEF CheckCommit, RefuseSession
<1>6. CASE ClearOwner(p) \/ WriteOwner(p) \/ AppendWal(p)
  BY <1>1, <1>4, <1>6, Zenon DEF ClearOwner, WriteOwner, AppendWal
<1>7. CASE CheckDiscard(p) \/ CutDiscarded(p)
  BY <1>1, <1>2, <1>4, <1>7, Zenon DEF CheckDiscard, CutDiscarded, RefuseSession
<1>8. CASE CheckRestore(p) \/ CheckRepairWal(p)
  <2>1. CASE CheckRestore(p)
    BY <1>1, <1>2, <1>4, <2>1, Zenon DEF CheckRestore, RefuseSession
  <2>2. CASE CheckRepairWal(p)
    <3>1. pc[p] = "check_repair_wal" /\ (Proceed(p, "session_lock") \/ Refuse(p))
      BY <2>2 DEF CheckRepairWal, RefuseSession
    <3> QED BY <1>1, <1>2, <1>4, <3>1, Zenon
  <2> QED BY <1>8, <2>1, <2>2
<1>9. CASE ExamineSession(p) \/ CutWalTail(p)
  BY <1>1, <1>2, <1>4, <1>9, Zenon DEF ExamineSession, CutWalTail, RefuseSession
<1>10. CASE CutLogTailAndGoOn(p)
  BY <1>1, <1>10, InsideGoesOn, Zenon DEF CutLogTailAndGoOn, lockVars
<1> QED BY <1>2, <1>3, <1>5, <1>6, <1>7, <1>8, <1>9, <1>10, ZenonT(20)
        DEF WriteWitness, RebuildDiscarded, RestoreOwner, RepairWal, RebuildWitness

\* The steps of seal and of ref complete.
LEMMA PublicationControlled ==
    ASSUME StoreType, SessionSlots, ActiveInv, NEW p \in Proc,
           \/ GuardSeal(p) \/ CheckSeal(p) \/ DrainWal(p) \/ DrainWitness(p) \/ DrainOwner(p)
           \/ PlanCompletion(p) \/ ReportCompletion(p) \/ PublicationStep(p)
    PROVE  Controlled(p)
<1> USE DEF SessionCommandAt, CommitPoints, PublishPoints, RepairPoints, Outside
<1>1. SessionCommandAt(pc[p], cmd[p])
  BY DEF SessionSlots
<1>2. CASE Refuse(p)
  BY <1>2, RefuseControlled, Zenon
<1>3. CASE GuardSeal(p) /\ ~Refuse(p)
  BY <1>1, <1>3, InsideGoesOn, Zenon DEF GuardSeal, RefuseSession, Proceed, lockVars
<1>4. CASE CheckSeal(p) /\ ~Refuse(p)
  <2>1. pc[p] = "seal" /\ cmd[p] \in SealCommand
    BY <1>1, <1>4, Zenon DEF CheckSeal
  <2>2. PICK plan \in SealPlans(cmd[p].ref) :
           cmd' = [cmd EXCEPT ![p].base = plan.base, ![p].state = plan.state]
    BY <1>4, Zenon DEF CheckSeal
  <2> DEFINE c == [cmd[p] EXCEPT !.base = plan.base, !.state = plan.state]
  <2>3. plan.state \in RefState /\ Prev[plan.state] = plan.base /\ plan.base \in RefState \cup {NoState}
    BY <2>1, <2>2, RefStateAssumption DEF SealPlans, TipIsQueue, StoreType, SealCommand, Branch
  <2>4. Prepared(c) /\ c \in SealCommand
    BY <2>1, <2>3, Zenon DEF Prepared, SealCommand, Publication
  <2>5. cmd' = [cmd EXCEPT ![p] = c]
    BY <2>2, Zenon DEF SessionSlots
  <2>6. Goto(p, "ref_lock") /\ UNCHANGED activeLock
    BY <1>4 DEF CheckSeal, lockVars
  <2> HIDE DEF c
  <2>7. SessionCommandAt("ref_lock", c)
    BY <2>4
  <2>8. /\ SessionSlots' /\ pc'[p] = "ref_lock"
        /\ \A q \in Proc \ {p} : pc'[q] = pc[q] /\ cmd'[q] = cmd[q]
    BY <2>5, <2>6, <2>7, SessionSlotMoves, Zenon DEF Goto
  <2>9. activeLock' = p
    BY <2>1, <2>6 DEF ActiveInv
  <2> QED BY <2>6, <2>8, <2>9, ActiveKept, Zenon DEF Controlled
<1>5. CASE DrainWal(p)
  <2>1. SessionCommandAt("drain_witness", cmd[p])
    BY <1>1, <1>5, ZenonT(20) DEF DrainWal, CompleteCommand, RepairCommand
  <2> QED BY <1>5, <2>1, InsideGoesOn, Zenon DEF DrainWal
<1>6. CASE DrainWitness(p)
  BY <1>1, <1>6, InsideGoesOn, Zenon DEF DrainWitness, Proceed, lockVars
<1>7. CASE DrainOwner(p) \/ ReportCompletion(p)
  BY <1>7, SessionEnds, Zenon DEF DrainOwner, ReportCompletion, Report, Controlled
<1>8. CASE PlanCompletion(p) /\ ~Refuse(p)
  <2>1. Plan(p) /\ Completable(cmd[p].ref) /\ cmd[p] \in CompleteCommand
    BY <1>1, <1>8, ZenonT(20) DEF PlanCompletion, Plan
  <2> DEFINE c == [cmd[p] EXCEPT !.base = LogTip(cmd[p].ref), !.state = ptr[cmd[p].ref]]
  <2>2. /\ ptr[cmd[p].ref] \in RefState /\ Prev[ptr[cmd[p].ref]] = LogTip(cmd[p].ref)
        /\ LogTip(cmd[p].ref) \in RefState \cup {NoState}
    BY <2>1, RefStateAssumption DEF Completable, StoreType, CompleteCommand, Branch
  <2>3. Prepared(c) /\ c \in CompleteCommand
    BY <2>1, <2>2, Zenon DEF Prepared, CompleteCommand, Publication
  <2>4. cmd' = [cmd EXCEPT ![p] = c]
    BY <1>8, <2>1, Zenon DEF SessionSlots, Plan
  <2>5. Goto(p, "active_lock") /\ UNCHANGED activeLock
    BY <1>8, <2>1 DEF Plan, lockVars
  <2> HIDE DEF c
  <2> QED BY <2>3, <2>4, <2>5, SessionBegins, Zenon
<1>9. CASE (AcquireRefLock(p) \/ AcquirePointerLock(p) \/ AcquireLogLock(p)) /\ ~Refuse(p)
  <2>1. CASE AcquireRefLock(p)
    BY <1>1, <1>9, <2>1, InsideGoesOn, Zenon DEF AcquireRefLock, RepairCommand
  <2>2. CASE AcquirePointerLock(p)
    <3>1. cmd[p] \in SealCommand \cup CompleteCommand \/ cmd[p] = RepairCommand
      BY <1>1, <2>2, Zenon DEF AcquirePointerLock
    <3>2. cmd[p].op # "repair_pointer"
      BY <3>1 DEF RepairCommand, SealCommand, CompleteCommand
    <3>3. SessionCommandAt("log_lock", cmd[p])
      BY <1>1, <2>2, Zenon DEF AcquirePointerLock
    <3> QED BY <1>9, <2>2, <3>2, <3>3, InsideGoesOn, Zenon DEF AcquirePointerLock
  <2>3. CASE AcquireLogLock(p)
    <3>1. SessionCommandAt(IF cmd[p].op = "repair" THEN "examine" ELSE "body", cmd[p])
      <4>1. pc[p] = "log_lock"
        BY <2>3, Zenon DEF AcquireLogLock
      <4>2. \/ Prepared(cmd[p]) /\ cmd[p] \in SealCommand \cup CompleteCommand
            \/ cmd[p] = RepairCommand
        BY <1>1, <4>1, Zenon
      <4>3. CASE cmd[p].op = "repair"
        <5>1. cmd[p] = RepairCommand
          BY <4>2, <4>3, Zenon DEF SealCommand, CompleteCommand
        <5> QED BY <4>3, <5>1, Zenon
      <4>4. CASE cmd[p].op # "repair"
        <5>1. Prepared(cmd[p]) /\ cmd[p] \in SealCommand \cup CompleteCommand
          BY <4>2, <4>4 DEF RepairCommand
        <5> QED BY <4>4, <5>1, Zenon
      <4> QED BY <4>3, <4>4, Zenon
    <3> QED BY <1>9, <2>3, <3>1, InsideGoesOn, ZenonT(20) DEF AcquireLogLock
  <2> QED BY <1>9, <2>1, <2>2, <2>3
<1>10. CASE PublishBody(p) /\ ~Refuse(p)
  <2>1. /\ NextAppend(Classify(cmd[p].ref, cmd[p].base, cmd[p].state, cmd[p].key))
             \in {"append_pointer", "append_log", "published"}
    BY <1>10, AdmittedGoesOn, Zenon DEF PublishBody
  <2>2. PICK at \in {"append_pointer", "append_log", "published"} : Goto(p, at)
    BY <1>10, <2>1 DEF PublishBody
  <2>3. SessionCommandAt(at, cmd[p])
    BY <1>1, <1>10, Zenon DEF PublishBody
  <2> QED BY <1>10, <2>2, <2>3, InsideGoesOn, Zenon DEF PublishBody, lockVars
<1>11. CASE AppendPointer(p) \/ AppendLog(p)
  BY <1>1, <1>11, InsideGoesOn, Zenon DEF AppendPointer, AppendLog, lockVars
<1>12. CASE CutPointerTail(p)
  <2>1. pc[p] = "cut_pointer" /\ cmd[p] = RepairCommand
    BY <1>1, <1>12, Zenon DEF CutPointerTail
  <2>2. Goto(p, "cut_log") /\ UNCHANGED <<cmd, activeLock>>
    BY <1>12, <2>1 DEF CutPointerTail, RepairCommand, lockVars
  <2> QED BY <2>1, <2>2, InsideGoesOn, Zenon
<1> QED BY <1>2, <1>3, <1>4, <1>5, <1>6, <1>7, <1>8, <1>9, <1>10, <1>11, <1>12, EntryControlled, ZenonT(20)
        DEF PublicationStep

\* One step of one slot.
StepBy(p) == StartSession(p) \/ SessionStep(p) \/ InterruptSession(p)

\* A step of a slot moves no other, and only a slot that holds the active lock
\* is inside.
LEMMA StepControlled ==
    ASSUME StoreType, SessionSlots, ActiveInv, NEW p \in Proc, StepBy(p)
    PROVE  Controlled(p)
<1>1. CASE InterruptSession(p)
  <2>1. PICK left \in {Free, Stale} : EndCommand(p, left)
    BY <1>1 DEF InterruptSession, Interrupt
  <2> QED BY <2>1, SessionEnds DEF Controlled
<1> QED BY <1>1, StartControlled, EntryControlled, CommandControlled, PublicationControlled
        DEF StepBy, SessionStep

\* Whatever a step does, two commands are never in the section together.
LEMMA ControlStep ==
    ASSUME StoreType, SessionSlots, ActiveInv, [SessionNext]_allVars
    PROVE  SessionSlots' /\ ActiveInv'
<1>1. CASE Unlock
  <2>1. UNCHANGED <<pc, cmd>> /\ (activeLock' = activeLock \/ activeLock = Stale)
    BY <1>1, Zenon DEF Unlock
  <2> QED BY <2>1, Zenon DEF SessionSlots, ActiveInv
<1>2. CASE UNCHANGED vars
  BY <1>2 DEF SessionSlots, ActiveInv, vars, lockVars
<1>3. ASSUME NEW p \in Proc, StepBy(p) PROVE SessionSlots' /\ ActiveInv'
  BY <1>3, StepControlled DEF Controlled
<1> QED BY <1>1, <1>2, <1>3, Zenon DEF SessionNext, StepBy, Fault, allVars

\* Before it has the active lock a command writes nothing.
LEMMA OutsideWritesNothing ==
    ASSUME NEW p \in Proc, StepBy(p), pc[p] \in Outside
    PROVE  UNCHANGED <<storeVars, sessionVars>>
<1> USE DEF Outside
<1>1. CASE StartSession(p)
  BY <1>1, Zenon DEF StartSession, StartCommit, StartRestore, StartSeal, BeginSession, Start
<1>2. CASE AcquireSessionLock(p) \/ GuardSeal(p) \/ CheckRepairWal(p)
  BY <1>2, Zenon DEF AcquireSessionLock, GuardSeal, CheckRepairWal, RefuseSession, Refuse, Proceed
<1>3. CASE PlanCompletion(p)
  BY <1>3 DEF PlanCompletion, Plan, Refuse
<1>4. CASE PublicationStep(p)
  <2>1. AcquireActiveLock(p) /\ UNCHANGED sessionVars
    BY <1>4, ZenonT(20) DEF PublicationStep, AcquireRefLock, AcquirePointerLock, AcquireLogLock, PublishBody,
                AppendPointer, AppendLog, CutPointerTail
  <2> QED BY <2>1, SMTT(20) DEF AcquireActiveLock, Refuse
<1>5. CASE InterruptSession(p)
  BY <1>5, Zenon DEF InterruptSession, Interrupt, TornPointer, TornLog, TornWal, TornWitness, TornOwner,
              storeVars, sessionVars
<1>6. CASE SessionStep(p)
  <2>1. ~(CheckCommit(p) \/ ClearOwner(p) \/ WriteOwner(p) \/ AppendWal(p) \/ WriteWitness(p))
    BY DEF CheckCommit, ClearOwner, WriteOwner, AppendWal, WriteWitness
  <2>2. ~(CheckSeal(p) \/ DrainWal(p) \/ DrainWitness(p) \/ DrainOwner(p) \/ ReportCompletion(p))
    BY DEF CheckSeal, DrainWal, DrainWitness, DrainOwner, ReportCompletion, Report
  <2>3. ~(CheckDiscard(p) \/ CutDiscarded(p) \/ RebuildDiscarded(p) \/ CheckRestore(p) \/ RestoreOwner(p))
    BY DEF CheckDiscard, CutDiscarded, RebuildDiscarded, CheckRestore, RestoreOwner
  <2>4. ~(RepairWal(p) \/ ExamineSession(p) \/ CutWalTail(p) \/ CutLogTailAndGoOn(p) \/ RebuildWitness(p))
    BY DEF RepairWal, ExamineSession, CutWalTail, CutLogTailAndGoOn, RebuildWitness
  <2> QED BY <1>2, <1>3, <1>4, <1>6, <2>1, <2>2, <2>3, <2>4 DEF SessionStep
<1> QED BY <1>1, <1>5, <1>6, Zenon DEF StepBy
=============================================================================
