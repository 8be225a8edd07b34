------------------------ MODULE RefPublicationLocks -------------------------
(***************************************************************************)
(* The inductive invariant of RefPublication: every command holds the      *)
(* locks of the point it has reached, and what it decided under them still *)
(* holds when it acts on it.                                               *)
(***************************************************************************)
EXTENDS RefPublicationTypes

USE RefStateAssumption, LockAssumption

(***************************************************************************)
(* A command holds the locks of the point it has reached.                  *)
(***************************************************************************)
\* Nothing one slot does takes a lock from another.
LEMMA OthersKeepLocks ==
    ASSUME SlotType, LockInv, NEW p \in Proc, HoldsItsLocks(p)',
           \A q \in Proc \ {p} :
              /\ pc'[q] = pc[q] /\ cmd'[q] = cmd[q]
              /\ pointerLock = q => pointerLock' = q
              /\ logLock = q => logLock' = q
              /\ \A r \in Ref : refLock[r] = q => refLock'[r] = q
    PROVE  LockInv'
<1> SUFFICES ASSUME NEW q \in Proc, q # p PROVE HoldsItsLocks(q)'
  BY DEF LockInv
<1>1. cmd[q] \in Publication => cmd[q].ref \in Ref
  BY DEF Publication
<1> QED BY <1>1 DEF LockInv, HoldsItsLocks

\* A command that ends gives back or leaves only its own lock files.
LEMMA EndCommandLocks ==
    ASSUME TypeInv, LockInv, NEW p \in Proc, NEW left \in {Free, Stale}, EndCommand(p, left)
    PROVE  LockInv'
<1>1. pc' = [pc EXCEPT ![p] = "idle"] /\ cmd' = [cmd EXCEPT ![p] = NoCommand]
  BY DEF EndCommand, Goto
<1>2. HoldsItsLocks(p)'
  BY <1>1 DEF HoldsItsLocks, Critical, TypeInv, SlotType
<1>3. ASSUME NEW q \in Proc \ {p}
      PROVE  /\ pc'[q] = pc[q] /\ cmd'[q] = cmd[q]
             /\ pointerLock = q => pointerLock' = q
             /\ logLock = q => logLock' = q
             /\ \A r \in Ref : refLock[r] = q => refLock'[r] = q
  BY <1>1, <1>3 DEF EndCommand, DropLocks, TypeInv, SlotType, LockType
<1> QED BY <1>2, <1>3, OthersKeepLocks DEF TypeInv

\* Every step leaves each command with the locks of the point it is at.
LEMMA LocksStep == TypeInv /\ LockInv /\ [Next]_vars => LockInv'
<1> SUFFICES ASSUME TypeInv, LockInv, [Next]_vars PROVE LockInv'
  OBVIOUS
<1> USE DEF TypeInv
<1>1. ASSUME NEW p \in Proc, NEW op \in Publisher \ {"seal"}, NEW r \in Ref, NEW k \in Key,
             Start(p, op, r, k)
      PROVE  LockInv'
  <2>1. pc'[p] \in {"active_lock", "guard", "plan"}
    BY <1>1 DEF Start, Goto, FirstStep, Publisher, SlotType
  <2>2. HoldsItsLocks(p)'
    BY <2>1 DEF HoldsItsLocks, Critical
  <2> QED BY <1>1, <2>2, OthersKeepLocks DEF Start, Goto, lockVars, SlotType
<1>2. ASSUME NEW p \in Proc, NEW op \in Repairer, StartRepair(p, op)
      PROVE  LockInv'
  <2>1. pc'[p] \in {"active_lock", "pointer_lock"} /\ cmd'[p] = [op |-> op]
    BY <1>2 DEF StartRepair, Goto, SlotType
  <2>2. cmd'[p] \notin Publication
    BY <2>1 DEF Publication
  <2>3. HoldsItsLocks(p)'
    BY <2>1, <2>2 DEF HoldsItsLocks, Critical
  <2> QED BY <1>2, <2>3, OthersKeepLocks DEF StartRepair, Goto, lockVars, SlotType
<1>3. ASSUME NEW p \in Proc, Refuse(p)
      PROVE  LockInv'
  BY <1>3, EndCommandLocks DEF Refuse
<1>4. ASSUME NEW p \in Proc, AcquireActiveLock(p), ~Refuse(p)
      PROVE  LockInv'
  <2>1. cmd'[p] = cmd[p] /\ pc'[p] = AfterActiveLock(cmd[p].op)
    BY <1>4 DEF AcquireActiveLock, Goto, SlotType
  <2>2. cmd[p] \in Publication \/ cmd[p] = [op |-> "repair"]
    BY <1>4 DEF AcquireActiveLock, SlotType, Slot, CommandAt
  <2>3. HoldsItsLocks(p)'
    <3>1. CASE cmd[p] \in Publication
      BY <2>1, <3>1 DEF AfterActiveLock, HoldsItsLocks, Critical, Publication, Publisher
    <3>2. CASE cmd[p] = [op |-> "repair"]
      BY <2>1, <3>2 DEF AfterActiveLock, HoldsItsLocks, Critical, Publication
    <3> QED BY <2>2, <3>1, <3>2
  <2> QED BY <1>4, <2>3, OthersKeepLocks DEF AcquireActiveLock, Goto, SlotType
<1>5. ASSUME NEW p \in Proc, AcquireRefLock(p), ~Refuse(p)
      PROVE  LockInv'
  <2>1. cmd[p].ref \in Ref
    BY <1>5 DEF AcquireRefLock, SlotType, Slot, CommandAt, Prepared, Publication
  <2>2. /\ refLock[cmd[p].ref] = Free
        /\ pc' = [pc EXCEPT ![p] = "pointer_lock"] /\ cmd' = cmd
        /\ refLock' = [refLock EXCEPT ![cmd[p].ref] = p]
        /\ UNCHANGED <<pointerLock, logLock>>
    BY <1>5 DEF AcquireRefLock, Goto
  <2>3. HoldsItsLocks(p)'
    BY <2>1, <2>2 DEF HoldsItsLocks, Critical, SlotType, LockType
  <2>4. \A q \in Proc \ {p}, r \in Ref : refLock[r] = q => refLock'[r] = q
    BY <2>1, <2>2 DEF LockType
  <2> QED BY <2>2, <2>3, <2>4, OthersKeepLocks DEF SlotType
<1>6. ASSUME NEW p \in Proc, AcquirePointerLock(p), ~Refuse(p)
      PROVE  LockInv'
  <2>1. /\ pc[p] = "pointer_lock" /\ pointerLock = Free /\ pointerLock' = p /\ cmd' = cmd
        /\ pc' = [pc EXCEPT ![p] = IF cmd[p].op = "repair_pointer" THEN "cut_pointer" ELSE "log_lock"]
        /\ UNCHANGED <<refLock, logLock>>
    BY <1>6 DEF AcquirePointerLock, Goto
  <2>2. HoldsItsLocks(p)'
    BY <2>1 DEF LockInv, HoldsItsLocks, Critical, SlotType
  <2> QED BY <2>1, <2>2, OthersKeepLocks DEF SlotType
<1>7. ASSUME NEW p \in Proc, AcquireLogLock(p), ~Refuse(p)
      PROVE  LockInv'
  <2>1. /\ pc[p] = "log_lock" /\ logLock = Free /\ logLock' = p /\ cmd' = cmd
        /\ pc' = [pc EXCEPT ![p] = IF cmd[p].op = "repair" THEN "examine" ELSE "body"]
        /\ UNCHANGED <<refLock, pointerLock>>
    BY <1>7 DEF AcquireLogLock, Goto
  <2>2. HoldsItsLocks(p)'
    BY <2>1 DEF LockInv, HoldsItsLocks, Critical, SlotType
  <2> QED BY <2>1, <2>2, OthersKeepLocks DEF SlotType
<1>8. ASSUME NEW p \in Proc, NEW at \in PC, Goto(p, at), UNCHANGED <<lockVars, cmd>>,
             \/ pc[p] = "guard" /\ at = "read"
             \/ pc[p] = "body" /\ at \in {"append_pointer", "append_log", "published"}
             \/ pc[p] = "append_pointer" /\ at = "append_log"
             \/ pc[p] = "append_log" /\ at = "published"
             \/ pc[p] = "examine" /\ at = "cut_pointer"
             \/ pc[p] = "cut_pointer" /\ at = "cut_log" /\ cmd[p].op = "repair"
      PROVE  LockInv'
  <2>1. pc' = [pc EXCEPT ![p] = at] /\ cmd' = cmd
        /\ UNCHANGED <<refLock, pointerLock, logLock>>
    BY <1>8 DEF Goto, lockVars
  <2>2. pc[p] = "examine" => cmd[p] \notin Publication
    <3>1. pc[p] = "examine" => cmd[p] = [op |-> "repair"]
      BY DEF SlotType, Slot, CommandAt
    <3>2. [op |-> "repair"] \notin Publication
      BY DEF Publication, Publisher
    <3> QED BY <3>1, <3>2
  <2>3. pc[p] = "cut_pointer" => cmd[p] \notin Publication
    <3>1. pc[p] = "cut_pointer" => cmd[p] \in [op : Repairer]
      BY DEF SlotType, Slot, CommandAt
    <3>2. [op : Repairer] \cap Publication = {}
      BY DEF Publication
    <3> QED BY <3>1, <3>2
  <2>4. HoldsItsLocks(p)'
    BY <1>8, <2>1, <2>2, <2>3 DEF LockInv, HoldsItsLocks, Critical, SlotType
  <2> QED BY <2>1, <2>4, OthersKeepLocks DEF SlotType
<1>9. ASSUME NEW p \in Proc, UNCHANGED lockVars, pc' \in [Proc -> PC], cmd' \in [Proc -> Command],
             pc'[p] \in {"active_lock", "ref_lock"},
             \A q \in Proc \ {p} : pc'[q] = pc[q] /\ cmd'[q] = cmd[q]
      PROVE  LockInv'
  <2>1. HoldsItsLocks(p)'
    BY <1>9 DEF HoldsItsLocks, Critical
  <2> QED BY <1>9, <2>1, OthersKeepLocks DEF lockVars
<1>10. ASSUME NEW p \in Proc, ReadBase(p), ~Refuse(p)
       PROVE  LockInv'
  <2>1. PICK s \in RefState : cmd' = [cmd EXCEPT ![p].base = ptr[cmd[p].ref], ![p].state = s]
    BY <1>10 DEF ReadBase
  <2>2. UNCHANGED lockVars /\ pc' = [pc EXCEPT ![p] = "ref_lock"]
    BY <1>10 DEF ReadBase, Goto
  <2> QED BY <2>1, <2>2, <1>9, TypeStep DEF SlotType
<1>11. ASSUME NEW p \in Proc, Plan(p), ~Refuse(p)
       PROVE  LockInv'
  <2>1. /\ UNCHANGED lockVars /\ pc' = [pc EXCEPT ![p] = "active_lock"]
        /\ cmd' = [cmd EXCEPT ![p].base = LogTip(cmd[p].ref), ![p].state = ptr[cmd[p].ref]]
    BY <1>11 DEF Plan, Goto
  <2> QED BY <2>1, <1>9, TypeStep DEF SlotType
<1>12. ASSUME NEW p \in Proc, PublishBody(p), ~Refuse(p)
       PROVE  LockInv'
  <2> DEFINE at == NextAppend(Classify(cmd[p].ref, cmd[p].base, cmd[p].state, cmd[p].key))
  <2>1. at \in {"append_pointer", "append_log", "published"}
    <3>1. Admits(cmd[p])
      BY <1>12 DEF PublishBody
    <3> QED BY <3>1, AdmittedGoesOn
  <2>2. Goto(p, at) /\ UNCHANGED <<lockVars, cmd>> /\ pc[p] = "body"
    BY <1>12 DEF PublishBody
  <2> HIDE DEF at
  <2> QED BY <2>1, <2>2, <1>8 DEF PC
<1>13. ASSUME NEW p \in Proc, Guard(p) \/ AppendPointer(p) \/ AppendLog(p) \/ Examine(p), ~Refuse(p)
       PROVE  LockInv'
  BY <1>8, <1>13 DEF Guard, AppendPointer, AppendLog, Examine, PC, storeVars, lockVars
<1>14. ASSUME NEW p \in Proc, CutPointerTail(p)
       PROVE  LockInv'
  BY <1>8, <1>14, EndCommandLocks DEF CutPointerTail, PC
<1>15. ASSUME NEW p \in Proc, Report(p) \/ CutLogTail(p) \/ Interrupt(p)
       PROVE  LockInv'
  BY <1>15, EndCommandLocks DEF Report, CutLogTail, Interrupt
<1>16. ASSUME Unlock
       PROVE  LockInv'
  <2> SUFFICES ASSUME NEW q \in Proc PROVE HoldsItsLocks(q)'
    BY DEF LockInv
  <2>1. pc'[q] = pc[q] /\ cmd'[q] = cmd[q]
    BY <1>16 DEF Unlock
  <2>2. /\ pointerLock = q => pointerLock' = q
        /\ logLock = q => logLock' = q
        /\ \A r \in Ref : refLock[r] = q => refLock'[r] = q
    BY <1>16 DEF Unlock, LockType
  <2>3. cmd[q] \in Publication => cmd[q].ref \in Ref
    BY DEF Publication
  <2> QED BY <2>1, <2>2, <2>3 DEF LockInv, HoldsItsLocks
<1>17. CASE UNCHANGED vars
  BY <1>17 DEF vars, lockVars, LockInv, HoldsItsLocks
<1> QED
  BY <1>1, <1>2, <1>3, <1>4, <1>5, <1>6, <1>7, <1>10, <1>11, <1>12, <1>13, <1>14,
     <1>15, <1>16, <1>17 DEF Next, StartAny, ProcessStep

(***************************************************************************)
(* The critical section: at most one command is between the pointer-index  *)
(* lock and its release, and only such a command writes the containers.    *)
(***************************************************************************)
StepOf(p) == StartAny(p) \/ ProcessStep(p) \/ Interrupt(p)

\* Two commands never hold the pointer-index lock together.
LEMMA Exclusive ==
    ASSUME LockInv, NEW p \in Proc, NEW q \in Proc, pc[p] \in Critical, pc[q] \in Critical
    PROVE  p = q
BY ZenonT(20) DEF LockInv, HoldsItsLocks

\* A step moves one slot, and writes a container only in the critical section.
LEMMA OnlyCriticalWrites ==
    ASSUME TypeInv, NEW p \in Proc, StepOf(p)
    PROVE  /\ \A q \in Proc \ {p} : pc'[q] = pc[q] /\ cmd'[q] = cmd[q]
           /\ pc[p] \notin Critical => UNCHANGED <<ptr, log, logTail>>
<1> USE DEF TypeInv, SlotType, Goto
<1>1. ASSUME Refuse(p)
      PROVE  /\ UNCHANGED <<ptr, log, logTail>>
             /\ \A q \in Proc \ {p} : pc'[q] = pc[q] /\ cmd'[q] = cmd[q]
  BY <1>1 DEF Refuse, EndCommand, storeVars
<1>2. CASE StartAny(p)
  BY <1>2 DEF StartAny, Start, StartRepair, storeVars
<1>3. CASE AcquireActiveLock(p) \/ AcquireRefLock(p)
  BY <1>1, <1>3 DEF AcquireActiveLock, AcquireRefLock, storeVars
<1>4. CASE AcquirePointerLock(p) \/ AcquireLogLock(p)
  BY <1>1, <1>4 DEF AcquirePointerLock, AcquireLogLock, storeVars
<1>5. CASE Guard(p)
  BY <1>1, <1>5 DEF Guard, storeVars
<1>6. CASE ReadBase(p)
  BY <1>1, <1>6 DEF ReadBase, storeVars
<1>7. CASE Plan(p)
  BY <1>1, <1>7 DEF Plan, storeVars
<1>8. CASE PublishBody(p)
  BY <1>1, <1>8 DEF PublishBody, Critical
<1>9. CASE AppendPointer(p) \/ AppendLog(p)
  BY <1>9 DEF AppendPointer, AppendLog, Critical
<1>10. CASE Report(p)
  BY <1>10 DEF Report, EndCommand, storeVars
<1>11. CASE Examine(p)
  BY <1>1, <1>11 DEF Examine, storeVars
<1>12. CASE CutPointerTail(p) \/ CutLogTail(p)
  BY <1>12 DEF CutPointerTail, CutLogTail, EndCommand, Critical
<1>13. CASE Interrupt(p)
  BY <1>13 DEF Interrupt, TornLog, EndCommand, Critical
<1> QED
  BY <1>2, <1>3, <1>4, <1>5, <1>6, <1>7, <1>8, <1>9, <1>10, <1>11, <1>12, <1>13, Zenon
     DEF StepOf, ProcessStep

\* The pointer changes at one action and the log at one other; a success is
\* reported at a third.
LEMMA WhoWrites ==
    ASSUME [Next]_vars
    PROVE  /\ UNCHANGED ptr \/ \E p \in Proc : AppendPointer(p)
           /\ UNCHANGED log \/ \E p \in Proc : AppendLog(p)
           /\ UNCHANGED acked \/ \E p \in Proc : Report(p)
<1>1. CASE Unlock \/ UNCHANGED vars
  BY <1>1 DEF Unlock, vars, storeVars
<1>2. ASSUME NEW p \in Proc, Refuse(p)
      PROVE  UNCHANGED <<ptr, log, acked>>
  BY <1>2, Zenon DEF Refuse, storeVars
<1>3. ASSUME NEW p \in Proc, StartAny(p)
      PROVE  UNCHANGED <<ptr, log, acked>>
  BY <1>3 DEF StartAny, Start, StartRepair, storeVars
<1>4. ASSUME NEW p \in Proc, \/ AcquireActiveLock(p) \/ AcquireRefLock(p)
                            \/ AcquirePointerLock(p) \/ AcquireLogLock(p)
                            \/ Guard(p) \/ ReadBase(p) \/ Plan(p) \/ PublishBody(p) \/ Examine(p)
      PROVE  UNCHANGED <<ptr, log, acked>>
  BY <1>2, <1>4 DEF AcquireActiveLock, AcquireRefLock, AcquirePointerLock, AcquireLogLock,
     Guard, ReadBase, Plan, PublishBody, Examine, storeVars
<1>5. ASSUME NEW p \in Proc, CutPointerTail(p) \/ CutLogTail(p) \/ Interrupt(p)
      PROVE  UNCHANGED <<ptr, log, acked>>
  BY <1>5 DEF CutPointerTail, CutLogTail, Interrupt
<1>6. ASSUME NEW p \in Proc, AppendPointer(p)
      PROVE  UNCHANGED <<log, acked>>
  BY <1>6 DEF AppendPointer
<1>7. ASSUME NEW p \in Proc, AppendLog(p)
      PROVE  UNCHANGED <<ptr, acked>>
  BY <1>7 DEF AppendLog
<1>8. ASSUME NEW p \in Proc, Report(p)
      PROVE  UNCHANGED <<ptr, log>>
  BY <1>8 DEF Report, storeVars
<1> QED
  BY <1>1, <1>3, <1>4, <1>5, <1>6, <1>7, <1>8 DEF Next, ProcessStep

\* A ref's log has a length, which is zero exactly when it is empty.
LEMMA LogLength ==
  ASSUME StoreType, NEW r \in Ref
  PROVE  Len(log[r]) \in Nat /\ (log[r] = <<>> <=> Len(log[r]) = 0)
<1> DEFINE Record == [state : RefState, key : Key]
<1>1. log[r] \in Seq(Record)
  BY Zenon DEF StoreType
<1> HIDE DEF Record
<1> QED BY <1>1

\* What the two appends do to a ref's log tip.
LEMMA LogTipAfterAppend ==
    ASSUME StoreType, NEW p \in Proc, Prepared(cmd[p]), AppendLog(p)
    PROVE  /\ cmd[p].ref \in Ref
           /\ LogTipOf(log'[cmd[p].ref]) = cmd[p].state
           /\ \A r \in Ref \ {cmd[p].ref} : log'[r] = log[r]
           /\ Len(log'[cmd[p].ref]) = Len(log[cmd[p].ref]) + 1
           /\ log'[cmd[p].ref][Len(log[cmd[p].ref]) + 1].state = cmd[p].state
           /\ \A i \in 1 .. Len(log[cmd[p].ref]) : log'[cmd[p].ref][i] = log[cmd[p].ref][i]
<1> DEFINE r == cmd[p].ref
           rec == [state |-> cmd[p].state, key |-> cmd[p].key]
           Rec == [state : RefState, key : Key]
<1>2. r \in Ref /\ rec \in Rec /\ rec.state = cmd[p].state
  BY SMTT(20) DEF Prepared, Publication
<1>3. log \in [Ref -> Seq(Rec)] /\ log' = [log EXCEPT ![r] = Append(@, rec)]
  BY Zenon DEF AppendLog, StoreType
<1>4. /\ log'[r] = Append(log[r], rec) /\ log[r] \in Seq(Rec)
      /\ \A q \in Ref \ {r} : log'[q] = log[q]
  <2> HIDE DEF r, rec, Rec
  <2> QED BY <1>2, <1>3
<1>5. /\ Len(log'[r]) = Len(log[r]) + 1
      /\ log'[r][Len(log[r]) + 1] = rec
      /\ \A i \in 1 .. Len(log[r]) : log'[r][i] = log[r][i]
      /\ Len(log[r]) \in Nat /\ log'[r] # <<>>
  <2> HIDE DEF r, rec, Rec
  <2> QED BY <1>2, <1>4
<1>6. LogTipOf(log'[r]) = cmd[p].state
  BY <1>2, <1>5, Zenon DEF LogTipOf
<1> QED BY <1>2, <1>4, <1>5, <1>6, Zenon

(***************************************************************************)
(* What a command decided under its locks holds until it acts on it.       *)
(***************************************************************************)
\* publish_body goes on to an append only where the append is right.
LEMMA PublishBodyDecides ==
    ASSUME StoreType, NEW p \in Proc, p \in DOMAIN pc, Prepared(cmd[p]), PublishBody(p), ~Refuse(p)
    PROVE  /\ StillDecided(p)'
           /\ pc'[p] \in {"append_log", "published"} => ptr[cmd[p].ref] = cmd[p].state
<1> DEFINE c == cmd[p]
           class == Classify(c.ref, c.base, c.state, c.key)
<1>1. /\ Admits(c) /\ cmd' = cmd /\ UNCHANGED <<ptr, log>>
      /\ pc'[p] = NextAppend(class)
  BY DEF PublishBody, Goto
<1>2. c.ref \in Ref
  BY Zenon DEF Prepared, Publication
<1>3. CASE class = "ready"
  <2>1. pc'[p] = "append_pointer"
    BY <1>1, <1>3 DEF NextAppend
  <2>2. ptr[c.ref] = c.base /\ LogTip(c.ref) = c.base
    BY <1>3, Zenon DEF Classify
  <2>3. c.base = NoState => ~NameCollision(c.ref)
    BY <1>1 DEF Admits
  <2> QED BY <1>1, <2>1, <2>2, <2>3 DEF StillDecided, LogTip, NameCollision
<1>4. CASE class = "pointer_leading"
  <2>1. pc'[p] = "append_log"
    BY <1>1, <1>4 DEF NextAppend
  <2>2. ptr[c.ref] = c.state /\ LogTip(c.ref) = c.base
    BY <1>4, Zenon DEF Classify
  <2> QED BY <1>1, <2>1, <2>2 DEF StillDecided, LogTip
<1>5. CASE class = "complete"
  <2>1. pc'[p] = "published"
    BY <1>1, <1>5 DEF NextAppend
  <2>2. ExactLast(c.ref, c.state, c.key) /\ ptr[c.ref] = c.state
    BY <1>5 DEF Classify
  <2>3. \E i \in 1 .. Len(log[c.ref]) : log[c.ref][i].state = c.state
    <3>1. log[c.ref] \in Seq([state : RefState, key : Key]) /\ log[c.ref] # <<>>
      BY <1>2, <2>2, ZenonT(20) DEF ExactLast, StoreType
    <3>2. Len(log[c.ref]) \in 1 .. Len(log[c.ref])
      BY <3>1
    <3>3. log[c.ref][Len(log[c.ref])].state = c.state
      BY <2>2 DEF ExactLast
    <3> QED BY <3>2, <3>3, SMTT(20)
  <2> QED BY <1>1, <2>1, <2>2, <2>3 DEF StillDecided, Logged
<1>6. class \in {"ready", "pointer_leading", "complete"}
  BY <1>1, Zenon DEF Admits, Classify
<1> HIDE DEF class
<1> QED BY <1>3, <1>4, <1>5, <1>6

\* The pointer append leaves the log append to be done.
LEMMA AppendPointerDecides ==
    ASSUME StoreType, NEW p \in Proc, p \in DOMAIN pc, Prepared(cmd[p]), StillDecided(p),
           AppendPointer(p)
    PROVE  StillDecided(p)'
<1>1. cmd[p].ref \in Ref
  BY ZenonT(20) DEF Prepared, Publication
<1>2. LogTip(cmd[p].ref) = cmd[p].base
  BY DEF AppendPointer, StillDecided
<1>3. /\ cmd' = cmd /\ log' = log /\ pc'[p] = "append_log"
      /\ ptr'[cmd[p].ref] = cmd[p].state
  BY <1>1 DEF AppendPointer, Goto, StoreType
<1> QED BY <1>2, <1>3 DEF StillDecided, LogTip

\* No step of another command undoes what publish_body or repair-tails decided.
LEMMA DecisionStep == TypeInv /\ LockInv /\ DecisionInv /\ [Next]_vars => DecisionInv'
<1> SUFFICES ASSUME TypeInv, LockInv, DecisionInv, [Next]_vars PROVE DecisionInv'
  BY Zenon
<1>1. CASE Unlock \/ UNCHANGED vars
  <2>1. UNCHANGED <<ptr, log, logTail, pc, cmd>>
    BY <1>1 DEF Unlock, vars, storeVars
  <2> QED BY <2>1 DEF DecisionInv, StillDecided, LogTip, NameCollision, Leads, Logged
<1>2. ASSUME NEW p \in Proc, StepOf(p), StillDecided(p)'
      PROVE  DecisionInv'
  <2> SUFFICES ASSUME NEW q \in Proc, q # p PROVE StillDecided(q)'
    BY <1>2, Zenon DEF DecisionInv
  <2>1. /\ pc'[q] = pc[q] /\ cmd'[q] = cmd[q]
        /\ pc[p] \notin Critical => UNCHANGED <<ptr, log, logTail>>
    BY <1>2, OnlyCriticalWrites
  <2>2. CASE pc[q] \notin Critical
    BY <2>1, <2>2, ZenonT(20) DEF StillDecided, Critical
  <2>3. CASE pc[q] \in Critical
    <3>1. UNCHANGED <<ptr, log, logTail>>
      BY <2>1, <2>3, Exclusive
    <3>2. StillDecided(q)
      BY DEF DecisionInv
    <3>3. \A r \in Ref : /\ LogTip(r)' = LogTip(r) /\ NameCollision(r)' = NameCollision(r)
                         /\ Leads(r)' = Leads(r)
      BY <3>1 DEF LogTip, NameCollision, Leads
    <3>4. LogTip(cmd[q].ref)' = LogTip(cmd[q].ref) /\ NameCollision(cmd[q].ref)' = NameCollision(cmd[q].ref)
      BY <2>1, <3>1 DEF LogTip, NameCollision
    <3>5. Logged(cmd[q].ref, cmd[q].state)' = Logged(cmd[q].ref, cmd[q].state)
      BY <2>1, <3>1 DEF Logged
    <3> QED BY <2>1, <3>1, <3>2, <3>3, <3>4, <3>5 DEF StillDecided
  <2> QED BY <2>2, <2>3
<1>3. ASSUME NEW p \in Proc, pc'[p] \notin {"append_pointer", "append_log", "published",
                                             "cut_pointer", "cut_log"}
      PROVE  StillDecided(p)'
  BY <1>3 DEF StillDecided
<1>4. ASSUME NEW p \in Proc, Refuse(p) \/ StartAny(p) \/ Report(p) \/ CutLogTail(p) \/ Interrupt(p)
      PROVE  StillDecided(p)'
  <2>1. pc'[p] \in {"idle", "active_lock", "guard", "plan", "pointer_lock"}
    BY <1>4 DEF Refuse, Report, CutLogTail, Interrupt, EndCommand, Goto, StartAny, Start,
       StartRepair, FirstStep, Publisher, TypeInv, SlotType
  <2> QED BY <1>3, <2>1
<1>5. ASSUME NEW p \in Proc, \/ AcquireActiveLock(p) \/ AcquireRefLock(p) \/ AcquireLogLock(p)
                            \/ Guard(p) \/ ReadBase(p) \/ Plan(p)
      PROVE  StillDecided(p)'
  <2>1. CASE Refuse(p)
    BY <1>4, <2>1
  <2>2. CASE ~Refuse(p)
    <3>1. pc'[p] \in {"ref_lock", "pointer_lock", "guard", "examine", "body", "read", "active_lock"}
      BY <1>5, <2>2, Zenon DEF AcquireActiveLock, AfterActiveLock, AcquireRefLock, AcquireLogLock, Guard,
         ReadBase, Plan, Goto, TypeInv, SlotType
    <3> QED BY <1>3, <3>1
  <2> QED BY <2>1, <2>2
<1>6. ASSUME NEW p \in Proc, AcquirePointerLock(p)
      PROVE  StillDecided(p)'
  <2>1. CASE Refuse(p)
    BY <1>4, <2>1
  <2>2. CASE ~Refuse(p)
    <3>1. /\ cmd'[p] = cmd[p]
          /\ pc'[p] = "log_lock" \/ (pc'[p] = "cut_pointer" /\ cmd[p].op = "repair_pointer")
      <4>1. /\ cmd' = cmd
            /\ pc'[p] = IF cmd[p].op = "repair_pointer" THEN "cut_pointer" ELSE "log_lock"
        BY <1>6, <2>2, Zenon DEF AcquirePointerLock, Goto, TypeInv, SlotType
      <4> QED BY <4>1
    <3> QED BY <3>1 DEF StillDecided
  <2> QED BY <2>1, <2>2
<1>7. ASSUME NEW p \in Proc, PublishBody(p)
      PROVE  StillDecided(p)'
  <2>1. CASE Refuse(p)
    BY <1>4, <2>1
  <2>2. CASE ~Refuse(p)
    <3>1. Prepared(cmd[p])
      BY <1>7 DEF PublishBody, TypeInv, SlotType, Slot, CommandAt
    <3> QED BY <1>7, <2>2, <3>1, PublishBodyDecides, Zenon DEF TypeInv, SlotType
  <2> QED BY <2>1, <2>2
<1>8. ASSUME NEW p \in Proc, AppendPointer(p)
      PROVE  StillDecided(p)'
  <2>1. Prepared(cmd[p]) /\ StillDecided(p)
    BY <1>8, SMTT(20) DEF AppendPointer, TypeInv, SlotType, Slot, CommandAt, DecisionInv
  <2> QED BY <1>8, <2>1, AppendPointerDecides, Zenon DEF TypeInv, SlotType
<1>9. ASSUME NEW p \in Proc, AppendLog(p)
      PROVE  StillDecided(p)'
  <2> DEFINE n == Len(log[cmd[p].ref]) + 1
  <2>1. /\ cmd[p].ref \in Ref /\ Len(log'[cmd[p].ref]) = n
        /\ log'[cmd[p].ref][n].state = cmd[p].state
    <3>1. Prepared(cmd[p])
      BY <1>9, ZenonT(20) DEF AppendLog, TypeInv, SlotType, Slot, CommandAt
    <3> QED BY <1>9, <3>1, LogTipAfterAppend, Zenon DEF TypeInv
  <2>2. cmd' = cmd /\ pc'[p] = "published"
    BY <1>9 DEF AppendLog, Goto, TypeInv, SlotType
  <2>3. n \in 1 .. n
    <3>1. Len(log[cmd[p].ref]) \in Nat
      BY <2>1, LogLength, Zenon DEF TypeInv
    <3> QED BY <3>1, SMTT(20)
  <2> QED BY <2>1, <2>2, <2>3, ZenonT(20) DEF StillDecided, Logged
<1>10. ASSUME NEW p \in Proc, Examine(p)
       PROVE  StillDecided(p)'
  <2>1. CASE Refuse(p)
    BY <1>4, <2>1
  <2>2. CASE ~Refuse(p)
    <3>1. /\ MayRepairTails /\ pc'[p] = "cut_pointer"
          /\ UNCHANGED <<ptr, log, logTail>>
      BY <1>10, <2>2 DEF Examine, Goto, storeVars, TypeInv, SlotType
    <3>2. logTail # NoTail => \A r \in Ref : ~Leads(r)
      BY <3>1 DEF MayRepairTails, NoIncompletePublicationExcept
    <3> QED BY <3>1, <3>2 DEF StillDecided, Leads, LogTip
  <2> QED BY <2>1, <2>2
<1>11. ASSUME NEW p \in Proc, CutPointerTail(p)
       PROVE  StillDecided(p)'
  <2>1. CASE EndCommand(p, Free)
    BY <1>3, <2>1, SMTT(20) DEF EndCommand, Goto, TypeInv, SlotType
  <2>2. CASE ~EndCommand(p, Free)
    <3>1. /\ pc[p] = "cut_pointer" /\ cmd[p].op = "repair" /\ pc'[p] = "cut_log" /\ cmd' = cmd
          /\ UNCHANGED <<ptr, log, logTail>>
      BY <1>11, <2>2 DEF CutPointerTail, Goto, TypeInv, SlotType
    <3> QED BY <3>1, Zenon DEF DecisionInv, StillDecided, Leads, LogTip
  <2> QED BY <2>1, <2>2
<1>12. ASSUME NEW p \in Proc, StepOf(p)
       PROVE  StillDecided(p)'
  BY <1>4, <1>5, <1>6, <1>7, <1>8, <1>9, <1>10, <1>11, <1>12 DEF StepOf, ProcessStep
<1> QED BY <1>1, <1>2, <1>12 DEF Next, StepOf

(***************************************************************************)
(* The inductive invariant and the safety theorems.                        *)
(***************************************************************************)
Inv == TypeInv /\ LockInv /\ DecisionInv

\* Every command, wherever it and the others are and whatever was interrupted,
\* holds the locks of its point and acts on decisions that are still true.
THEOREM Invariance == Spec => []Inv
<1>1. Init => Inv
  <2> SUFFICES ASSUME Init PROVE Inv
    OBVIOUS
  <2>1. TypeInv
    BY TypeInit, SMTT(20)
  <2>2. LockInv /\ DecisionInv
    BY Zenon DEF Init, LockInv, HoldsItsLocks, Critical, DecisionInv, StillDecided
  <2> QED BY <2>1, <2>2 DEF Inv
<1>2. Inv /\ [Next]_vars => Inv'
  BY TypeStep, LocksStep, DecisionStep DEF Inv
<1> QED BY <1>1, <1>2, PTL DEF Spec
=============================================================================
