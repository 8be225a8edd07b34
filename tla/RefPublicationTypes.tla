------------------------ MODULE RefPublicationTypes -------------------------
(***************************************************************************)
(* Type correctness of RefPublication, for every number of processes,      *)
(* refs, keys, RefStates and crashes.                                      *)
(***************************************************************************)
EXTENDS RefPublication, TLAPS

USE RefStateAssumption, LockAssumption, AnonAssumption, BoundAssumption

(***************************************************************************)
(* Type correctness, in parts that one step disturbs separately: the two   *)
(* containers, the lock files, and one slot with the command it runs.      *)
(***************************************************************************)
Command == Publication \cup [op : Repairer] \cup {NoCommand}

StoreType ==
    /\ ptr \in [Ref -> RefState \cup {NoState}]
    /\ ptrTail \in BOOLEAN
    /\ log \in [Ref -> Seq([state : RefState, key : Key])]
    /\ logTail \in Tail_
    /\ logDamage \in SUBSET (Ref \cup {Anon})

LockType ==
    /\ activeLock \in Holder /\ pointerLock \in Holder /\ logLock \in Holder
    /\ refLock \in [Ref -> Holder]

Slot(at, c) ==
    /\ at \in PC /\ c \in Command
    /\ at = "idle" <=> c = NoCommand
    /\ CommandAt(at, c)

SlotType ==
    /\ pc \in [Proc -> PC] /\ cmd \in [Proc -> Command]
    /\ \A p \in Proc : Slot(pc[p], cmd[p])

GhostType == acked \in SUBSET (Ref \X RefState) /\ crashes \in 0 .. MaxCrashes

TypeInv == StoreType /\ LockType /\ SlotType /\ GhostType

\* The parts together say what TypeOK and CommandInv say.
LEMMA TypeInvIsTypeOK == TypeInv => TypeOK /\ CommandInv
BY Zenon DEF TypeInv, StoreType, LockType, SlotType, GhostType, Slot, Command, TypeOK, CommandInv

\* Only one slot moves at a time.
LEMMA SlotMoves ==
    ASSUME SlotType, NEW p \in Proc, NEW at, NEW c, Slot(at, c),
           pc' = [pc EXCEPT ![p] = at], cmd' = [cmd EXCEPT ![p] = c]
    PROVE  SlotType'
BY DEF SlotType, Slot

\* The same for a slot that goes on with the command it has.
LEMMA SlotGoesOn ==
    ASSUME SlotType, NEW p \in Proc, NEW at, Slot(at, cmd[p]), Goto(p, at), UNCHANGED cmd
    PROVE  SlotType'
BY DEF SlotType, Slot, Goto

\* A command that ends leaves typed slots and locks: every refusal, report,
\* finished repair and interruption.
LEMMA EndCommandType ==
    ASSUME LockType, SlotType, NEW p \in Proc, NEW left \in {Free, Stale}, EndCommand(p, left)
    PROVE  LockType' /\ SlotType'
<1>1. LockType'
  BY DEF EndCommand, DropLocks, LockType, Holder
<1>2. Slot("idle", NoCommand)
  BY DEF Slot, Command, PC, CommandAt
<1>3. SlotType'
  BY <1>2, SlotMoves, Zenon DEF EndCommand, Goto
<1> QED BY <1>1, <1>3

\* An error return, which drops the guards and writes nothing, keeps types.
LEMMA RefuseType ==
    ASSUME TypeInv, NEW p \in Proc, Refuse(p)
    PROVE  TypeInv'
<1>1. LockType' /\ SlotType'
  BY EndCommandType DEF Refuse, TypeInv
<1>2. StoreType' /\ GhostType'
  BY Zenon DEF Refuse, TypeInv, StoreType, GhostType, storeVars
<1> QED BY <1>1, <1>2 DEF TypeInv

\* A new repository, with no lock file and every slot idle, is typed.
LEMMA TypeInit == Init => TypeInv
<1> SUFFICES ASSUME Init PROVE TypeInv
  OBVIOUS
<1>1. StoreType
  <2>1. log \in [Ref -> Seq([state : RefState, key : Key])]
    <3>1. <<>> \in Seq([state : RefState, key : Key])
      OBVIOUS
    <3> QED BY <3>1 DEF Init
  <2>2. logTail \in Tail_
    BY DEF Init, Tail_
  <2> QED BY <2>1, <2>2, Zenon DEF Init, StoreType
<1>2. LockType /\ GhostType
  BY DEF Init, LockType, GhostType, Holder
<1>3. Slot("idle", NoCommand)
  BY DEF Slot, Command, PC, CommandAt
<1>4. SlotType
  BY <1>3 DEF Init, SlotType, Slot
<1> QED BY <1>1, <1>2, <1>4 DEF TypeInv

\* publish_body goes on to one of the appends, or to the report.
LEMMA AdmittedGoesOn ==
  ASSUME NEW c, Admits(c)
  PROVE  NextAppend(Classify(c.ref, c.base, c.state, c.key))
            \in {"append_pointer", "append_log", "published"}
<1> DEFINE class == Classify(c.ref, c.base, c.state, c.key)
<1>1. class \in {"ready", "pointer_leading", "complete", "diverged"}
  BY DEF Classify
<1>2. class # "diverged"
  BY DEF Admits
<1> HIDE DEF class
<1>3. NextAppend(class) \in {"append_pointer", "append_log", "published"}
  BY <1>1, <1>2 DEF NextAppend
<1> QED BY <1>3 DEF class

\* What the steps of publish_body and their interruptions write to the two
\* containers is typed, whoever takes them.
LEMMA AppendPointerStoreType ==
    ASSUME StoreType, NEW p \in Proc, Prepared(cmd[p]), AppendPointer(p)
    PROVE  StoreType'
BY Zenon DEF StoreType, Prepared, Publication, AppendPointer

\* One record more is a log still, and no tail is left behind it.
LEMMA AppendLogStoreType ==
    ASSUME StoreType, NEW p \in Proc, Prepared(cmd[p]), AppendLog(p)
    PROVE  StoreType'
<1> DEFINE rec == [state |-> cmd[p].state, key |-> cmd[p].key]
           Rec == [state : RefState, key : Key]
<1>1. rec \in Rec /\ cmd[p].ref \in Ref
  BY DEF Prepared, Publication
<1>2. log \in [Ref -> Seq(Rec)] /\ log' = [log EXCEPT ![cmd[p].ref] = Append(@, rec)]
  BY Zenon DEF AppendLog, StoreType
<1>3. log' \in [Ref -> Seq(Rec)]
  <2> HIDE DEF rec, Rec
  <2> QED BY <1>1, <1>2
<1>4. AttributedTo(logTail) \in Ref \cup {Anon}
  <2>1. logTail \in [kind : {"header"}, ref : Ref] => AttributedTo(logTail) \in Ref
    BY DEF AttributedTo
  <2>2. logTail \in [kind : {"body"}, ref : Ref, state : RefState, key : Key]
          => AttributedTo(logTail) \in Ref
    BY DEF AttributedTo
  <2>3. logTail \in {NoTail, ShortTail} => AttributedTo(logTail) = Anon
    BY DEF AttributedTo, NoTail, ShortTail
  <2> QED BY <2>1, <2>2, <2>3 DEF StoreType, Tail_
<1>5. logTail' \in Tail_ /\ logDamage' \in SUBSET (Ref \cup {Anon})
  BY <1>4 DEF AppendLog, StoreType, Tail_
<1>6. UNCHANGED <<ptr, ptrTail>>
  BY DEF AppendLog
<1> QED BY <1>3, <1>5, <1>6, Zenon DEF StoreType

\* A crash leaves at most torn bytes at the end of the container it wrote.
LEMMA InterruptStoreType ==
    ASSUME StoreType, NEW p \in Proc, pc[p] = "append_log" => Prepared(cmd[p]), Interrupt(p)
    PROVE  StoreType'
<1>1. logTail' \in Tail_
  <2>1. CASE pc[p] = "append_log"
    <3>1. cmd[p].ref \in Ref /\ cmd[p].state \in RefState /\ cmd[p].key \in Key
      BY <2>1 DEF Prepared, Publication
    <3>2. {NoTail, ShortTail, HeaderTail(cmd[p].ref),
           BodyTail(cmd[p].ref, cmd[p].state, cmd[p].key)} \subseteq Tail_
      BY <3>1 DEF Tail_, HeaderTail, BodyTail
    <3> QED BY <3>2 DEF Interrupt, TornLog, StoreType
  <2> QED BY <2>1 DEF Interrupt, TornLog, StoreType
<1>2. ptrTail' \in BOOLEAN
  BY Zenon DEF Interrupt, TornPointer, StoreType
<1>3. UNCHANGED <<ptr, log, logDamage>>
  BY DEF Interrupt
<1> QED BY <1>1, <1>2, <1>3, Zenon DEF StoreType

\* Every step of every command, and every crash and unlock, keeps types.
LEMMA TypeStep == TypeInv /\ [Next]_vars => TypeInv'
<1> SUFFICES ASSUME TypeInv, [Next]_vars PROVE TypeInv'
  OBVIOUS
<1> USE DEF TypeInv
<1>1. ASSUME NEW p \in Proc, NEW op \in Publisher \ {"seal"}, NEW r \in Ref, NEW k \in Key,
             Start(p, op, r, k)
      PROVE  TypeInv'
  <2> DEFINE c == [op |-> op, ref |-> r, key |-> k, base |-> NoState, state |-> NoState]
  <2>1. c \in Publication /\ c # NoCommand /\ c.op = op
    BY DEF Publication, Publisher, NoCommand
  <2>2. Slot(FirstStep(op), c)
    <3> HIDE DEF c
    <3> QED BY <2>1 DEF Slot, Command, FirstStep, PC, Publisher, CommandAt
  <2>3. SlotType'
    <3> HIDE DEF c
    <3> QED BY <1>1, <2>2, SlotMoves, Zenon DEF Start, Goto, c
  <2>4. StoreType' /\ LockType' /\ GhostType'
    BY <1>1, Zenon DEF Start, storeVars, lockVars, StoreType, LockType, GhostType
  <2> QED BY <2>3, <2>4
<1>2. ASSUME NEW p \in Proc, NEW op \in Repairer, StartRepair(p, op)
      PROVE  TypeInv'
  <2>1. Slot(IF op = "repair" THEN "active_lock" ELSE "pointer_lock", [op |-> op])
    BY DEF Slot, Command, PC, CommandAt, Repairer, NoCommand
  <2>2. SlotType'
    BY <1>2, <2>1, SlotMoves, Zenon DEF StartRepair, Goto
  <2>3. StoreType' /\ LockType' /\ GhostType'
    BY <1>2, Zenon DEF StartRepair, storeVars, lockVars, StoreType, LockType, GhostType
  <2> QED BY <2>2, <2>3
<1>3. ASSUME NEW p \in Proc, AcquireActiveLock(p)
      PROVE  TypeInv'
  <2>1. CASE activeLock = Free
    <3>1. Slot(AfterActiveLock(cmd[p].op), cmd[p])
      <4>1. Slot("active_lock", cmd[p])
        BY <1>3 DEF AcquireActiveLock, SlotType
      <4>2. CASE cmd[p] \in Publication
        BY <4>1, <4>2 DEF Slot, AfterActiveLock, PC, CommandAt, Publication, Publisher
      <4>3. CASE cmd[p] = [op |-> "repair"]
        BY <4>1, <4>3, SMTT(20) DEF Slot, AfterActiveLock, PC, CommandAt, Repairer
      <4> QED BY <4>1, <4>2, <4>3, Zenon DEF Slot, CommandAt
    <3>2. SlotType'
      BY <1>3, <2>1, <3>1, SlotGoesOn, SMTT(20) DEF AcquireActiveLock, Refuse
    <3>3. LockType' /\ StoreType' /\ GhostType'
      BY <1>3, <2>1, ZenonT(20) DEF AcquireActiveLock, LockType, Holder, StoreType, GhostType, storeVars
    <3> QED BY <3>2, <3>3, SMTT(20)
  <2> QED BY <1>3, <2>1, RefuseType DEF AcquireActiveLock
<1>4. ASSUME NEW p \in Proc, AcquireRefLock(p)
      PROVE  TypeInv'
  <2>1. CASE refLock[cmd[p].ref] = Free
    <3>1. Slot("ref_lock", cmd[p])
      BY <1>4, SMTT(20) DEF AcquireRefLock, SlotType
    <3>2. Slot("pointer_lock", cmd[p])
      BY <3>1, SMTT(20) DEF Slot, PC, CommandAt
    <3>3. SlotType'
      BY <1>4, <2>1, <3>2, SlotGoesOn, SMTT(20) DEF AcquireRefLock
    <3>4. cmd[p].ref \in Ref
      BY <3>1, ZenonT(20) DEF Slot, CommandAt, Prepared, Publication
    <3>5. /\ refLock' = [refLock EXCEPT ![cmd[p].ref] = p]
          /\ UNCHANGED <<storeVars, activeLock, pointerLock, logLock, acked, crashes>>
      BY <1>4, <2>1, Zenon DEF AcquireRefLock
    <3>6. LockType'
      BY <3>4, <3>5 DEF LockType, Holder
    <3>7. StoreType' /\ GhostType'
      BY <3>5, ZenonT(20) DEF StoreType, GhostType, storeVars
    <3> QED BY <3>3, <3>6, <3>7
  <2> QED BY <1>4, <2>1, RefuseType, Zenon DEF AcquireRefLock
<1>5. ASSUME NEW p \in Proc, AcquirePointerLock(p)
      PROVE  TypeInv'
  <2> DEFINE at == IF cmd[p].op = "repair_pointer" THEN "cut_pointer" ELSE "log_lock"
  <2>1. CASE pointerLock = Free
    <3>1. Slot("pointer_lock", cmd[p])
      BY <1>5, SMTT(20) DEF AcquirePointerLock, SlotType
    <3>2. Slot(at, cmd[p])
      <4>1. CASE Prepared(cmd[p])
        BY <3>1, <4>1, ZenonT(20) DEF Slot, PC, CommandAt, Prepared, Publication, Publisher
      <4>2. CASE cmd[p] \in [op : Repairer]
        BY <3>1, <4>2, ZenonT(20) DEF Slot, PC, CommandAt
      <4> QED BY <3>1, <4>1, <4>2, ZenonT(20) DEF Slot, CommandAt
    <3>3. SlotType'
      BY <1>5, <2>1, <3>2, SlotGoesOn, SMTT(20) DEF AcquirePointerLock
    <3>4. LockType' /\ StoreType' /\ GhostType'
      BY <1>5, <2>1, ZenonT(20) DEF AcquirePointerLock, LockType, Holder, StoreType, GhostType, storeVars
    <3> QED BY <3>3, <3>4
  <2> QED BY <1>5, <2>1, RefuseType, Zenon DEF AcquirePointerLock
<1>6. ASSUME NEW p \in Proc, AcquireLogLock(p)
      PROVE  TypeInv'
  <2> DEFINE at == IF cmd[p].op = "repair" THEN "examine" ELSE "body"
  <2>1. CASE logLock = Free
    <3>1. Slot("log_lock", cmd[p])
      BY <1>6, SMTT(20) DEF AcquireLogLock, SlotType
    <3>2. Slot(at, cmd[p])
      <4>1. CASE Prepared(cmd[p])
        BY <3>1, <4>1, ZenonT(20) DEF Slot, PC, CommandAt, Prepared, Publication, Publisher
      <4>2. CASE cmd[p] \in [op : Repairer]
        <5>1. cmd[p] = [op |-> "repair"]
          BY <3>1, <4>2 DEF Slot, CommandAt, Repairer
        <5>2. at = "examine"
          BY <5>1
        <5> QED BY <3>1, <5>1, <5>2, SMTT(20) DEF Slot, PC, CommandAt
      <4> QED BY <3>1, <4>1, <4>2, ZenonT(20) DEF Slot, CommandAt
    <3>3. SlotType'
      BY <1>6, <2>1, <3>2, SlotGoesOn DEF AcquireLogLock
    <3>4. LockType' /\ StoreType' /\ GhostType'
      BY <1>6, <2>1, ZenonT(20) DEF AcquireLogLock, LockType, Holder, StoreType, GhostType, storeVars
    <3> QED BY <3>3, <3>4
  <2> QED BY <1>6, <2>1, RefuseType DEF AcquireLogLock
<1>7. ASSUME NEW p \in Proc, Guard(p)
      PROVE  TypeInv'
  <2>1. CASE EnsureMayPublish(cmd[p].ref)
    <3>1. Slot("read", cmd[p])
      BY <1>7, ZenonT(20) DEF Guard, SlotType, Slot, PC, CommandAt
    <3>2. SlotType'
      BY <1>7, <2>1, <3>1, SlotGoesOn, Zenon DEF Guard
    <3> QED BY <1>7, <2>1, <3>2, ZenonT(20) DEF Guard, storeVars, lockVars, StoreType, LockType, GhostType
  <2> QED BY <1>7, <2>1, RefuseType, Zenon DEF Guard
<1>8. ASSUME NEW p \in Proc, ReadBase(p)
      PROVE  TypeInv'
  <2>1. CASE ~Refuse(p)
    <3>1. PICK s \in RefState :
            /\ Prev[s] = ptr[cmd[p].ref]
            /\ cmd' = [cmd EXCEPT ![p].base = ptr[cmd[p].ref], ![p].state = s]
            /\ Goto(p, "ref_lock")
            /\ UNCHANGED <<storeVars, lockVars, acked, crashes>>
      BY <1>8, <2>1 DEF ReadBase
    <3> DEFINE c == [cmd[p] EXCEPT !.base = ptr[cmd[p].ref], !.state = s]
    <3>2. cmd[p] \in Publication
      BY <1>8 DEF ReadBase, SlotType, Slot, CommandAt
    <3>3. c \in Publication /\ c.state = s /\ c.base = Prev[s] /\ c # NoCommand
      BY <3>1, <3>2, Zenon DEF Publication, NoCommand, StoreType
    <3>4. cmd' = [cmd EXCEPT ![p] = c]
      BY <3>1, <3>2, Zenon DEF SlotType, Publication
    <3>5. Slot("ref_lock", c)
      <4> HIDE DEF c
      <4> QED BY <3>3 DEF Slot, PC, Command, CommandAt, Prepared
    <3>6. SlotType'
      <4> HIDE DEF c
      <4> QED BY <3>1, <3>4, <3>5, SlotMoves, Zenon DEF Goto
    <3> QED BY <3>1, <3>6, Zenon DEF storeVars, lockVars, StoreType, LockType, GhostType
  <2> QED BY <2>1, RefuseType
<1>9. ASSUME NEW p \in Proc, Plan(p)
      PROVE  TypeInv'
  <2> DEFINE r == cmd[p].ref
             c == [cmd[p] EXCEPT !.base = LogTip(r), !.state = ptr[r]]
  <2>1. CASE Completable(r)
    <3>1. cmd[p] \in Publication
      BY <1>9 DEF Plan, SlotType, Slot, CommandAt
    <3>2. ptr[r] \in RefState /\ Prev[ptr[r]] = LogTip(r)
      BY <2>1, <3>1 DEF Completable, Publication, StoreType
    <3>3. c \in Publication /\ c.state = ptr[r] /\ c.base = LogTip(r) /\ c # NoCommand
      BY <3>1, <3>2, Zenon DEF Publication, NoCommand
    <3>4. cmd' = [cmd EXCEPT ![p] = c]
      BY <1>9, <2>1, <3>1, Zenon DEF Plan, SlotType, Publication
    <3>5. Slot("active_lock", c)
      <4> HIDE DEF c
      <4> QED BY <3>2, <3>3 DEF Slot, PC, Command, CommandAt, Prepared
    <3>6. SlotType'
      <4>1. pc' = [pc EXCEPT ![p] = "active_lock"]
        BY <1>9, <2>1 DEF Plan, Goto
      <4> HIDE DEF c
      <4> QED BY <4>1, <3>4, <3>5, SlotMoves, Zenon
    <3> QED BY <1>9, <2>1, <3>6, Zenon DEF Plan, storeVars, lockVars, StoreType, LockType, GhostType
  <2> QED BY <1>9, <2>1, RefuseType DEF Plan
<1>10. ASSUME NEW p \in Proc, PublishBody(p)
       PROVE  TypeInv'
  <2> DEFINE class == Classify(cmd[p].ref, cmd[p].base, cmd[p].state, cmd[p].key)
  <2>1. CASE Admits(cmd[p])
    <3>1. NextAppend(class) \in {"append_pointer", "append_log", "published"}
      BY <2>1, AdmittedGoesOn
    <3>2. Slot(NextAppend(class), cmd[p])
      <4> HIDE DEF class
      <4> QED BY <1>10, <3>1 DEF PublishBody, SlotType, Slot, PC, CommandAt
    <3>3. SlotType'
      <4>1. Goto(p, NextAppend(class)) /\ UNCHANGED cmd
        BY <1>10, <2>1 DEF PublishBody
      <4> HIDE DEF class
      <4> QED BY <4>1, <3>2, SlotGoesOn
    <3>4. logTail' \in Tail_
      BY <1>10, <2>1 DEF PublishBody, StoreType, Tail_
    <3> QED BY <1>10, <2>1, <3>3, <3>4, Zenon DEF PublishBody, lockVars, StoreType, LockType, GhostType
  <2> QED BY <1>10, <2>1, RefuseType DEF PublishBody
<1>11. ASSUME NEW p \in Proc, AppendPointer(p)
       PROVE  TypeInv'
  <2>1. Slot("append_pointer", cmd[p])
    BY <1>11 DEF AppendPointer, SlotType
  <2>2. StoreType'
    BY <1>11, <2>1, AppendPointerStoreType DEF Slot, CommandAt
  <2>3. Slot("append_log", cmd[p])
    BY <2>1 DEF Slot, PC, CommandAt
  <2>4. SlotType'
    BY <1>11, <2>3, SlotGoesOn DEF AppendPointer
  <2> QED BY <1>11, <2>2, <2>4 DEF AppendPointer, lockVars, LockType, GhostType
<1>12. ASSUME NEW p \in Proc, AppendLog(p)
       PROVE  TypeInv'
  <2>1. Slot("append_log", cmd[p])
    BY <1>12 DEF AppendLog, SlotType
  <2>2. StoreType'
    BY <1>12, <2>1, AppendLogStoreType DEF Slot, CommandAt
  <2>3. Slot("published", cmd[p])
    BY <2>1 DEF Slot, PC, CommandAt
  <2>4. SlotType'
    BY <1>12, <2>3, SlotGoesOn DEF AppendLog
  <2> QED BY <1>12, <2>2, <2>4 DEF AppendLog, lockVars, LockType, GhostType
<1>13. ASSUME NEW p \in Proc, Report(p)
       PROVE  TypeInv'
  <2>1. cmd[p].ref \in Ref /\ cmd[p].state \in RefState
    BY <1>13 DEF Report, SlotType, Slot, CommandAt, Prepared, Publication
  <2>2. LockType' /\ SlotType'
    BY <1>13, EndCommandType DEF Report
  <2>3. GhostType'
    BY <1>13, <2>1 DEF Report, GhostType
  <2> QED BY <1>13, <2>2, <2>3, Zenon DEF Report, storeVars, StoreType
<1>14. ASSUME NEW p \in Proc, Examine(p)
       PROVE  TypeInv'
  <2>1. CASE MayRepairTails
    <3>1. Slot("cut_pointer", cmd[p])
      BY <1>14 DEF Examine, SlotType, Slot, PC, CommandAt, Repairer
    <3>2. SlotType'
      BY <1>14, <2>1, <3>1, SlotGoesOn DEF Examine
    <3> QED BY <1>14, <2>1, <3>2, Zenon DEF Examine, storeVars, lockVars, StoreType, LockType, GhostType
  <2> QED BY <1>14, <2>1, RefuseType DEF Examine
<1>15. ASSUME NEW p \in Proc, CutPointerTail(p)
       PROVE  TypeInv'
  <2>1. StoreType' /\ GhostType'
    BY <1>15, Zenon DEF CutPointerTail, StoreType, GhostType
  <2>2. CASE cmd[p].op = "repair"
    <3>1. Slot("cut_log", cmd[p])
      BY <1>15, <2>2 DEF CutPointerTail, SlotType, Slot, PC, CommandAt, Repairer
    <3>2. SlotType'
      BY <1>15, <2>2, <3>1, SlotGoesOn DEF CutPointerTail
    <3> QED BY <1>15, <2>1, <2>2, <3>2 DEF CutPointerTail, lockVars, LockType
  <2>3. CASE EndCommand(p, Free)
    BY <2>1, <2>3, EndCommandType
  <2> QED BY <1>15, <2>2, <2>3 DEF CutPointerTail
<1>16. ASSUME NEW p \in Proc, CutLogTail(p)
       PROVE  TypeInv'
  <2>1. LockType' /\ SlotType'
    BY <1>16, EndCommandType DEF CutLogTail
  <2>2. logTail' \in Tail_
    BY <1>16 DEF CutLogTail, Tail_
  <2> QED BY <1>16, <2>1, <2>2, Zenon DEF CutLogTail, StoreType, GhostType
<1>17. ASSUME NEW p \in Proc, Interrupt(p)
       PROVE  TypeInv'
  <2>1. LockType' /\ SlotType'
    BY <1>17, EndCommandType DEF Interrupt
  <2>2. StoreType'
    <3>1. pc[p] = "append_log" => Prepared(cmd[p])
      BY DEF SlotType, Slot, CommandAt
    <3> QED BY <1>17, <3>1, InterruptStoreType
  <2>3. GhostType'
    BY <1>17 DEF Interrupt, GhostType
  <2> QED BY <2>1, <2>2, <2>3
<1>18. ASSUME Unlock
       PROVE  TypeInv'
  BY <1>18, Zenon DEF Unlock, storeVars, StoreType, LockType, SlotType, GhostType, Holder
<1>19. CASE UNCHANGED vars
  BY <1>19, Zenon DEF vars, storeVars, lockVars, StoreType, LockType, SlotType, GhostType
<1> QED
  BY <1>1, <1>2, <1>3, <1>4, <1>5, <1>6, <1>7, <1>8, <1>9, <1>10, <1>11, <1>12, <1>13, <1>14,
     <1>15, <1>16, <1>17, <1>18, <1>19 DEF Next, StartAny, ProcessStep

\* Typing holds in every behaviour: the slots, locks and containers of any
\* number of processes keep their types, through every crash and repair.
THEOREM TypeCorrect == Spec => []TypeOK
<1>1. Spec => []TypeInv
  BY TypeInit, TypeStep, PTL DEF Spec
<1> QED BY <1>1, TypeInvIsTypeOK, PTL
=============================================================================
