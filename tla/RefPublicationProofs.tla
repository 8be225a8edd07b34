------------------------ MODULE RefPublicationProofs ------------------------
(***************************************************************************)
(* The safety theorems of RefPublication, for every number of processes,   *)
(* refs, keys, RefStates and crashes.                                      *)
(***************************************************************************)
EXTENDS RefPublicationLocks

USE RefStateAssumption, AnonAssumption

\* At an append, whichever it is, the command carries a RefState with its
\* predecessor and what publish_body decided still holds.
LEMMA AppendsAreDecided ==
    ASSUME Inv, NEW p \in Proc, AppendPointer(p) \/ AppendLog(p) \/ pc[p] = "append_log"
    PROVE  StoreType /\ Prepared(cmd[p]) /\ StillDecided(p)
BY DEF Inv, TypeInv, SlotType, Slot, CommandAt, DecisionInv, AppendPointer, AppendLog

\* A pointer append replaces the predecessor of the RefState it writes.
LEMMA AppendPointerSwaps ==
    ASSUME NEW p \in Proc, Prepared(cmd[p]), StillDecided(p), AppendPointer(p)
    PROVE  /\ cmd[p].ref \in Ref /\ cmd[p].state \in RefState
           /\ ptr' = [ptr EXCEPT ![cmd[p].ref] = cmd[p].state]
           /\ Prev[cmd[p].state] = ptr[cmd[p].ref]
           /\ LogTip(cmd[p].ref) = ptr[cmd[p].ref]
           /\ ptr[cmd[p].ref] = NoState => ~NameCollision(cmd[p].ref)
BY DEF StillDecided, Prepared, Publication, AppendPointer

(***************************************************************************)
(* Publication implements the compare-and-swap register of RefRegister.    *)
(***************************************************************************)
\* The interleaved, crashing, repaired publication behaves as one atomic
\* compare-and-swap per ref, at the pointer append.
THEOREM Refinement == Spec => ImplementsRegister
<1>1. Init => Register!Init
  <2> SUFFICES ASSUME Init PROVE Register!Init
    OBVIOUS
  <2>1. \A r \in Ref : Len(log[r]) = 0 /\ ptr[r] = NoState
    BY DEF Init
  <2>2. \A a \in Ref \X RefState : ~Logged(a[1], a[2]) /\ ptr[a[1]] # a[2]
    <3> SUFFICES ASSUME NEW r \in Ref, NEW s \in RefState PROVE ~Logged(r, s) /\ ptr[r] # s
      OBVIOUS
    <3> QED BY <2>1 DEF Logged
  <2>3. Published = {}
    BY <2>2 DEF Published
  <2> QED BY <2>3 DEF Init, Register!Init
<1>2. Inv /\ [Next]_vars => [Register!Next]_(Register!registerVars)
  <2> SUFFICES ASSUME Inv, [Next]_vars
               PROVE  Register!Next \/ UNCHANGED <<ptr, Published, acked>>
    BY DEF Register!registerVars
  <2>1. CASE UNCHANGED <<ptr, log, acked>>
    BY <2>1 DEF Published, Logged
  <2>2. ASSUME NEW p \in Proc, AppendPointer(p) PROVE Register!Next
    <3> DEFINE r == cmd[p].ref
               s == cmd[p].state
    <3>1. /\ r \in Ref /\ s \in RefState /\ ptr' = [ptr EXCEPT ![r] = s]
          /\ Prev[s] = ptr[r] /\ LogTip(r) = ptr[r]
      BY <2>2, AppendsAreDecided, AppendPointerSwaps, ZenonT(20)
    <3>2. log' = log /\ acked' = acked
      BY <2>2 DEF AppendPointer
    <3>3. Published' = Published \cup {<<r, s>>}
      <4>1. ptr[r] # NoState => Logged(r, ptr[r])
        <5>1. Len(log[r]) \in Nat /\ (log[r] = <<>> <=> Len(log[r]) = 0)
          BY <3>1, LogLength DEF Inv, TypeInv
        <5>2. log[r] # <<>> => Len(log[r]) \in 1 .. Len(log[r])
          <6> DEFINE n == Len(log[r])
          <6>1. n \in Nat /\ (log[r] # <<>> => n # 0)
            BY <5>1
          <6> HIDE DEF n
          <6>2. n # 0 => n \in 1 .. n
            BY <6>1
          <6> QED BY <6>1, <6>2 DEF n
        <5> QED BY <3>1, <5>2, ZenonT(20) DEF LogTip, LogTipOf, Logged
      <4>2. \A q \in Ref, t \in RefState :
               (Logged(q, t) \/ ptr[q] = t)' <=> Logged(q, t) \/ ptr[q] = t \/ (q = r /\ t = s)
        <5>1. ptr'[r] = s /\ \A q \in Ref \ {r} : ptr'[q] = ptr[q]
          BY <3>1, ZenonT(20) DEF Inv, TypeInv, StoreType
        <5>2. \A q \in Ref, t \in RefState : Logged(q, t)' <=> Logged(q, t)
          BY <3>2 DEF Logged
        <5> HIDE DEF r, s
        <5> QED BY <4>1, <5>1, <5>2, ZenonT(20)
      <4>3. ASSUME NEW a \in Ref \X RefState
            PROVE  a \in Published' <=> a \in Published \/ a = <<r, s>>
        <5>1. PICK q \in Ref, t \in RefState : a = <<q, t>>
          OBVIOUS
        <5>2. a[1] = q /\ a[2] = t
          BY <5>1
        <5>3. a = <<r, s>> <=> q = r /\ t = s
          BY <5>1
        <5>4. a \in Published' <=> (Logged(q, t) \/ ptr[q] = t)'
          BY <5>2 DEF Published
        <5>5. a \in Published <=> Logged(q, t) \/ ptr[q] = t
          BY <5>2 DEF Published
        <5> HIDE DEF r, s
        <5> QED BY <4>2, <5>3, <5>4, <5>5
      <4>4. Published \subseteq Ref \X RefState /\ Published' \subseteq Ref \X RefState
        BY DEF Published
      <4>5. <<r, s>> \in Ref \X RefState
        BY <3>1
      <4> HIDE DEF r, s, Published
      <4> QED BY <4>3, <4>4, <4>5
    <3>4. Register!Swap(r, s)
      BY <3>1, <3>2, <3>3, Zenon DEF Register!Swap
    <3> QED BY <3>1, <3>4, ZenonT(20) DEF Register!Next
  <2>3. ASSUME NEW p \in Proc, AppendLog(p) PROVE UNCHANGED <<ptr, Published, acked>>
    <3> DEFINE r == cmd[p].ref
               s == cmd[p].state
               n == Len(log[r])
    <3>1. /\ r \in Ref /\ s \in RefState
          /\ \A q \in Ref \ {r} : log'[q] = log[q]
          /\ Len(log'[r]) = n + 1
          /\ log'[r][n + 1].state = s
          /\ \A i \in 1 .. n : log'[r][i] = log[r][i]
      BY <2>3, AppendsAreDecided, LogTipAfterAppend, ZenonT(20) DEF Prepared
    <3>2. ptr' = ptr /\ acked' = acked /\ ptr[r] = s
      BY <2>3, ZenonT(20) DEF AppendLog, Inv, DecisionInv, StillDecided
    <3>3. n \in Nat
      BY <3>1, LogLength, ZenonT(20) DEF Inv, TypeInv
    <3>4. \A q \in Ref, t \in RefState : Logged(q, t)' <=> Logged(q, t) \/ (q = r /\ t = s)
      <4> HIDE DEF r, s
      <4> SUFFICES ASSUME NEW q \in Ref, NEW t \in RefState
                   PROVE  (\E i \in 1 .. Len(log'[q]) : log'[q][i].state = t)
                             <=> (\E i \in 1 .. Len(log[q]) : log[q][i].state = t)
                                 \/ (q = r /\ t = s)
        BY DEF Logged
      <4>1. CASE q # r
        BY <3>1, <4>1
      <4>2. CASE q = r
        <5>1. \A i : i \in 1 .. n + 1 <=> i \in 1 .. n \/ i = n + 1
          <6> HIDE DEF n
          <6> QED BY <3>3
        <5> QED BY <3>1, <4>2, <5>1, Zenon
      <4> QED BY <4>1, <4>2, ZenonT(20)
    <3>5. Published' = Published
      <4> HIDE DEF r, s
      <4> QED BY <3>1, <3>2, <3>4 DEF Published
    <3> QED BY <3>2, <3>5
  <2>4. ASSUME NEW p \in Proc, Report(p) PROVE Register!Next
    <3> DEFINE r == cmd[p].ref
               s == cmd[p].state
    <3>1. r \in Ref /\ s \in RefState
      BY <2>4, Zenon DEF Report, Inv, TypeInv, SlotType, Slot, CommandAt, Prepared, Publication
    <3>2. Logged(r, s)
      BY <2>4, ZenonT(20) DEF Report, Inv, DecisionInv, StillDecided
    <3>3. ptr' = ptr /\ Published' = Published /\ acked' = acked \cup {<<r, s>>}
      BY <2>4, ZenonT(20) DEF Report, storeVars, Published, Logged
    <3>4. <<r, s>> \in Published
      BY <3>1, <3>2 DEF Published
    <3> QED BY <3>1, <3>3, <3>4, ZenonT(20) DEF Register!Next, Register!Ack
  <2> QED BY <2>1, <2>2, <2>3, <2>4, WhoWrites
<1> QED BY <1>1, <1>2, Invariance, PTL DEF Spec, ImplementsRegister, Register!Spec

(***************************************************************************)
(* What the two appends, the cuts and the interruptions do to the pointer  *)
(* index and the ref log.  These facts depend on the command at its        *)
(* append, and on no other slot, so that the proofs about ActiveSession    *)
(* use them for the same steps of seal and ref complete.                   *)
(***************************************************************************)
\* A torn log record that names its ref belongs to a publication whose pointer
\* is written; if its body has begun, it is the record of that pointer.
TailInv ==
    \A r \in Ref : AttributedTo(logTail) = r =>
        /\ Leads(r)
        /\ logTail.kind = "body" => logTail.state = ptr[r] /\ logTail.key \in Key

\* Only a key holder publishes.
KeyInv == Key = {} => \A r \in Ref : ptr[r] = NoState

StoreInv == PointerLeadsByAtMostOne /\ LogIsAChain /\ NoCaseCollision /\ TailInv /\ KeyInv

\* A new repository has empty containers.
LEMMA StoreInit == Init => StoreInv
<1> SUFFICES ASSUME Init PROVE StoreInv
  OBVIOUS
<1>1. \A r \in Ref : ptr[r] = NoState /\ log[r] = <<>> /\ Len(log[r]) = 0
  BY DEF Init
<1>2. PointerLeadsByAtMostOne /\ LogIsAChain /\ NoCaseCollision /\ KeyInv
  BY <1>1 DEF PointerLeadsByAtMostOne, Leads, LogTip, LogTipOf, LogIsAChain, NoCaseCollision, KeyInv
<1>3. TailInv
  BY DEF Init, TailInv, AttributedTo, NoTail
<1> QED BY <1>2, <1>3 DEF StoreInv

\* The pointer append takes a ref that does not lead to a lead of one.
LEMMA AppendPointerKeepsStore ==
    ASSUME StoreType, StoreInv, NEW p \in Proc, Prepared(cmd[p]), StillDecided(p), AppendPointer(p)
    PROVE  StoreInv'
<1> DEFINE t == cmd[p].ref
           s == cmd[p].state
<1>1. /\ t \in Ref /\ s \in RefState /\ ptr' = [ptr EXCEPT ![t] = s]
      /\ Prev[s] = ptr[t] /\ LogTip(t) = ptr[t]
      /\ ptr[t] = NoState => ~NameCollision(t)
  BY AppendPointerSwaps
<1>2. log' = log /\ logTail' = logTail
  BY DEF AppendPointer
<1>3. cmd[p].key \in Key
  BY DEF Prepared, Publication
<1>4. ptr \in [Ref -> RefState \cup {NoState}]
  BY DEF StoreType
<1> HIDE DEF t, s
<1>5. ptr'[t] = s /\ \A r \in Ref \ {t} : ptr'[r] = ptr[r]
  BY <1>1, <1>4
<1>6. \A r \in Ref : LogTip(r)' = LogTip(r)
  BY <1>2 DEF LogTip
<1>7. PointerLeadsByAtMostOne'
  BY <1>1, <1>5, <1>6 DEF StoreInv, PointerLeadsByAtMostOne, Leads
<1>8. LogIsAChain'
  BY <1>2 DEF StoreInv, LogIsAChain
<1>9. NoCaseCollision'
  <2>1. \A other \in Ref \ {t} : ptr[other] # NoState => Fold[other] # Fold[t]
    <3>1. CASE ptr[t] = NoState
      BY <1>1, <3>1 DEF NameCollision
    <3>2. CASE ptr[t] # NoState
      BY <1>1, <3>2 DEF StoreInv, NoCaseCollision
    <3> QED BY <3>1, <3>2
  <2>2. \A r \in Ref \ {t} : ptr'[r] # NoState => Fold[r] # Fold[t]
    BY <2>1, <1>5
  <2>3. \A r1, r2 \in Ref \ {t} :
           r1 # r2 /\ ptr'[r1] # NoState /\ ptr'[r2] # NoState => Fold[r1] # Fold[r2]
    BY <1>5 DEF StoreInv, NoCaseCollision
  <2> QED BY <2>2, <2>3 DEF NoCaseCollision
<1>10. TailInv'
  <2>1. AttributedTo(logTail) # t
    BY <1>1 DEF StoreInv, TailInv, Leads
  <2> QED BY <1>2, <1>5, <1>6, <2>1 DEF StoreInv, TailInv, Leads
<1>11. KeyInv'
  BY <1>3 DEF KeyInv
<1> QED BY <1>7, <1>8, <1>9, <1>10, <1>11 DEF StoreInv

\* The log append confirms the pointer's RefState behind its predecessor.
LEMMA AppendLogKeepsStore ==
    ASSUME StoreType, StoreInv, NEW p \in Proc, Prepared(cmd[p]), StillDecided(p), AppendLog(p)
    PROVE  StoreInv'
<1> DEFINE r == cmd[p].ref
           n == Len(log[r])
<1>1. /\ r \in Ref
      /\ LogTipOf(log'[r]) = cmd[p].state
      /\ \A q \in Ref \ {r} : log'[q] = log[q]
      /\ Len(log'[r]) = n + 1
      /\ log'[r][n + 1].state = cmd[p].state
      /\ \A i \in 1 .. n : log'[r][i] = log[r][i]
  BY LogTipAfterAppend, Zenon
<1>2. /\ ptr' = ptr /\ logTail' = NoTail
      /\ ptr[r] = cmd[p].state /\ LogTip(r) = cmd[p].base /\ Prev[cmd[p].state] = LogTip(r)
  BY Zenon DEF AppendLog, StillDecided, Prepared
<1>3. n \in Nat /\ (log[r] = <<>> <=> n = 0)
  BY <1>1, LogLength, Zenon
<1>4. PointerLeadsByAtMostOne'
  BY <1>1, <1>2 DEF StoreInv, PointerLeadsByAtMostOne, Leads, LogTip
<1>5. LogIsAChain'
  <2>1. Prev[cmd[p].state] = IF n = 0 THEN NoState ELSE log[r][n].state
    BY <1>2, <1>3 DEF LogTip, LogTipOf
  <2> SUFFICES ASSUME NEW q \in Ref, NEW i \in 1 .. Len(log'[q])
               PROVE  Prev[log'[q][i].state] = IF i = 1 THEN NoState ELSE log'[q][i - 1].state
    BY DEF LogIsAChain
  <2>2. CASE q # r
    <3>1. log'[q] = log[q]
      BY <1>1, <2>2
    <3> QED BY <3>1 DEF StoreInv, LogIsAChain
  <2>3. CASE q = r /\ i = n + 1
    <3>1. n # 0 => log'[r][n] = log[r][n]
      <4>1. n # 0 => n \in 1 .. n
        <5> HIDE DEF n
        <5> QED BY <1>3
      <4> QED BY <1>1, <4>1, Zenon
    <3>2. i - 1 = n /\ (i = 1 <=> n = 0)
      <4> HIDE DEF n
      <4> QED BY <1>3, <2>3
    <3>3. log'[q][i].state = cmd[p].state
      BY <1>1, <2>3, SMTT(20)
    <3> HIDE DEF r, n
    <3> QED BY <2>1, <2>3, <3>1, <3>2, <3>3, Zenon
  <2>4. CASE q = r /\ i # n + 1
    <3>1. i \in 1 .. n
      <4>1. i \in 1 .. n + 1
        BY <1>1, <2>4, Zenon
      <4> HIDE DEF n
      <4> QED BY <1>3, <2>4, <4>1
    <3>2. Prev[log[r][i].state] = IF i = 1 THEN NoState ELSE log[r][i - 1].state
      BY <1>1, <3>1, Zenon DEF StoreInv, LogIsAChain
    <3>3. i # 1 => i - 1 \in 1 .. n
      BY <1>3, <3>1
    <3> QED BY <1>1, <2>4, <3>1, <3>2, <3>3, Zenon
  <2> QED BY <2>2, <2>3, <2>4
<1>6. NoCaseCollision' /\ KeyInv'
  BY <1>2 DEF StoreInv, NoCaseCollision, KeyInv
<1>7. TailInv'
  BY <1>2 DEF TailInv, AttributedTo, NoTail
<1> QED BY <1>4, <1>5, <1>6, <1>7, Zenon DEF StoreInv

\* Cutting a torn log record, or leaving it, changes nothing readers see.
LEMMA TailCutKeepsStore ==
    ASSUME StoreInv, UNCHANGED <<ptr, log>>, logTail' \in {logTail, NoTail}
    PROVE  StoreInv'
<1>1. PointerLeadsByAtMostOne' /\ LogIsAChain' /\ NoCaseCollision' /\ KeyInv'
  BY DEF StoreInv, PointerLeadsByAtMostOne, Leads, LogTip, LogIsAChain, NoCaseCollision, KeyInv
<1>2. TailInv'
  BY DEF StoreInv, TailInv, Leads, LogTip, AttributedTo, NoTail
<1> QED BY <1>1, <1>2 DEF StoreInv

\* An append cut short leaves at most a prefix of the record of its own lead.
LEMMA InterruptKeepsStore ==
    ASSUME StoreInv, NEW p \in Proc, Interrupt(p),
           pc[p] = "append_log" => Prepared(cmd[p]) /\ StillDecided(p)
    PROVE  StoreInv'
<1>1. UNCHANGED <<ptr, log>> /\ logTail' \in TornLog(p)
  BY DEF Interrupt
<1>2. CASE logTail' \in {logTail, NoTail}
  BY <1>1, <1>2, TailCutKeepsStore
<1>3. CASE logTail' = ShortTail
  <2>1. TailInv'
    BY <1>3 DEF TailInv, AttributedTo, ShortTail
  <2> QED BY <1>1, <2>1 DEF StoreInv, PointerLeadsByAtMostOne, Leads, LogTip, LogIsAChain,
           NoCaseCollision, KeyInv
<1>4. CASE pc[p] = "append_log" /\ logTail' \in {HeaderTail(cmd[p].ref),
                                     BodyTail(cmd[p].ref, cmd[p].state, cmd[p].key)}
  <2>1. /\ cmd[p].ref \in Ref /\ cmd[p].key \in Key
        /\ ptr[cmd[p].ref] = cmd[p].state /\ LogTip(cmd[p].ref) # cmd[p].state
    BY <1>4 DEF Prepared, Publication, StillDecided
  <2>2. /\ AttributedTo(logTail') = cmd[p].ref
        /\ logTail'.kind = "body" => logTail'.state = cmd[p].state /\ logTail'.key = cmd[p].key
    BY <1>4 DEF AttributedTo, HeaderTail, BodyTail
  <2>3. TailInv'
    BY <1>1, <2>1, <2>2 DEF TailInv, Leads, LogTip
  <2> QED BY <1>1, <2>3 DEF StoreInv, PointerLeadsByAtMostOne, Leads, LogTip, LogIsAChain,
           NoCaseCollision, KeyInv
<1> QED BY <1>1, <1>2, <1>3, <1>4 DEF TornLog

(***************************************************************************)
(* The safety theorems.                                                    *)
(***************************************************************************)
\* No step of any command, and no crash, breaks what readers rely on.
LEMMA StoreStep == Inv /\ StoreInv /\ [Next]_vars => StoreInv'
<1> SUFFICES ASSUME Inv, StoreInv, [Next]_vars PROVE StoreInv'
  OBVIOUS
<1>1. ASSUME NEW p \in Proc, AppendPointer(p) PROVE StoreInv'
  BY <1>1, AppendsAreDecided, AppendPointerKeepsStore
<1>2. ASSUME NEW p \in Proc, AppendLog(p) PROVE StoreInv'
  BY <1>2, AppendsAreDecided, AppendLogKeepsStore
<1>3. ASSUME NEW p \in Proc, Interrupt(p) PROVE StoreInv'
  BY <1>3, AppendsAreDecided, InterruptKeepsStore
<1>4. CASE UNCHANGED <<ptr, log>> /\ logTail' \in {logTail, NoTail}
  BY <1>4, TailCutKeepsStore
<1>5. ASSUME NEW p \in Proc, Refuse(p) \/ StartAny(p) \/ Report(p)
      PROVE  UNCHANGED <<ptr, log, logTail>>
  BY <1>5 DEF Refuse, StartAny, Start, StartRepair, Report, storeVars
<1>6. ASSUME NEW p \in Proc, \/ AcquireActiveLock(p) \/ AcquireRefLock(p)
                            \/ AcquirePointerLock(p) \/ AcquireLogLock(p)
                            \/ Guard(p) \/ ReadBase(p) \/ Plan(p) \/ Examine(p)
      PROVE  UNCHANGED <<ptr, log, logTail>>
  BY <1>5, <1>6 DEF AcquireActiveLock, AcquireRefLock, AcquirePointerLock, AcquireLogLock,
     Guard, ReadBase, Plan, Examine, storeVars
<1>7. ASSUME NEW p \in Proc, PublishBody(p) \/ CutPointerTail(p) \/ CutLogTail(p)
      PROVE  UNCHANGED <<ptr, log>> /\ logTail' \in {logTail, NoTail}
  BY <1>5, <1>7 DEF PublishBody, CutPointerTail, CutLogTail
<1>8. CASE Unlock \/ UNCHANGED vars
  BY <1>4, <1>8 DEF Unlock, vars, storeVars
<1> QED BY <1>1, <1>2, <1>3, <1>4, <1>5, <1>6, <1>7, <1>8 DEF Next, ProcessStep

\* The containers as every reader sees them are sound in every behaviour.
LEMMA StoreInvariance == Spec => [](Inv /\ StoreInv)
<1>1. Spec => []StoreInv
  BY StoreInit, StoreStep, Invariance, PTL DEF Spec
<1> QED BY <1>1, Invariance, PTL

\* Compare-and-swap holds for every interleaving: no publication is ever lost.
THEOREM CompareAndSwap == Spec => NoLostUpdate
<1>1. Inv /\ [Next]_vars =>
        \A r \in Ref : ptr'[r] # ptr[r] => ptr'[r] # NoState /\ Prev[ptr'[r]] = ptr[r]
  <2> SUFFICES ASSUME Inv, [Next]_vars, NEW r \in Ref, ptr'[r] # ptr[r]
               PROVE  ptr'[r] # NoState /\ Prev[ptr'[r]] = ptr[r]
    OBVIOUS
  <2>1. PICK p \in Proc : AppendPointer(p)
    BY WhoWrites
  <2>2. ptr \in [Ref -> RefState \cup {NoState}]
    BY DEF Inv, TypeInv, StoreType
  <2> QED BY <2>1, <2>2, AppendsAreDecided, AppendPointerSwaps
<1> QED BY <1>1, Invariance, PTL DEF Spec, NoLostUpdate

\* The pointer never gets more than one transition ahead of the log, and the
\* log never ahead of the pointer.
THEOREM PointerLeads == Spec => []PointerLeadsByAtMostOne
BY StoreInvariance, PTL DEF StoreInv

\* Every ref's log is one chain of RefStates from the unborn ref.
THEOREM LogChain == Spec => []LogIsAChain
BY StoreInvariance, PTL DEF StoreInv

\* Names that differ only in case are never both published, although creating
\* the one and creating the other take different ref locks.
THEOREM CaseDistinct == Spec => []NoCaseCollision
BY StoreInvariance, PTL DEF StoreInv

\* What a torn record left by complete_ref_publication or by another command's
\* publish_body shows is always the record of the lead its ref is in.
LEMMA LeadAdmitsCompletion ==
    ASSUME StoreType, StoreInv, ~ptrTail, ~HasDamage, NEW r \in Ref, Leads(r)
    PROVE  Completable(r) /\ \E k \in Key : Admits(Completion(r, k))
<1>1. ptr[r] # NoState /\ Prev[ptr[r]] = LogTip(r) /\ Key # {}
  BY DEF StoreInv, PointerLeadsByAtMostOne, KeyInv
<1>2. r \notin logDamage /\ ~ReportedDamage
  BY DEF HasDamage, ReportedDamage
<1>3. Completable(r)
  BY <1>1, <1>2 DEF Completable
<1>4. ~NameCollision(r)
  BY <1>1 DEF StoreInv, NoCaseCollision, NameCollision
<1>5. ASSUME NEW k \in Key
      PROVE  Classify(r, LogTip(r), ptr[r], k) = "pointer_leading"
  <2>1. ~ExactLast(r, ptr[r], k)
    BY DEF ExactLast, Leads, LogTip, LogTipOf
  <2> QED BY <2>1 DEF Classify, Leads
<1>6. \E k \in Key : MustTruncate(r) => IncompleteTailMatches(logTail, r, ptr[r], k)
  <2>1. CASE ~MustTruncate(r)
    BY <1>1, <2>1
  <2>2. CASE MustTruncate(r) /\ logTail.kind = "body"
    <3>1. logTail.state = ptr[r] /\ logTail.key \in Key /\ logTail.ref = r
      BY <2>2 DEF MustTruncate, StoreInv, TailInv, AttributedTo
    <3>2. logTail \in [kind : {"body"}, ref : Ref, state : RefState, key : Key]
      BY <2>2 DEF StoreType, Tail_, NoTail, ShortTail
    <3>3. logTail = BodyTail(r, ptr[r], logTail.key)
      BY <2>2, <3>1, <3>2 DEF BodyTail
    <3> QED BY <3>1, <3>3 DEF IncompleteTailMatches
  <2>3. CASE MustTruncate(r) /\ logTail.kind # "body"
    <3>1. logTail.kind = "header" /\ logTail.ref = r
      BY <2>3 DEF MustTruncate, AttributedTo
    <3>2. logTail \in [kind : {"header"}, ref : Ref]
      BY <3>1 DEF StoreType, Tail_, NoTail, ShortTail
    <3>3. logTail = HeaderTail(r)
      BY <3>1, <3>2 DEF HeaderTail
    <3> QED BY <1>1, <3>3 DEF IncompleteTailMatches
  <2> QED BY <2>1, <2>2, <2>3
<1>7. PICK k \in Key : MustTruncate(r) => IncompleteTailMatches(logTail, r, ptr[r], k)
  BY <1>6
<1> DEFINE c == Completion(r, k)
<1>8. c.ref = r /\ c.base = LogTip(r) /\ c.state = ptr[r] /\ c.key = k /\ c.op = "complete"
  BY DEF Completion
<1>9. Admits(c)
  <2> HIDE DEF c
  <2> QED BY <1>2, <1>4, <1>5, <1>7, <1>8 DEF Admits, AllowsTailRepair
<1> QED BY <1>3, <1>9

\* Whatever was interrupted, by whichever key, every lead that is left can be
\* finished by some adopted key's `ref complete` (RFC 165).
THEOREM LeadsRecoverable == Spec => []LeadIsRecoverable
<1>1. Inv /\ StoreInv => LeadIsRecoverable
  BY LeadAdmitsCompletion DEF Inv, TypeInv, LeadIsRecoverable
<1> QED BY <1>1, StoreInvariance, PTL

\* A publication reported successful is in its ref's log in every later state.
THEOREM AckedDurable == Spec => []AckedIsLogged
<1>1. Init => AckedIsLogged
  BY DEF Init, AckedIsLogged
<1>2. Inv /\ AckedIsLogged /\ [Next]_vars => AckedIsLogged'
  <2> SUFFICES ASSUME Inv, AckedIsLogged, [Next]_vars PROVE AckedIsLogged'
    OBVIOUS
  <2>1. acked \subseteq Ref \X RefState
    BY DEF Inv, TypeInv, GhostType
  <2>2. CASE UNCHANGED <<acked, log>>
    BY <2>2 DEF AckedIsLogged, Logged
  <2>3. ASSUME NEW p \in Proc, Report(p) PROVE AckedIsLogged'
    <3>1. log' = log /\ acked' = acked \cup {<<cmd[p].ref, cmd[p].state>>}
      BY <2>3, Zenon DEF Report, storeVars
    <3>2. \E i \in 1 .. Len(log[cmd[p].ref]) : log[cmd[p].ref][i].state = cmd[p].state
      BY <2>3, Zenon DEF Report, Inv, DecisionInv, StillDecided, Logged
    <3> SUFFICES ASSUME NEW a \in acked'
                 PROVE  \E i \in 1 .. Len(log[a[1]]) : log[a[1]][i].state = a[2]
      BY <3>1 DEF AckedIsLogged, Logged
    <3>3. CASE a \in acked
      BY <3>3 DEF AckedIsLogged, Logged
    <3>4. CASE a = <<cmd[p].ref, cmd[p].state>>
      <4>1. a[1] = cmd[p].ref /\ a[2] = cmd[p].state
        BY <3>4
      <4> QED BY <3>2, <4>1
    <3> QED BY <3>1, <3>3, <3>4
  <2>4. ASSUME NEW p \in Proc, AppendLog(p) PROVE AckedIsLogged'
    <3> DEFINE r == cmd[p].ref
    <3>1. /\ r \in Ref
          /\ \A q \in Ref \ {r} : log'[q] = log[q]
          /\ Len(log'[r]) = Len(log[r]) + 1
          /\ \A i \in 1 .. Len(log[r]) : log'[r][i] = log[r][i]
      BY <2>4, AppendsAreDecided, LogTipAfterAppend
    <3>2. acked' = acked /\ Len(log[r]) \in Nat
      <4>1. acked' = acked
        BY <2>4 DEF AppendLog
      <4>2. Len(log[r]) \in Nat
        BY <3>1, LogLength DEF Inv, TypeInv
      <4> QED BY <4>1, <4>2, Zenon
    <3> SUFFICES ASSUME NEW a \in acked
                 PROVE  \E i \in 1 .. Len(log'[a[1]]) : log'[a[1]][i].state = a[2]
      BY <3>2 DEF AckedIsLogged, Logged
    <3>3. PICK i \in 1 .. Len(log[a[1]]) : log[a[1]][i].state = a[2]
      BY DEF AckedIsLogged, Logged
    <3>4. a[1] \in Ref
      BY <2>1
    <3>5. CASE a[1] # r
      BY <3>1, <3>3, <3>4, <3>5, SMTT(20)
    <3>6. CASE a[1] = r
      <4>1. i \in 1 .. Len(log'[r]) /\ i \in 1 .. Len(log[r])
        <5> DEFINE n == Len(log[r])
        <5>1. i \in 1 .. n
          BY <3>3, <3>6
        <5>2. n \in Nat /\ Len(log'[r]) = n + 1
          BY <3>1, <3>2
        <5>3. i \in 1 .. n + 1
          <6> HIDE DEF n
          <6> QED BY <5>1, <5>2
        <5> QED BY <5>1, <5>2, <5>3
      <4> QED BY <3>1, <3>3, <3>6, <4>1, ZenonT(20)
    <3> QED BY <3>5, <3>6, ZenonT(20)
  <2> QED BY <2>2, <2>3, <2>4, WhoWrites
<1> QED BY <1>1, <1>2, Invariance, PTL DEF Spec

\* doctor --repair-tails cuts a torn log record only while no ref leads.
THEOREM RepairSafe == Spec => RepairSparesLeads
<1>1. Inv => \A p \in Proc : CutLogTail(p) /\ logTail # NoTail => \A r \in Ref : ~Leads(r)
  BY DEF Inv, DecisionInv, StillDecided, CutLogTail
<1> QED BY <1>1, Invariance, PTL DEF RepairSparesLeads
=============================================================================
