-------------------------- MODULE ActiveSessionOnce -------------------------
(***************************************************************************)
(* No commit is published twice, for every number of slots, branches,      *)
(* keys, commits and crashes, as long as the media lose no record.         *)
(*                                                                         *)
(* Every patch of a ref's history is older than every queued one (Fresh),  *)
(* except while the queue is published and not drained.  Then what says    *)
(* whose queue it is, the owner, the witness or the commits themselves,    *)
(* still says the branch it is published on (SealedOn), so that neither a  *)
(* commit nor a seal of another branch can go on with it.                  *)
(***************************************************************************)
EXTENDS ActiveSessionFound

USE LockAssumption, RefStateAssumption

\* Everything that is published is older than everything that is queued.
Fresh ==
    \A r \in Ref : \A i \in 1 .. Len(HistoryOf(r)) : \A j \in 1 .. Len(wal) :
        HistoryOf(r)[i] < wal[j]

Increasing(s) == \A i, j \in 1 .. Len(s) : i < j => s[i] < s[j]

\* Some queued commit was made on r.
QueuedOn(r) == \E i \in 1 .. Len(wal) : authored[wal[i]] = r

\* The queue is published on r and not yet drained, and everything that says
\* whose queue it is says r.
SealedOn(r) ==
    /\ TipIsQueue(r)
    /\ owner \in {Named(r), Named(TornName), Missing, Invalid}
    /\ Valid(witness) => witness.ref \in {r, TornName}
    /\ ~Valid(witness) => QueuedOn(r)

HistoriesInv ==
    /\ \A r \in Ref : Increasing(HistoryOf(r))
    /\ \A r1, r2 \in Ref : r1 # r2 => Range(HistoryOf(r1)) \cap Range(HistoryOf(r2)) = {}
    /\ \A r \in Ref : \A i \in 1 .. Len(HistoryOf(r)) : HistoryOf(r)[i] <= Len(authored)

Unpublished == Fresh \/ \E r \in Branch : SealedOn(r)

\* The owner of a queue is a branch that a commit, or the witness, names too.
OwnerTells ==
    \A r \in Branch : wal # <<>> /\ owner = Named(r) =>
        QueuedOn(r) \/ (Valid(witness) /\ witness.ref = r)

\* The witness's record is in the queue, or published.
WitnessTells ==
    Valid(witness) /\ wal # <<>> =>
        \/ witness.seq <= Len(wal) /\ wal[witness.seq] = witness.patch
        \/ SealedAndReachableSince(witness)

OnceInv ==
    lost = {} => HistoriesInv /\ Increasing(wal) /\ Unpublished /\ OwnerTells /\ WitnessTells

\* An owner names one branch.
LEMMA NamedOnce ==
    /\ \A r, q : Named(r) = Named(q) => r = q
    /\ \A r : Named(r) # Missing /\ Named(r) # Invalid /\ Named(r).ref = r /\ Named(r).name = "valid"
    /\ \A r \in Branch : r # TornName /\ r \in Ref
BY DEF Named, Missing, Invalid, Branch

\* A queue whose owner is a branch is unpublished, or published on that branch.
LEMMA OwnedAndFresh ==
    ASSUME Unpublished, NEW r \in Branch, owner = Named(r), ~TipIsQueue(r)
    PROVE  Fresh
BY NamedOnce, Zenon DEF Unpublished, SealedOn

\* Two increasing sequences in a row, the second one above the first.
LEMMA IncreasingConcat ==
    ASSUME NEW s \in Seq(Patch), NEW t \in Seq(Patch), Increasing(s), Increasing(t),
           \A i \in 1 .. Len(s) : \A j \in 1 .. Len(t) : s[i] < t[j]
    PROVE  Increasing(s \o t)
<1>1. /\ Len(s \o t) = Len(s) + Len(t) /\ Len(s) \in Nat /\ Len(t) \in Nat
      /\ \A i \in 1 .. Len(s) : (s \o t)[i] = s[i]
      /\ \A i \in 1 .. Len(t) : (s \o t)[Len(s) + i] = t[i]
  OBVIOUS
<1>2. SUFFICES ASSUME NEW i \in 1 .. Len(s) + Len(t), NEW j \in 1 .. Len(s) + Len(t), i < j
               PROVE  (s \o t)[i] < (s \o t)[j]
  BY <1>1 DEF Increasing
<1>3. ASSUME NEW k \in 1 .. Len(s) + Len(t), k > Len(s)
      PROVE  k - Len(s) \in 1 .. Len(t) /\ (s \o t)[k] = t[k - Len(s)]
  <2>1. k - Len(s) \in 1 .. Len(t) /\ k = Len(s) + (k - Len(s))
    BY <1>1, <1>3
  <2> QED BY <1>1, <2>1
<1>4. CASE j <= Len(s)
  <2>1. i \in 1 .. Len(s) /\ j \in 1 .. Len(s)
    BY <1>1, <1>2, <1>4
  <2> QED BY <1>1, <1>2, <2>1, Zenon DEF Increasing
<1>5. CASE i <= Len(s) /\ j > Len(s)
  <2>1. i \in 1 .. Len(s)
    BY <1>1, <1>5
  <2> QED BY <1>1, <1>3, <1>5, <2>1, ZenonT(20)
<1>6. CASE i > Len(s)
  <2>1. j > Len(s) /\ i - Len(s) < j - Len(s)
    BY <1>1, <1>2, <1>6
  <2> QED BY <1>3, <1>6, <2>1, Zenon DEF Increasing
<1> QED BY <1>1, <1>4, <1>5, <1>6

\* seal's pointer append publishes a queue that is younger than every history.
LEMMA SealPublishesOnce ==
    ASSUME BaseInv, OnceInv, lost = {}, UNCHANGED sessionVars, NEW p \in Proc, pc[p] = "append_pointer",
           cmd[p].op = "seal", NEW r \in Branch, r = cmd[p].ref, NEW s, s = cmd[p].state, Swaps(r, s)
    PROVE  HistoriesInv' /\ Unpublished' /\ WitnessTells'
<1>1. /\ wal # <<>> /\ owner = Named(r) /\ BlockOf[s] = wal
      /\ Valid(witness) => witness.ref = r
      /\ ptr[r] \in {cmd[p].base, s} /\ (ptr[r] = cmd[p].base => ~TipIsQueue(r))
  BY Zenon DEF BaseInv, FoundInv, Found, SealFound, PublishPoints
<1>2. /\ r \in Ref /\ s \in RefState /\ Prev[s] = ptr[r] /\ ptr'[r] = s
      /\ \A q \in Ref \ {r} : ptr'[q] = ptr[q]
  BY NamedOnce, Zenon DEF Swaps, BaseInv, StoreType
<1>3. Prev[s] # s
  BY <1>2, ChainGrows, Zenon
<1>4. Fresh
  BY <1>1, <1>2, <1>3, OwnedAndFresh DEF OnceInv
<1>5. /\ wal \in Seq(Patch) /\ Len(wal) \in Nat
      /\ \A q \in Ref : HistoryOf(q) \in Seq(Patch) /\ Len(HistoryOf(q)) \in Nat
  BY ChainAssumption DEF BaseInv, StoreType, SessionTypeOK, HistoryOf
<1>6. History[ptr'[r]] = HistoryOf(r) \o wal
  BY <1>1, <1>2, ChainAssumption, Zenon DEF HistoryOf
<1>7. \A q \in Ref \ {r} : History[ptr'[q]] = HistoryOf(q)
  BY <1>2, Zenon DEF HistoryOf
<1>8. Increasing(HistoryOf(r) \o wal)
  BY <1>2, <1>4, <1>5, IncreasingConcat, ZenonT(20) DEF OnceInv, HistoriesInv, Fresh
<1>9. Range(HistoryOf(r) \o wal) = Range(HistoryOf(r)) \cup Range(wal)
  BY <1>2, <1>5, RangeConcat
<1>10. ASSUME NEW q \in Ref PROVE Range(wal) \cap Range(HistoryOf(q)) = {}
  <2>1. SUFFICES ASSUME NEW x, x \in Range(wal), x \in Range(HistoryOf(q)) PROVE FALSE
    OBVIOUS
  <2>2. PICK j \in 1 .. Len(wal) : wal[j] = x
    BY <1>5, <2>1 DEF Range
  <2>3. PICK i \in 1 .. Len(HistoryOf(q)) : HistoryOf(q)[i] = x
    BY <1>5, <2>1 DEF Range
  <2>4. x < x /\ x \in Nat
    BY <1>4, <1>5, <2>2, <2>3, PatchAssumption, SMTT(20) DEF Fresh
  <2> QED BY <2>4
<1>11. ASSUME NEW i \in 1 .. Len(HistoryOf(r) \o wal) PROVE (HistoryOf(r) \o wal)[i] <= Len(authored)
  <2>1. (HistoryOf(r) \o wal)[i] \in Range(HistoryOf(r)) \cup Range(wal)
    <3>1. i \in DOMAIN (HistoryOf(r) \o wal)
      BY <1>2, <1>5
    <3> QED BY <1>9, <3>1, Zenon DEF Range
  <2>2. ASSUME NEW x \in Range(wal) PROVE x <= Len(authored)
    BY <1>5 DEF Range, BaseInv, NumberInv
  <2>3. ASSUME NEW x \in Range(HistoryOf(r)) PROVE x <= Len(authored)
    BY <1>2, <1>5 DEF Range, OnceInv, HistoriesInv
  <2> QED BY <2>1, <2>2, <2>3
<1>12. HistoriesInv'
  <2>1. \A q \in Ref : Increasing(History[ptr'[q]])
    BY <1>6, <1>7, <1>8, Zenon DEF OnceInv, HistoriesInv
  <2>2. \A q1, q2 \in Ref : q1 # q2 => Range(History[ptr'[q1]]) \cap Range(History[ptr'[q2]]) = {}
    <3>1. \A q1, q2 \in Ref : q1 # q2 => Range(HistoryOf(q1)) \cap Range(HistoryOf(q2)) = {}
      BY DEF OnceInv, HistoriesInv
    <3> SUFFICES ASSUME NEW q1 \in Ref, NEW q2 \in Ref, q1 # q2
                 PROVE  Range(History[ptr'[q1]]) \cap Range(History[ptr'[q2]]) = {}
      OBVIOUS
    <3>2. CASE q1 = r
      BY <1>6, <1>7, <1>9, <1>10, <3>1, <3>2, ZenonT(20)
    <3>3. CASE q2 = r
      BY <1>6, <1>7, <1>9, <1>10, <3>1, <3>3, ZenonT(20)
    <3>4. CASE q1 # r /\ q2 # r
      BY <1>7, <3>1, <3>4, Zenon
    <3> QED BY <3>2, <3>3, <3>4, ZenonT(20)
  <2>3. \A q \in Ref : \A i \in 1 .. Len(History[ptr'[q]]) : History[ptr'[q]][i] <= Len(authored)
    BY <1>6, <1>7, <1>11, ZenonT(20) DEF OnceInv, HistoriesInv
  <2>4. authored' = authored
    BY DEF sessionVars
  <2> QED BY <2>1, <2>2, <2>3, <2>4, Zenon DEF HistoriesInv, HistoryOf
<1>13. SealedOn(r)'
  <2>1. ~Valid(witness) => QueuedOn(r)
    BY <1>1, Zenon DEF OnceInv, OwnerTells
  <2>2. UNCHANGED <<wal, witness, owner, authored>>
    BY Zenon DEF sessionVars
  <2>3. TipIsQueue(r)'
    BY <1>1, <1>2, <2>2 DEF TipIsQueue
  <2> QED BY <1>1, <2>1, <2>2, <2>3, ZenonT(20) DEF SealedOn, QueuedOn
<1>14. WitnessTells'
  <2>1. UNCHANGED <<wal, witness>>
    BY DEF sessionVars
  <2>2. Valid(witness) => witness \in WitnessRecord
    BY DEF BaseInv, SessionTypeOK, Valid, Absent, Damaged
  <2>3. Valid(witness) /\ SealedAndReachableSince(witness) => SealedAndReachableSince(witness)'
    BY <2>1, <2>2, SwapKeepsSealed, Zenon DEF BaseInv
  <2> QED BY <2>1, <2>3, Zenon DEF OnceInv, WitnessTells
<1> QED BY <1>12, <1>13, <1>14, Zenon DEF Unpublished
\* Nothing is claimed of an empty queue.
LEMMA EmptyQueue ==
    ASSUME wal' = <<>>
    PROVE  Increasing(wal)' /\ Unpublished' /\ OwnerTells' /\ WitnessTells'
<1>1. Len(wal') = 0
  OBVIOUS
<1> QED BY <1>1 DEF Increasing, Unpublished, Fresh, OwnerTells, WitnessTells

\* Histories are what they were when no pointer moves.
LEMMA HistoriesKept ==
    ASSUME BaseInv, HistoriesInv, UNCHANGED ptr, Len(authored') \in Nat, Len(authored) <= Len(authored')
    PROVE  HistoriesInv'
<1>1. ASSUME NEW r \in Ref, NEW i \in 1 .. Len(HistoryOf(r)) PROVE HistoryOf(r)[i] <= Len(authored')
  <2>1. HistoryOf(r)[i] \in Nat
    <3>1. HistoryOf(r) \in Seq(Patch)
      BY ChainAssumption DEF BaseInv, StoreType, HistoryOf
    <3> QED BY <3>1, PatchAssumption
  <2>2. HistoryOf(r)[i] <= Len(authored)
    BY DEF HistoriesInv
  <2>3. Len(authored) \in Nat
    BY DEF BaseInv, SessionTypeOK
  <2> QED BY <2>1, <2>2, <2>3
<1> QED BY <1>1, Zenon DEF HistoriesInv, HistoryOf

\* Losing the owner, or a witness that told nothing, misleads nobody.
LEMMA QueueKept ==
    ASSUME Unpublished, OwnerTells, WitnessTells, UNCHANGED <<ptr, wal, authored>>,
           witness' = witness \/ (~Valid(witness) /\ ~Valid(witness)'),
           owner' \in {owner, Missing, Invalid, Named(TornName)}
    PROVE  Unpublished' /\ OwnerTells' /\ WitnessTells'
<1>1. ASSUME NEW r \in Branch, SealedOn(r) PROVE SealedOn(r)'
  BY <1>1, Zenon DEF SealedOn, TipIsQueue, QueuedOn
<1>2. Fresh => Fresh'
  BY Zenon DEF Fresh, HistoryOf
<1>3. Unpublished'
  BY <1>1, <1>2, Zenon DEF Unpublished
<1>4. ASSUME NEW r \in Branch, wal' # <<>>, owner' = Named(r)
      PROVE  QueuedOn(r)' \/ (Valid(witness)' /\ witness'.ref = r)
  <2>1. owner = Named(r)
    BY <1>4, NamedOnce, Zenon
  <2> QED BY <1>4, <2>1, Zenon DEF OwnerTells, QueuedOn
<1>5. WitnessTells'
  BY Zenon DEF WitnessTells, SealedAndReachableSince
<1> QED BY <1>3, <1>4, <1>5 DEF OwnerTells

\* A witness over the whole queue, for the owner's branch, agrees with both.
LEMMA WitnessRewritten ==
    ASSUME BaseInv, Unpublished, wal # <<>>, UNCHANGED <<ptr, wal, authored, owner>>,
           NEW r \in Ref, owner = Named(r), NEW run, NEW covered, witness' = WitnessOver(r, run, covered)
    PROVE  Unpublished' /\ OwnerTells' /\ WitnessTells'
<1>1. Valid(witness)' /\ witness'.ref = r /\ witness'.seq = Len(wal) /\ witness'.patch = Newest
  BY DEF WitnessOver, Valid
<1>2. ASSUME NEW q \in Branch, SealedOn(q) PROVE SealedOn(q)'
  <2>1. r \in {q, TornName}
    BY <1>2, NamedOnce, Zenon DEF SealedOn
  <2> QED BY <1>1, <1>2, <2>1, Zenon DEF SealedOn, TipIsQueue
<1>3. Fresh => Fresh'
  BY Zenon DEF Fresh, HistoryOf
<1>4. Unpublished'
  BY <1>2, <1>3, Zenon DEF Unpublished
<1>5. OwnerTells'
  BY <1>1, NamedOnce, Zenon DEF OwnerTells
<1>6. Len(wal) <= Len(wal)
  BY DEF BaseInv, SessionTypeOK
<1>7. WitnessTells'
  BY <1>1, <1>6, Zenon DEF WitnessTells, Newest
<1> QED BY <1>4, <1>5, <1>7, Zenon

\* commit appends to a queue that is not published anywhere.
LEMMA AppendOnce ==
    ASSUME BaseInv, OnceInv, lost = {}, NEW p \in Proc, AppendWal(p)
    PROVE  Increasing(wal)' /\ Unpublished' /\ OwnerTells' /\ WitnessTells'
<1> DEFINE n == Len(authored)
<1>1. /\ pc[p] = "append_wal" /\ wal' = Append(wal, n + 1) /\ authored' = Append(authored, cmd[p].ref)
      /\ UNCHANGED <<ptr, witness, owner>>
  BY DEF AppendWal, Proceed, storeVars
<1>2. /\ owner = Named(cmd[p].ref) /\ ~TipIsQueue(cmd[p].ref)
      /\ wal = <<>> /\ Valid(witness) => SealedAndReachableSince(witness)
  BY <1>1, Zenon DEF BaseInv, FoundInv, Found, CommitFound
<1>3. cmd[p].ref \in Branch
  BY <1>1, Zenon DEF BaseInv, SessionSlots, SessionCommandAt, CommitPoints, CommitCommand
<1>4. Fresh
  BY <1>2, <1>3, OwnedAndFresh, ZenonT(20) DEF OnceInv
<1>5. /\ wal \in Seq(Nat) /\ Len(wal) \in Nat /\ n \in Nat /\ authored \in Seq(Branch)
      /\ \A i \in 1 .. Len(wal) : wal[i] <= n
  BY PatchAssumption DEF BaseInv, SessionTypeOK, NumberInv
<1>6. /\ Len(wal') = Len(wal) + 1 /\ wal'[Len(wal) + 1] = n + 1
      /\ \A i \in 1 .. Len(wal) : wal'[i] = wal[i] /\ i \in 1 .. Len(wal) + 1
      /\ authored'[n + 1] = cmd[p].ref
  BY <1>1, <1>3, <1>5
<1>7. \A i \in 1 .. Len(wal) + 1 : i \in 1 .. Len(wal) \/ i = Len(wal) + 1
  BY <1>5
<1>8. Increasing(wal)'
  <2>1. SUFFICES ASSUME NEW i \in 1 .. Len(wal) + 1, NEW j \in 1 .. Len(wal) + 1, i < j
                 PROVE  wal'[i] < wal'[j]
    BY <1>6 DEF Increasing
  <2>2. i \in 1 .. Len(wal)
    BY <1>5, <2>1
  <2>3. wal[i] \in Nat /\ wal[i] <= n
    BY <1>5, <2>2
  <2>4. CASE j \in 1 .. Len(wal)
    BY <1>6, <2>1, <2>2, <2>4, ZenonT(20) DEF OnceInv, Increasing
  <2>5. CASE j = Len(wal) + 1
    BY <1>5, <1>6, <2>2, <2>3, <2>5
  <2> QED BY <1>7, <2>4, <2>5
<1>9. Fresh'
  <2>1. SUFFICES ASSUME NEW r \in Ref, NEW i \in 1 .. Len(HistoryOf(r)), NEW j \in 1 .. Len(wal) + 1
                 PROVE  HistoryOf(r)[i] < wal'[j]
    BY <1>1, <1>6, ZenonT(20) DEF Fresh, HistoryOf
  <2>2. HistoryOf(r)[i] \in Nat
    BY ChainAssumption, PatchAssumption, SMTT(20) DEF BaseInv, StoreType, HistoryOf
  <2>3. HistoryOf(r)[i] <= n
    BY DEF OnceInv, HistoriesInv
  <2> HIDE DEF n
  <2>4. CASE j \in 1 .. Len(wal)
    BY <1>4, <1>6, <2>4, Zenon DEF Fresh
  <2>5. CASE j = Len(wal) + 1
    BY <1>5, <1>6, <2>2, <2>3, <2>5
  <2> QED BY <1>7, <2>4, <2>5, Zenon
<1>10. OwnerTells'
  <2>1. Len(wal) + 1 \in 1 .. Len(wal) + 1
    BY <1>5
  <2>2. ASSUME NEW r \in Branch, owner' = Named(r) PROVE QueuedOn(r)'
    <3>1. r = cmd[p].ref
      BY <1>1, <1>2, <2>2, NamedOnce, ZenonT(20)
    <3> QED BY <1>6, <2>1, <3>1, Zenon DEF QueuedOn
  <2> QED BY <2>2, Zenon DEF OwnerTells
<1>11. WitnessTells'
  <2>1. SUFFICES ASSUME Valid(witness), ~SealedAndReachableSince(witness)
                 PROVE  witness.seq <= Len(wal') /\ wal'[witness.seq] = witness.patch
    BY <1>1, Zenon DEF WitnessTells, SealedAndReachableSince
  <2>2. witness.seq <= Len(wal) /\ wal[witness.seq] = witness.patch
    BY <1>2, <2>1, ZenonT(20) DEF OnceInv, WitnessTells
  <2>3. witness.seq \in Nat \ {0}
    BY <2>1 DEF BaseInv, SessionTypeOK, WitnessRecord, Valid, Absent, Damaged
  <2>4. witness.seq \in 1 .. Len(wal)
    BY <1>5, <2>2, <2>3
  <2> QED BY <1>5, <1>6, <2>2, <2>3, <2>4
<1> QED BY <1>8, <1>9, <1>10, <1>11 DEF Unpublished

\* doctor's restore writes the branch that the witness or every commit names.
LEMMA RestoreOnce ==
    ASSUME BaseInv, OnceInv, lost = {}, NEW p \in Proc, RestoreOwner(p)
    PROVE  Unpublished' /\ OwnerTells' /\ WitnessTells'
<1>1. /\ pc[p] = "restore_write" /\ owner' = Named(cmd[p].ref)
      /\ UNCHANGED <<ptr, wal, witness, authored>>
  BY DEF RestoreOwner, Finish, storeVars
<1>2. /\ wal # <<>>
      /\ IF Valid(witness) THEN witness.ref = cmd[p].ref ELSE Confirmed(cmd[p].ref)
  BY <1>1, Zenon DEF BaseInv, FoundInv, Found, RepairFound
<1>3. cmd[p].ref \in Branch
  BY <1>1, Zenon DEF BaseInv, SessionSlots, SessionCommandAt, RestoreCommand
<1>4. Fresh => Fresh'
  BY <1>1, Zenon DEF Fresh, HistoryOf
<1>5. ASSUME NEW r \in Branch, SealedOn(r) PROVE SealedOn(r)'
  <2>1. Valid(witness) => r = cmd[p].ref
    BY <1>2, <1>3, <1>5, NamedOnce, Zenon DEF SealedOn
  <2>2. ~Valid(witness) => r = cmd[p].ref
    BY <1>2, <1>5, Zenon DEF SealedOn, QueuedOn, Confirmed
  <2> QED BY <1>1, <1>5, <2>1, <2>2, Zenon DEF SealedOn, TipIsQueue, QueuedOn
<1>6. Unpublished'
  BY <1>4, <1>5, Zenon DEF Unpublished, OnceInv
<1>7. OwnerTells'
  <2>1. ASSUME NEW r \in Branch, owner' = Named(r) PROVE QueuedOn(r)' \/ (Valid(witness)' /\ witness'.ref = r)
    <3>1. r = cmd[p].ref
      BY <1>1, <2>1, NamedOnce, Zenon
    <3>2. 1 \in 1 .. Len(wal)
      BY <1>2 DEF BaseInv, SessionTypeOK
    <3> QED BY <1>1, <1>2, <3>1, <3>2, ZenonT(20) DEF QueuedOn, Confirmed
  <2> QED BY <2>1 DEF OwnerTells
<1>8. WitnessTells'
  BY <1>1, ZenonT(20) DEF OnceInv, WitnessTells, SealedAndReachableSince
<1> QED BY <1>6, <1>7, <1>8, ZenonT(20)
\* Every step of a slot keeps the histories and the queue apart.
LEMMA OnceStepBy ==
    ASSUME BaseInv, OnceInv, lost = {}, NEW p \in Proc, StepBy(p), UNCHANGED ptr
    PROVE  HistoriesInv' /\ Increasing(wal)' /\ Unpublished' /\ OwnerTells' /\ WitnessTells'
<1>1. HistoriesInv /\ Increasing(wal) /\ Unpublished /\ OwnerTells /\ WitnessTells
  BY Zenon DEF OnceInv
<1>2. Found(p) /\ SessionCommandAt(pc[p], cmd[p])
  BY DEF BaseInv, FoundInv, SessionSlots
<1> DEFINE Discards == pc[p] = "discard_rebuild" /\ wal # <<>>
<1>2a. Discards => witness = Damaged
  <2>1. Valid(witness) => witness.seq \in Nat /\ Len(wal) \in Nat
    BY DEF BaseInv, SessionTypeOK, WitnessRecord, Valid, Absent, Damaged
  <2>2. Discards => \/ witness = Damaged
                    \/ Valid(witness) /\ witness.seq > Len(wal) /\ ~SealedAndReachableSince(witness)
    BY <1>2, Zenon DEF Found, RepairFound
  <2>3. Discards /\ Valid(witness) => witness.seq <= Len(wal) \/ SealedAndReachableSince(witness)
    BY <1>1, Zenon DEF WitnessTells
  <2> QED BY <2>1, <2>2, <2>3, SMTT(20)
<1>3. ASSUME UNCHANGED authored PROVE HistoriesInv'
  <2>1. Len(authored) \in Nat /\ Len(authored) <= Len(authored)
    BY DEF BaseInv, SessionTypeOK
  <2> QED BY <1>1, <1>3, <2>1, HistoriesKept, ZenonT(20)
<1>4. ASSUME UNCHANGED <<wal, authored>>,
             witness' = witness \/ (~Valid(witness) /\ ~Valid(witness)'),
             owner' \in {owner, Missing, Invalid, Named(TornName)}
      PROVE  HistoriesInv' /\ Increasing(wal)' /\ Unpublished' /\ OwnerTells' /\ WitnessTells'
  BY <1>1, <1>3, <1>4, QueueKept, Zenon
<1>5. ASSUME wal' = <<>>, UNCHANGED authored
      PROVE  HistoriesInv' /\ Increasing(wal)' /\ Unpublished' /\ OwnerTells' /\ WitnessTells'
  BY <1>3, <1>5, EmptyQueue, Zenon
<1>6. CASE UNCHANGED sessionVars \/ CutDiscarded(p) \/ RepairWal(p) \/ CutWalTail(p)
  <2>1. UNCHANGED <<wal, witness, owner, authored>>
    BY <1>6, Zenon DEF CutDiscarded, RepairWal, CutWalTail, sessionVars
  <2> QED BY <1>4, <2>1, Zenon
<1>7. CASE ClearOwner(p) \/ WriteOwner(p)
  BY <1>2, <1>5, <1>7, Zenon DEF ClearOwner, WriteOwner, Found, CommitFound
<1>8. CASE AppendWal(p)
  <2>1. authored' = Append(authored, cmd[p].ref) /\ cmd[p].ref \in Branch /\ authored \in Seq(Branch)
    BY <1>2, <1>8, ZenonT(20) DEF AppendWal, SessionCommandAt, CommitPoints, CommitCommand, BaseInv, SessionTypeOK
  <2>2. Len(authored') \in Nat /\ Len(authored) <= Len(authored')
    BY <2>1
  <2> QED BY <1>1, <1>8, <2>2, AppendOnce, HistoriesKept, ZenonT(20)
<1>9. CASE WriteWitness(p)
  <2>1. /\ pc[p] = "write_witness" /\ witness' = NextWitness(cmd[p].ref)
        /\ UNCHANGED <<wal, owner, authored>>
    BY <1>9, Zenon DEF WriteWitness
  <2>2. wal # <<>> /\ owner = Named(cmd[p].ref) /\ cmd[p].ref \in Ref
    BY <1>2, <2>1, NamedOnce, ZenonT(20) DEF Found, CommitFound, SessionCommandAt, CommitPoints, CommitCommand
  <2>3. \E run, covered : witness' = WitnessOver(cmd[p].ref, run, covered)
    BY <2>1 DEF NextWitness
  <2>4. Unpublished' /\ OwnerTells' /\ WitnessTells'
    BY <1>1, <2>1, <2>2, <2>3, WitnessRewritten, ZenonT(20)
  <2> QED BY <1>1, <1>3, <2>1, <2>4, ZenonT(20) DEF Increasing
<1>10. CASE CheckSeal(p)
  BY <1>4, <1>10, Zenon DEF CheckSeal, sessionVars
<1>11. CASE DrainWal(p) \/ DrainWitness(p) \/ DrainOwner(p)
  BY <1>2, <1>5, <1>11, ZenonT(20) DEF DrainWal, DrainWitness, DrainOwner, Found, SealFound
<1>12. CASE RebuildDiscarded(p) \/ RebuildWitness(p)
  <2>1. /\ UNCHANGED <<wal, owner, authored>>
        /\ RebuildDiscarded(p) => pc[p] = "discard_rebuild"
    BY <1>12, Zenon DEF RebuildDiscarded, RebuildWitness
  <2>2. CASE wal = <<>>
    BY <1>5, <2>1, <2>2, Zenon
  <2>3. CASE wal # <<>> /\ witness' # witness
    <3>1. witness = Damaged
      BY <1>2a, <1>12, <2>1, <2>3 DEF RebuildWitness
    <3>2. CASE owner.name = "valid"
      <4>1. witness' = WitnessOver(owner.ref, <<>>, 0)
        BY <1>12, <2>3, <3>1, <3>2, ZenonT(20) DEF RebuildDiscarded, RebuildWitness, RebuiltWitness
      <4>2. owner.ref \in Ref /\ owner = Named(owner.ref)
        BY <3>2, OwnerType, Zenon DEF BaseInv
      <4>3. Unpublished' /\ OwnerTells' /\ WitnessTells'
        BY <1>1, <2>1, <2>3, <4>1, <4>2, WitnessRewritten, ZenonT(20)
      <4> QED BY <1>1, <1>3, <2>1, <4>3, Zenon DEF Increasing
    <3>3. CASE owner.name # "valid"
      <4>1. witness' = Absent
        BY <1>2, <1>12, <2>1, <2>3, <3>1, <3>3, ZenonT(20) DEF RebuildWitness, Found, RepairFound
      <4>2. ~Valid(witness) /\ ~Valid(witness)'
        BY <3>1, <4>1, Zenon DEF Valid, Damaged, Absent
      <4> QED BY <1>4, <2>1, <4>2, Zenon
    <3> QED BY <3>2, <3>3, Zenon
  <2> QED BY <1>4, <2>1, <2>2, <2>3, ZenonT(20)
<1>13. CASE RestoreOwner(p)
  <2>1. UNCHANGED <<wal, authored>>
    BY <1>13, Zenon DEF RestoreOwner
  <2> QED BY <1>1, <1>3, <1>13, <2>1, RestoreOnce, ZenonT(20) DEF Increasing
<1>14. CASE InterruptSession(p)
  <2>1. UNCHANGED <<wal, authored>> /\ witness' \in TornWitness(p) /\ owner' \in TornOwner(p)
    BY <1>14, Zenon DEF InterruptSession
  <2>2. owner' \in {owner, Missing, Invalid, Named(TornName)}
    BY <2>1, Zenon DEF TornOwner
  <2>3. CASE witness' = witness
    BY <1>4, <2>1, <2>2, <2>3, ZenonT(20)
  <2>4. CASE witness' # witness /\ pc[p] = "discard_rebuild"
    <3>1. wal # <<>> /\ witness' = Damaged
      BY <2>1, <2>4, Zenon DEF TornWitness
    <3>2. witness = Damaged
      BY <1>2a, <2>4, <3>1
    <3> QED BY <2>4, <3>1, <3>2, Zenon
  <2>5. CASE witness' # witness /\ pc[p] = "write_witness"
    <3>1. witness' = Damaged /\ owner' = owner
      BY <2>1, <2>5, Zenon DEF TornWitness, TornOwner
    <3>2. /\ wal # <<>> /\ owner = Named(cmd[p].ref) /\ authored[Newest] = cmd[p].ref
      BY <1>2, <2>5, Zenon DEF Found, CommitFound
    <3>3. ~Valid(witness)'
      BY <3>1, Zenon DEF Valid, Damaged
    <3>4. Len(wal) \in 1 .. Len(wal)
      BY <3>2 DEF BaseInv, SessionTypeOK
    <3>5. QueuedOn(cmd[p].ref) /\ \A r : QueuedOn(r)' <=> QueuedOn(r)
      BY <2>1, <3>2, <3>4, Zenon DEF QueuedOn, Newest
    <3>6. ASSUME NEW r \in Branch, SealedOn(r) PROVE SealedOn(r)'
      <4>1. cmd[p].ref \in {r, TornName} /\ cmd[p].ref \in Branch
        BY <1>2, <2>5, <3>2, <3>6, NamedOnce, ZenonT(20)
           DEF SealedOn, SessionCommandAt, CommitPoints, CommitCommand
      <4>2. QueuedOn(r)'
        BY <3>5, <4>1, NamedOnce, Zenon
      <4> QED BY <2>1, <3>1, <3>3, <3>6, <4>2, ZenonT(20) DEF SealedOn, TipIsQueue
    <3>7. Fresh => Fresh'
      BY <2>1, Zenon DEF Fresh, HistoryOf
    <3>8. Unpublished'
      BY <1>1, <3>6, <3>7, Zenon DEF Unpublished
    <3>9. ASSUME NEW r \in Branch, owner' = Named(r) PROVE QueuedOn(r)'
      BY <3>1, <3>2, <3>5, <3>9, NamedOnce, ZenonT(20)
    <3>10. OwnerTells' /\ WitnessTells'
      BY <3>3, <3>9, Zenon DEF OwnerTells, WitnessTells
    <3> QED BY <1>1, <1>3, <2>1, <3>8, <3>10, ZenonT(20) DEF Increasing
  <2> QED BY <2>1, <2>3, <2>4, <2>5, ZenonT(20) DEF TornWitness
<1> QED BY <1>6, <1>7, <1>8, <1>9, <1>10, <1>11, <1>12, <1>13, <1>14, WhoWritesSession, ZenonT(20)

\* A new session has published nothing and queued nothing.
LEMMA OnceInit == SessionInit => OnceInv
<1> SUFFICES ASSUME SessionInit PROVE HistoriesInv /\ Increasing(wal) /\ Unpublished /\ OwnerTells /\ WitnessTells
  BY Zenon DEF OnceInv
<1>1. \A r \in Ref : ptr[r] = NoState
  BY DEF SessionInit, Init
<1>2. wal = <<>> /\ Len(wal) = 0
  BY Zenon DEF SessionInit
<1>3. \A r \in Ref : HistoryOf(r) = <<>> /\ Len(HistoryOf(r)) = 0
  BY <1>1, ChainAssumption DEF HistoryOf
<1>4. Range(<<>>) = {}
  BY DEF Range
<1>5. HistoriesInv
  BY <1>3, <1>4 DEF HistoriesInv, Increasing
<1>6. Increasing(wal) /\ Fresh /\ OwnerTells /\ WitnessTells
  BY <1>2 DEF Increasing, Fresh, OwnerTells, WitnessTells
<1> QED BY <1>5, <1>6, Zenon DEF Unpublished

\* No step publishes a patch again, or lets a published queue grow.
LEMMA OnceStep ==
    ASSUME BaseInv, OnceInv, [SessionNext]_allVars
    PROVE  OnceInv'
<1>1. SUFFICES ASSUME lost' = {}
               PROVE  HistoriesInv' /\ Increasing(wal)' /\ Unpublished' /\ OwnerTells' /\ WitnessTells'
  BY Zenon DEF OnceInv
<1>2. ASSUME NEW p \in Proc, StepBy(p)
      PROVE  HistoriesInv' /\ Increasing(wal)' /\ Unpublished' /\ OwnerTells' /\ WitnessTells'
  <2>1. lost = {}
    BY <1>1, <1>2, WhoWritesSession, ZenonT(20)
       DEF ClearOwner, WriteOwner, AppendWal, WriteWitness, CheckSeal, DrainWal, DrainWitness, DrainOwner,
           CutDiscarded, RebuildDiscarded, RestoreOwner, RepairWal, CutWalTail, RebuildWitness,
           InterruptSession, sessionVars
  <2>2. CASE UNCHANGED ptr
    BY <1>2, <2>1, <2>2, OnceStepBy, ZenonT(20)
  <2>3. ASSUME NEW q \in Proc, AppendPointer(q), UNCHANGED sessionVars,
               Swaps(cmd[q].ref, cmd[q].state), cmd[q].op = "seal", cmd[q].ref \in Branch
        PROVE  HistoriesInv' /\ Increasing(wal)' /\ Unpublished' /\ OwnerTells' /\ WitnessTells'
    <3>1. pc[q] = "append_pointer"
      BY <2>3, Zenon DEF AppendPointer
    <3>2. HistoriesInv' /\ Unpublished' /\ WitnessTells'
      BY <2>1, <2>3, <3>1, SealPublishesOnce
    <3>3. Increasing(wal)' /\ OwnerTells'
      BY <2>1, <2>3, Zenon DEF OnceInv, Increasing, OwnerTells, QueuedOn, sessionVars
    <3> QED BY <3>2, <3>3
  <2>4. SessionNext
    BY <1>2 DEF SessionNext, StepBy
  <2> QED BY <2>2, <2>3, <2>4, PointerMoves, ZenonT(20) DEF BaseInv
<1>3. CASE UNCHANGED <<ptr, authored, lost, wal, witness>> /\ owner' \in {owner, Missing}
  <2>1. HistoriesInv /\ Increasing(wal) /\ Unpublished /\ OwnerTells /\ WitnessTells
    BY <1>1, <1>3, Zenon DEF OnceInv
  <2>2. Len(authored) \in Nat /\ Len(authored) <= Len(authored)
    BY DEF BaseInv, SessionTypeOK
  <2>3. HistoriesInv'
    BY <1>3, <2>1, <2>2, HistoriesKept, ZenonT(20)
  <2>4. Unpublished' /\ OwnerTells' /\ WitnessTells'
    BY <1>3, <2>1, QueueKept, ZenonT(20)
  <2> QED BY <1>3, <2>1, <2>3, <2>4, ZenonT(20) DEF Increasing
<1>4. CASE Fault
  <2>1. ~LoseLastRecord
    BY <1>1, Zenon DEF LoseLastRecord
  <2> QED BY <1>3, <1>4, <2>1, Zenon DEF Fault, LoseOwner, vars, storeVars
<1> QED BY <1>2, <1>3, <1>4, ZenonT(20) DEF SessionNext, StepBy, Unlock, allVars, vars, storeVars, sessionVars

\* DC-38: however often seal, its drain and the repairs are cut short and
\* retried, no commit is published twice, on one branch or on two, and every
\* branch has its commits in the order they were made, unless the media lost
\* a record.
THEOREM CommitsPublishedOnce == SessionSpec => []PublishedOnce
<1>1. OnceInv => PublishedOnce
  BY DEF OnceInv, HistoriesInv, PublishedOnce, HistoryOf, Increasing
<1>2. SessionInit => BaseInv /\ OnceInv
  BY BaseInit, OnceInit, Zenon
<1>3. BaseInv /\ OnceInv /\ [SessionNext]_allVars => (BaseInv /\ OnceInv)'
  BY BaseStep, OnceStep
<1> QED BY <1>1, <1>2, <1>3, PTL DEF SessionSpec
=============================================================================
