--------------------------- MODULE ActiveSession ---------------------------
(***************************************************************************)
(* The active session: commits queue in the active WAL, the commit witness *)
(* vouches for them, ref-name says which branch they are for, and seal     *)
(* publishes the queue as one Block (module RefPublication) and drains it. *)
(*                                                                         *)
(* The session's three files are written one after the other, so a crash   *)
(* leaves any prefix of a command's writes.  classify reads the three      *)
(* together and decides who may go on; doctor's discard, restore, WAL-tail *)
(* and all-tails repairs are the ways out of what it refuses.              *)
(*                                                                         *)
(* A patch is the number of the commit that made it.  A record's sequence  *)
(* number is its place in the WAL, and a hash chain is the sequence of     *)
(* what it hashed.                                                         *)
(***************************************************************************)
EXTENDS RefPublication, FiniteSets, Functions

CONSTANTS
    Patch,         \* patch ids: 1 .. the number of commits
    BlockOf,       \* patch_ids of the Block every RefState targets
    Chain,         \* every RefState with the ones before it, oldest first
    History,       \* patch_ids of the Blocks of that chain, in order
    TornName,      \* the ref a half-written ref-name file happens to spell
    MaxQueue,      \* active_patch_limit
    MaxFaults      \* bound on media faults

\* previous_ref_state_id leads every RefState back to the unborn ref.
ASSUME ChainAssumption ==
    /\ Chain \in [RefState \cup {NoState} -> Seq(RefState)]
    /\ Chain[NoState] = <<>>
    /\ \A s \in RefState : Chain[s] = Append(Chain[Prev[s]], s)
    /\ History \in [RefState \cup {NoState} -> Seq(Patch)]
    /\ History[NoState] = <<>>
    /\ \A s \in RefState : History[s] = History[Prev[s]] \o BlockOf[s]

ASSUME PatchAssumption ==
    /\ Cardinality(Patch) \in Nat /\ Patch = 1 .. Cardinality(Patch)
    /\ BlockOf \in [RefState -> Seq(Patch)]
    /\ TornName \in Ref
    /\ MaxQueue \in Nat /\ MaxFaults \in Nat

VARIABLES
    wal,           \* the sound records of the active WAL
    walTail,       \* it ends in bytes that are no record
    witness,       \* the commit witness: absent, damaged, or a record
    owner,         \* the ref-name file: a ref, missing, or invalid
    authored,      \* ghost: the branch every patch was committed to
    committed,     \* ghost: commits reported successful
    lost,          \* ghost: patches whose record a media fault destroyed
    discarded,     \* ghost: lost patches the operator has given up
    faults         \* media faults so far

sessionVars == <<wal, walTail, witness, owner, authored, committed, lost, discarded, faults>>
allVars == <<vars, sessionVars>>

Branch == Ref \ {TornName}
Missing == [name |-> "missing"]
Invalid == [name |-> "invalid"]
Named(r) == [name |-> "valid", ref |-> r]
Absent == [kind |-> "absent"]
Damaged == [kind |-> "damaged"]

\* The patch of the WAL's last record.
Newest == wal[Len(wal)]

(***************************************************************************)
(* classification.rs.                                                      *)
(***************************************************************************)
Valid(w) == w.kind = "valid"

IdentityMatches(w) == wal[w.seq] = w.patch

\* Walk back from the ref's current RefState to the tip the witness recorded.
SealedAndReachableSince(w) ==
    LET c == Chain[ptr[w.ref]]
    IN  \E i \in 1 .. Len(c) :
          /\ w.patch \in Range(BlockOf[c[i]])
          /\ \A j \in i .. Len(c) : c[j] # w.tip

\* Mutant: a damaged last record is taken for a torn, unacknowledged one.
WitnessVerdictTrusting(w) ==
    CASE w.seq < Len(wal) -> "Pending"
      [] w.seq = Len(wal) /\ IdentityMatches(w) -> IF walTail THEN "CrashTail" ELSE "Healthy"
      [] walTail -> "CrashTail"
      [] OTHER -> IF SealedAndReachableSince(w) THEN "NoWitness" ELSE "AcknowledgedLoss"

WitnessVerdict(w) ==
    LET s == Len(wal)
        unlessSealed(verdict) == IF SealedAndReachableSince(w) THEN "NoWitness" ELSE verdict
    IN  CASE w.seq < s -> "Pending"
          [] w.seq = s /\ IdentityMatches(w) -> IF walTail THEN "CrashTail" ELSE "Healthy"
          [] w.seq = s /\ ~IdentityMatches(w) -> unlessSealed("SubstitutedRecord")
          [] w.seq = s + 1 /\ walTail -> unlessSealed("AcknowledgedDamage")
          [] OTHER -> unlessSealed("AcknowledgedLoss")

\* The owner does not vouch for the queue, or the witness is another branch's.
OwnershipMissing ==
    \/ wal # <<>> /\ owner.name # "valid"
    \/ owner.name = "valid" /\ Valid(witness) /\ witness.ref # owner.ref

Verdict ==
    CASE OwnershipMissing -> "OwnershipMissing"
      [] ~OwnershipMissing /\ witness = Damaged ->
            IF walTail THEN "UnknownWithDamagedWitness" ELSE "WitnessDamaged"
      [] ~OwnershipMissing /\ witness = Absent -> "NoWitness"
      [] OTHER -> WitnessVerdict(witness)

Discardable == {"AcknowledgedDamage", "AcknowledgedLoss", "UnknownWithDamagedWitness"}

\* write_refusal_reason: the verdicts no command may write over.
Blocking == Discardable \cup {"SubstitutedRecord", "OwnershipMissing"}

(***************************************************************************)
(* Preconditions that read both the refs and the session.                  *)
(***************************************************************************)
TipIsQueue(r) == wal # <<>> /\ ptr[r] # NoState /\ BlockOf[ptr[r]] = wal

\* has_incomplete_active_cleanup: published, and not yet drained.
CleanupPendingExcept(excluded) ==
    \E r \in Ref \ excluded : owner = Named(r) /\ TipIsQueue(r)

EnsureNoIncompletePublication ==
    NoIncompletePublicationExcept({}) /\ ~CleanupPendingExcept({})

EnsureMaySeal(r) == EnsureMayPublish(r) /\ ~CleanupPendingExcept({r})

\* A completion must be proved by the queue when the queue claims its ref.
RetainedQueueAgrees(r) ==
    wal # <<>> /\ owner = Named(r) => ~walTail /\ TipIsQueue(r)

(***************************************************************************)
(* The witness.                                                            *)
(***************************************************************************)
\* fold_running_hash: fold what the previous witness does not cover.
FoldRunningHash(previous, covered, seq) == previous \o SubSeq(wal, covered + 1, seq)

WitnessOver(r, previous, covered) ==
    [kind |-> "valid", ref |-> r, seq |-> Len(wal), patch |-> Newest,
     run |-> FoldRunningHash(previous, covered, Len(wal)), tip |-> ptr[r]]

NextWitness(r) ==
    IF Valid(witness) THEN WitnessOver(r, witness.run, witness.seq) ELSE WitnessOver(r, <<>>, 0)

RebuiltWitness(r) == IF wal = <<>> THEN Absent ELSE WitnessOver(r, <<>>, 0)

SessionInit ==
    /\ Init
    /\ wal = <<>> /\ walTail = FALSE /\ witness = Absent /\ owner = Missing
    /\ authored = <<>> /\ committed = {} /\ lost = {} /\ discarded = {} /\ faults = 0

(***************************************************************************)
(* Steps that write one of the session's files and go on.                  *)
(***************************************************************************)
Proceed(p, next) ==
    Goto(p, next) /\ UNCHANGED <<storeVars, lockVars, cmd, acked, crashes>>

Finish(p) == EndCommand(p, Free) /\ UNCHANGED <<storeVars, acked, crashes>>

RefuseSession(p) == Refuse(p) /\ UNCHANGED sessionVars

BeginSession(p, command, first) ==
    /\ pc[p] = "idle"
    /\ cmd' = [cmd EXCEPT ![p] = command]
    /\ Goto(p, first)
    /\ UNCHANGED <<storeVars, lockVars, acked, crashes, sessionVars>>

AcquireSessionLock(p) ==
    /\ pc[p] = "session_lock"
    /\ \/ /\ activeLock = Free
          /\ activeLock' = p
          /\ Goto(p, cmd[p].op)
          /\ UNCHANGED <<storeVars, refLock, pointerLock, logLock, cmd, acked, crashes, sessionVars>>
       \/ activeLock # Free /\ RefuseSession(p)

(***************************************************************************)
(* commit (node_authoring.rs author_inner): owner, then WAL, then witness. *)
(***************************************************************************)
MayCommit(r) ==
    /\ EnsureNoIncompletePublication
    /\ Verdict \notin Blocking
    /\ ~walTail
    /\ Len(wal) < MaxQueue
    /\ wal # <<>> => owner = Named(r)
    /\ Len(authored) < Cardinality(Patch)   \* there is a change to commit

StartCommit(p, r) == BeginSession(p, [op |-> "commit", ref |-> r], "session_lock")

CheckCommit(p) ==
    /\ pc[p] = "commit"
    /\ \/ /\ MayCommit(cmd[p].ref)
          /\ Proceed(p, CASE wal # <<>> -> "append_wal"
                          [] wal = <<>> /\ owner = Missing -> "write_owner"
                          [] OTHER -> "clear_owner")
          /\ UNCHANGED sessionVars
       \/ ~MayCommit(cmd[p].ref) /\ RefuseSession(p)

\* Debris of a drained queue is removed before the file is written again.
ClearOwner(p) ==
    /\ pc[p] = "clear_owner"
    /\ owner' = Missing
    /\ Proceed(p, "write_owner")
    /\ UNCHANGED <<wal, walTail, witness, authored, committed, lost, discarded, faults>>

WriteOwner(p) ==
    /\ pc[p] = "write_owner"
    /\ owner' = Named(cmd[p].ref)
    /\ Proceed(p, "append_wal")
    /\ UNCHANGED <<wal, walTail, witness, authored, committed, lost, discarded, faults>>

AppendWal(p) ==
    /\ pc[p] = "append_wal"
    /\ wal' = Append(wal, Len(authored) + 1)
    /\ authored' = Append(authored, cmd[p].ref)
    /\ Proceed(p, "write_witness")
    /\ UNCHANGED <<walTail, witness, owner, committed, lost, discarded, faults>>

\* The commit is reported when its witness is durable.
WriteWitness(p) ==
    /\ pc[p] = "write_witness"
    /\ witness' = NextWitness(cmd[p].ref)
    /\ committed' = committed \cup {Newest}
    /\ Finish(p)
    /\ UNCHANGED <<wal, walTail, owner, authored, lost, discarded, faults>>

(***************************************************************************)
(* seal.  ensure_may_publish runs before the active lock; the queue is     *)
(* published by RefPublication's steps and drained when they are done.     *)
(***************************************************************************)
StartSeal(p, r, k) ==
    BeginSession(p, [op |-> "seal", ref |-> r, key |-> k, base |-> NoState, state |-> NoState],
                 "guard_seal")

GuardSeal(p) ==
    /\ pc[p] = "guard_seal"
    /\ \/ EnsureMaySeal(cmd[p].ref) /\ Proceed(p, "session_lock") /\ UNCHANGED sessionVars
       \/ ~EnsureMaySeal(cmd[p].ref) /\ RefuseSession(p)

\* current_ref_state refuses an unborn ref that has a log.
UnbornIsClean(r) ==
    ptr[r] = NoState => log[r] = <<>> /\ r \notin logDamage /\ AttributedTo(logTail) # r

MaySeal(r) ==
    /\ Verdict \notin Blocking
    /\ ~walTail
    /\ wal # <<>> /\ owner = Named(r)
    /\ ~ptrTail
    /\ UnbornIsClean(r)

\* Mutant: the queue is sealed again whatever the tip holds.
SealPlansAnew(r) ==
    {[base |-> ptr[r], state |-> s] : s \in {t \in RefState : Prev[t] = ptr[r] /\ BlockOf[t] = wal}}

\* The queue the ref's tip already holds is retried (DC-38); another queue is
\* sealed into a Block on top of that tip.
SealPlans(r) ==
    IF TipIsQueue(r)
    THEN {[base |-> Prev[ptr[r]], state |-> ptr[r]]}
    ELSE {[base |-> ptr[r], state |-> s] :
             s \in {t \in RefState : Prev[t] = ptr[r] /\ BlockOf[t] = wal}}

CheckSeal(p) ==
    LET r == cmd[p].ref IN
    /\ pc[p] = "seal"
    /\ \/ /\ MaySeal(r)
          /\ \E plan \in SealPlans(r) :
                cmd' = [cmd EXCEPT ![p].base = plan.base, ![p].state = plan.state]
          /\ Goto(p, "ref_lock")
          /\ UNCHANGED <<storeVars, lockVars, acked, crashes, sessionVars>>
       \/ /\ ~MaySeal(r) \/ SealPlans(r) = {}
          /\ Refuse(p)
          \* An empty queue's ref-name is removed before the refusal.
          /\ owner' = IF wal = <<>> /\ Verdict \notin Blocking /\ ~walTail THEN Missing ELSE owner
          /\ UNCHANGED <<wal, walTail, witness, authored, committed, lost, discarded, faults>>

(***************************************************************************)
(* finish_active_publication_cleanup: WAL, witness, ref-name, in this      *)
(* order.  The publication's own locks are dropped before it.              *)
(***************************************************************************)
DrainWal(p) ==
    /\ pc[p] = "published" /\ cmd[p].op = "seal"
    /\ wal' = <<>> /\ walTail' = FALSE
    /\ refLock' = [refLock EXCEPT ![cmd[p].ref] = Free]
    /\ pointerLock' = Free /\ logLock' = Free
    /\ Goto(p, "drain_witness")
    /\ UNCHANGED <<storeVars, activeLock, cmd, acked, crashes, witness, owner, authored,
                   committed, lost, discarded, faults>>

DrainWitness(p) ==
    /\ pc[p] = "drain_witness"
    /\ witness' = Absent
    /\ Proceed(p, "drain_owner")
    /\ UNCHANGED <<wal, walTail, owner, authored, committed, lost, discarded, faults>>

DrainOwner(p) ==
    /\ pc[p] = "drain_owner"
    /\ owner' = Missing
    /\ acked' = acked \cup {<<cmd[p].ref, cmd[p].state>>}
    /\ EndCommand(p, Free)
    /\ UNCHANGED <<storeVars, crashes, wal, walTail, witness, authored, committed, lost,
                   discarded, faults>>

\* ref complete finishes the publication and leaves the queue where it is.
PlanCompletion(p) ==
    /\ pc[p] = "plan"
    /\ IF RetainedQueueAgrees(cmd[p].ref) THEN Plan(p) ELSE Refuse(p)
    /\ UNCHANGED sessionVars

ReportCompletion(p) == cmd[p].op = "complete" /\ Report(p) /\ UNCHANGED sessionVars

(***************************************************************************)
(* doctor's repairs of the session.                                        *)
(***************************************************************************)
\* --discard-damaged-commits: cut the tail, then rebuild the witness.  Without a
\* valid owner run() panics: the unwinding drops its lock and nothing is written.
MayDiscard ==
    /\ EnsureNoIncompletePublication
    /\ Verdict \in Discardable
    /\ owner.name = "valid"

CheckDiscard(p) ==
    /\ pc[p] = "discard"
    /\ \/ MayDiscard /\ Proceed(p, "discard_cut") /\ UNCHANGED sessionVars
       \/ ~MayDiscard /\ RefuseSession(p)

CutDiscarded(p) ==
    /\ pc[p] = "discard_cut"
    /\ walTail' = FALSE
    /\ discarded' = lost
    /\ Proceed(p, "discard_rebuild")
    /\ UNCHANGED <<wal, witness, owner, authored, committed, lost, faults>>

RebuildDiscarded(p) ==
    /\ pc[p] = "discard_rebuild"
    /\ witness' = RebuiltWitness(owner.ref)
    /\ Finish(p)
    /\ UNCHANGED <<wal, walTail, owner, authored, committed, lost, discarded, faults>>

\* --restore-queue-target: the branch a readable witness names.  Without one it
\* must be the current branch or confirmed with --not-current-branch: the
\* operator is taken to confirm only the branch these commits were all made on.
Confirmed(r) == \A i \in 1 .. Len(wal) : authored[wal[i]] = r

MayRestore(r) ==
    /\ EnsureNoIncompletePublication
    /\ Verdict = "OwnershipMissing"
    /\ ~walTail
    /\ wal # <<>>
    /\ IF Valid(witness) THEN witness.ref = r ELSE Confirmed(r)

StartRestore(p, r) == BeginSession(p, [op |-> "restore", ref |-> r], "session_lock")

CheckRestore(p) ==
    /\ pc[p] = "restore"
    /\ \/ MayRestore(cmd[p].ref) /\ Proceed(p, "restore_write") /\ UNCHANGED sessionVars
       \/ ~MayRestore(cmd[p].ref) /\ RefuseSession(p)

RestoreOwner(p) ==
    /\ pc[p] = "restore_write"
    /\ owner' = Named(cmd[p].ref)
    /\ Finish(p)
    /\ UNCHANGED <<wal, walTail, witness, authored, committed, lost, discarded, faults>>

\* --repair-wal-tail decides on a report made before it takes the lock.
CheckRepairWal(p) ==
    /\ pc[p] = "check_repair_wal"
    /\ \/ /\ EnsureNoIncompletePublication /\ Verdict \notin Blocking
          /\ Proceed(p, "session_lock")
          /\ UNCHANGED sessionVars
       \/ ~(EnsureNoIncompletePublication /\ Verdict \notin Blocking) /\ RefuseSession(p)

RepairWal(p) ==
    /\ pc[p] = "repair_wal"
    /\ walTail' = FALSE
    /\ Finish(p)
    /\ UNCHANGED <<wal, witness, owner, authored, committed, lost, discarded, faults>>

\* --repair-tails: every check first, then the WAL, the containers, the witness.
ExamineSession(p) ==
    LET may == Verdict \notin Blocking /\ ~ReportedDamage
               /\ (logTail # NoTail => EnsureNoIncompletePublication)
    IN  /\ pc[p] = "examine"
        /\ \/ may /\ Proceed(p, "cut_wal") /\ UNCHANGED sessionVars
           \/ ~may /\ RefuseSession(p)

\* Mutant: --repair-tails forgets the WAL.
CutWalTailForgotten(p) ==
    pc[p] = "cut_wal" /\ Proceed(p, "cut_pointer") /\ UNCHANGED sessionVars

CutWalTail(p) ==
    /\ pc[p] = "cut_wal"
    /\ walTail' = FALSE
    /\ Proceed(p, "cut_pointer")
    /\ UNCHANGED <<wal, witness, owner, authored, committed, lost, discarded, faults>>

CutLogTailAndGoOn(p) ==
    /\ pc[p] = "cut_log"
    /\ logTail' = NoTail
    /\ Goto(p, "rebuild")
    /\ UNCHANGED <<ptr, ptrTail, log, logDamage, lockVars, cmd, acked, crashes, sessionVars>>

RebuildWitness(p) ==
    /\ pc[p] = "rebuild"
    /\ witness' = CASE witness # Damaged -> witness
                    [] witness = Damaged /\ owner.name = "valid" -> RebuiltWitness(owner.ref)
                    [] OTHER -> Absent
    /\ Finish(p)
    /\ UNCHANGED <<wal, walTail, owner, authored, committed, lost, discarded, faults>>

(***************************************************************************)
(* Crashes inside a write, and media faults on a session nobody holds.     *)
(***************************************************************************)
TornWal(p) == IF pc[p] = "append_wal" THEN {walTail, TRUE} ELSE {walTail}

TornWitness(p) ==
    IF pc[p] = "write_witness" \/ (pc[p] = "discard_rebuild" /\ wal # <<>>)
    THEN {witness, Damaged} ELSE {witness}

TornOwner(p) ==
    IF pc[p] \in {"write_owner", "restore_write"}
    THEN {owner, Missing, Invalid, Named(TornName)} ELSE {owner}

InterruptSession(p) ==
    /\ Interrupt(p)
    /\ walTail' \in TornWal(p)
    /\ witness' \in TornWitness(p)
    /\ owner' \in TornOwner(p)
    /\ UNCHANGED <<wal, authored, committed, lost, discarded, faults>>

\* The last record becomes unreadable, or is gone (a restored backup).
LoseLastRecord ==
    /\ wal # <<>>
    /\ wal' = SubSeq(wal, 1, Len(wal) - 1)
    /\ lost' = lost \cup {Newest}
    /\ walTail' \in {TRUE, walTail}
    /\ UNCHANGED owner

LoseOwner ==
    /\ owner # Missing
    /\ owner' = Missing
    /\ UNCHANGED <<wal, walTail, lost>>

Fault ==
    /\ activeLock = Free
    /\ faults < MaxFaults
    /\ faults' = faults + 1
    /\ LoseLastRecord \/ LoseOwner
    /\ UNCHANGED <<vars, witness, authored, committed, discarded>>

PublicationStep(p) ==
    /\ \/ AcquireActiveLock(p) \/ AcquireRefLock(p) \/ AcquirePointerLock(p)
       \/ AcquireLogLock(p) \/ PublishBody(p) \/ AppendPointer(p) \/ AppendLog(p)
       \/ CutPointerTail(p)
    /\ UNCHANGED sessionVars

SessionStep(p) ==
    \/ AcquireSessionLock(p)
    \/ CheckCommit(p) \/ ClearOwner(p) \/ WriteOwner(p) \/ AppendWal(p) \/ WriteWitness(p)
    \/ GuardSeal(p) \/ CheckSeal(p) \/ DrainWal(p) \/ DrainWitness(p) \/ DrainOwner(p)
    \/ PlanCompletion(p) \/ ReportCompletion(p)
    \/ CheckDiscard(p) \/ CutDiscarded(p) \/ RebuildDiscarded(p)
    \/ CheckRestore(p) \/ RestoreOwner(p)
    \/ CheckRepairWal(p) \/ RepairWal(p)
    \/ ExamineSession(p) \/ CutWalTail(p) \/ CutLogTailAndGoOn(p) \/ RebuildWitness(p)
    \/ PublicationStep(p)

StartSession(p) ==
    \/ \E r \in Branch : StartCommit(p, r) \/ StartRestore(p, r)
    \/ \E r \in Branch, k \in Key : StartSeal(p, r, k)
    \/ \E r \in Branch, k \in Key : Start(p, "complete", r, k) /\ UNCHANGED sessionVars
    \/ BeginSession(p, [op |-> "discard"], "session_lock")
    \/ BeginSession(p, [op |-> "repair_wal"], "check_repair_wal")
    \/ BeginSession(p, [op |-> "repair"], "active_lock")

SessionNext ==
    \/ \E p \in Proc : StartSession(p) \/ SessionStep(p) \/ InterruptSession(p)
    \/ Unlock /\ UNCHANGED sessionVars
    \/ Fault

SessionSpec == SessionInit /\ [][SessionNext]_allVars

-----------------------------------------------------------------------------
(***************************************************************************)
(* Properties.                                                             *)
(***************************************************************************)
WitnessRecord ==
    [kind : {"valid"}, ref : Ref, seq : 1 .. MaxQueue, patch : Patch, run : Seq(Patch),
     tip : RefState \cup {NoState}]

\* Every session file and ghost has its type, and the WAL never outgrows the
\* active patch limit that author_inner checks before it appends.
SessionTypeOK ==
    /\ wal \in Seq(Patch) /\ Len(wal) <= MaxQueue
    /\ walTail \in BOOLEAN
    /\ witness \in WitnessRecord \cup {Absent, Damaged}
    /\ owner \in {Named(r) : r \in Ref} \cup {Missing, Invalid}
    /\ authored \in Seq(Branch)
    /\ committed \subseteq Patch /\ lost \subseteq Patch /\ discarded \subseteq lost
    /\ faults \in 0 .. MaxFaults

\* RFC 166: a commit that was reported successful stays queued until it is in
\* a published Block of the branch it was made on; one that a media fault
\* destroys is never passed over in silence: classify blocks every writer
\* until the operator discards it.  One fault takes one record.  A second one,
\* after a crash that tore the witness, leaves nothing to detect it by.
NoSilentLoss ==
    faults <= 1 => \A x \in committed :
        \/ x \in Range(wal)
        \/ x \in Range(History[ptr[authored[x]]])
        \/ x \in discarded
        \/ x \in lost /\ Verdict \in Blocking

AllIdle == \A p \in Proc : pc[p] = "idle"

\* DC-38: however often seal, its drain and the repairs are cut short and retried,
\* as long as the media lost no record, no commit is published twice, on one
\* branch or on two, and every branch has its commits in the order they were made.
PublishedOnce ==
    lost = {} =>
        /\ \A r \in Ref : LET h == History[ptr[r]] IN
              \A i, j \in 1 .. Len(h) : i < j => h[i] < h[j]
        /\ \A r1, r2 \in Ref :
              r1 # r2 => Range(History[ptr[r1]]) \cap Range(History[ptr[r2]]) = {}

Retry(r, k) ==
    [op |-> "seal", ref |-> r, key |-> k, base |-> Prev[ptr[r]], state |-> ptr[r]]

\* A queue that is published and not drained, and that seal's own checks
\* accept.
Undrained(r) == AllIdle /\ EnsureMaySeal(r) /\ MaySeal(r) /\ TipIsQueue(r)

\* DC-38: seal's retry of a published queue goes through for some adopted key,
\* so the queue can always be drained.
UndrainedIsRetriable ==
    \A r \in Branch : Undrained(r) => \E k \in Key : Admits(Retry(r, k))

(***************************************************************************)
(* Refinement: the session is a queue that is sealed in one step, at the   *)
(* pointer append.  From there to the drain the WAL still holds records    *)
(* the queue no longer has.                                                *)
(***************************************************************************)
Queue ==
    IF wal # <<>> /\ TipIsQueue(authored[wal[1]]) THEN <<>>
    ELSE [i \in 1 .. Len(wal) |-> <<authored[wal[i]], wal[i]>>]

AbstractQueue == INSTANCE CommitQueue
    WITH queue <- Queue, history <- [r \in Ref |-> History[ptr[r]]]

\* Through one crash anywhere, its retry and its repair, on sound media, each
\* commit is published exactly as it was queued: at most once, on its own branch,
\* in commit order and with its whole queue.  A second crash may cost a commit
\* that was not reported its branch; PublishedOnce is what any number leaves.
ImplementsCommitQueue == AbstractQueue!Spec

(***************************************************************************)
(* Fairness for the liveness run: commands make progress, the operator     *)
(* unlocks after a crash, goes on sealing and now and then runs the        *)
(* repairs the refusals name.  Nobody is obliged to commit.                *)
(***************************************************************************)
SessionFairness ==
    /\ WF_allVars(Unlock /\ UNCHANGED sessionVars)
    /\ \A p \in Proc :
          /\ WF_allVars(SessionStep(p))
          /\ \A r \in Branch, k \in Key : SF_allVars(StartSeal(p, r, k))
          /\ SF_allVars(BeginSession(p, [op |-> "repair"], "active_lock"))

FairSessionSpec == SessionSpec /\ SessionFairness

\* Every acknowledged commit is eventually published, unless the ref log is
\* damaged: one crash anywhere strands no commit.
CommitsGetSealed ==
    \A x \in Patch : x \in committed ~>
        HasDamage \/ (x \in committed /\ x \in Range(History[ptr[authored[x]]]))
=============================================================================
