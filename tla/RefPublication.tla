--------------------------- MODULE RefPublication ---------------------------
(***************************************************************************)
(* Publication of ref states: the shared pointer index, the shared ref log *)
(* and the commands that write them.                                       *)
(*                                                                         *)
(* A publication appends a pointer-index entry (the commit point) and then *)
(* a signed RefUpdate to the ref log, under the ref's own lock and the two *)
(* container locks.  A process may die, or an append may fail, between any *)
(* two of these steps and in the middle of an append; what it leaves is    *)
(* finished by `ref complete` (or by seal's retry, module ActiveSession)   *)
(* and cleaned by `doctor --repair-tails`.                                 *)
(*                                                                         *)
(* A RefState is an opaque content-addressed id.  Its one field the        *)
(* protocol reads is previous_ref_state_id (Prev); update_seq is the       *)
(* length of the Prev chain, so comparing it adds nothing once Prev is     *)
(* compared.                                                               *)
(***************************************************************************)
EXTENDS Naturals, Sequences

CONSTANTS
    Proc,        \* command slots: each runs one prikk command at a time
    Ref,         \* ref names
    Key,         \* adopted maintainer keys
    RefState,    \* RefState object ids
    NoState,     \* "no RefState": an unborn ref
    Prev,        \* previous_ref_state_id of every RefState
    Fold,        \* ascii_fold of every ref name
    Free, Stale, \* a lock file that is absent, or left by a dead process
    Anon,        \* a damaged log region no ref name can be read from
    MaxCrashes   \* bound on interrupted commands

ASSUME RefStateAssumption ==
    /\ NoState \notin RefState
    /\ Prev \in [RefState -> RefState \cup {NoState}]
    /\ \A s \in RefState : Prev[s] # s

ASSUME FoldAssumption == Fold \in [Ref -> Ref]

ASSUME LockAssumption == Free \notin Proc /\ Stale \notin Proc /\ Free # Stale

ASSUME AnonAssumption == Anon \notin Ref

ASSUME BoundAssumption == MaxCrashes \in Nat

VARIABLES
    ptr,         \* newest pointer-index entry of every ref
    ptrTail,     \* the pointer index ends in an incomplete entry
    log,         \* every ref's own subsequence of the ref log
    logTail,     \* what the ref log's incomplete last frame shows
    logDamage,   \* refs (or Anon) claimed by unreadable frames inside the log
    activeLock, refLock, pointerLock, logLock,   \* the lock files
    pc,          \* where each command slot is
    cmd,         \* the command it runs
    acked,       \* <<ref, state>> of every publication reported successful
    crashes      \* interrupted commands so far

storeVars == <<ptr, ptrTail, log, logTail, logDamage>>
lockVars == <<activeLock, refLock, pointerLock, logLock>>
vars == <<storeVars, lockVars, pc, cmd, acked, crashes>>

(***************************************************************************)
(* Commands.  create and merge hold the active lock for their whole run;   *)
(* tag and close take no active lock; complete plans before it takes one.  *)
(***************************************************************************)
Publisher == {"create", "merge", "tag", "close", "complete", "seal"}
Repairer == {"repair", "repair_pointer"}

PC == {"idle", "active_lock", "guard", "read", "plan", "ref_lock", "pointer_lock",
       "log_lock", "body", "append_pointer", "append_log", "published",
       "examine", "cut_pointer", "cut_log"}

Publication == [op : Publisher, ref : Ref, key : Key,
                base : RefState \cup {NoState}, state : RefState \cup {NoState}]

NoCommand == [op |-> "none"]

(***************************************************************************)
(* The ref log's incomplete last frame.  Its header is magic, version, ref *)
(* name key, body length, checksum; then comes the signed body.  A "short" *)
(* tail ends before the name key does, a "header" tail names its ref but   *)
(* is a prefix of any signer's record, a "body" tail is a prefix of the    *)
(* one record of its own signer.                                           *)
(***************************************************************************)
NoTail == [kind |-> "none"]
ShortTail == [kind |-> "short"]
HeaderTail(r) == [kind |-> "header", ref |-> r]
BodyTail(r, s, k) == [kind |-> "body", ref |-> r, state |-> s, key |-> k]

Tail_ == {NoTail, ShortTail} \cup [kind : {"header"}, ref : Ref]
         \cup [kind : {"body"}, ref : Ref, state : RefState, key : Key]

AttributedTo(tail) == IF tail.kind \in {"header", "body"} THEN tail.ref ELSE Anon

\* Mutant: a tail whose body has begun is not recognised.
IncompleteTailMatchesHeader(tail, r, s, k) == tail = HeaderTail(r)

IncompleteTailMatches(tail, r, s, k) == tail \in {HeaderTail(r), BodyTail(r, s, k)}

(***************************************************************************)
(* What readers compute from the two containers.                           *)
(***************************************************************************)
LogTipOf(records) ==
    IF records = <<>> THEN NoState ELSE records[Len(records)].state

LogTip(r) == LogTipOf(log[r])

PreviousLogTip(r) ==
    IF Len(log[r]) < 2 THEN NoState ELSE log[r][Len(log[r]) - 1].state

ExactLast(r, s, k) ==
    log[r] # <<>> /\ log[r][Len(log[r])] = [state |-> s, key |-> k]

Leads(r) == ptr[r] # LogTip(r)

\* RefContainerReplay::has_damage, as the precondition sees it.
HasDamage == logDamage # {}

\* ref_log_tail_status reports interior damage only when there is no tail.
ReportedDamage == HasDamage /\ logTail = NoTail

NoIncompletePublicationExcept(excluded) ==
    /\ ~HasDamage
    /\ \A r \in Ref \ excluded : ~Leads(r)

EnsureMayPublish(r) ==
    /\ NoIncompletePublicationExcept({r})
    /\ logTail # NoTail => Leads(r)

\* plan_ref_completion: the pointer leads this ref's log by one transition.
Completable(r) ==
    /\ ~ReportedDamage
    /\ r \notin logDamage
    /\ ptr[r] # NoState
    /\ Prev[ptr[r]] = LogTip(r)

\* Mutant: names are compared without folding their case.
NameCollisionExactCase(r) ==
    \E other \in Ref \ {r} : ptr[other] # NoState /\ other = r

NameCollision(r) ==
    \E other \in Ref \ {r} : ptr[other] # NoState /\ Fold[other] = Fold[r]

\* Mutant: the compare-and-swap compares the pointer and not the log.
ClassifyByPointer(r, base, s, k) ==
    CASE ~ExactLast(r, s, k) /\ ptr[r] = base -> "ready"
      [] ~ExactLast(r, s, k) /\ ptr[r] = s /\ LogTip(r) = base -> "pointer_leading"
      [] ExactLast(r, s, k) /\ ptr[r] = s /\ PreviousLogTip(r) = base -> "complete"
      [] OTHER -> "diverged"

\* Mutant: the compare-and-swap compares the log and not the pointer.
ClassifyByLog(r, base, s, k) ==
    CASE ~ExactLast(r, s, k) /\ ptr[r] = s /\ LogTip(r) = base -> "pointer_leading"
      [] ~ExactLast(r, s, k) /\ LogTip(r) = base -> "ready"
      [] ExactLast(r, s, k) /\ ptr[r] = s /\ PreviousLogTip(r) = base -> "complete"
      [] OTHER -> "diverged"

\* Mutant: a publication that is already complete is not recognised.
ClassifyNeverComplete(r, base, s, k) ==
    CASE ~ExactLast(r, s, k) /\ ptr[r] = base /\ LogTip(r) = base -> "ready"
      [] ~ExactLast(r, s, k) /\ ptr[r] = s /\ LogTip(r) = base -> "pointer_leading"
      [] OTHER -> "diverged"

Classify(r, base, s, k) ==
    CASE ~ExactLast(r, s, k) /\ ptr[r] = base /\ LogTip(r) = base -> "ready"
      [] ~ExactLast(r, s, k) /\ ptr[r] = s /\ LogTip(r) = base -> "pointer_leading"
      [] ExactLast(r, s, k) /\ ptr[r] = s /\ PreviousLogTip(r) = base -> "complete"
      [] OTHER -> "diverged"

Init ==
    /\ ptr = [r \in Ref |-> NoState]
    /\ ptrTail = FALSE
    /\ log = [r \in Ref |-> <<>>]
    /\ logTail = NoTail
    /\ logDamage = {}
    /\ activeLock = Free /\ pointerLock = Free /\ logLock = Free
    /\ refLock = [r \in Ref |-> Free]
    /\ pc = [p \in Proc |-> "idle"]
    /\ cmd = [p \in Proc |-> NoCommand]
    /\ acked = {}
    /\ crashes = 0

(***************************************************************************)
(* Lock files.  Creation is exclusive and never waits: a command that      *)
(* finds a lock file refuses and drops the guards it holds.  Only an       *)
(* operator clears the file of a dead process.                             *)
(***************************************************************************)
DropLocks(p, left) ==
    /\ activeLock' = IF activeLock = p THEN left ELSE activeLock
    /\ refLock' = [r \in Ref |-> IF refLock[r] = p THEN left ELSE refLock[r]]
    /\ pointerLock' = IF pointerLock = p THEN left ELSE pointerLock
    /\ logLock' = IF logLock = p THEN left ELSE logLock

Goto(p, next) == pc' = [pc EXCEPT ![p] = next]

EndCommand(p, left) ==
    /\ DropLocks(p, left)
    /\ Goto(p, "idle")
    /\ cmd' = [cmd EXCEPT ![p] = NoCommand]

\* An error return: every guard is dropped, nothing is written.
Refuse(p) == EndCommand(p, Free) /\ UNCHANGED <<storeVars, acked, crashes>>

AfterActiveLock(op) ==
    CASE op = "complete" -> "ref_lock"
      [] op = "repair" -> "pointer_lock"
      [] OTHER -> "guard"

AcquireActiveLock(p) ==
    /\ pc[p] = "active_lock"
    /\ \/ /\ activeLock = Free
          /\ activeLock' = p
          /\ Goto(p, AfterActiveLock(cmd[p].op))
          /\ UNCHANGED <<storeVars, refLock, pointerLock, logLock, cmd, acked, crashes>>
       \/ activeLock # Free /\ Refuse(p)

AcquireRefLock(p) ==
    LET r == cmd[p].ref IN
    /\ pc[p] = "ref_lock"
    /\ \/ /\ refLock[r] = Free
          /\ refLock' = [refLock EXCEPT ![r] = p]
          /\ Goto(p, "pointer_lock")
          /\ UNCHANGED <<storeVars, activeLock, pointerLock, logLock, cmd, acked, crashes>>
       \/ refLock[r] # Free /\ Refuse(p)

AcquirePointerLock(p) ==
    /\ pc[p] = "pointer_lock"
    /\ \/ /\ pointerLock = Free
          /\ pointerLock' = p
          /\ Goto(p, IF cmd[p].op = "repair_pointer" THEN "cut_pointer" ELSE "log_lock")
          /\ UNCHANGED <<storeVars, activeLock, refLock, logLock, cmd, acked, crashes>>
       \/ pointerLock # Free /\ Refuse(p)

AcquireLogLock(p) ==
    /\ pc[p] = "log_lock"
    /\ \/ /\ logLock = Free
          /\ logLock' = p
          /\ Goto(p, IF cmd[p].op = "repair" THEN "examine" ELSE "body")
          /\ UNCHANGED <<storeVars, activeLock, refLock, pointerLock, cmd, acked, crashes>>
       \/ logLock # Free /\ Refuse(p)

\* prikk unlock: the operator clears lock files whose process is gone.
Unlock ==
    /\ \/ activeLock = Stale /\ activeLock' = Free /\ UNCHANGED <<refLock, pointerLock, logLock>>
       \/ \E r \in Ref : /\ refLock[r] = Stale
                         /\ refLock' = [refLock EXCEPT ![r] = Free]
                         /\ UNCHANGED <<activeLock, pointerLock, logLock>>
       \/ pointerLock = Stale /\ pointerLock' = Free /\ UNCHANGED <<activeLock, refLock, logLock>>
       \/ logLock = Stale /\ logLock' = Free /\ UNCHANGED <<activeLock, refLock, pointerLock>>
    /\ UNCHANGED <<storeVars, pc, cmd, acked, crashes>>

(***************************************************************************)
(* The commands before they take the ref's lock.                           *)
(***************************************************************************)
FirstStep(op) ==
    CASE op \in {"create", "merge"} -> "active_lock"
      [] op \in {"tag", "close"} -> "guard"
      [] op = "complete" -> "plan"

Start(p, op, r, k) ==
    /\ pc[p] = "idle"
    /\ cmd' = [cmd EXCEPT ![p] = [op |-> op, ref |-> r, key |-> k,
                                 base |-> NoState, state |-> NoState]]
    /\ Goto(p, FirstStep(op))
    /\ UNCHANGED <<storeVars, lockVars, acked, crashes>>

StartRepair(p, op) ==
    /\ pc[p] = "idle"
    /\ cmd' = [cmd EXCEPT ![p] = [op |-> op]]
    /\ Goto(p, IF op = "repair" THEN "active_lock" ELSE "pointer_lock")
    /\ UNCHANGED <<storeVars, lockVars, acked, crashes>>

\* ensure_may_publish, with the ref being published excluded.
Guard(p) ==
    /\ pc[p] = "guard"
    /\ \/ /\ EnsureMayPublish(cmd[p].ref)
          /\ Goto(p, "read")
          /\ UNCHANGED <<storeVars, lockVars, cmd, acked, crashes>>
       \/ ~EnsureMayPublish(cmd[p].ref) /\ Refuse(p)

\* What each publishing command demands of the ref it reads.
MayCreate(r) == ptr[r] = NoState /\ log[r] = <<>>

MayTag(r) == ptr[r] = NoState /\ ~ptrTail

MayClose(r) == ptr[r] # NoState

MayMerge(r) == ptr[r] # NoState /\ ~Completable(r) /\ ~ptrTail

MayPropose(op, r) ==
    CASE op = "create" -> MayCreate(r)
      [] op = "tag" -> MayTag(r)
      [] op = "close" -> MayClose(r)
      [] op = "merge" -> MayMerge(r)

\* Read the current pointer as the CAS base, build and sign the new RefState.
ReadBase(p) ==
    LET c == cmd[p]
        proposals == {s \in RefState : Prev[s] = ptr[c.ref]}
    IN  /\ pc[p] = "read"
        /\ \/ /\ MayPropose(c.op, c.ref)
              /\ \E s \in proposals :
                    cmd' = [cmd EXCEPT ![p].base = ptr[c.ref], ![p].state = s]
              /\ Goto(p, "ref_lock")
              /\ UNCHANGED <<storeVars, lockVars, acked, crashes>>
           \/ ~MayPropose(c.op, c.ref) /\ Refuse(p)
           \/ proposals = {} /\ Refuse(p)   \* the update sequence is exhausted

\* ref complete plans without any lock, and carries the plan into the write.
Plan(p) ==
    LET r == cmd[p].ref IN
    /\ pc[p] = "plan"
    /\ \/ /\ Completable(r)
          /\ cmd' = [cmd EXCEPT ![p].base = LogTip(r), ![p].state = ptr[r]]
          /\ Goto(p, "active_lock")
          /\ UNCHANGED <<storeVars, lockVars, acked, crashes>>
       \/ ~Completable(r) /\ Refuse(p)

(***************************************************************************)
(* publish_body, under the ref lock and both container locks.  The first   *)
(* step decides; the two appends that follow are separate crash points.    *)
(***************************************************************************)
\* Mutant: only seal's retry may cut its own torn record.
AllowsTailRepairSeal(op) == op = "seal"

AllowsTailRepair(op) == op \in {"complete", "seal"}

MustTruncate(r) == AttributedTo(logTail) = r

\* What complete_ref_publication asks publish_body to write.
Completion(r, k) ==
    [op |-> "complete", ref |-> r, key |-> k, base |-> LogTip(r), state |-> ptr[r]]

Admits(c) ==
    LET state == Classify(c.ref, c.base, c.state, c.key) IN
    /\ c.base = NoState => ~NameCollision(c.ref)
    /\ ~ptrTail
    /\ c.ref \notin logDamage
    /\ state # "diverged"
    /\ MustTruncate(c.ref) =>
          /\ AllowsTailRepair(c.op)
          /\ state = "pointer_leading"
          /\ IncompleteTailMatches(logTail, c.ref, c.state, c.key)

\* Mutant: a lead is taken for a finished publication.
NextAppendSkipsLog(state) ==
    CASE state = "ready" -> "append_pointer"
      [] OTHER -> "published"

\* Mutant: the log record is written without the pointer entry before it.
NextAppendSkipsPointer(state) ==
    CASE state = "complete" -> "published"
      [] OTHER -> "append_log"

NextAppend(state) ==
    CASE state = "ready" -> "append_pointer"
      [] state = "pointer_leading" -> "append_log"
      [] state = "complete" -> "published"

PublishBody(p) ==
    LET c == cmd[p] IN
    /\ pc[p] = "body"
    /\ \/ /\ Admits(c)
          /\ logTail' = IF MustTruncate(c.ref) THEN NoTail ELSE logTail
          /\ Goto(p, NextAppend(Classify(c.ref, c.base, c.state, c.key)))
          /\ UNCHANGED <<ptr, ptrTail, log, logDamage, lockVars, cmd, acked, crashes>>
       \/ ~Admits(c) /\ Refuse(p)

AppendPointer(p) ==
    /\ pc[p] = "append_pointer"
    /\ ptr' = [ptr EXCEPT ![cmd[p].ref] = cmd[p].state]
    /\ Goto(p, "append_log")
    /\ UNCHANGED <<ptrTail, log, logTail, logDamage, lockVars, cmd, acked, crashes>>

\* Appending a frame behind an incomplete one makes that one interior damage.
AppendLog(p) ==
    LET c == cmd[p] IN
    /\ pc[p] = "append_log"
    /\ log' = [log EXCEPT ![c.ref] = Append(@, [state |-> c.state, key |-> c.key])]
    /\ logTail' = NoTail
    /\ logDamage' = IF logTail = NoTail THEN logDamage
                    ELSE logDamage \cup {AttributedTo(logTail)}
    /\ Goto(p, "published")
    /\ UNCHANGED <<ptr, ptrTail, lockVars, cmd, acked, crashes>>

\* The command reports success and drops its guards.
Report(p) ==
    /\ pc[p] = "published"
    /\ acked' = acked \cup {<<cmd[p].ref, cmd[p].state>>}
    /\ EndCommand(p, Free)
    /\ UNCHANGED <<storeVars, crashes>>

(***************************************************************************)
(* doctor --repair-tails and doctor --repair-pointer-index-tail.  The      *)
(* removed bytes are saved to the recovery log first.                      *)
(***************************************************************************)
\* Mutant: the tail is cut without looking for a lead.
MayRepairTailsUnchecked == ~ReportedDamage

MayRepairTails ==
    /\ ~ReportedDamage
    /\ logTail # NoTail => NoIncompletePublicationExcept({})

Examine(p) ==
    /\ pc[p] = "examine"
    /\ \/ /\ MayRepairTails
          /\ Goto(p, "cut_pointer")
          /\ UNCHANGED <<storeVars, lockVars, cmd, acked, crashes>>
       \/ ~MayRepairTails /\ Refuse(p)

CutPointerTail(p) ==
    /\ pc[p] = "cut_pointer"
    /\ ptrTail' = FALSE
    /\ \/ /\ cmd[p].op = "repair"
          /\ Goto(p, "cut_log")
          /\ UNCHANGED <<lockVars, cmd>>
       \/ cmd[p].op = "repair_pointer" /\ EndCommand(p, Free)
    /\ UNCHANGED <<ptr, log, logTail, logDamage, acked, crashes>>

CutLogTail(p) ==
    /\ pc[p] = "cut_log"
    /\ logTail' = NoTail
    /\ EndCommand(p, Free)
    /\ UNCHANGED <<ptr, ptrTail, log, logDamage, acked, crashes>>

(***************************************************************************)
(* A command stops anywhere: the process dies and leaves its lock files,   *)
(* or an operation fails and the command returns an error, dropping them.  *)
(* An append interrupted half-way leaves an incomplete last frame.         *)
(***************************************************************************)
TornPointer(p) == IF pc[p] = "append_pointer" THEN {TRUE, ptrTail} ELSE {ptrTail}

TornLog(p) ==
    IF pc[p] = "append_log" /\ logTail = NoTail
    THEN {NoTail, ShortTail, HeaderTail(cmd[p].ref),
          BodyTail(cmd[p].ref, cmd[p].state, cmd[p].key)}
    ELSE {logTail}

Interrupt(p) ==
    /\ pc[p] # "idle"
    /\ crashes < MaxCrashes
    /\ crashes' = crashes + 1
    /\ ptrTail' \in TornPointer(p)
    /\ logTail' \in TornLog(p)
    /\ \E left \in {Free, Stale} : EndCommand(p, left)
    /\ UNCHANGED <<ptr, log, logDamage, acked>>

ProcessStep(p) ==
    \/ AcquireActiveLock(p) \/ AcquireRefLock(p) \/ AcquirePointerLock(p) \/ AcquireLogLock(p)
    \/ Guard(p) \/ ReadBase(p) \/ Plan(p)
    \/ PublishBody(p) \/ AppendPointer(p) \/ AppendLog(p) \/ Report(p)
    \/ Examine(p) \/ CutPointerTail(p) \/ CutLogTail(p)

StartAny(p) ==
    \/ \E op \in Publisher \ {"seal"}, r \in Ref, k \in Key : Start(p, op, r, k)
    \/ \E op \in Repairer : StartRepair(p, op)

Next ==
    \/ \E p \in Proc : StartAny(p) \/ ProcessStep(p) \/ Interrupt(p)
    \/ Unlock

Spec == Init /\ [][Next]_vars

(***************************************************************************)
(* Fairness for the liveness run: a running command takes its next step,   *)
(* the operator unlocks after a crash, and goes on running `ref complete`  *)
(* with every key and the tail repairs whenever a slot is idle.            *)
(***************************************************************************)
Fairness ==
    /\ WF_vars(Unlock)
    /\ \A p \in Proc :
          /\ WF_vars(ProcessStep(p))
          /\ \A r \in Ref, k \in Key : SF_vars(Start(p, "complete", r, k))
          /\ \A op \in Repairer : SF_vars(StartRepair(p, op))

FairSpec == Spec /\ Fairness

-----------------------------------------------------------------------------
(***************************************************************************)
(* Properties.                                                             *)
(***************************************************************************)
Holder == Proc \cup {Free, Stale}

\* Every variable has its type; a slot has a command exactly while it is not
\* idle, and only the two doctor repairs run without naming a ref.
TypeOK ==
    /\ ptr \in [Ref -> RefState \cup {NoState}]
    /\ ptrTail \in BOOLEAN
    /\ log \in [Ref -> Seq([state : RefState, key : Key])]
    /\ logTail \in Tail_
    /\ logDamage \in SUBSET (Ref \cup {Anon})
    /\ activeLock \in Holder /\ pointerLock \in Holder /\ logLock \in Holder
    /\ refLock \in [Ref -> Holder]
    /\ pc \in [Proc -> PC]
    /\ cmd \in [Proc -> Publication \cup [op : Repairer] \cup {NoCommand}]
    /\ \A p \in Proc : pc[p] = "idle" <=> cmd[p] = NoCommand
    /\ acked \in SUBSET (Ref \X RefState)
    /\ crashes \in 0 .. MaxCrashes

\* publication.rs:173: "format publication never permits an ahead log".
\* Whatever commands interleave and wherever they stop, the log of a ref has
\* confirmed either its pointer's RefState or that RefState's predecessor.
PointerLeadsByAtMostOne ==
    \A r \in Ref : Leads(r) => ptr[r] # NoState /\ Prev[ptr[r]] = LogTip(r)

\* The records of a ref's log form one chain from the unborn ref, so the
\* "ref-log chain diverges" error of log_position is never reached.
LogIsAChain ==
    \A r \in Ref : \A i \in 1 .. Len(log[r]) :
        Prev[log[r][i].state] = IF i = 1 THEN NoState ELSE log[r][i - 1].state

Logged(r, s) == \E i \in 1 .. Len(log[r]) : log[r][i].state = s

\* A publication that was reported successful is in its ref's log for good.
AckedIsLogged == \A a \in acked : Logged(a[1], a[2])

\* No two published refs differ only in case (DC-72), although each create
\* holds only its own ref's lock.
NoCaseCollision ==
    \A r1, r2 \in Ref :
        r1 # r2 /\ ptr[r1] # NoState /\ ptr[r2] # NoState => Fold[r1] # Fold[r2]

\* Compare-and-swap: a pointer only ever moves to a RefState whose previous
\* one is the pointer's value at that moment, so no publication is lost.
NoLostUpdate ==
    [][\A r \in Ref : ptr'[r] # ptr[r] => ptr'[r] # NoState /\ Prev[ptr'[r]] = ptr[r]]_vars

\* repair_tails.rs:183: a repair never cuts the torn log record of a pointer
\* lead, which only its completion may replace.
RepairSparesLeads ==
    [][\A p \in Proc : CutLogTail(p) /\ logTail # NoTail => \A r \in Ref : ~Leads(r)]_vars

\* RFC 165: whatever was interrupted, and by whichever key, once every command
\* has stopped and the pointer index has no torn entry, some adopted key's
\* `ref complete` finishes every lead, unless the log itself is damaged.
LeadIsRecoverable ==
    (\A p \in Proc : pc[p] = "idle") /\ ~ptrTail /\ ~HasDamage
        => \A r \in Ref : Leads(r) =>
              Completable(r) /\ \E k \in Key : Admits(Completion(r, k))

\* A lead left by an interrupted publication is eventually confirmed in the
\* log: no crash strands a ref that a single user works on.
LeadsAreCompleted == \A r \in Ref : Leads(r) ~> ~Leads(r)

(***************************************************************************)
(* Why these hold: the inductive invariant.  A command that is about to    *)
(* append holds the three locks of its publication, so what publish_body   *)
(* decided is still true when it writes; a repair that is about to cut     *)
(* holds both container locks, so no lead has appeared since it looked.    *)
(***************************************************************************)
\* The command carries a RefState and its predecessor.
Prepared(c) ==
    c \in Publication /\ c.state \in RefState /\ Prev[c.state] = c.base

\* What a command at each point of its run carries.
CommandAt(at, c) ==
    /\ at \in {"guard", "read", "plan"} => c \in Publication
    /\ at = "active_lock" =>
          \/ c \in Publication /\ (c.op = "complete" => Prepared(c))
          \/ c = [op |-> "repair"]
    /\ at \in {"ref_lock", "body", "append_pointer", "append_log", "published"} => Prepared(c)
    /\ at \in {"pointer_lock", "log_lock"} => Prepared(c) \/ c \in [op : Repairer]
    /\ at = "log_lock" => c.op # "repair_pointer"
    /\ at \in {"examine", "cut_log"} => c = [op |-> "repair"]
    /\ at = "cut_pointer" => c \in [op : Repairer]

CommandInv == \A p \in Proc : CommandAt(pc[p], cmd[p])

\* Where a command holds the pointer-index lock, and where the ref-log lock too.
Critical == {"log_lock", "body", "append_pointer", "append_log", "published",
             "examine", "cut_pointer", "cut_log"}

HoldsItsLocks(p) ==
    /\ pc[p] \in Critical => pointerLock = p
    /\ pc[p] \in Critical \ {"log_lock", "cut_pointer"} => logLock = p
    /\ pc[p] = "cut_pointer" /\ cmd[p].op = "repair" => logLock = p
    /\ pc[p] \in {"pointer_lock", "log_lock", "body", "append_pointer", "append_log", "published"}
          /\ cmd[p] \in Publication => refLock[cmd[p].ref] = p

LockInv == \A p \in Proc : HoldsItsLocks(p)

\* What a command decided under its locks is still true when it acts on it.
StillDecided(p) ==
    LET c == cmd[p] IN
    /\ pc[p] = "append_pointer" =>
          /\ ptr[c.ref] = c.base /\ LogTip(c.ref) = c.base
          /\ c.base = NoState => ~NameCollision(c.ref)
    /\ pc[p] = "append_log" => ptr[c.ref] = c.state /\ LogTip(c.ref) = c.base
    /\ pc[p] = "published" => Logged(c.ref, c.state)
    /\ pc[p] = "cut_log" \/ (pc[p] = "cut_pointer" /\ c.op = "repair") =>
          (logTail # NoTail => \A r \in Ref : ~Leads(r))

DecisionInv == \A p \in Proc : StillDecided(p)

(***************************************************************************)
(* Publication implements an atomic compare-and-swap register per ref.     *)
(* The swap takes effect at the pointer append; every RefState a ref has   *)
(* had is in its log, except a last one the pointer alone holds.           *)
(***************************************************************************)
Published == {a \in Ref \X RefState : Logged(a[1], a[2]) \/ ptr[a[1]] = a[2]}

Register == INSTANCE RefRegister WITH tip <- ptr, published <- Published

\* Every step of any command, crash or repair is a swap, an acknowledgement of
\* a swap that took effect, or invisible to the register's users.
ImplementsRegister == Register!Spec
=============================================================================
