------------------------------- MODULE Doctor -------------------------------
(***************************************************************************)
(* `prikk doctor` (doctor.rs): the issues it raises over one verification, *)
(* and the gate they form for repair_repository.  An issue is an error, a  *)
(* warning or a note, about the repository or about one active session.    *)
(* Everything doctor reads beside verify's own reads is in surroundings:   *)
(* the state of the other sessions and the files verify does not look at.  *)
(***************************************************************************)
EXTENDS Verify

Default == "default"
Repository == "repository"
Issue(severity, about) == [severity |-> severity, about |-> about]
If(condition, issues) == IF condition THEN issues ELSE {}
Errors(condition, about) == If(condition, {Issue("error", about)})
Warnings(condition, about) == If(condition, {Issue("warning", about)})

-----------------------------------------------------------------------------
(* What doctor reads itself. *)

push_missing_required_directory_issues(s) == Errors(s.directories # "present", Repository)

\* Of a session's ref metadata: an error only where records have no owner.
push_active_session_ref_metadata_issue(name, metadata) ==
  Errors(metadata \in {"MissingForNonEmptyWal", "InvalidForNonEmptyWal"}, name)
    \cup Warnings(metadata \in {"ValidForEmptyWal", "InvalidForEmptyWal"}, name)

\* Of a session's witness: ownership is the metadata's issue unless it is valid.
push_active_session_commit_witness_issue(name, verdict, metadata) ==
  Errors(\/ verdict \in {"AcknowledgedDamage", "AcknowledgedLoss", "SubstitutedRecord", "UnknownWithDamagedWitness"}
         \/ verdict = "OwnershipMissing" /\ metadata = "ValidForNonEmptyWal", name)
    \cup Warnings(verdict = "WitnessDamaged", name)

\* Another session: o.wal is "unreadable" or the rest was read.
push_non_default_active_session_wal_issues(s) ==
  UNION {LET o == s.sessions[n]
         IN  IF o.wal = "unreadable" THEN {Issue("error", n)}
             ELSE Warnings(o.wal = "tail", n) \cup push_active_session_ref_metadata_issue(n, o.metadata)
                    \cup push_active_session_commit_witness_issue(n, o.verdict, o.metadata)
         : n \in DOMAIN s.sessions}

\* The three compacting containers, judged afresh.
check_generation_log_deductions ==
  [damage |-> {f \in SlotFiles : flaw[f] = "damaged"},
   ambiguity |-> {f \in SlotFiles : flaw[f] = "ambiguous"},
   notes |-> {f \in SlotFiles : flaw[f] = "deduced"}]

push_container_interior_damage_issues ==
  LET c == check_generation_log_deductions IN Errors(c.damage \cup c.ambiguity # {}, Repository)

push_current_branch_issue(s) == Warnings(s.currentBranch = "unresolved", Repository)
push_provisional_worktree_issue == Warnings(marker # <<>>, Repository)
push_interrupted_materialization_issue(s) == Warnings(s.worktree = "dirty", Repository)
push_interrupted_import_issue(s) == Errors(s.journal # "absent", Repository)
push_held_lock_issues(s) == If(s.locks # {}, {Issue("info", Repository)})

-----------------------------------------------------------------------------
(* What it makes of the verification. *)

\* The stages that read only the default session's own files.
active_session_owning_stage_outcome(stage) ==
  IF stage \in {"WalReplay", "ActiveWalMetadata", "CommitWitness"} THEN Default ELSE Repository

StageIssues(r) ==
  LET stages == verify_repository_with_options(r)
      status == StagePipeline(stages, r.stop)
  IN  {Issue("error", active_session_owning_stage_outcome(stages[i].stage)) :
         i \in {i \in DOMAIN stages : status[i] # "Evaluated"}}

ObjectIssues(r) == Errors(r.objects.failed # {}, Repository)
BlockStateIssues(r) == Errors(\E b \in DOMAIN r.objects.blocks : r.objects.blocks[b] # "Verified", Repository)
RefIssues(r) == Errors(Evaluated(r, "Refs") /\ r.refs.failed # {}, Repository)
\* A damaged record of the queue stops the repair of that queue alone.
WalIssues(r) == Errors(\E w \in Elements(r.wal) : ~w.sound, Default)
\* A tail the witness says was acknowledged is reported as damage instead.
WalTailIssues(r) == Warnings(r.tail /\ r.witness # "AcknowledgedDamage", Default)
ConnectivityIssues(r) == Errors(r.connectivity # {}, Default)
InterruptedAppendIssues(r) == Warnings(r.objects.interrupted # {}, Repository)
IndexTailIssues == Warnings(flaw["object index"] # "sound" \/ flaw["pointer index"] = "tail", Repository)
AppendedFileIssues(r) == Errors(r.damaged # {}, Repository)
RemnantIssues(r) == Warnings(r.objects.remnants # {}, Repository)
\* Mutant: an interrupted publication is a warning.
PublicationIssuesMild(r) == Warnings(has_blocking_ref_publication_issues(r), Repository)

PublicationIssues(r) == Errors(has_blocking_ref_publication_issues(r), Repository)

add_active_wal_metadata_issues(r) == push_active_session_ref_metadata_issue(Default, r.metadata)
add_commit_witness_issues(r) == push_active_session_commit_witness_issue(Default, r.witness, r.metadata)

\* All issues of one run over report r.
doctor_repository(r, s) ==
  push_missing_required_directory_issues(s) \cup push_non_default_active_session_wal_issues(s)
    \cup push_container_interior_damage_issues \cup push_current_branch_issue(s)
    \cup push_provisional_worktree_issue \cup push_interrupted_materialization_issue(s)
    \cup push_interrupted_import_issue(s) \cup push_held_lock_issues(s)
    \cup StageIssues(r) \cup ObjectIssues(r) \cup BlockStateIssues(r) \cup RefIssues(r) \cup WalIssues(r)
    \cup WalTailIssues(r) \cup ConnectivityIssues(r) \cup InterruptedAppendIssues(r) \cup IndexTailIssues
    \cup AppendedFileIssues(r) \cup RemnantIssues(r) \cup PublicationIssues(r)
    \cup add_active_wal_metadata_issues(r) \cup add_commit_witness_issues(r)

\* The sessions whose WAL tail repair_repository goes on to truncate.
repairable(issues, names) ==
  {n \in names : Issue("error", Repository) \notin issues /\ Issue("error", n) \notin issues}

-----------------------------------------------------------------------------
CONSTANT Surroundings   \* what doctor may find beside verify's reads

\* What the local refs and the default queue need; a received ref's loss is
\* left to verify, no issue is raised for it.
NeededHere ==
  LET states == UNION {{log[r][i].state : i \in DOMAIN log[r]} \cup ({ptr[r]} \ {None}) : r \in Refs}
  IN  states \cup compute_reachable(Ids, UNION {Meta[s].target : s \in states})
        \cup UNION {Meta[s].attests : s \in states} \cup QueuedBlobs(ses.wal)

\* The WAL of the default session is not truncated while anything a local ref
\* or its queue needs is damaged, or a publication is half done; and the issues
\* of another session alone never keep it from its repair (doctor.rs,
\* repair_repository reads the issues' sessions).
RepairIsGated ==
  Done /\ ~v.stop =>
    \A s \in Surroundings :
      LET may == Default \in repairable(doctor_repository(v, s), {Default} \cup DOMAIN s.sessions)
      IN  /\ hurt \/ ~Found(IndexSnapshot_open, NeededHere) \/ has_blocking_ref_publication_issues(v) => ~may
          /\ struck = {} /\ bad = {} /\ ~has_blocking_ref_publication_issues(v)
               /\ s.directories = "present" /\ s.journal = "absent" => may
=============================================================================
