--------------------------- MODULE ArchiveImport ---------------------------
(***************************************************************************)
(* Whole-repository archives: export, verify, import, and the cancellation *)
(* of an import that did not finish.                                       *)
(*                                                                         *)
(* An import appends to six containers under five locks.  Before the first *)
(* append it writes a journal: which archive, how long every container     *)
(* was, where every ref will land.  Emptying the journal is its commit     *)
(* point.  A run that stops before that leaves the journal; the same       *)
(* import run again resumes from it, `doctor --cancel-import` cuts every   *)
(* container back to the journaled length, and every other writer refuses  *)
(* while it is there.                                                      *)
(*                                                                         *)
(* A repository and an archive have the same sections:                     *)
(*   objects   <<[id, sigs], ...>>       index   <<[id, at], ...>>         *)
(*   reflog    <<[ref, old, new, seq, sigs], ...>>                         *)
(*   pointers, received  <<[ref, rs], ...>>     keys  <<[key, pub], ...>>  *)
(* (an archive carries its maintainer keys and no index).                  *)
(***************************************************************************)
EXTENDS History, SequencesExt

CONSTANTS
  Archive,        \* name |-> archive: the files import may be given
  Policy,         \* the maintainer keys adopted here
  Procs,          \* the commands that may run side by side
  CurrentBranch,  \* the branch the worktree is on
  QueueOwner,     \* the ref the active queue belongs to, or None
  Written,        \* what the ordinary writer publishes: <<[ref, rs, objects], ...>>
  Sections,       \* what a complete archive is made of, in order
  ObjectBound,    \* the largest object an archive may carry
  Overlap,        \* TRUE: another command may run between a command's
                  \* look at the journal and its locks
  MaxRuns, MaxFaults, MaxEdits, MaxExports, None

VARIABLES
  file,     \* the six containers
  journal,  \* the import journal, None when absent or empty
  lock,     \* lock |-> the process holding it, or None
  proc,     \* where each command is
  wt,       \* the worktree: edited by its user?, what it shows, the switch marker
  shelf,    \* the archive exported last
  n,        \* how many of each bounded thing have happened
  before,   \* history: the containers as they were when the journal was written
  done      \* history: what completed commands have put in the containers

vars == <<file, journal, lock, proc, wt, shelf, n, before, done>>

Containers == <<"objects", "index", "reflog", "pointers", "received", "keys">>
ImportLocks == {"ObjectStore", "RefPointerIndex", "RefLog", "ReceivedIndex", "Active"}
Idle == [at |-> "idle"]

\* The last entry for a name is the live one.
Lookup(entries, ref) ==
  LET at == {i \in DOMAIN entries : entries[i].ref = ref}
  IN  IF at = {} THEN None ELSE entries[CHOOSE i \in at : \A j \in at : j <= i].rs

\* One entry per name, the last written for it.
reduce_entries(entries) ==
  SelectSeq(entries, LAMBDA e : Lookup(entries, e.ref) = e.rs)

----------------------------------------------------------------------------
(* The object store: an id is what the index says it is. *)

Entry(id) ==
  LET at == {i \in DOMAIN file.index : file.index[i].id = id}
  IN  IF at = {} THEN None ELSE file.index[CHOOSE i \in at : \A j \in at : j <= i].at

\* The index names a record past the end of its container, or not this one.
BrokenEntry(id) ==
  Entry(id) # None /\ ~(Entry(id) \in DOMAIN file.objects /\ file.objects[Entry(id)].id = id)

Held == {id \in DOMAIN Meta : Entry(id) # None /\ ~BrokenEntry(id)}

StoredSigs(id) == IF id \in Held THEN {file.objects[Entry(id)].sigs} ELSE {}

----------------------------------------------------------------------------
(* Verifying an archive: a pure read of its bytes. *)

CarriedIds(a) == {e.id : e \in ToSet(a.objects)}

\* Every section once, in order, each starting where the last one ended, the
\* manifest after them and the trailer after that.
validate_manifest_shape(a) ==
  /\ [i \in DOMAIN a.manifest |-> a.manifest[i].kind] = Sections
  /\ \A i \in DOMAIN a.manifest :
       a.manifest[i].at = IF i = 1 THEN 1 ELSE a.manifest[i-1].at + a.manifest[i-1].len
  /\ a.manifestAt = a.manifest[Len(a.manifest)].at + a.manifest[Len(a.manifest)].len

\* The trailer at the end names the manifest, which matches its checksum.
read_manifest(a) == <<"manifest", "checksum">> \notin a.damaged

section_header_and_checksum(a, s) == <<s, "checksum">> \notin a.damaged

\* A whole record that does not decode is damage; bytes after the last whole
\* record are an interrupted append, which is only reported.
classify_section_records(a, s) == <<s, "record">> \notin a.damaged

SectionsSound(a) ==
  \A i \in DOMAIN Sections :
    /\ section_header_and_checksum(a, Sections[i])
    /\ classify_section_records(a, Sections[i])

\* What a block names and the archive does not carry.
classify_references(a, id) ==
  IF Meta[id].kind = "block"
  THEN (Meta[id].parents \cup Meta[id].patches \cup Meta[id].snapshot) \ CarriedIds(a)
  ELSE {}

check_signatures(a, e) ==
  /\ verify_trusted_publication_envelope(a.policy, e.sigs) # "forged"
  /\ verify_author_signatures_with(e.sigs, ToSet(a.keys)) # "error"

Roots(a) == {e.rs : e \in ToSet(reduce_entries(a.pointers)) \cup ToSet(reduce_entries(a.received))}

\* A block with something missing only matters when a ref leads to it.
ReferencesClosed(a) ==
  \A id \in compute_reachable(CarriedIds(a), Roots(a)) : classify_references(a, id) = {}

\* A ref must name a carried ref state whose target is carried.
PointersHold(a) ==
  \A rs \in Roots(a) :
    rs \in CarriedIds(a) /\ Meta[rs].kind = "refstate" /\ Meta[rs].target \subseteq CarriedIds(a)

UpdatesOf(log, ref) ==
  SortSeq(SelectSeq(log, LAMBDA u : u.ref = ref), LAMBDA u, v : u.seq < v.seq)

\* The log of every ref is a chain that ends at its pointer.
LogAgrees(a) ==
  \A ref \in {e.ref : e \in ToSet(a.pointers)} \cup {u.ref : u \in ToSet(a.reflog)} :
    LET us == UpdatesOf(a.reflog, ref)
    IN  /\ us # <<>> /\ Lookup(a.pointers, ref) = us[Len(us)].new
        /\ \A i \in DOMAIN us : /\ us[i].old = (IF i = 1 THEN None ELSE us[i-1].new)
                                /\ us[i].new \in CarriedIds(a)

\* Mutant: blocks a ref leads to may lack what they name.
verify_archive_unclosed(a) ==
  /\ read_manifest(a) /\ validate_manifest_shape(a) /\ SectionsSound(a)
  /\ \A i \in DOMAIN a.objects : check_signatures(a, a.objects[i])
  /\ PointersHold(a) /\ LogAgrees(a)

verify_archive(a) ==
  /\ read_manifest(a) /\ validate_manifest_shape(a) /\ SectionsSound(a)
  /\ \A i \in DOMAIN a.objects : check_signatures(a, a.objects[i])
  /\ ReferencesClosed(a) /\ PointersHold(a) /\ LogAgrees(a)

----------------------------------------------------------------------------
(* Exporting: the whole repository as it is, under the container locks. *)

refuse_on_queued_unsealed_work == QueueOwner # None

first_over_bound_record ==
  \E i \in DOMAIN file.objects : Meta[file.objects[i].id].size > ObjectBound

\* A ref whose log and pointer disagree is one that import would refuse.
refuse_on_blocking_ref_publication ==
  ~LogAgrees([pointers |-> file.pointers, reflog |-> file.reflog, objects |-> file.objects])

ExportRefusals ==
  refuse_on_queued_unsealed_work \/ first_over_bound_record \/ refuse_on_blocking_ref_publication

export_archive_body ==
  [objects |-> file.objects, reflog |-> file.reflog, pointers |-> file.pointers,
   received |-> file.received, keys |-> file.keys, policy |-> Policy, damaged |-> {},
   manifest |-> [i \in DOMAIN Sections |-> [kind |-> Sections[i], at |-> i, len |-> 1]],
   manifestAt |-> Len(Sections) + 1]

export_archive ==
  /\ n.exports < MaxExports
  /\ journal = None
  /\ \A l \in ImportLocks \ {"Active"} : lock[l] = None
  /\ ~ExportRefusals
  /\ shelf' = export_archive_body
  /\ n' = [n EXCEPT !.exports = @ + 1]
  /\ UNCHANGED <<file, journal, lock, proc, wt, before, done>>

----------------------------------------------------------------------------
(* Taking and giving back locks. *)

\* With ~Overlap a command's look at the journal and its locks are one step.
Alone(p) == Overlap \/ \A q \in Procs \ {p} : proc[q].at \notin {"locks", "cancelLocks", "writerLocks"}

Release(p) == lock' = [l \in ImportLocks |-> IF lock[l] = p THEN None ELSE lock[l]]

Go(p, where) == proc' = [proc EXCEPT ![p].at = where]

Leave(p) == Release(p) /\ proc' = [proc EXCEPT ![p] = Idle]

\* All or none; a lock somebody holds is a refusal, never a wait.
acquire_container_locks(p, wanted, where) ==
  IF \A l \in wanted : lock[l] = None
  THEN /\ lock' = [l \in ImportLocks |-> IF l \in wanted THEN p ELSE lock[l]]
       /\ Go(p, where)
  ELSE Leave(p)

----------------------------------------------------------------------------
(* Import, before its journal. *)

\* An empty journal is none.
read_journal == journal

\* The archive verified, its author keys checked against those recorded, and
\* the journal read: another archive's journal is a refusal.
ImportBegin(p) ==
  /\ Alone(p) /\ proc[p].at = "idle" /\ n.runs < MaxRuns
  /\ \E a \in DOMAIN Archive, adopt \in BOOLEAN, force \in BOOLEAN :
       /\ verify_archive(Archive[a])
       /\ \A k \in ToSet(Archive[a].keys) : author_key_binding(ToSet(file.keys), k) # "Mismatch"
       /\ read_journal # None => read_journal.archive = a
       /\ proc' = [proc EXCEPT ![p] =
            [at |-> "locks", archive |-> a, adopt |-> adopt, force |-> force, seen |-> read_journal,
             resumed |-> read_journal # None, i |-> 1, k |-> 1, taken |-> {}]]
  /\ n' = [n EXCEPT !.runs = @ + 1]
  /\ UNCHANGED <<file, journal, lock, wt, shelf, before, done>>

ImportLock(p) ==
  /\ Alone(p) /\ proc[p].at = "locks"
  /\ acquire_container_locks(p, ImportLocks, "plan")
  /\ UNCHANGED <<file, journal, wt, shelf, n, before, done>>

\* Exporter's own refs land under remotes/, or as themselves when adopted;
\* refs the exporter had received land under the name they had there.
compute_landing_plan(a) ==
  LET locals == reduce_entries(a.pointers)
      others == reduce_entries(a.received)
  IN  [i \in DOMAIN locals |->
         [origin |-> "Local", ref |-> locals[i].ref, dest |-> <<"remotes">> \o locals[i].ref,
          rs |-> locals[i].rs, plan |-> Lookup(file.pointers, locals[i].ref)]]
      \o [i \in DOMAIN others |->
         [origin |-> "Received", ref |-> others[i].ref, dest |-> others[i].ref,
          rs |-> others[i].rs, plan |-> "Unknown"]]

\* A landing against the pointer it would replace, walking the archive's
\* graph on one side and this store's on the other.
classify_archive_landing_against_local(a, delivered, prior) ==
  LET mine == ancestors_inclusive(resolve_ref_tip_block(prior))
      his  == ancestors_inclusive(resolve_ref_tip_block(delivered))
  IN  IF /\ mine \cup RefStateChain(prior) \subseteq Held
         /\ his \cup RefStateChain(delivered) \subseteq CarriedIds(a)
      THEN classify_connectivity(mine, his, resolve_ref_tip_block(prior),
                                 resolve_ref_tip_block(delivered))
      ELSE "Error"

classify_every_planned_landing_or_refuse(a, landing, force) ==
  \A i \in DOMAIN landing :
    LET prior == Lookup(file.received, landing[i].dest)
        class == classify_archive_landing_against_local(a, landing[i].rs, prior)
    IN  prior = None \/ (class # "Error" /\ (class \in NotFastForward => force))

refuse_forged_publication_signatures_before_admission(a) ==
  \E i \in DOMAIN a.objects :
    /\ Meta[a.objects[i].id].kind \in {"block", "refstate"}
    /\ refuse_forged_publication_signature(Policy, a.objects[i].sigs)

\* Adopting the branch the worktree is on needs it clean and unobstructed.
require_worktree_clean_and_capture == ~wt.edited /\ wt.shows # "mixed"

AdoptsCurrent(landing, adopt) ==
  adopt /\ \E i \in DOMAIN landing : landing[i].origin = "Local" /\ landing[i].ref = CurrentBranch

\* Mutant: the author key container is not journaled, so it is never cut.
compute_container_starting_lengths_no_keys ==
  [c \in ToSet(Containers) |-> IF c = "keys" THEN 99 ELSE Len(file[c])]

compute_container_starting_lengths == [c \in ToSet(Containers) |-> Len(file[c])]

\* A landing with no plan-time state is written as one whose ref was absent.
encode_journal(j) ==
  [j EXCEPT !.landing = [i \in DOMAIN @ |->
     [@[i] EXCEPT !.plan = IF @ = "Unknown" THEN None ELSE @]]]

\* What is there is removed first, then the new journal is created.
write_journal(j) == journal' = encode_journal(j) /\ before' = file

\* A journal seen is resumed as it stands.  Otherwise everything that could
\* refuse is looked at now, and the journal is written.
ImportPlan(p) ==
  LET a == Archive[proc[p].archive]
      landing == compute_landing_plan(a)
      j == [archive |-> proc[p].archive, landing |-> landing,
            lens |-> compute_container_starting_lengths]
      sound == /\ classify_every_planned_landing_or_refuse(a, landing, proc[p].force)
               /\ ~refuse_forged_publication_signatures_before_admission(a)
               /\ AdoptsCurrent(landing, proc[p].adopt) => require_worktree_clean_and_capture
  IN  /\ Alone(p) /\ proc[p].at = "plan"
      /\ IF proc[p].seen # None THEN Go(p, "objects") /\ UNCHANGED <<journal, lock, before>>
         ELSE IF sound
              THEN /\ write_journal(j)
                   /\ proc' = [proc EXCEPT ![p].at = "objects", ![p].seen = j]
                   /\ UNCHANGED lock
              ELSE Leave(p) /\ UNCHANGED <<journal, before>>
      /\ UNCHANGED <<file, wt, shelf, n, done>>

----------------------------------------------------------------------------
(* Import, past its journal: objects, then keys, then refs. *)

object_type_dependency_rank(kind) ==
  CASE kind \in {"blob", "patch"} -> 0 [] kind = "block" -> 1
    [] kind = "refstate" -> 3 [] kind = "tag" -> 4

Ordered(a) ==
  SortSeq(a.objects, LAMBDA d, e : object_type_dependency_rank(Meta[d.id].kind)
                                   < object_type_dependency_rank(Meta[e.id].kind))

\* Author material is what is recorded here and what the archive carries.
Material(a) == ToSet(file.keys) \cup ToSet(a.keys)

\* One object: what is stored already is read, its signatures admitted, and
\* the record appended unless it says nothing new.
ImportObject(p) ==
  LET a == Archive[proc[p].archive]
      e == Ordered(a)[proc[p].i]
      admitted == admit_one(StoredSigs(e.id), e.sigs, Policy, Material(a))
  IN  /\ Alone(p) /\ proc[p].at = "objects"
      /\ IF proc[p].i > Len(a.objects)
         THEN proc' = [proc EXCEPT ![p].at = "keys", ![p].i = 1] /\ UNCHANGED <<file, lock>>
         ELSE IF BrokenEntry(e.id) \/ ~admitted.ok THEN Leave(p) /\ UNCHANGED file
         ELSE IF admitted.sigs \in StoredSigs(e.id)
              THEN proc' = [proc EXCEPT ![p].i = @ + 1] /\ UNCHANGED <<file, lock>>
         ELSE /\ file' = [file EXCEPT !.objects = Append(@, [id |-> e.id, sigs |-> admitted.sigs])]
              /\ Go(p, "index") /\ UNCHANGED lock
      /\ UNCHANGED <<journal, wt, shelf, n, before, done>>

\* The index entry follows the record it names.
ImportIndex(p) ==
  /\ Alone(p) /\ proc[p].at = "index"
  /\ file' = [file EXCEPT !.index =
       Append(@, [id |-> Ordered(Archive[proc[p].archive])[proc[p].i].id, at |-> Len(file.objects)])]
  /\ proc' = [proc EXCEPT ![p].at = "objects", ![p].i = @ + 1]
  /\ UNCHANGED <<journal, lock, wt, shelf, n, before, done>>

\* record_author_key_material for every key the archive carries.
ImportKey(p) ==
  LET keys == Archive[proc[p].archive].keys
      k == keys[proc[p].i]
  IN  /\ Alone(p) /\ proc[p].at = "keys"
      /\ IF proc[p].i > Len(keys)
         THEN proc' = [proc EXCEPT ![p].at = "refs", ![p].i = 1] /\ UNCHANGED <<file, lock>>
         ELSE CASE author_key_binding(ToSet(file.keys), k) = "Mismatch" -> Leave(p) /\ UNCHANGED file
                [] author_key_binding(ToSet(file.keys), k) = "Matches" ->
                     proc' = [proc EXCEPT ![p].i = @ + 1] /\ UNCHANGED <<file, lock>>
                [] OTHER -> /\ file' = [file EXCEPT !.keys = Append(@, k)]
                            /\ proc' = [proc EXCEPT ![p].i = @ + 1] /\ UNCHANGED lock
      /\ UNCHANGED <<journal, wt, shelf, n, before, done>>

\* A received pointer moves forward only, unless forced; one already at the
\* tip through an older chain is left as it is.
land_as_received_pointer(p, dest, rs) ==
  LET prior == Lookup(file.received, dest)
      c == classify_landing_connectivity(Held, rs, prior)
  IN  IF prior # None /\ (c.class = "Error" \/ (c.class \in NotFastForward /\ ~proc[p].force))
      THEN Leave(p) /\ UNCHANGED file
      ELSE /\ file' = IF prior # None /\ c.class = "AlreadyAtTip" /\ c.chain = "Older" THEN file
                      ELSE [file EXCEPT !.received = Append(@, [ref |-> dest, rs |-> rs])]
           /\ proc' = [proc EXCEPT ![p].i = @ + 1, ![p].taken = @ \cup {dest}]
           /\ UNCHANGED lock

ChainTrusted(us) ==
  \A i \in DOMAIN us : verify_trusted_publication_envelope(Policy, us[i].sigs) = "trusted"

\* What adopting one of the exporter's refs comes to.
try_adopt_local_ref(p, l) ==
  LET current == Lookup(file.pointers, l.ref)
      prior == Lookup(file.received, l.dest)
      c == classify_landing_connectivity(Held, l.rs, prior)
      us == UpdatesOf(Archive[proc[p].archive].reflog, l.ref)
  IN  CASE proc[p].resumed /\ l.plan = None /\ current = l.rs -> "AlreadyCompleted"
        [] current # None -> "FellThrough"
        [] QueueOwner = l.ref -> "Err"
        [] prior # None /\ (c.class = "Error" \/ (c.class \in NotFastForward /\ ~proc[p].force)) -> "Err"
        [] us = <<>> -> "Err"
        [] ~ChainTrusted(us) -> "FellThrough"
        [] l.ref = CurrentBranch /\ ~require_worktree_clean_and_capture -> "Err"
        [] OTHER -> "Adopt"

\* The exporter's own refs first, then what the exporter had received.
LandingOrder(landing) ==
  SelectSeq(landing, LAMBDA l : l.origin = "Local")
  \o SelectSeq(landing, LAMBDA l : l.origin = "Received")

NextLanding(p) == LandingOrder(proc[p].seen.landing)[proc[p].i]

\* An earlier run published it: only the worktree may still be behind.
AlreadyCompleted(p, l) ==
  IF l.ref = CurrentBranch /\ wt.marker
  THEN IF require_worktree_clean_and_capture
       THEN Go(p, "materialize") /\ UNCHANGED <<lock, wt>>
       ELSE Leave(p) /\ UNCHANGED wt
  ELSE proc' = [proc EXCEPT ![p].i = @ + 1, ![p].taken = @ \cup {l.ref}] /\ UNCHANGED <<lock, wt>>

\* One of the exporter's refs, with --adopt.
AdoptLanding(p, l) ==
  LET outcome == try_adopt_local_ref(p, l)
  IN  CASE outcome = "Err" -> Leave(p) /\ UNCHANGED <<file, wt>>
        [] outcome = "FellThrough" -> land_as_received_pointer(p, l.dest, l.rs) /\ UNCHANGED wt
        [] outcome = "AlreadyCompleted" -> AlreadyCompleted(p, l) /\ UNCHANGED file
        [] OTHER -> /\ proc' = [proc EXCEPT ![p].at = "publish", ![p].k = 1]
                    /\ wt' = IF l.ref = CurrentBranch THEN [wt EXCEPT !.marker = TRUE] ELSE wt
                    /\ UNCHANGED <<file, lock>>

land_one_ref(p, l) ==
  IF l.rs \in Held /\ \A sigs \in StoredSigs(l.rs) : refuse_forged_publication_signature(Policy, sigs)
  THEN Leave(p) /\ UNCHANGED <<file, wt>>
  ELSE IF l.origin = "Local" /\ proc[p].adopt THEN AdoptLanding(p, l)
  ELSE land_as_received_pointer(p, l.dest, l.rs) /\ UNCHANGED wt

\* A received ref whose name one of the exporter's refs has taken is left
\* out: the exporter's own ref wins.
CollidesWithLocal(p, l) == l.origin = "Received" /\ l.dest \in proc[p].taken

\* Every landing done: emptying the journal is the commit point.
CommitImport(p) ==
  /\ journal' = None
  /\ done' = done \cup UNION {{<<c, e>> : e \in ToSet(file[c])} : c \in {"reflog", "pointers", "received"}}
  /\ Leave(p)

ImportRef(p) ==
  /\ Alone(p) /\ proc[p].at = "refs"
  /\ IF proc[p].i > Len(proc[p].seen.landing)
     THEN CommitImport(p) /\ UNCHANGED <<file, wt>>
     ELSE /\ IF CollidesWithLocal(p, NextLanding(p))
             THEN proc' = [proc EXCEPT ![p].i = @ + 1] /\ UNCHANGED <<file, lock, wt>>
             ELSE land_one_ref(p, NextLanding(p))
          /\ UNCHANGED <<journal, done>>
  /\ UNCHANGED <<shelf, n, before>>

\* One update of an adopted ref's chain: the log record, then the pointer,
\* against the state the update before it left.
ImportPublish(p) ==
  LET l == NextLanding(p)
      us == UpdatesOf(Archive[proc[p].archive].reflog, l.ref)
      u == us[proc[p].k]
      last == IF proc[p].k = 1 THEN None ELSE us[proc[p].k - 1].new
  IN  /\ Alone(p) /\ proc[p].at = "publish"
      /\ IF u.new \notin Held \/ Lookup(file.pointers, l.ref) # last
         THEN Leave(p) /\ UNCHANGED file
         ELSE /\ file' = [file EXCEPT !.reflog = Append(@, u),
                                      !.pointers = Append(@, [ref |-> l.ref, rs |-> u.new])]
              /\ proc' = IF proc[p].k < Len(us) THEN [proc EXCEPT ![p].k = @ + 1]
                         ELSE IF l.ref = CurrentBranch THEN [proc EXCEPT ![p].at = "materialize"]
                         ELSE [proc EXCEPT ![p].at = "refs", ![p].i = @ + 1, ![p].taken = @ \cup {l.ref}]
              /\ UNCHANGED lock
      /\ UNCHANGED <<journal, wt, shelf, n, before, done>>

\* Files one by one, then the baseline record, then the marker goes.
materialize_after_publish(p) ==
  /\ Alone(p) /\ proc[p].at = "materialize"
  /\ IF wt.edited THEN Leave(p) /\ UNCHANGED wt
     ELSE IF wt.shows = "old"
          THEN wt' = [wt EXCEPT !.shows = "mixed"] /\ UNCHANGED <<proc, lock>>
     ELSE /\ wt' = [wt EXCEPT !.shows = "new", !.marker = FALSE]
          /\ proc' = [proc EXCEPT ![p].at = "refs", ![p].i = @ + 1,
                                  ![p].taken = @ \cup {NextLanding(p).ref}]
          /\ UNCHANGED lock
  /\ UNCHANGED <<file, journal, shelf, n, before, done>>

import_archive(p) ==
  \/ ImportBegin(p) \/ ImportLock(p) \/ ImportPlan(p) \/ ImportObject(p) \/ ImportIndex(p)
  \/ ImportKey(p) \/ ImportRef(p) \/ ImportPublish(p) \/ materialize_after_publish(p)

----------------------------------------------------------------------------
(* Cancelling. *)

CancelBegin(p) ==
  /\ Alone(p) /\ proc[p].at = "idle" /\ n.runs < MaxRuns /\ read_journal # None
  /\ proc' = [proc EXCEPT ![p] = [at |-> "cancelLocks", seen |-> read_journal, i |-> 1]]
  /\ n' = [n EXCEPT !.runs = @ + 1]
  /\ UNCHANGED <<file, journal, lock, wt, shelf, before, done>>

CancelLock(p) ==
  /\ Alone(p) /\ proc[p].at = "cancelLocks"
  /\ acquire_container_locks(p, ImportLocks \ {"ObjectStore"}, "cancel")
  /\ UNCHANGED <<file, journal, wt, shelf, n, before, done>>

\* Container by container, in the journal's order: what lies past the
\* journaled length is saved to the recovery log and cut.  The object
\* store's lock is taken for each of its containers in turn.
CancelCut(p) ==
  LET c == Containers[proc[p].i]
      keep == proc[p].seen.lens[c]
  IN  /\ Alone(p) /\ proc[p].at = "cancel" /\ proc[p].i <= Len(Containers)
      /\ IF c \in {"objects", "index"} /\ lock["ObjectStore"] # None
         THEN Leave(p) /\ UNCHANGED file
         ELSE /\ file' = IF Len(file[c]) > keep THEN [file EXCEPT ![c] = SubSeq(@, 1, keep)] ELSE file
              /\ proc' = [proc EXCEPT ![p].i = @ + 1]
              /\ UNCHANGED lock
      /\ UNCHANGED <<journal, wt, shelf, n, before, done>>

CancelEnd(p) ==
  /\ Alone(p) /\ proc[p].at = "cancel" /\ proc[p].i > Len(Containers)
  /\ journal' = None
  /\ Leave(p)
  /\ UNCHANGED <<file, wt, shelf, n, before, done>>

cancel_import(p) == CancelBegin(p) \/ CancelLock(p) \/ CancelCut(p) \/ CancelEnd(p)

----------------------------------------------------------------------------
(* Everybody else: any command that writes looks for the journal, takes its *)
(* locks, appends and leaves. *)

\* Mutant: the journal does not stop an ordinary writer.
refuse_while_present_never == FALSE

refuse_while_present == journal # None

WriterBegin(p) ==
  /\ Alone(p) /\ proc[p].at = "idle" /\ n.writes < Len(Written)
  /\ ~refuse_while_present
  /\ Go(p, "writerLocks") /\ n' = [n EXCEPT !.writes = @ + 1]
  /\ UNCHANGED <<file, journal, lock, wt, shelf, before, done>>

WriterLock(p) ==
  /\ Alone(p) /\ proc[p].at = "writerLocks"
  /\ acquire_container_locks(p, ImportLocks, "write")
  /\ UNCHANGED <<file, journal, wt, shelf, n, before, done>>

WriterWrite(p) ==
  LET w == Written[n.writes]
      old == Lookup(file.pointers, w.ref)
      u == [ref |-> w.ref, old |-> old, new |-> w.rs, seq |-> 1, sigs |-> w.sigs]
      at(i) == Len(file.objects) + i
  IN  /\ Alone(p) /\ proc[p].at = "write"
      /\ IF old # None THEN UNCHANGED <<file, done>>
         ELSE /\ file' = [file EXCEPT
                   !.objects = @ \o [i \in DOMAIN w.objects |-> [id |-> w.objects[i], sigs |-> w.sigs]],
                   !.index = @ \o [i \in DOMAIN w.objects |-> [id |-> w.objects[i], at |-> at(i)]],
                   !.reflog = Append(@, u),
                   !.pointers = Append(@, [ref |-> w.ref, rs |-> w.rs])]
              /\ done' = done \cup {<<"pointers", [ref |-> w.ref, rs |-> w.rs]>>, <<"reflog", u>>}
      /\ Leave(p)
      /\ UNCHANGED <<journal, wt, shelf, n, before>>

Writer(p) == WriterBegin(p) \/ WriterLock(p) \/ WriterWrite(p)

----------------------------------------------------------------------------
(* Faults, and the user. *)

\* An I/O error ends the command and drops its locks.
IoError(p) ==
  /\ Alone(p) /\ n.faults < MaxFaults
  /\ proc[p].at \in {"plan", "objects", "index", "keys", "refs", "publish", "materialize", "cancel"}
  /\ Leave(p) /\ n' = [n EXCEPT !.faults = @ + 1]
  /\ UNCHANGED <<file, journal, wt, shelf, before, done>>

\* A killed process leaves its lock files.
Crash(p) ==
  /\ Alone(p) /\ n.faults < MaxFaults
  /\ proc[p].at \in {"plan", "objects", "index", "keys", "refs", "publish", "materialize", "cancel"}
  /\ proc' = [proc EXCEPT ![p] = [at |-> "dead"]] /\ n' = [n EXCEPT !.faults = @ + 1]
  /\ UNCHANGED <<file, journal, lock, wt, shelf, before, done>>

Unlock(p) ==
  /\ Alone(p) /\ proc[p].at = "dead" /\ Leave(p)
  /\ UNCHANGED <<file, journal, wt, shelf, n, before, done>>

\* The user edits a tracked file, or restores it.
EditWorktree ==
  /\ n.edits < MaxEdits
  /\ wt' = [wt EXCEPT !.edited = ~@] /\ n' = [n EXCEPT !.edits = @ + 1]
  /\ UNCHANGED <<file, journal, lock, proc, shelf, before, done>>

----------------------------------------------------------------------------
InitWith(files) ==
  /\ file = files
  /\ journal = None
  /\ lock = [l \in ImportLocks |-> None]
  /\ proc = [p \in Procs |-> Idle]
  /\ wt = [edited |-> FALSE, shows |-> "old", marker |-> FALSE]
  /\ shelf = None
  /\ n = [runs |-> 0, writes |-> 0, faults |-> 0, edits |-> 0, exports |-> 0]
  /\ before = files
  /\ done = {}

Next ==
  \/ \E p \in Procs : \/ import_archive(p) \/ cancel_import(p) \/ Writer(p)
                       \/ IoError(p) \/ Crash(p) \/ Unlock(p)
  \/ export_archive \/ EditWorktree

----------------------------------------------------------------------------
(* Properties. *)

\* Cancelling undoes the import exactly: whatever runs, failures, crashes and
\* half-finished cancellations lie between, when cancel_import empties the
\* journal every container is what it was when the journal was written.
CancelRestores ==
  [][\A p \in Procs : proc[p].at = "cancel" /\ proc'[p].at = "idle" /\ journal' # journal
       => file' = before]_vars

\* What a finished command wrote stays: neither a resumed import nor a
\* cancellation takes away a ref an import committed or a writer published.
DoneIsKept == \A d \in done : d[2] \in ToSet(file[d[1]])

\* Once no import is pending, everything a ref leads to is in the store and
\* found through the index, interrupted runs and cancellations included.
RefsLeadSomewhere ==
  journal = None /\ (\A p \in Procs : proc[p].at \in {"idle", "dead"}) =>
    \A e \in ToSet(file.pointers) \cup ToSet(file.received) :
      /\ e.rs \in Held
      /\ \A id \in compute_reachable(Held, {e.rs}) :
           Meta[id].parents \cup Meta[id].patches \cup Meta[id].target \subseteq Held

\* Adoption takes no step this repository does not trust: every update in the
\* ref log, those of an adopted chain one by one, has a trusted signature.
LogIsTrusted ==
  \A i \in DOMAIN file.reflog : ChainTrusted(<<file.reflog[i]>>)

\* What export writes at any moment it agrees to write, import would accept.
ExportedVerifies == shelf # None => verify_archive(shelf)

\* What an import, its failures and its cancellation leave is a repository whose
\* refs lead to whole and trusted histories and that can be exported again.
RepositoryStaysWhole == RefsLeadSomewhere /\ LogIsTrusted /\ ExportedVerifies
=============================================================================
