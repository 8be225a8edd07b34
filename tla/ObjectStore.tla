----------------------------- MODULE ObjectStore -----------------------------
(***************************************************************************)
(* The object store's writers and readers over the object containers and   *)
(* the one object index (object_store.rs, foundation/index.rs).  An object *)
(* is appended to its type's container and then named in the index, both   *)
(* under the object-store lock; readers take no lock.  A write of an id    *)
(* already held by another signer appends the union of the signatures, and *)
(* the last record of an id is the one that counts.  A session decides     *)
(* against a snapshot of the index that it refreshes by the index's length *)
(* alone.                                                                  *)
(*                                                                         *)
(* The containers are sound, apart from what a crash tears; the index is a *)
(* cache that may rot in place.  Lengths are in half index records: a torn *)
(* append leaves one, a whole record is two.                               *)
(***************************************************************************)
EXTENDS Naturals, Sequences, FiniteSets, SequencesExt, FiniteSetsExt

CONSTANTS Writers,       \* processes that write, through a session or a FileObjectStore
          Readers,       \* processes that look up through a FileObjectStore's cache
          Types,         \* the object types, in the order a rebuild scans them
          TypeOf,        \* the type of each object id
          Signers,
          MergesSigners, \* format 7: another signer's copy merges; format 6 refuses it
          MaxWrites, MaxCrashes, MaxRot

VARIABLES containers,  \* for each type, its records in append order
          index,       \* the index file
          holder,      \* who holds the object-store lock
          proc,        \* each process
          acked,       \* <<id, signer>> of every write that returned
          writes, crashes, rots,
          overtaken    \* the index was rewritten under an open session, or a session that had read
                       \* it torn scanned the containers around another writer's append

vars == <<containers, index, holder, proc, acked, writes, crashes, rots, overtaken>>

Ids    == DOMAIN TypeOf
Nobody == "nobody"
Torn   == [id |-> Nobody, sigs |-> {}]

IndexEntry(id, at) == [kind |-> "entry", id |-> id, at |-> at]
Bad  == [kind |-> "bad", id |-> Nobody, at |-> 0]
Part == [kind |-> "part", id |-> Nobody, at |-> 0]

Size(record) == IF record.kind = "part" THEN 1 ELSE 2
Extent(records) == FoldLeft(LAMBDA n, r : n + Size(r), 0, records)
current_index_file_length == Extent(index)

-----------------------------------------------------------------------------
(* Reading the index. *)

\* The records of the index from an offset on, what is sound among them, whether one is
\* damaged, and whether a torn append ends them.  An offset inside a record is damage.
ReplayOf(records, misaligned) ==
  LET last == Len(records)
      torn == last > 0 /\ records[last] = Part
  IN [entries  |-> SelectSeq(records, LAMBDA r : r.kind = "entry"),
      failure  |-> misaligned \/ Bad \in Range(records) \/ \E i \in 1 .. last - 1 : records[i] = Part,
      trailing |-> torn,
      extent   |-> Extent(index) - (IF torn THEN 1 ELSE 0)]

IndexReplay(from) ==
  LET start(i) == Extent(SubSeq(index, 1, i - 1))
  IN ReplayOf(SubSeq(index, 1 + Cardinality({i \in DOMAIN index : start(i) < from}), Len(index)),
              \E i \in DOMAIN index : start(i) < from /\ from < start(i) + Size(index[i]))

replay_index_with_extent == IndexReplay(0)
replay_index_tail_with_extent(from) == IndexReplay(from)

\* Where each id's last record is (0: nowhere).
index_position_map(entries) ==
  [id \in Ids |-> LET at == {i \in DOMAIN entries : entries[i].id = id}
                  IN IF at = {} THEN 0 ELSE entries[Max(at)].at]

Extended(by, found) == [id \in Ids |-> IF found[id] = 0 THEN by[id] ELSE found[id]]
extend_entries_and_by_id(by, entries) == Extended(by, index_position_map(entries))

\* Every sound record of the containers, type by type: not the order they were written in.
rebuild_index_from_containers ==
  LET entries(t) == [i \in DOMAIN containers[t] |-> IndexEntry(containers[t][i].id, i)]
  IN FlattenSeq([k \in DOMAIN Types |-> SelectSeq(entries(Types[k]), LAMBDA e : e.id # Nobody)])

Damaged(replay) == replay.failure \/ replay.trailing

\* What a FileObjectStore looks ids up in.
resolve_object_location_entries ==
  IF Damaged(replay_index_with_extent) THEN rebuild_index_from_containers
  ELSE replay_index_with_extent.entries

read_object_at_entry(id, at) == containers[TypeOf[id]][at]

\* What a rewrite installs: nothing when the index is sound and names the same records.
Repaired(replay, rebuilt) ==
  IF ~Damaged(replay) /\ Len(replay.entries) = Len(rebuilt) /\ Range(replay.entries) = Range(rebuilt)
  THEN index ELSE rebuilt
repair_index_from_containers == Repaired(replay_index_with_extent, rebuild_index_from_containers)

\* A write is new, present already, refused by format 6, or merged with the record at `at`.
decide_write_outcome(id, signer, at) ==
  LET stored == read_object_at_entry(id, at).sigs
  IN IF at = 0 THEN [present |-> FALSE, refused |-> FALSE, put |-> [id |-> id, sigs |-> {signer}]]
     ELSE IF signer \in stored THEN [present |-> TRUE, refused |-> FALSE, put |-> Torn]
     ELSE [present |-> FALSE, refused |-> ~MergesSigners, put |-> [id |-> id, sigs |-> stored \cup {signer}]]

-----------------------------------------------------------------------------
(* Processes.  pc: "idle"; a session being opened or refreshed ("open",     *)
(* "refresh", "rescan", "measure"), open ("ready") and writing ("decide",   *)
(* "lock"); any writer's append ("append", "framed", "name", "named").      *)
(* then: where a refresh goes on.                                           *)

NoPositions == [id \in Ids |-> 0]
Idle == [pc |-> "idle", then |-> "ready", by |-> NoPositions, known |-> 0,
         id |-> Nobody, signer |-> Nobody, put |-> Torn]

Init ==
  /\ containers = [t \in Range(Types) |-> <<>>]
  /\ index = <<>>
  /\ holder = Nobody
  /\ proc = [p \in Writers \cup Readers |-> Idle]
  /\ acked = {}
  /\ writes = 0 /\ crashes = 0 /\ rots = 0
  /\ overtaken = FALSE

Session(p) == proc[p].pc # "idle" /\ p \in Writers

\* A step that may rewrite the index.
Install(p, records) ==
  /\ index' = records
  /\ overtaken' = (overtaken \/ (records # index /\ \E q \in Writers \ {p} : Session(q)))

Step(p, s) == proc' = [proc EXCEPT ![p] = s]
Unstored == <<containers, index, overtaken>>
Counters == <<writes, crashes, rots>>

\* ObjectWriteSession::open: a sound index is taken as read; a torn one is left to the
\* writer's own check; a damaged one is measured after the containers were scanned.
Opened(s, replay) ==
  IF replay.failure THEN [s EXCEPT !.pc = "rescan", !.then = "measure"]
  ELSE IF replay.trailing THEN [s EXCEPT !.pc = "rescan", !.known = replay.extent]
  ELSE [s EXCEPT !.pc = "ready", !.known = replay.extent, !.by = index_position_map(replay.entries)]

Open(p) ==
  /\ proc[p].pc = "idle" /\ writes < MaxWrites
  /\ Step(p, Opened(Idle, replay_index_with_extent))
  /\ UNCHANGED <<Unstored, holder, acked, Counters>>

Close(p) ==
  /\ proc[p].pc = "ready"
  /\ Step(p, Idle)
  /\ UNCHANGED <<Unstored, holder, acked, Counters>>

\* The in-memory scan that stands in for a damaged index.
Rescan(p) ==
  LET s == [proc[p] EXCEPT !.by = index_position_map(rebuild_index_from_containers)]
  IN /\ proc[p].pc = "rescan"
     /\ Step(p, [s EXCEPT !.pc = IF s.then = "ready" THEN "ready" ELSE "measure"])
     /\ overtaken' = (overtaken \/ holder # Nobody)
     /\ UNCHANGED <<containers, index, holder, acked, Counters>>

\* After a refresh a session decides its write, or returns from it.
Onward(s) ==
  IF s.then = "return" THEN [s EXCEPT !.pc = "ready", !.then = "ready"]
  ELSE [s EXCEPT !.pc = IF s.then = "decide" THEN "decide" ELSE "ready", !.then = "ready"]
Returned(s) == IF s.then = "return" THEN acked \cup {<<s.id, s.signer>>} ELSE acked

Measure(p) ==
  LET s == [proc[p] EXCEPT !.known = current_index_file_length]
  IN /\ proc[p].pc = "measure"
     /\ Step(p, Onward(s)) /\ acked' = Returned(s)
     /\ UNCHANGED <<Unstored, holder, Counters>>

\* A session's write begins with a check of the length.
WriteObject(p, id, signer) ==
  /\ proc[p].pc = "ready" /\ writes < MaxWrites
  /\ Step(p, [proc[p] EXCEPT !.pc = "refresh", !.then = "decide", !.id = id, !.signer = signer])
  /\ writes' = writes + 1
  /\ UNCHANGED <<Unstored, holder, acked, crashes, rots>>

\* The snapshot after a refresh that needs no rebuild: nothing for the same length, a whole
\* reading when the index shrank, its tail when it grew.
Shrunk(s) == current_index_file_length < s.known
Grown(s)  == current_index_file_length > s.known

Reread(s, whole) == [s EXCEPT !.by = index_position_map(whole.entries), !.known = whole.extent]
ReadOn(s, tail)  == [s EXCEPT !.by = extend_entries_and_by_id(s.by, tail.entries), !.known = tail.extent]

refreshed(s) ==
  IF Shrunk(s) THEN Reread(s, replay_index_with_extent)
  ELSE IF Grown(s) THEN ReadOn(s, replay_index_tail_with_extent(s.known))
  ELSE s

\* ensure_current, without the lock.
EnsureCurrent(p) ==
  LET s == proc[p]
      rebuild == Grown(s) /\ replay_index_tail_with_extent(s.known).failure
  IN /\ s.pc = "refresh"
     /\ ~(Shrunk(s) /\ replay_index_with_extent.failure)
     /\ IF rebuild THEN Step(p, [s EXCEPT !.pc = "rescan"]) /\ UNCHANGED acked
        ELSE Step(p, Onward(refreshed(s))) /\ acked' = Returned(s)
     /\ UNCHANGED <<Unstored, holder, Counters>>

\* The decision made before the lock: only "already present" ends the write here.
DecideWrite(p) ==
  LET s == proc[p]
      decision == decide_write_outcome(s.id, s.signer, s.by[s.id])
  IN /\ s.pc = "decide"
     /\ Step(p, [s EXCEPT !.pc = IF decision.present \/ decision.refused THEN "ready" ELSE "lock"])
     /\ acked' = IF decision.present THEN acked \cup {<<s.id, s.signer>>} ELSE acked
     /\ UNCHANGED <<Unstored, holder, Counters>>

\* Another writer holds the lock: the write fails and the session goes on.
LockConflict(p) ==
  /\ proc[p].pc = "lock" /\ holder # Nobody
  /\ Step(p, [proc[p] EXCEPT !.pc = "ready"])
  /\ UNCHANGED <<Unstored, holder, acked, Counters>>

\* Decided under the lock, against a snapshot brought up to date: a writer that sees damage or
\* a torn tail past what it knows installs the rebuilt index first.
AppendDecided(p, s, decision) ==
  IF decision.present \/ decision.refused
  THEN /\ Step(p, IF s.pc = "idle" THEN Idle ELSE [s EXCEPT !.pc = "ready"])
       /\ acked' = IF decision.present THEN acked \cup {<<s.id, s.signer>>} ELSE acked
       /\ UNCHANGED holder
  ELSE /\ Step(p, [s EXCEPT !.pc = "append", !.put = decision.put,
                            !.then = IF s.pc = "idle" THEN "stored" ELSE "return"])
       /\ holder' = p
       /\ UNCHANGED acked

AppendUnderLock(p, s, records, at) ==
  /\ Install(p, records)
  /\ AppendDecided(p, s, decide_write_outcome(s.id, s.signer, at))

\* Mutant: the decision made before the lock is the one carried out.
ensure_current_locked_never(s) == [s |-> s, records |-> index]

Rebuilt(s, records) ==
  [s |-> [s EXCEPT !.by = index_position_map(records), !.known = Extent(records)], records |-> records]

ensure_current_locked(s) ==
  IF Grown(s) /\ Damaged(replay_index_tail_with_extent(s.known))
  THEN Rebuilt(s, repair_index_from_containers)
  ELSE [s |-> refreshed(s), records |-> index]

DecideLocked(p, current) == AppendUnderLock(p, current.s, current.records, current.s.by[current.s.id])

LockAndDecide(p) ==
  /\ proc[p].pc = "lock" /\ holder = Nobody
  /\ ~(Shrunk(proc[p]) /\ replay_index_with_extent.failure)
  /\ DecideLocked(p, ensure_current_locked(proc[p]))
  /\ UNCHANGED <<containers, Counters>>

\* FileObjectStore::write_object: the whole index is read again under the lock.
Positioned(id, records, entries) == [records |-> records, at |-> index_position_map(entries)[id]]

resolve_object_location_locked(id) ==
  IF Damaged(replay_index_with_extent)
  THEN LET rebuilt == repair_index_from_containers IN Positioned(id, rebuilt, rebuilt)
  ELSE Positioned(id, index, replay_index_with_extent.entries)

StoreLocated(p, s, found) == AppendUnderLock(p, s, found.records, found.at)

StoreObject(p, id, signer) ==
  /\ proc[p].pc = "idle" /\ holder = Nobody /\ writes < MaxWrites
  /\ StoreLocated(p, [Idle EXCEPT !.id = id, !.signer = signer], resolve_object_location_locked(id))
  /\ writes' = writes + 1
  /\ UNCHANGED <<containers, crashes, rots>>

\* The append: part of the record, all of it, part of its index entry, all of it.
AppendPart(p) ==
  LET t == TypeOf[proc[p].id]
  IN /\ proc[p].pc = "append"
     /\ containers' = [containers EXCEPT ![t] = Append(@, Torn)]
     /\ Step(p, [proc[p] EXCEPT !.pc = "framed"])
     /\ UNCHANGED <<index, overtaken, holder, acked, Counters>>

AppendRecord(p) ==
  LET t == TypeOf[proc[p].id]
  IN /\ proc[p].pc = "framed"
     /\ containers' = [containers EXCEPT ![t] = Append(Front(@), proc[p].put)]
     /\ Step(p, [proc[p] EXCEPT !.pc = "name"])
     /\ UNCHANGED <<index, overtaken, holder, acked, Counters>>

AppendEntryPart(p) ==
  /\ proc[p].pc = "name"
  /\ index' = Append(index, Part)
  /\ Step(p, [proc[p] EXCEPT !.pc = "named"])
  /\ UNCHANGED <<containers, overtaken, holder, acked, Counters>>

\* The entry whole, the lock is released.  A session refreshes before it returns.
AppendEntry(p) ==
  LET s == proc[p]
  IN /\ s.pc = "named"
     /\ index' = Append(Front(index), IndexEntry(s.id, Len(containers[TypeOf[s.id]])))
     /\ holder' = Nobody
     /\ IF s.then = "stored"
        THEN Step(p, Idle) /\ acked' = acked \cup {<<s.id, s.signer>>}
        ELSE Step(p, [s EXCEPT !.pc = "refresh", !.put = Torn]) /\ UNCHANGED acked
     /\ overtaken' = (overtaken \/ \E q \in Writers : proc[q].pc = "rescan")
     /\ UNCHANGED <<containers, Counters>>

\* `doctor --repair-index`.
RepairIndex ==
  /\ holder = Nobody
  /\ repair_index_from_containers # index
  /\ Install(Nobody, repair_index_from_containers)
  /\ UNCHANGED <<containers, holder, proc, acked, Counters>>

\* A FileObjectStore's cached lookup: the length first, then the entries, which are kept
\* under the length taken before they were read.
LookupStat(p) ==
  /\ proc[p].pc = "idle"
  /\ proc[p].known # current_index_file_length
  /\ Step(p, [Idle EXCEPT !.pc = "load", !.known = current_index_file_length])
  /\ UNCHANGED <<Unstored, holder, acked, Counters>>

LookupLoad(p) ==
  /\ proc[p].pc = "load"
  /\ Step(p, [proc[p] EXCEPT !.pc = "idle", !.by = index_position_map(resolve_object_location_entries)])
  /\ UNCHANGED <<Unstored, holder, acked, Counters>>

-----------------------------------------------------------------------------
(* Faults. *)

\* A writer dies; its lock is cleared before anyone writes again.
Crash(p) ==
  /\ crashes < MaxCrashes /\ proc[p].pc # "idle"
  /\ Step(p, Idle)
  /\ holder' = IF holder = p THEN Nobody ELSE holder
  /\ crashes' = crashes + 1
  /\ UNCHANGED <<Unstored, acked, writes, rots>>

RotIndex(i) ==
  /\ rots < MaxRot /\ index[i].kind = "entry"
  /\ index' = [index EXCEPT ![i] = Bad]
  /\ rots' = rots + 1
  /\ UNCHANGED <<containers, holder, proc, acked, writes, crashes, overtaken>>

Next ==
  \/ \E p \in Writers : \/ Open(p) \/ Close(p) \/ Rescan(p) \/ Measure(p) \/ EnsureCurrent(p)
                        \/ DecideWrite(p) \/ LockConflict(p) \/ LockAndDecide(p)
                        \/ AppendPart(p) \/ AppendRecord(p) \/ AppendEntryPart(p) \/ AppendEntry(p)
                        \/ Crash(p)
                        \/ \E id \in Ids, signer \in Signers : WriteObject(p, id, signer) \/ StoreObject(p, id, signer)
  \/ \E p \in Readers : LookupStat(p) \/ LookupLoad(p)
  \/ RepairIndex
  \/ \E i \in DOMAIN index : RotIndex(i)

Spec == Init /\ [][Next]_vars

-----------------------------------------------------------------------------
(* Properties. *)

Holds(by, pairs) == \A w \in pairs : by[w[1]] # 0 /\ w[2] \in read_object_at_entry(w[1], by[w[1]]).sigs

\* An object whose write returned is found by whoever looks now, with every signature whose write
\* returned: over an index that is sound, torn or rotted (RFC 162 rule 1: "a reader never refuses
\* while the containers are sound"), through writers that decided before the lock and again under
\* it, crashes between container and index, and at every point of another writer's append.
AcknowledgedIsKept == Holds(index_position_map(resolve_object_location_entries), acked)

\* AcknowledgedIsKept, as long as the index did not change for the better behind a session that had read it.
AcknowledgedIsKeptUnlessOvertaken == ~overtaken => AcknowledgedIsKept

\* A FileObjectStore's cached positions are good for as long as the index has the length they
\* were kept under: "a length match means nothing has written to the index since".  (A record of
\* the index that rots in place leaves its length as it was.)
CacheIsCurrent ==
  \A p \in Readers : proc[p].pc = "idle" /\ proc[p].known = current_index_file_length
                       => overtaken \/ rots > 0 \/ Holds(proc[p].by, acked)
=============================================================================
