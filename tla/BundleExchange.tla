-------------------------- MODULE BundleExchange --------------------------
(***************************************************************************)
(* One ref's history carried between repositories in a file: `bundle       *)
(* export`, `verify`, `preview` and `import`.                              *)
(*                                                                         *)
(* An import opens its view of the object store, takes its locks, reads    *)
(* the file once to decide, and reads it again to write: objects in        *)
(* dependency order, then author keys, then the received pointer.  Beside  *)
(* it run other imports, a writer of this repository's own history, a      *)
(* program that changes the file, and the cancel of an unfinished archive  *)
(* import, which takes objects away.                                       *)
(*                                                                         *)
(* A payload has, beyond what History reads, "ref" and "attests" for a ref *)
(* state and "baseline" for a merge block.                                 *)
(***************************************************************************)
EXTENDS History, SequencesExt

CONSTANTS
  None,
  Procs,         \* commands that can run at once
  Given,         \* name -> bundle, the files there are
  Swaps,         \* <<f, g>>: another program may put what g has into f
  Policy,        \* the adopted maintainer keys
  Derivable,     \* blobs replay can produce though they are not stored
  OwnWork,       \* what the local writer writes: <<[id, sigs], ...>>
  OwnRef,        \* the ref it then moves to the last of them
  MaxObjects,    \* objects a bundle may declare
  MaxRuns, MaxFaults

VARIABLES
  held,          \* id -> stored signatures
  refs,          \* local ref -> ref state
  received,      \* received ref -> ref state
  keys,          \* recorded author keys
  unfinished,    \* objects of an archive import whose journal is still there
  lock,          \* who holds the locks an import takes
  file,          \* name -> bundle, as the files are now
  shelf,         \* the bundle last exported
  own,           \* how much of OwnWork is written
  proc,
  n

vars == <<held, refs, received, keys, unfinished, lock, file, shelf, own, proc, n>>

Idle == [at |-> "idle"]
Held == DOMAIN held
The(S) == CHOOSE x \in S : TRUE

----------------------------------------------------------------------------
(* What a bundle carries, and whether it is enough. *)

\* The ids a carried object names: kept from the first reading of its frame.
closure_metadata_for(id) == Meta[id]

Carried(b) == {e.id : e \in ToSet(b.objects)}

Tip(b) == b.objects[1].id

\* An id carried twice must be the same envelope twice.
prepared_matches_existing(b) ==
  \A d, e \in ToSet(b.objects) : d.id = e.id => d = e

\* Format 1 has neither keys nor manifest, format 2 no manifest.
decode_bundle_closure_metadata(b) ==
  /\ Len(b.objects) <= MaxObjects /\ b.objects # <<>>
  /\ b.version = 1 => b.keys = <<>>
  /\ prepared_matches_existing(b)

\* The first object is the exported ref's state; no key id has two keys.
FirstIsRefState(b) ==
  /\ Meta[Tip(b)].kind = "refstate"
  /\ \A j, k \in ToSet(b.keys) : j.key = k.key => j = k

\* An id is present when the bundle carries it or the view holds it.
present(b, view, ids) == ids \subseteq Carried(b) \cup view

\* The tip's block, through a tag when the ref is one.
TipPresent(b, view) ==
  LET t == The(Meta[Tip(b)].target)
  IN  /\ Meta[t].kind = "tag" => present(b, view, {t})
      /\ present(b, view, {resolve_ref_tip_block(Tip(b))})

RECURSIVE CarriedChain(_, _, _)
CarriedChain(b, id, seen) ==
  LET next == (Meta[id].previous \cap Carried(b)) \ seen
  IN  IF next = {} THEN seen ELSE CarriedChain(b, The(next), seen \cup next)

\* Every link the bundle carries has its attestations and its predecessor;
\* the walk ends at the first predecessor that is only here.
ChainPresent(b, view) ==
  \A rs \in CarriedChain(b, Tip(b), {Tip(b)}) :
    /\ present(b, view, Meta[rs].attests \cup Meta[rs].previous)
    /\ \A a \in Meta[rs].attests : present(b, view, Meta[a].target)

ManifestAgrees(b) ==
  b.version = 3 => /\ b.declaredRef = b.ref /\ b.declaredRef = Meta[Tip(b)].ref
                   /\ b.declaredCount = Len(b.objects)

\* What a snapshot manifest lists, when the bundle carries the manifest.
carried_snapshot_manifest_blob_ids(b, id) ==
  UNION {Meta[s].blobs : s \in Meta[id].snapshot \cap Carried(b)}

ContentsPresent(b, view) ==
  \A id \in Carried(b) :
    LET m == closure_metadata_for(id)
    IN  CASE m.kind = "patch" -> present(b, view, m.blobs)
          [] m.kind = "block" ->
               /\ present(b, view, m.patches \cup m.parents \cup m.snapshot)
               /\ present(b, view, carried_snapshot_manifest_blob_ids(b, id))
          [] OTHER -> TRUE

\* Mutant: a block's parents are not looked for.
validate_bundle_closure_no_parents(b, view) ==
  /\ FirstIsRefState(b) /\ TipPresent(b, view) /\ ChainPresent(b, view) /\ ManifestAgrees(b)
  /\ \A id \in Carried(b) : present(b, view, Meta[id].patches \cup Meta[id].blobs)

validate_bundle_closure(b, view) ==
  /\ FirstIsRefState(b) /\ TipPresent(b, view) /\ ChainPresent(b, view)
  /\ ManifestAgrees(b) /\ ContentsPresent(b, view)

\* Offline: there is no repository to hold what the file does not carry.
verify_bundle(b) == decode_bundle_closure_metadata(b) /\ validate_bundle_closure(b, {})

----------------------------------------------------------------------------
(* How a delivery stands to the received pointer it would replace. *)

RECURSIVE ChainContains(_, _, _)
ChainContains(readable, at, wanted) ==
  CASE at = {} -> "no"
    [] at = {wanted} -> "yes"
    [] ~(at \subseteq readable) -> "error"
    [] OTHER -> ChainContains(readable, Meta[The(at)].previous, wanted)

\* The bundle's own chain is walked through what it carries, the pointer's
\* through the view.
RefStateChainRelation(b, view, prior) ==
  LET mine == ChainContains(Carried(b), {Tip(b)}, prior)
      older == ChainContains(view, {prior}, Tip(b))
  IN  CASE mine = "yes" -> "Extends"
        [] "error" \in {mine, older} -> "error"
        [] older = "yes" -> "Older"
        [] OTHER -> "Unrelated"

bundle_block_ancestor_ids(b) ==
  LET all == ancestors_inclusive(resolve_ref_tip_block(Tip(b)))
  IN  IF all \subseteq Carried(b) THEN all ELSE {}

classify_import_connectivity(b, view, prior) ==
  LET here == resolve_ref_tip_block(prior)
      mine == ancestors_inclusive(here)
      readable == prior \in view /\ mine \subseteq view /\ bundle_block_ancestor_ids(b) # {}
  IN  IF ~readable THEN [class |-> "error", chain |-> "error"]
      ELSE [class |-> classify_connectivity(mine, bundle_block_ancestor_ids(b), here,
                                            resolve_ref_tip_block(Tip(b))),
            chain |-> RefStateChainRelation(b, view, prior)]

\* What import would find if it ran now.
ImportClass(b, view) ==
  IF b.ref \notin DOMAIN received THEN [class |-> "NoLocalHistory", chain |-> "none"]
  ELSE classify_import_connectivity(b, view, received[b.ref])

\* Preview compares with a named ref instead: the bundle read alone on one
\* side, the bundle and this store together on the other.
preview_impact(b, view, prior) ==
  LET here == resolve_ref_tip_block(prior)
      his  == ancestors_inclusive(resolve_ref_tip_block(Tip(b)))
      mine == ancestors_inclusive(here)
  IN  IF ~(his \subseteq Carried(b) /\ mine \subseteq view \cup Carried(b)) THEN "error"
      ELSE classify_connectivity(mine, his, here, resolve_ref_tip_block(Tip(b)))

\* A name under remotes/ must be held; a local ref that is not there is an
\* empty history.
preview_bundle(b, view, prior) ==
  IF ~(decode_bundle_closure_metadata(b) /\ validate_bundle_closure(b, view))
  THEN [class |-> "refused", chain |-> "none", import |-> "none"]
  ELSE IF prior = None
       THEN [class |-> "NoLocalHistory", chain |-> "none", import |-> ImportClass(b, view).class]
  ELSE IF prior \notin view THEN [class |-> "error", chain |-> "error", import |-> "none"]
  ELSE [class |-> preview_impact(b, view, prior), chain |-> RefStateChainRelation(b, view, prior),
        import |-> ImportClass(b, view).class]

----------------------------------------------------------------------------
(* The order of writing. *)

object_type_dependency_rank(kind) ==
  CASE kind \in {"blob", "patch"} -> 0 [] kind = "block" -> 1 [] kind = "attestation" -> 2
    [] kind = "refstate" -> 3 [] kind = "tag" -> 4

same_kind_dependencies(id) ==
  CASE Meta[id].kind = "block" -> Meta[id].parents \cup Meta[id].baseline
    [] Meta[id].kind = "refstate" -> Meta[id].previous
    [] OTHER -> {}

\* Passes over the group, each taking what waits for nothing in the group.
RECURSIVE same_kind_topological_order(_, _)
same_kind_topological_order(pending, written) ==
  LET waits(id) == (same_kind_dependencies(id) \cap ToSet(pending)) \ written # {}
      ready == SelectSeq(pending, LAMBDA id : ~waits(id))
  IN  IF pending = <<>> \/ ready = <<>> THEN <<>>
      ELSE ready \o same_kind_topological_order(SelectSeq(pending, waits), written \cup ToSet(ready))

Ranked(ids, r) == SelectSeq(ids, LAMBDA id : object_type_dependency_rank(Meta[id].kind) = r)

dependency_order_indices(ids) ==
  FlattenSeq([r \in 1..5 |-> same_kind_topological_order(Ranked(ids, r - 1), {})])

\* A repeat is the same frame again and is dropped at its second reading.
Prepared(b) ==
  LET first(i) == \A j \in 1..(i - 1) : b.objects[j].id # b.objects[i].id
      kept == SelectSeq([i \in DOMAIN b.objects |-> i], first)
  IN  [i \in DOMAIN kept |-> b.objects[kept[i]].id]

SigsIn(b, id) == (The({e \in ToSet(b.objects) : e.id = id})).sigs

----------------------------------------------------------------------------
(* Import. *)

Admitted(b, id) ==
  admit_one(IF id \in Held THEN {held[id]} ELSE {}, SigsIn(b, id), Policy, keys \cup ToSet(b.keys))

AdmissionOutcomeKind(b, id) ==
  CASE id \notin Held -> "New"
    [] Admitted(b, id).sigs # held[id] -> "Merged"
    [] OTHER -> "AlreadyPresent"

check_author_key_conflict(b) ==
  \E k \in ToSet(b.keys) : author_key_binding(keys, k) = "Mismatch"

ForgedAmong(b) ==
  \E e \in ToSet(b.objects) : /\ Meta[e.id].kind \in {"block", "refstate"}
                              /\ refuse_forged_publication_signature(Policy, e.sigs)

\* The whole decision.  Nothing is written before it.
ImportDecision(b, view, anyway) ==
  LET found == ImportClass(b, view)
      ok == /\ decode_bundle_closure_metadata(b)
            /\ \A id \in Carried(b) : Admitted(b, id).ok
            /\ validate_bundle_closure(b, view)
            /\ ~check_author_key_conflict(b)
            /\ "error" \notin {found.class, found.chain}
            /\ found.class \in NotFastForward => anyway
            /\ ~ForgedAmong(b)
  IN  [ok |-> ok, class |-> found.class, chain |-> found.chain]

\* The store is viewed and the header read before any lock.
ImportOpen(p) ==
  /\ proc[p].at = "idle" /\ n.runs < MaxRuns
  /\ \E f \in DOMAIN file, anyway \in BOOLEAN :
       /\ Len(file[f].objects) <= MaxObjects
       /\ proc' = [proc EXCEPT ![p] = [at |-> "lock", f |-> f, anyway |-> anyway, view |-> Held]]
  /\ n' = [n EXCEPT !.runs = @ + 1]
  /\ UNCHANGED <<held, refs, received, keys, unfinished, lock, file, shelf, own>>

Leave(p) == proc' = [proc EXCEPT ![p] = Idle] /\ lock' = IF lock = p THEN None ELSE lock

\* Refused while somebody holds one, or while an archive import is unfinished.
ImportLock(p) ==
  /\ proc[p].at = "lock"
  /\ IF lock = None /\ unfinished = {}
     THEN lock' = p /\ proc' = [proc EXCEPT ![p].at = "decide"]
     ELSE Leave(p)
  /\ UNCHANGED <<held, refs, received, keys, unfinished, file, shelf, own, n>>

ImportDecide(p) ==
  LET b == file[proc[p].f]
      d == ImportDecision(b, proc[p].view, proc[p].anyway)
      todo == dependency_order_indices(Prepared(b))
  IN  /\ proc[p].at = "decide"
      /\ IF d.ok
         THEN /\ proc' = [proc EXCEPT ![p] =
                   [at |-> "write", f |-> proc[p].f, anyway |-> proc[p].anyway, read |-> b,
                    todo |-> todo, class |-> d.class, chain |-> d.chain,
                    was |-> [id \in Carried(b) |-> AdmissionOutcomeKind(b, id)]]]
              /\ UNCHANGED lock
         ELSE Leave(p)
      /\ UNCHANGED <<held, refs, received, keys, unfinished, file, shelf, own, n>>

FrameUnchanged(p, id) ==
  LET now == file[proc[p].f]
  IN  id \in Carried(now) /\ SigsIn(now, id) = SigsIn(proc[p].read, id)

\* The next object: its frame must be the one validated, and admitting it
\* must come out as it did then.
ImportWrite(p) ==
  LET now == file[proc[p].f]
      id == Head(proc[p].todo)
  IN  /\ proc[p].at = "write" /\ proc[p].todo # <<>>
      /\ IF /\ FrameUnchanged(p, id) /\ Admitted(now, id).ok
            /\ AdmissionOutcomeKind(now, id) = proc[p].was[id]
         THEN /\ held' = [i \in Held \cup {id} |-> IF i = id THEN Admitted(now, id).sigs ELSE held[i]]
              /\ proc' = [proc EXCEPT ![p].todo = Tail(@)]
              /\ UNCHANGED lock
         ELSE Leave(p) /\ UNCHANGED held
      /\ UNCHANGED <<refs, received, keys, unfinished, file, shelf, own, n>>

ImportKeys(p) ==
  /\ proc[p].at = "write" /\ proc[p].todo = <<>>
  /\ keys' = keys \cup ToSet(proc[p].read.keys)
  /\ proc' = [proc EXCEPT ![p].at = "pointer"]
  /\ UNCHANGED <<held, refs, received, unfinished, lock, file, shelf, own, n>>

\* Mutant: the pointer follows every delivery.
PointerUpdatedAlways(p) == TRUE

\* The same block at an older ref state is not a step forward.
PointerUpdated(p) == ~(proc[p].class = "AlreadyAtTip" /\ proc[p].chain = "Older")

ImportPointer(p) ==
  LET b == proc[p].read
  IN  /\ proc[p].at = "pointer"
      /\ received' = IF PointerUpdated(p)
                     THEN [r \in DOMAIN received \cup {b.ref} |-> IF r = b.ref THEN Tip(b) ELSE received[r]]
                     ELSE received
      /\ Leave(p)
      /\ UNCHANGED <<held, refs, keys, unfinished, file, shelf, own, n>>

----------------------------------------------------------------------------
(* Export: no lock; the store is viewed first and the ref read after. *)

\* Every ref state of the chain, the blocks each leads to with all their
\* ancestors, and what those name.
ExportChain(rs) == RefStateChain(rs)
ExportTags(rs) == {t \in UNION {Meta[s].target : s \in ExportChain(rs)} : Meta[t].kind = "tag"}
ExportBlocks(rs) == UNION {ancestors_inclusive(resolve_ref_tip_block(s)) : s \in ExportChain(rs)}
ExportPatches(rs) == UNION {Meta[b].patches : b \in ExportBlocks(rs)}
ExportBlobs(rs) ==
  LET manifests == UNION {Meta[b].snapshot : b \in ExportBlocks(rs)}
  IN  manifests \cup UNION {Meta[i].blobs : i \in manifests \cup ExportPatches(rs)}
ExportAttestations(rs) == UNION {Meta[s].attests : s \in ExportChain(rs)}

\* The recorded keys of the authors the patches name, and of nobody else.
ExportKeys(rs) ==
  LET signers == UNION {BySigner(held[q], "AUTHOR") : q \in ExportPatches(rs) \cap Held}
  IN  {k \in keys : k.key \in {s.key : s \in signers}}

\* Blobs that replay can produce are produced; anything else must be stored.
\* An author key with two public keys here is not exported.
export_bundle(ref, rs, view) ==
  LET chain == SetToSortSeq(ExportChain(rs), LAMBDA s, t : t \in RefStateChain(s) /\ s # t)
      ids == chain \o SetToSeq(ExportTags(rs)) \o SetToSeq(ExportBlocks(rs))
             \o SetToSeq(ExportPatches(rs)) \o SetToSeq(ExportBlobs(rs)) \o SetToSeq(ExportAttestations(rs))
      needed == ToSet(ids) \ (Derivable \ view)
      sigs(id) == IF id \in Held THEN held[id] ELSE {}
      known == ExportKeys(rs)
  IN  IF ~(needed \subseteq view) \/ \E j, k \in known : j.key = k.key /\ j # k THEN None
      ELSE [version |-> 3, ref |-> ref, declaredRef |-> ref, declaredCount |-> Len(ids),
            objects |-> [i \in DOMAIN ids |-> [id |-> ids[i], sigs |-> sigs(ids[i])]],
            keys |-> SetToSeq(known)]

ExportOpen(p) ==
  /\ proc[p].at = "idle" /\ n.runs < MaxRuns
  /\ \E ref \in DOMAIN refs : proc' = [proc EXCEPT ![p] = [at |-> "export", ref |-> ref, view |-> Held]]
  /\ n' = [n EXCEPT !.runs = @ + 1]
  /\ UNCHANGED <<held, refs, received, keys, unfinished, lock, file, shelf, own>>

ExportRead(p) ==
  /\ proc[p].at = "export"
  /\ shelf' = export_bundle(proc[p].ref, refs[proc[p].ref], proc[p].view)
  /\ proc' = [proc EXCEPT ![p] = Idle]
  /\ UNCHANGED <<held, refs, received, keys, unfinished, lock, file, own, n>>

----------------------------------------------------------------------------
(* What else happens. *)

\* This repository's own history: one object at a time under the object
\* store's lock, and the ref when all are there.
OwnWrite ==
  /\ lock = None /\ own < Len(OwnWork)
  /\ LET e == OwnWork[own + 1]
     IN  held' = [i \in Held \cup {e.id} |-> IF i = e.id /\ i \notin Held THEN e.sigs ELSE held[i]]
  /\ own' = own + 1
  /\ refs' = IF own' = Len(OwnWork)
             THEN [r \in DOMAIN refs \cup {OwnRef} |-> IF r = OwnRef THEN OwnWork[own'].id ELSE refs[r]]
             ELSE refs
  /\ UNCHANGED <<received, keys, unfinished, lock, file, shelf, proc, n>>

\* `received remove`: the pointer goes, the objects stay.
RemoveReceived ==
  /\ lock = None /\ n.faults < MaxFaults
  /\ \E r \in DOMAIN received : received' = [q \in DOMAIN received \ {r} |-> received[q]]
  /\ n' = [n EXCEPT !.faults = @ + 1]
  /\ UNCHANGED <<held, refs, keys, unfinished, lock, file, shelf, own, proc>>

\* Another program replaces a file.
ChangeFile ==
  /\ n.faults < MaxFaults
  /\ \E s \in Swaps : file[s[1]] # Given[s[2]] /\ file' = [file EXCEPT ![s[1]] = Given[s[2]]]
  /\ n' = [n EXCEPT !.faults = @ + 1]
  /\ UNCHANGED <<held, refs, received, keys, unfinished, lock, shelf, own, proc>>

\* `archive import --cancel`: the containers are cut back.
CancelArchive ==
  /\ unfinished # {} /\ lock = None
  /\ held' = [i \in Held \ unfinished |-> held[i]]
  /\ unfinished' = {}
  /\ UNCHANGED <<refs, received, keys, lock, file, shelf, own, proc, n>>

\* A killed import keeps its locks until the operator removes them.
Crash(p) ==
  /\ proc[p].at \in {"decide", "write", "pointer"} /\ n.faults < MaxFaults
  /\ proc' = [proc EXCEPT ![p] = Idle]
  /\ n' = [n EXCEPT !.faults = @ + 1]
  /\ UNCHANGED <<held, refs, received, keys, unfinished, lock, file, shelf, own>>

Unlock ==
  /\ lock # None /\ proc[lock] = Idle /\ lock' = None
  /\ UNCHANGED <<held, refs, received, keys, unfinished, file, shelf, own, proc, n>>

InitWith(h, r, u) ==
  /\ held = h /\ refs = r /\ received = <<>> /\ keys = {} /\ unfinished = u
  /\ lock = None /\ file = Given /\ shelf = None /\ own = 0
  /\ proc = [p \in Procs |-> Idle] /\ n = [runs |-> 0, faults |-> 0]

Next ==
  \/ \E p \in Procs : \/ ImportOpen(p) \/ ImportLock(p) \/ ImportDecide(p) \/ ImportWrite(p)
                      \/ ImportKeys(p) \/ ImportPointer(p) \/ ExportOpen(p) \/ ExportRead(p) \/ Crash(p)
  \/ OwnWrite \/ RemoveReceived \/ ChangeFile \/ CancelArchive \/ Unlock

----------------------------------------------------------------------------
(* What must hold. *)

\* Everything a received history is made of.
HistoryOf(rs) ==
  LET blocks == ancestors_inclusive(resolve_ref_tip_block(rs))
      patches == UNION {Meta[b].patches : b \in blocks}
  IN  RefStateChain(rs) \cup Meta[rs].target \cup blocks \cup patches
      \cup UNION {Meta[q].blobs : q \in patches}

\* A received pointer leads to a whole history, whatever was interrupted,
\* changed under the import or run beside it: closure is checked under the
\* lock, objects come before the pointer, and a changed frame stops it.
ReceivedLeadsSomewhere ==
  \A r \in DOMAIN received : HistoryOf(received[r]) \subseteq Held

\* An import stopped anywhere leaves no block without its parents, its
\* patches and its snapshot, and no ref state without its block: objects are
\* written in dependency order.
BlocksAreWhole ==
  \A id \in Held :
    CASE Meta[id].kind = "block" -> Meta[id].parents \cup Meta[id].patches \cup Meta[id].snapshot \subseteq Held
      [] Meta[id].kind = "refstate" -> {resolve_ref_tip_block(id)} \cup Meta[id].previous \subseteq Held
      [] OTHER -> TRUE

\* No stored object carries a signature in the name of an adopted key that
\* the key did not make, though the file may change after it was validated.
NothingForgedIsStored ==
  \A id \in Held : verify_trusted_publication_envelope(Policy, held[id]) # "forged"

\* Without --allow-non-fast-forward a received pointer only ever moves to a
\* history that has all of the old one, and never back along its own chain.
ReceivedNeverMovesBack ==
  [][\A p \in Procs, r \in DOMAIN received :
       (/\ proc[p].at = "pointer" /\ proc'[p] = Idle /\ ~proc[p].anyway
        /\ r \in DOMAIN received' /\ received'[r] # received[r])
       => /\ ancestors_inclusive(resolve_ref_tip_block(received[r]))
               \subseteq ancestors_inclusive(resolve_ref_tip_block(received'[r]))
          /\ received'[r] \notin RefStateChain(received[r])]_vars

\* A bundle this repository exports is complete by itself: it verifies with
\* no repository at hand, whatever was being written as it was read.
ExportedVerifies == shelf # None => verify_bundle(shelf)

\* The four together: whatever stops or races a transfer, what is stored, what a
\* received ref leads to and what is exported is whole.
TransferIsWhole == ReceivedLeadsSomewhere /\ BlocksAreWhole /\ NothingForgedIsStored /\ ExportedVerifies

\* What preview says of the received ref is what import would decide by, though
\* one walks the bundle through readers and the other its recorded metadata.
PreviewForetellsImport ==
  \A f \in DOMAIN file :
    LET b == file[f]
        said == preview_bundle(b, Held, received[b.ref])
    IN  b.ref \in DOMAIN received /\ said.class \notin {"refused", "error"}
        => [class |-> said.class, chain |-> said.chain] = ImportClass(b, Held)
=============================================================================
