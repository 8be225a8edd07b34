--------------------------- MODULE PatchExchange ---------------------------
(***************************************************************************)
(* `prikk sync`: two repositories exchange the patches of a branch through *)
(* files.  The receiver says what it has, the sender builds an artifact of *)
(* what is missing with one recognition claim for each block that sealed   *)
(* it, the receiver accepts (stores) it, and seals the claims it chooses   *)
(* into blocks of its own.  Tags travel too and are adopted by the set of  *)
(* patches they name.  Files are kept, and used again long after.          *)
(*                                                                         *)
(* An object's id is its payload, so a block is the record of its parents  *)
(* and patches, and a claim that of the block, its patches and parents.    *)
(***************************************************************************)
EXTENDS Naturals, Sequences, FiniteSets, SequencesExt

CONSTANTS
  None,
  Replicas,
  Refs,          \* branch names
  Own,           \* the plans: replica -> <<[do: seal a block or tag, ref, patches, tag], ...>>
  Blobs,         \* patch -> the blobs it names
  Needs,         \* patch -> the patches without which it does not apply
  Policy,        \* replica -> the replicas whose maintainer key it adopted
  MaxCrashes

VARIABLES
  repo,          \* replica -> its objects and refs
  lock,          \* replica -> is ActiveLock taken?
  have,          \* replica -> the last have list it wrote
  art,           \* replica -> the last artifact built for it
  job,           \* replica -> the sync command it is running
  own,           \* replica -> what is left of its own work
  crashes

vars == <<repo, lock, have, art, job, own, crashes>>

Idle == [at |-> "idle"]
Busy(r) == job[r] # Idle

\* Repositories share nothing but files that are read whole at the beginning
\* of a command and written whole at its end, so commands of two of them need
\* not be interleaved.
Ready(r) == \A s \in Replicas : ~Busy(s)

----------------------------------------------------------------------------
(* Patch sets. *)

RECURSIVE ancestors_inclusive(_)
ancestors_inclusive(b) == {b} \cup UNION {ancestors_inclusive(p) : p \in b.parents}

patch_ids_reachable_from_block(b) == UNION {ToSet(a.patches) : a \in ancestors_inclusive(b)}

\* The digest of a set of patches stands for the set and its size.
compute_patch_set_digest(ids) == <<Cardinality(ids), ids>>

compute_patch_set_digest_from_block(b) == compute_patch_set_digest(patch_ids_reachable_from_block(b))

\* A branch's block, or its tag's.
resolve_ref_to_tip_block(r, ref) ==
  IF ref \in DOMAIN repo[r].heads THEN repo[r].heads[ref] ELSE repo[r].tagRefs[ref].target

LocalTips(r) ==
  {resolve_ref_to_tip_block(r, ref) : ref \in DOMAIN repo[r].heads \cup DOMAIN repo[r].tagRefs}

\* No received (remotes/) history takes part.
compute_patch_set_digest_for_ref(r, ref) ==
  compute_patch_set_digest_from_block(resolve_ref_to_tip_block(r, ref))

\* A parent's closure is handed to each child and dropped with the last.
take_parent_closure(parent, live, left) ==
  [closure |-> live[parent],
   live |-> IF left[parent] = 1 THEN [b \in DOMAIN live \ {parent} |-> live[b]] ELSE live,
   left |-> [left EXCEPT ![parent] = @ - 1]]

\* All parents' closures, taken one after the other.
RECURSIVE TakeAll(_, _, _, _)
TakeAll(parents, live, left, got) ==
  IF parents = {} THEN [closure |-> got, live |-> live, left |-> left]
  ELSE LET p == CHOOSE q \in parents : TRUE
           t == take_parent_closure(p, live, left)
       IN  TakeAll(parents \ {p}, t.live, t.left, got \cup t.closure)

\* Blocks parents first, keeping only the closures that children still need.
RECURSIVE Matching(_, _, _, _, _)
Matching(blocks, done, live, left, digest) ==
  LET ready == {b \in blocks \ done : b.parents \subseteq done}
      b == CHOOSE x \in ready : TRUE
      t == TakeAll(b.parents, live, left, {})
      closure == t.closure \cup ToSet(b.patches)
      kept == IF left[b] > 0
              THEN [x \in DOMAIN t.live \cup {b} |-> IF x = b THEN closure ELSE t.live[x]]
              ELSE t.live
  IN  IF ready = {} THEN {}
      ELSE (IF compute_patch_set_digest(closure) = digest THEN {b} ELSE {})
           \cup Matching(blocks, done \cup {b}, kept, t.left, digest)

\* The one block of the local refs' history that has exactly these patches;
\* two are an error, and nothing is picked.
resolve_patch_set_digest(r, digest) ==
  LET blocks == UNION {ancestors_inclusive(t) : t \in LocalTips(r)}
      left == [b \in blocks |-> Cardinality({c \in blocks : b \in c.parents})]
      found == Matching(blocks, {}, <<>>, left, digest)
  IN  IF Cardinality(found) = 1 THEN found ELSE {}

\* Held here and reached from no local ref.
accepted_but_unsealed_patch_ids(r) ==
  repo[r].patches \ UNION {patch_ids_reachable_from_block(t) : t \in LocalTips(r)}

----------------------------------------------------------------------------
(* Claims. *)

\* An adopted signer makes it sound; a signer not adopted says nothing.
verify_claim_signature(r, signers) ==
  CASE signers = {} -> "refused"
    [] signers \cap Policy[r] # {} -> "Sound"
    [] OTHER -> "Unverifiable"

\* Against the block, when it is held.
check_recognition_claim_consistency(r, c) ==
  CASE c.block \notin repo[r].blocks -> "BlockAbsent"
    [] c.block.patches # c.patches \/ c.block.parents # c.parents -> "Contradicted"
    [] OTHER -> "Consistent"

\* The patches two claims share come in the same order in both.
orders_agree_on_overlap(a, b) ==
  LET shared(s, t) == SelectSeq(s, LAMBDA p : p \in ToSet(t))
  IN  shared(a, b) = shared(b, a)

enumerate_stored_claims(r) == DOMAIN repo[r].claims

refuse_if_order_ambiguous(r, c) ==
  \E d \in enumerate_stored_claims(r) \ {c} : ~orders_agree_on_overlap(c.patches, d.patches)

\* A claim comes after the claims of its block's parents.  Two claims of one
\* block, or a cycle, are refused.
RECURSIVE OrderFrom(_, _)
OrderFrom(S, done) ==
  LET ready == {c \in S \ done : \A d \in S \ done : d.block \notin c.parents}
      c == CHOOSE x \in ready : TRUE
  IN  IF ready = {} THEN <<>> ELSE <<c>> \o OrderFrom(S, done \cup {c})

order_claims_for_sealing(S) ==
  IF \E c, d \in S : c # d /\ c.block = d.block THEN <<>> ELSE OrderFrom(S, {})

\* Ancestor of a local branch or tag.  (Received refs are not in this model.)
block_is_sealed_or_received(r, b) == \E t \in LocalTips(r) : b \in ancestors_inclusive(t)

candidates_by_recognized_block(r, b) == {c \in enumerate_stored_claims(r) : c.block = b}

sound_count(r, S) == Cardinality({c \in S : verify_claim_signature(r, repo[r].claims[c]) = "Sound"})

Refused(why) == [ok |-> FALSE, why |-> why]

\* From a claim back to a block sealed here: of several claims of one block
\* the only sound one is followed.
RECURSIVE WalkFrom(_, _, _)
WalkFrom(r, links, visited) ==
  LET at == Head(links)
      parent == CHOOSE b \in at.parents : TRUE
      candidates == candidates_by_recognized_block(r, parent)
      chosen == IF Cardinality(candidates) = 1 THEN candidates
                ELSE IF sound_count(r, candidates) = 1
                     THEN {c \in candidates : verify_claim_signature(r, repo[r].claims[c]) = "Sound"}
                     ELSE {}
  IN  CASE at.parents = {} -> [ok |-> TRUE, links |-> links, anchor |-> None]
        [] Cardinality(at.parents) > 1 -> Refused("SeveralParents")
        [] block_is_sealed_or_received(r, parent) -> [ok |-> TRUE, links |-> links, anchor |-> parent]
        [] parent \in visited -> Refused("Cycle")
        [] candidates = {} -> Refused("ParentNotSealed")
        [] chosen = {} -> Refused("SharedBlock")
        [] OTHER -> WalkFrom(r, <<CHOOSE c \in chosen : TRUE>> \o links, visited \cup {parent})

\* Mutant: where the claims end the chain ends.
RECURSIVE WalkLeniently(_, _, _)
WalkLeniently(r, links, visited) ==
  LET at == Head(links)
      parent == CHOOSE b \in at.parents : TRUE
      candidates == candidates_by_recognized_block(r, parent)
      chosen == IF Cardinality(candidates) = 1 THEN candidates
                ELSE IF sound_count(r, candidates) = 1
                     THEN {c \in candidates : verify_claim_signature(r, repo[r].claims[c]) = "Sound"}
                     ELSE {}
  IN  CASE at.parents = {} -> [ok |-> TRUE, links |-> links, anchor |-> None]
        [] Cardinality(at.parents) > 1 -> Refused("SeveralParents")
        [] block_is_sealed_or_received(r, parent) -> [ok |-> TRUE, links |-> links, anchor |-> parent]
        [] parent \in visited -> Refused("Cycle")
        [] candidates = {} -> [ok |-> TRUE, links |-> links, anchor |-> None]
        [] chosen = {} -> Refused("SharedBlock")
        [] OTHER -> WalkLeniently(r, <<CHOOSE c \in chosen : TRUE>> \o links, visited \cup {parent})

walk_claim_chain_lenient(r, c) == WalkLeniently(r, <<c>>, {c.block})

walk_claim_chain(r, c) == WalkFrom(r, <<c>>, {c.block})

----------------------------------------------------------------------------
(* The files. *)

Reachable(r, ref) ==
  IF ref \in DOMAIN repo[r].heads THEN patch_ids_reachable_from_block(repo[r].heads[ref]) ELSE {}

\* Mutant: what is held is had, sealed or not.
build_have_list_held(r, ref) ==
  [ref |-> ref, digest |-> compute_patch_set_digest(repo[r].patches), ids |-> repo[r].patches]

\* An absent ref has nothing.
build_have_list(r, ref) ==
  [ref |-> ref, digest |-> compute_patch_set_digest(Reachable(r, ref)), ids |-> Reachable(r, ref)]

decode_have_list(h) == compute_patch_set_digest(h.ids) = h.digest

compute_sync_delta(s, h) == Reachable(s, h.ref) \ h.ids

Have(r) ==
  /\ Ready(r)
  /\ \E ref \in Refs : have' = [have EXCEPT ![r] = build_have_list(r, ref)]
  /\ UNCHANGED <<repo, lock, art, job, own, crashes>>

\* `sync build` reads the branch for the delta, and again for the claims: it
\* may have grown between the two.
BuildDelta(s, r) ==
  /\ Ready(s) /\ have[r] # None /\ decode_have_list(have[r])
  /\ job' = [job EXCEPT ![s] = [at |-> "build", for |-> r, ref |-> have[r].ref,
                                delta |-> compute_sync_delta(s, have[r])]]
  /\ UNCHANGED <<repo, lock, have, art, own, crashes>>

\* Local tags on the branch's history.
TagsOn(s, ancestors) ==
  {repo[s].tagRefs[t] : t \in {u \in DOMAIN repo[s].tagRefs : repo[s].tagRefs[u].target \in ancestors}}

ClaimOf(b) == [block |-> b, patches |-> b.patches, parents |-> b.parents]

\* What an artifact carries: the delta, the blobs it names, claims and tags.
export_exchange_artifact(delta, claims, tags) ==
  [digest |-> compute_patch_set_digest(delta), patches |-> delta,
   blobs |-> UNION {Blobs[p] : p \in delta}, claims |-> claims, tags |-> tags]

AddClaims(held, new) ==
  [c \in DOMAIN held \cup DOMAIN new |->
     (IF c \in DOMAIN held THEN held[c] ELSE {}) \cup (IF c \in DOMAIN new THEN new[c] ELSE {})]

\* Signed claims are stored here before they travel.
BuildArtifact(s) ==
  LET j == job[s]
      ancestors == IF j.ref \in DOMAIN repo[s].heads THEN ancestors_inclusive(repo[s].heads[j.ref]) ELSE {}
      tags == TagsOn(s, ancestors)
      qualifying == {b \in ancestors : ToSet(b.patches) \cap j.delta # {}}
      sent == {ClaimOf(b) : b \in qualifying}
      signed == AddClaims(repo[s].claims, [c \in sent |-> {s}])
  IN  /\ j.at = "build"
      /\ IF (j.delta = {} /\ tags = {}) \/ s \notin Policy[s]
         THEN UNCHANGED <<repo, art>>
         ELSE /\ repo' = [repo EXCEPT ![s].claims = signed]
              /\ art' = [art EXCEPT ![j.for] =
                            export_exchange_artifact(j.delta, [c \in sent |-> signed[c]], tags)]
      /\ job' = [job EXCEPT ![s] = Idle]
      /\ UNCHANGED <<lock, have, own, crashes>>

----------------------------------------------------------------------------
(* Accept. *)

\* Everything is checked before the lock, against what is held then.
AcceptChecks(r, a) ==
  /\ compute_patch_set_digest(a.patches) = a.digest
  /\ \A p \in a.patches : Blobs[p] \subseteq a.blobs \cup repo[r].blobs
  /\ \A c \in DOMAIN a.claims : /\ verify_claim_signature(r, a.claims[c]) # "refused"
                                /\ check_recognition_claim_consistency(r, c) # "Contradicted"

AcceptBegin(r) ==
  /\ Ready(r) /\ art[r] # None /\ AcceptChecks(r, art[r])
  /\ job' = [job EXCEPT ![r] = [at |-> "accept", from |-> art[r]]]
  /\ UNCHANGED <<repo, lock, have, art, own, crashes>>

Content(a) == [i \in 1..Cardinality(a.patches) |-> <<"patch", SetToSeq(a.patches)[i]>>]
              \o [i \in 1..Cardinality(a.blobs) |-> <<"blob", SetToSeq(a.blobs)[i]>>]
Publications(a) ==
  LET claims == SetToSeq(DOMAIN a.claims)
      tags == SetToSeq(a.tags)
  IN  [i \in DOMAIN claims |-> <<"claim", claims[i]>>] \o [i \in DOMAIN tags |-> <<"tag", tags[i]>>]

\* Patches and blobs, then claims and tags, which say that they were accepted.
AcceptOrder(a) == Content(a) \o Publications(a)

AcceptLock(r) ==
  /\ job[r].at = "accept" /\ ~lock[r]
  /\ lock' = [lock EXCEPT ![r] = TRUE]
  /\ job' = [job EXCEPT ![r] = [at |-> "write", from |-> job[r].from, todo |-> AcceptOrder(job[r].from)]]
  /\ UNCHANGED <<repo, have, art, own, crashes>>

\* A new claim is kept as it came; to one held already only signatures by
\* adopted keys are added.
Stored(r, a, o) ==
  CASE o[1] = "patch" -> [repo[r] EXCEPT !.patches = @ \cup {o[2]}]
    [] o[1] = "blob"  -> [repo[r] EXCEPT !.blobs = @ \cup {o[2]}]
    [] o[1] = "claim" -> [repo[r] EXCEPT !.claims = AddClaims(@, [c \in {o[2]} |->
                            IF c \in DOMAIN @ THEN a.claims[c] \cap Policy[r] ELSE a.claims[c]])]
    [] o[1] = "tag"   -> [repo[r] EXCEPT !.tags = @ \cup {o[2]}]

AcceptWrite(r) ==
  LET j == job[r]
      last == Len(j.todo) = 1
  IN  /\ j.at = "write"
      /\ repo' = [repo EXCEPT ![r] = Stored(r, j.from, Head(j.todo))]
      /\ job' = [job EXCEPT ![r] = IF last THEN Idle ELSE [j EXCEPT !.todo = Tail(@)]]
      /\ lock' = [lock EXCEPT ![r] = ~last]
      /\ UNCHANGED <<have, art, own, crashes>>

----------------------------------------------------------------------------
(* Seal. *)

\* The claims are put in order before the lock is taken.
SealBegin(r) ==
  /\ Ready(r) /\ ~lock[r]
  /\ \E ref \in Refs, S \in {DOMAIN repo[r].claims} \cup {{c} : c \in DOMAIN repo[r].claims} :
       /\ order_claims_for_sealing(S) # <<>>
       /\ job' = [job EXCEPT ![r] = [at |-> "seal", ref |-> ref, todo |-> order_claims_for_sealing(S)]]
  /\ lock' = [lock EXCEPT ![r] = TRUE]
  /\ UNCHANGED <<repo, have, art, own, crashes>>

\* Mutant: what is sealed already is sealed again.
SelectedAll(r, c) == c.patches

\* The patches of the claim not yet sealed here, in the claim's order.
Selected(r, c) == SelectSeq(c.patches, LAMBDA p : p \in accepted_but_unsealed_patch_ids(r))

\* Every patch applies where it is put, after those before it.
AppliesOn(r, ref, patches) ==
  \A i \in DOMAIN patches :
    Needs[patches[i]] \subseteq Reachable(r, ref) \cup {patches[j] : j \in 1..(i - 1)}

SealRefused(r, ref, c) ==
  \/ ~(ToSet(c.patches) \subseteq repo[r].patches)
  \/ refuse_if_order_ambiguous(r, c)
  \/ r \notin Policy[r]
  \/ verify_claim_signature(r, repo[r].claims[c]) = "refused"
  \/ ~AppliesOn(r, ref, Selected(r, c))

\* What stands after the current tip.
BlockOn(r, ref, patches) ==
  [parents |-> IF ref \in DOMAIN repo[r].heads THEN {repo[r].heads[ref]} ELSE {}, patches |-> patches]

\* One claim of the batch: nothing to do, refused (which ends the batch), or a
\* block is written.
SealClaim(r) ==
  LET j == job[r]
      c == Head(j.todo)
      rest == IF Len(j.todo) = 1 THEN Idle ELSE [j EXCEPT !.todo = Tail(@)]
      goOn == job' = [job EXCEPT ![r] = rest] /\ lock' = [lock EXCEPT ![r] = rest # Idle] /\ UNCHANGED repo
  IN  /\ j.at = "seal"
      /\ CASE ToSet(c.patches) \subseteq repo[r].patches /\ Selected(r, c) = <<>> -> goOn
           [] SealRefused(r, j.ref, c) ->
                job' = [job EXCEPT ![r] = Idle] /\ lock' = [lock EXCEPT ![r] = FALSE] /\ UNCHANGED repo
           [] OTHER ->
                /\ repo' = [repo EXCEPT ![r].blocks = @ \cup {BlockOn(r, j.ref, Selected(r, c))}]
                /\ job' = [job EXCEPT ![r] = [at |-> "publish", ref |-> j.ref, todo |-> j.todo,
                                              block |-> BlockOn(r, j.ref, Selected(r, c))]]
                /\ UNCHANGED lock
      /\ UNCHANGED <<have, art, own, crashes>>

SetHead(heads, ref, b) == [x \in DOMAIN heads \cup {ref} |-> IF x = ref THEN b ELSE heads[x]]

\* The branch moves to it, and the batch goes on.
SealPublish(r) ==
  LET j == job[r]
      last == Len(j.todo) = 1
  IN  /\ j.at = "publish"
      /\ repo' = [repo EXCEPT ![r].heads = SetHead(@, j.ref, j.block)]
      /\ job' = [job EXCEPT ![r] = IF last THEN Idle
                                   ELSE [at |-> "seal", ref |-> j.ref, todo |-> Tail(j.todo)]]
      /\ lock' = [lock EXCEPT ![r] = ~last]
      /\ UNCHANGED <<have, art, own, crashes>>

----------------------------------------------------------------------------
(* Tags. *)

\* Tags that no local tag ref names.
received_tag_ids(r) == repo[r].tags \ {repo[r].tagRefs[t] : t \in DOMAIN repo[r].tagRefs}

\* A tag object and its ref, which must be new.
create_local_tag(r, name, b, digest) ==
  LET tag == [name |-> name, target |-> b, digest |-> digest, by |-> r]
  IN  /\ name \notin DOMAIN repo[r].tagRefs
      /\ repo' = [repo EXCEPT ![r].tags = @ \cup {tag},
                              ![r].tagRefs = [x \in DOMAIN @ \cup {name} |-> IF x = name THEN tag ELSE @[x]]]

CreateTag(r) ==
  /\ Ready(r) /\ own[r] # <<>> /\ Head(own[r]).do = "tag"
  /\ LET w == Head(own[r])
     IN  /\ w.ref \in DOMAIN repo[r].heads
         /\ create_local_tag(r, w.tag, repo[r].heads[w.ref], compute_patch_set_digest_for_ref(r, w.ref))
  /\ own' = [own EXCEPT ![r] = Tail(@)]
  /\ UNCHANGED <<lock, have, art, job, crashes>>

\* Exactly one received tag of the name, and one local block with its patches.
AdoptTag(r) ==
  /\ Ready(r) /\ r \in Policy[r]
  /\ \E t \in received_tag_ids(r) :
       /\ \A u \in received_tag_ids(r) : u.name = t.name => u = t
       /\ \E b \in resolve_patch_set_digest(r, t.digest) : create_local_tag(r, t.name, b, t.digest)
  /\ UNCHANGED <<lock, have, art, job, own, crashes>>

----------------------------------------------------------------------------
\* A repository's own work: its next block on a branch, while nothing holds
\* the lock.
OwnSeal(r) ==
  /\ ~lock[r] /\ own[r] # <<>> /\ Head(own[r]).do = "seal"
  /\ LET w == Head(own[r])
         b == BlockOn(r, w.ref, w.patches)
     IN  repo' = [repo EXCEPT ![r].patches = @ \cup ToSet(w.patches),
                              ![r].blobs = @ \cup UNION {Blobs[p] : p \in ToSet(w.patches)},
                              ![r].blocks = @ \cup {b},
                              ![r].heads = SetHead(@, w.ref, b)]
  /\ own' = [own EXCEPT ![r] = Tail(@)]
  /\ UNCHANGED <<lock, have, art, job, crashes>>

\* A command is killed, and the operator removes the lock it left.
Crash(r) ==
  /\ Busy(r) /\ crashes < MaxCrashes
  /\ crashes' = crashes + 1
  /\ job' = [job EXCEPT ![r] = Idle]
  /\ lock' = [lock EXCEPT ![r] = FALSE]
  /\ UNCHANGED <<repo, have, art, own>>

NewRepo == [patches |-> {}, blobs |-> {}, blocks |-> {}, claims |-> <<>>, tags |-> {},
            heads |-> <<>>, tagRefs |-> <<>>]

Init ==
  /\ repo = [r \in Replicas |-> NewRepo] /\ lock = [r \in Replicas |-> FALSE]
  /\ have = [r \in Replicas |-> None] /\ art = [r \in Replicas |-> None]
  /\ job = [r \in Replicas |-> Idle] /\ own \in Own /\ crashes = 0

Build(s) == \E r \in Replicas \ {s} : BuildDelta(s, r)

Next ==
  \E r \in Replicas :
    \/ Have(r) \/ Build(r) \/ BuildArtifact(r) \/ AcceptBegin(r) \/ AcceptLock(r) \/ AcceptWrite(r)
    \/ SealBegin(r) \/ SealClaim(r) \/ SealPublish(r) \/ CreateTag(r) \/ AdoptTag(r)
    \/ OwnSeal(r) \/ Crash(r)

Spec == Init /\ [][Next]_vars

\* Every command that was begun ends, and the users go on with the loop of the
\* guide: have, build, accept, seal what was accepted.
SealAll(r) == SealBegin(r) /\ Len(job'[r].todo) = Cardinality(DOMAIN repo[r].claims)

Continue(r) ==
  BuildArtifact(r) \/ AcceptLock(r) \/ AcceptWrite(r) \/ SealClaim(r) \/ SealPublish(r)

FairSpec ==
  /\ Spec
  /\ \A r \in Replicas :
       /\ WF_vars(Continue(r)) /\ WF_vars(OwnSeal(r))
       /\ SF_vars(Have(r)) /\ SF_vars(Build(r)) /\ SF_vars(AcceptBegin(r)) /\ SF_vars(SealAll(r))

----------------------------------------------------------------------------
(* What must hold. *)

\* A held claim, which every other command takes for "this was accepted",
\* names only patches that are held with all their blobs, wherever accept was
\* interrupted: it writes content first.
ClaimsComeLast ==
  \A r \in Replicas : \A c \in DOMAIN repo[r].claims :
    /\ ToSet(c.patches) \subseteq repo[r].patches
    /\ \A p \in ToSet(c.patches) : Blobs[p] \subseteq repo[r].blobs

\* No patch is sealed into a branch's history twice, though claims arrive
\* again, overlap, or name what this repository made itself.
SealedOnce ==
  \A r \in Replicas : \A t \in LocalTips(r) :
    \A a, b \in ancestors_inclusive(t) :
      /\ a # b => ToSet(a.patches) \cap ToSet(b.patches) = {}
      /\ Cardinality(ToSet(a.patches)) = Len(a.patches)

\* An adopted tag names a block with exactly the patches the tag's maker
\* tagged: blocks differ between repositories, the set does not.
TagMeansTheSame ==
  \A r \in Replicas : \A n \in DOMAIN repo[r].tagRefs :
    LET t == repo[r].tagRefs[n]
    IN  \A s \in Replicas : \A u \in repo[s].tags :
          u.name = n /\ u.by # r /\ u.digest = t.digest
          => patch_ids_reachable_from_block(t.target) = patch_ids_reachable_from_block(u.target)

\* The chain of claims back from any pending patch leads to a block sealed
\* here from which the chain's patches make up the sender's block.
ChainRebuildsTheBlock ==
  \A r \in Replicas : \A c \in DOMAIN repo[r].claims :
    LET w == walk_claim_chain(r, c)
    IN  w.ok => patch_ids_reachable_from_block(c.block)
                  = UNION {ToSet(l.patches) : l \in ToSet(w.links)}
                    \cup (IF w.anchor = None THEN {} ELSE patch_ids_reachable_from_block(w.anchor))

\* What is received means what its sender meant: content before claims, tags by
\* the set of patches, blocks along the chain of claims.
ReceivedMeansTheSame == ClaimsComeLast /\ TagMeansTheSame /\ ChainRebuildsTheBlock

\* If the users go on with the loop, every repository comes to have every
\* patch on the branch, in spite of a killed command and old files: no claim
\* is left that cannot be sealed.
Converges ==
  <>[](\A r, s \in Replicas, ref \in Refs : Reachable(r, ref) = Reachable(s, ref))
=============================================================================
