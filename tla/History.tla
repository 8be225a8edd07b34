------------------------------ MODULE History ------------------------------
(***************************************************************************)
(* What every component that moves history shares: the graph of content-   *)
(* addressed objects, how one history stands to another, which signatures  *)
(* count, and which of a delivered object's signatures are kept.           *)
(*                                                                         *)
(* An object id is the hash of its payload, so Meta, a function from ids   *)
(* to payloads, is a constant; what varies is which ids a store holds.     *)
(* A payload is a record of the ids it names:                              *)
(*   kind      "block", "patch", "blob", "refstate", "tag"                 *)
(*   parents, patches, snapshot   of a block                               *)
(*   target, previous             of a ref state (a tag has a target)      *)
(*   blobs                        of a patch or a snapshot manifest        *)
(* each a set, empty when the payload has none.  A signature names a role, *)
(* a key id and the secret that made it: it verifies under exactly the     *)
(* public key of that secret.                                              *)
(***************************************************************************)
EXTENDS Naturals, Sequences, FiniteSets

CONSTANTS Meta, MaxCountedSignatures

----------------------------------------------------------------------------
(* The graph. *)

\* The ids one object leads to.
expand_frontier(id) ==
  LET m == Meta[id]
  IN  m.target \cup m.previous \cup m.parents \cup m.patches \cup m.snapshot \cup m.blobs

RECURSIVE Reached(_, _, _)
Reached(held, seen, frontier) ==
  LET new == (frontier \cap held) \ seen
  IN  IF new = {} THEN seen
      ELSE Reached(held, seen \cup new, UNION {expand_frontier(i) : i \in new})

\* Everything the roots lead to through objects that are held.
compute_reachable(held, roots) == Reached(held, {}, roots)

RECURSIVE Line(_, _, _)
Line(field, seen, frontier) ==
  LET new == frontier \ seen
  IN  IF new = {} THEN seen
      ELSE Line(field, seen \cup new, UNION {Meta[i][field] : i \in new})

\* A block and all its ancestors.
ancestors_inclusive(block) == Line("parents", {}, {block})

\* A ref state and every ref state before it.
RefStateChain(rs) == Line("previous", {}, {rs})

\* The block a ref state names, through a tag when it names one.
resolve_ref_tip_block(rs) ==
  LET t == CHOOSE t \in Meta[rs].target : TRUE
  IN  IF Meta[t].kind = "tag" THEN CHOOSE b \in Meta[t].target : TRUE ELSE t

----------------------------------------------------------------------------
(* How a delivered history stands to the one held. *)

classify_connectivity(localAncestors, deliveredAncestors, localTarget, deliveredTarget) ==
  IF localAncestors \cap deliveredAncestors = {} THEN "DoesNotConnect"
  ELSE IF deliveredTarget \in localAncestors
       THEN IF deliveredTarget = localTarget THEN "AlreadyAtTip" ELSE "Rollback"
  ELSE IF localTarget \in deliveredAncestors THEN "FastForward"
  ELSE "Diverged"

classify_ref_state_chain(delivered, prior) ==
  IF prior \in RefStateChain(delivered) THEN "Extends"
  ELSE IF delivered \in RefStateChain(prior) THEN "Older"
  ELSE "Unrelated"

\* Both walks read every object they pass: one that is missing is an error.
classify_landing_connectivity(held, delivered, prior) ==
  LET mine == ancestors_inclusive(resolve_ref_tip_block(prior))
      his  == ancestors_inclusive(resolve_ref_tip_block(delivered))
      read == mine \cup his \cup RefStateChain(prior) \cup RefStateChain(delivered)
  IN  IF ~(read \subseteq held) THEN [class |-> "Error", chain |-> "Error"]
      ELSE [class |-> classify_connectivity(mine, his, resolve_ref_tip_block(prior),
                                            resolve_ref_tip_block(delivered)),
            chain |-> classify_ref_state_chain(delivered, prior)]

NotFastForward == {"Rollback", "Diverged", "DoesNotConnect"}

----------------------------------------------------------------------------
(* Trust.  A policy and author key material are sets of [key, pub]. *)

KeysOf(material, key) == {k \in material : k.key = key}

Verifies(sig, entry) == sig.pub = entry.pub

BySigner(sigs, role) == {s \in sigs : s.role = role}

\* The verdict on an object's MAINTAINER signatures: one by an adopted key
\* that does not verify spoils them all; otherwise one that does is enough.
verify_trusted_publication_envelope(policy, sigs) ==
  LET known == {s \in BySigner(sigs, "MAINTAINER") : KeysOf(policy, s.key) # {}}
  IN  IF \E s \in known : \E k \in KeysOf(policy, s.key) : ~Verifies(s, k) THEN "forged"
      ELSE IF known # {} THEN "trusted" ELSE "untrusted"

refuse_forged_publication_signature(policy, sigs) ==
  verify_trusted_publication_envelope(policy, sigs) = "forged"

\* One key id binds to one public key, for ever.
author_key_binding(material, entry) ==
  CASE entry \in material -> "Matches"
    [] KeysOf(material, entry.key) = {} -> "Unrecorded"
    [] OTHER -> "Mismatch"

\* No material: unverifiable.  Two public keys for the id, or material that
\* does not verify it: an error.
verify_one_author_signature(sig, entries) ==
  CASE entries = {} -> "unverifiable"
    [] Cardinality({e.pub : e \in entries}) > 1 -> "error"
    [] \E e \in entries : Verifies(sig, e) -> "sound"
    [] OTHER -> "error"

verify_author_signatures_with(sigs, material) ==
  LET verdicts == {verify_one_author_signature(s, KeysOf(material, s.key)) :
                     s \in BySigner(sigs, "AUTHOR")}
  IN  CASE "error" \in verdicts -> "error"
        [] "unverifiable" \in verdicts -> "unverifiable"
        [] "sound" \in verdicts -> "sound"
        [] OTHER -> "none"

----------------------------------------------------------------------------
(* Which signatures of a delivered object are kept. *)

counted_signature_count(policy, sigs) ==
  Cardinality({s \in sigs : ~(/\ s.role = "MAINTAINER"
                              /\ \E k \in KeysOf(policy, s.key) : Verifies(s, k))})

require_within_signature_bound(policy, sigs) ==
  counted_signature_count(policy, sigs) <= MaxCountedSignatures

\* A signature the stored object lacks is added when it verifies under an
\* adopted maintainer key or recorded author material, dropped when nothing
\* here can verify it, and refused when it should verify and does not.
admit_signatures(stored, incoming, policy, material) ==
  LET verdict(s) ==
        CASE s.role = "MAINTAINER" ->
               IF KeysOf(policy, s.key) = {} THEN "drop"
               ELSE IF \E k \in KeysOf(policy, s.key) : Verifies(s, k) THEN "add" ELSE "refuse"
          [] s.role = "AUTHOR" ->
               CASE verify_one_author_signature(s, KeysOf(material, s.key)) = "unverifiable" -> "drop"
                 [] verify_one_author_signature(s, KeysOf(material, s.key)) = "sound" -> "add"
                 [] OTHER -> "refuse"
          [] OTHER -> "drop"
      new == incoming \ stored
  IN  [ok  |-> \A s \in new : verdict(s) # "refuse",
       sigs |-> stored \cup {s \in new : verdict(s) = "add"}]

\* "held" is the set of the stored object's signature sets, empty when the
\* object is new; then everything it carries is kept as it came.
admit_one(held, incoming, policy, material) ==
  IF held = {}
  THEN [ok |-> require_within_signature_bound(policy, incoming), sigs |-> incoming]
  ELSE LET stored == CHOOSE s \in held : TRUE
           decided == admit_signatures(stored, incoming, policy, material)
       IN  [ok |-> /\ decided.ok
                   /\ decided.sigs # stored => require_within_signature_bound(policy, decided.sigs),
            sigs |-> decided.sigs]
=============================================================================
