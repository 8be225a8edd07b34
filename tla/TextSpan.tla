------------------------------ MODULE TextSpan ------------------------------
(***************************************************************************)
(* How an edit of a text names the place it changes: by the bytes it       *)
(* replaces and by anchors, the bytes on both sides (text_span.rs), so that *)
(* it can be found again in another version of the text; how an edit is     *)
(* planned from an old and a new text (text_span/authoring.rs) and how its  *)
(* inverse is derived (text_span/inverse.rs).                               *)
(*                                                                         *)
(* A text is a sequence of bytes.  A byte is "one", a character of its own, *)
(* a lead byte or a continuation byte: enough for a common prefix or suffix *)
(* to end inside a character.  A hash stands for the bytes it was taken of. *)
(* Offsets are the code's, from 0.                                         *)
(***************************************************************************)
EXTENDS Naturals, Sequences, FiniteSets, SequencesExt

CONSTANTS Ones, Leads, Continuations,   \* the bytes
          TEXT_ANCHOR_WINDOW, MaxLen

VARIABLES base, text, op, version, phase
vars == <<base, text, op, version, phase>>

Bytes == Ones \cup Leads \cup Continuations

\* Is a character complete at every lead byte, and does none lack one?
IsText(s) == \A i \in DOMAIN s :
  /\ s[i] \in Leads => i < Len(s) /\ s[i + 1] \in Continuations
  /\ s[i] \in Continuations => i > 1 /\ s[i - 1] \in Leads

Texts == {s \in UNION {[1..n -> Bytes] : n \in 0..MaxLen} : IsText(s)}

is_char_boundary(s, at) == at = Len(s) \/ (at < Len(s) /\ s[at + 1] \notin Continuations)

Cut(s, from, to) == SubSeq(s, from + 1, to)
Least(a, b) == IF a < b THEN a ELSE b
Greatest(a, b) == IF a < b THEN b ELSE a
Before(at, len) == IF at < len THEN 0 ELSE at - len

----------------------------------------------------------------------------
(* Anchors and identity. *)

left_anchor(s, start) == Cut(s, Before(start, TEXT_ANCHOR_WINDOW), start)
right_anchor(s, end) == Cut(s, end, Least(end + TEXT_ANCHOR_WINDOW, Len(s)))
left_anchor_v2(s, start, len) == Cut(s, Before(start, len), start)
right_anchor_v2(s, end, len) == Cut(s, end, Least(end + len, Len(s)))

\* The first scheme counts the places that look alike; the second makes the
\* anchors so long that there is only one.
compute_span_id(old, left, right, dup_index) == <<1, old, left, right, dup_index, 0>>
compute_span_id_v2(old, left, right, left_len, right_len) == <<2, old, left, right, left_len, right_len>>

occurrences(s, needle) ==
  {i \in 0..Len(s) : i + Len(needle) <= Len(s) /\ Cut(s, i, i + Len(needle)) = needle}

NoRange == [ok |-> FALSE, start |-> 0, end |-> 0]
At(start, len) == [ok |-> TRUE, start |-> start, end |-> start + len]

Only(places, n) == IF Cardinality(places) = 1 THEN At(CHOOSE i \in places : TRUE, n) ELSE NoRange

Numbered(matching, o) ==
  {i \in matching : compute_span_id(o.old, o.left, o.right, Cardinality({j \in matching : j < i})) = o.id}

locate_text_span(s, o) ==
  LET n == Len(o.old)
  IN  Only(Numbered({i \in occurrences(s, o.old) :
                       left_anchor(s, i) = o.left /\ right_anchor(s, i + n) = o.right}, o), n)

locate_text_span_v2(s, o) ==
  LET n == Len(o.old)
  IN  IF compute_span_id_v2(o.old, o.left, o.right, o.left_len, o.right_len) = o.id
      THEN Only({i \in occurrences(s, o.old) : /\ left_anchor_v2(s, i, o.left_len) = o.left
                                               /\ right_anchor_v2(s, i + n, o.right_len) = o.right}, n)
      ELSE NoRange

\* An edit of the first scheme records no lengths.
resolve_text_span(s, o) == IF o.left_len = 0 THEN locate_text_span(s, o) ELSE locate_text_span_v2(s, o)

splice_text(s, start, end, replacement) == Cut(s, 0, start) \o replacement \o Cut(s, end, Len(s))

SpliceAt(s, at, replacement) == splice_text(s, at.start, at.end, replacement)
Apply(s, o) == SpliceAt(s, resolve_text_span(s, o), o.new)

----------------------------------------------------------------------------
(* Planning an edit. *)

common_prefix_len(l, r) ==
  CHOOSE n \in 0..Least(Len(l), Len(r)) :
    /\ \A i \in 1..n : l[i] = r[i]
    /\ n < Least(Len(l), Len(r)) => l[n + 1] # r[n + 1]

common_suffix_len(l, r, prefix) ==
  LET max == Before(Least(Len(l), Len(r)), prefix)
      same(i) == l[Len(l) - i + 1] = r[Len(r) - i + 1]
  IN  CHOOSE n \in 0..max : (\A i \in 1..n : same(i)) /\ (n < max => ~same(n + 1))

NoSpan == [ok |-> FALSE, start |-> 0, end |-> 0, old |-> <<>>, new |-> <<>>]

\* What differs, widened to whole characters of the old text.
WidenBack(old, at) ==
  CHOOSE start \in 0..at : /\ is_char_boundary(old, start)
                           /\ \A i \in (start + 1)..at : ~is_char_boundary(old, i)
WidenOn(old, at) ==
  CHOOSE end \in at..Len(old) : /\ is_char_boundary(old, end)
                                /\ \A i \in at..(end - 1) : ~is_char_boundary(old, i)

SpanBetween(old, new, start, end, new_end) ==
  IF \/ start > end \/ start > new_end
     \/ ~is_char_boundary(new, start) \/ ~is_char_boundary(new, new_end)
  THEN NoSpan
  ELSE [ok |-> TRUE, start |-> start, end |-> end, old |-> Cut(old, start, end),
        new |-> Cut(new, start, new_end)]

SpanTo(old, new, start, end) == SpanBetween(old, new, start, end, Len(new) - (Len(old) - end))

SpanAfter(old, new, prefix) ==
  SpanTo(old, new, WidenBack(old, prefix), WidenOn(old, Len(old) - common_suffix_len(old, new, prefix)))

select_span(old, new) == SpanAfter(old, new, common_prefix_len(old, new))

Alone(s, span, start, end, len) ==
  \A i \in occurrences(s, span) \ {start} :
    \/ left_anchor_v2(s, i, len) # left_anchor_v2(s, start, len)
    \/ right_anchor_v2(s, i + Len(span), len) # right_anchor_v2(s, end, len)

\* Mutant: the shortest anchors are taken for long enough.
choose_anchor_lengths_v2_once(s, span, start, end) == TEXT_ANCHOR_WINDOW

\* The length doubles until no other place looks alike; 0 when none will do.
choose_anchor_lengths_v2(s, span, start, end) ==
  LET ceiling == Len(s)
      RECURSIVE grow(_)
      grow(len) == IF Alone(s, span, start, end, len) THEN len
                   ELSE IF len >= ceiling THEN 0
                   ELSE grow(Greatest(Least(2 * len, ceiling), len + 1))
  IN  grow(TEXT_ANCHOR_WINDOW)

Edit(span, replacement, left, right, len) ==
  [ok |-> len # 0, old |-> span, new |-> replacement, left |-> left, right |-> right,
   left_len |-> len, right_len |-> len, id |-> compute_span_id_v2(span, left, right, len, len)]

WithAnchors(s, start, end, span, replacement, len) ==
  Edit(span, replacement, left_anchor_v2(s, start, len), right_anchor_v2(s, end, len), len)

Anchored(s, start, end, replacement) ==
  LET span == Cut(s, start, end)
  IN  WithAnchors(s, start, end, span, replacement, choose_anchor_lengths_v2(s, span, start, end))

NoEdit == [ok |-> FALSE, old |-> <<>>, new |-> <<>>, left |-> <<>>, right |-> <<>>,
           left_len |-> 0, right_len |-> 0, id |-> <<0, <<>>, <<>>, <<>>, 0, 0>>]

AnchoredSpan(old, span) == IF span.ok THEN Anchored(old, span.start, span.end, span.new) ELSE NoEdit
plan_authored_text_span(old, new) == AnchoredSpan(old, select_span(old, new))

\* An edit of the first scheme, as older histories hold it.
NumberedSpan(old, span) ==
  LET left == left_anchor(old, span.start)
      right == right_anchor(old, span.end)
      earlier == {i \in occurrences(old, span.old) : /\ i < span.start
                    /\ left_anchor(old, i) = left /\ right_anchor(old, i + Len(span.old)) = right}
  IN  IF ~span.ok THEN NoEdit
      ELSE [ok |-> TRUE, old |-> span.old, new |-> span.new, left |-> left, right |-> right,
            left_len |-> 0, right_len |-> 0,
            id |-> compute_span_id(span.old, left, right, Cardinality(earlier))]
plan_authored_text_span_v1(old, new) == NumberedSpan(old, select_span(old, new))

Plan(old, new, v) == IF v = 1 THEN plan_authored_text_span_v1(old, new) ELSE plan_authored_text_span(old, new)

\* The edit that undoes o on the text that o was applied to; checked before it is given.
Checked(pre, post, start, end, inverse) ==
  LET found == locate_text_span_v2(post, inverse)
  IN  IF /\ IsText(post) /\ is_char_boundary(post, start) /\ is_char_boundary(post, end)
         /\ inverse.ok
         /\ found = At(start, end - start)
         /\ SpliceAt(post, found, inverse.new) = pre
      THEN inverse ELSE NoEdit

InverseOver(pre, post, start, end, old) == Checked(pre, post, start, end, Anchored(post, start, end, old))

InverseAt(pre, o, at) ==
  IF at.ok /\ is_char_boundary(pre, at.start) /\ is_char_boundary(pre, at.end)
  THEN InverseOver(pre, SpliceAt(pre, at, o.new), at.start, at.start + Len(o.new), o.old)
  ELSE NoEdit

derive_inverse_edit_text(pre, o) == InverseAt(pre, o, resolve_text_span(pre, o))

----------------------------------------------------------------------------

ApplyIf(s, o) == IF o.ok THEN Apply(s, o) ELSE s

Init == /\ base \in Texts /\ text = base
        /\ version \in {1, 2}
        /\ op = NoEdit /\ phase = "read"

\* The user changed the text, and the edit that says so is applied to the old one.
Author(new) ==
  /\ phase = "read" /\ new # base
  /\ op' = Plan(base, new, version)
  /\ text' = ApplyIf(base, op')
  /\ phase' = IF text' = new THEN "authored" ELSE "lost"
  /\ UNCHANGED <<base, version>>

\* A rollback derives and applies the inverse.
Undo ==
  /\ phase = "authored"
  /\ text' = ApplyIf(text, derive_inverse_edit_text(base, op))
  /\ phase' = "undone"
  /\ UNCHANGED <<base, op, version>>

Next == \/ \E s \in Texts : Author(s)
        \/ Undo

Spec == Init /\ [][Next]_vars

----------------------------------------------------------------------------
(* Properties *)

\* Planning never fails and loses nothing: whatever the two texts, the planned
\* edit is found in the old text and makes the new one (plan_authored_text_span,
\* which may otherwise report AnchorUniquenessUnreachable or InvalidWidenedRange).
EditsArriveWhole == phase # "lost"

\* A derived inverse is always found and gives back the text before the edit
\* (derive_inverse_edit_text).
InverseRestores == phase = "undone" => text = base

\* Two edits of one text with the same span id replace the same bytes at the same
\* place: what the patch algebra takes for one span is one (compute_span_id).
SpanIdNamesOnePlace ==
  phase = "authored" =>
    \A new \in Texts \ {base} :
      LET SamePlace(mine, theirs) == theirs.start = mine.start /\ theirs.end = mine.end
      IN  Plan(base, new, version).id = op.id => SamePlace(select_span(base, text), select_span(base, new))

\* The three together.
SpansAreExact == EditsArriveWhole /\ InverseRestores /\ SpanIdNamesOnePlace
=============================================================================
