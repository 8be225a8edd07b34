------------------------------ MODULE FrameScan ------------------------------
(***************************************************************************)
(* The framed, append-only files of the store, and the readers that decode *)
(* them.  Every container of the repository (the WAL, the ref log, the     *)
(* pointer index, the generation logs, the trust, received and author-key  *)
(* files, the object containers and the object index) is a run of frames   *)
(* magic, version, body length, checksum, body.  The readers share one     *)
(* scheme, from foundation/frame_resync.rs, and differ in when a frame     *)
(* that does not decode may be taken for the tail of an interrupted        *)
(* append.  A file is a sequence of cells, one per header field and one    *)
(* per body byte.  The key or sequence field that two formats also carry   *)
(* is covered by the checksum and is part of that cell.                    *)
(***************************************************************************)
EXTENDS Integers, Sequences, FiniteSets, SequencesExt

CONSTANTS Formats,    \* the readers under check, names of the decoders below
          MaxFrames,  \* appends, complete or torn, in one behaviour, for each reader
          MaxCells,   \* cells of a file
          MaxRot      \* cells the medium may damage

VARIABLES fmt,        \* which container this file is
          bytes,      \* its cells
          replay,     \* what the format's reader makes of them
          written,    \* the appends: place, body, and what became of them
          rotted      \* damaged cells so far
vars == <<fmt, bytes, replay, written, rotted>>

(***************************************************************************)
(* Cells and frames.                                                       *)
(***************************************************************************)
HeaderLen == 4
Huge == 200                      \* a length field that claims more than any file holds
Magic == [t |-> "magic", x |-> <<>>]
Version(v) == [t |-> "version", x |-> <<v>>]
Length(n) == [t |-> "length", x |-> <<n>>]
Checksum(n, body) == [t |-> "checksum", x |-> <<n, body>>]
Byte(b) == [t |-> "byte", x |-> <<b>>]
Junk == [t |-> "junk", x |-> <<>>]

\* wal.rs frame_record: the frame a writer appends in one write.
frame_record(body) ==
    <<Magic, Version(1), Length(Len(body)), Checksum(Len(body), body)>> \o body

\* A body the format's own decoder accepts.
Decodes(body) == body # <<>> /\ body[1] # Junk

\* Offsets count from 0, as in the code.
At(b, o) == b[o + 1]
LengthField(c) == IF c.t = "length" THEN c.x[1] ELSE Huge
Body(b, o, n) == SubSeq(b, o + HeaderLen + 1, o + HeaderLen + n)
MagicsFrom(b, o) == {i \in o .. Len(b) - 1 : At(b, i) = Magic}
Least(S) == CHOOSE i \in S : \A j \in S : i <= j

\* foundation/frame_resync.rs resync_to_next_magic: -1 stands for None.
resync_to_next_magic(b, start) ==
    IF MagicsFrom(b, start) = {} THEN -1 ELSE Least(MagicsFrom(b, start))

\* ScanBudget: eight times the input may be hashed before a scan gives up.
ScanBudgetLimit(b) == 8 * (IF Len(b) = 0 THEN 1 ELSE Len(b))

exceeded(b, spent) == spent > ScanBudgetLimit(b)

\* The stored checksum verifies over a body of n bytes that the file holds.
Verifies(b, o, n) ==
    n <= Len(b) - o - HeaderLen /\ At(b, o + 3) = Checksum(n, Body(b, o, n))

\* Mutant: the body that runs to the end of the file is not tried.
complete_by_stored_length(b, o) ==
    [hit |-> Verifies(b, o, LengthField(At(b, o + 2))), cost |-> 0]

\* complete_by_checksum: whether the stored checksum verifies over the body the
\* length field claims, or over the body that runs to the end of the file.
complete_by_checksum(b, o) ==
    LET n == LengthField(At(b, o + 2))
        rest == Len(b) - o - HeaderLen
        first == Verifies(b, o, n)
    IN [hit |-> first \/ Verifies(b, o, rest),
        cost |-> (IF n <= rest THEN n + HeaderLen ELSE 0)
                 + (IF first THEN 0 ELSE rest + HeaderLen)]

(***************************************************************************)
(* One frame at one offset.  A rule set says what a reader's own           *)
(* parse_frame_at does where the readers differ:                           *)
(*   recheck: a bad magic or version consults complete_by_checksum         *)
(*   relong:  so does a body that claims more bytes than remain            *)
(*   exact:   the one body length the format has, 0 when it varies         *)
(*   cap:     the longest body the format can hold                         *)
(*   certain: a complete frame that fails is never taken for a tail        *)
(***************************************************************************)
Attempt(kind, next, body, never, cost) ==
    [kind |-> kind, next |-> next, body |-> body, never |-> never, cost |-> cost]

Frame(recheck, relong, exact, cap, certain) ==
    [recheck |-> recheck, relong |-> relong, exact |-> exact, cap |-> cap,
     certain |-> certain]

parse_generation_frame_at == Frame(TRUE, FALSE, 1, Huge, TRUE)
parse_trust_key_frame_at == Frame(TRUE, TRUE, 0, 8, TRUE)
parse_trust_policy_frame_at == Frame(TRUE, TRUE, 0, Huge, TRUE)
parse_received_frame_at == Frame(TRUE, TRUE, 0, Huge, TRUE)
parse_author_key_frame_at == Frame(TRUE, TRUE, 0, 8, TRUE)
parse_pointer_frame_at == Frame(TRUE, TRUE, 0, Huge, TRUE)
parse_ref_container_frame_at == Frame(TRUE, TRUE, 0, Huge, TRUE)
parse_wal_frame_at == Frame(FALSE, FALSE, 0, Huge, FALSE)
parse_container_frame_at == Frame(FALSE, FALSE, 0, Huge, TRUE)
parse_index_frame_at == Frame(FALSE, FALSE, 1, Huge, TRUE)

Parsed(F, b, o, n, whole) ==
    IF Len(b) - o < HeaderLen
    THEN Attempt("partial", o, <<>>, FALSE, 0)
    ELSE IF At(b, o) # Magic \/ At(b, o + 1) # Version(1)
    THEN IF F.recheck THEN Attempt("invalid", o, <<>>, whole.hit, whole.cost)
                      ELSE Attempt("invalid", o, <<>>, FALSE, 0)
    ELSE IF (F.exact # 0 /\ n # F.exact) \/ (F.cap # Huge /\ n > F.cap)
    THEN Attempt("invalid", o, <<>>, TRUE, 0)
    ELSE IF n > Len(b) - o - HeaderLen
    THEN IF F.relong /\ whole.hit THEN Attempt("invalid", o, <<>>, TRUE, whole.cost)
         ELSE Attempt("partial", o, <<>>, FALSE, IF F.relong THEN whole.cost ELSE 0)
    ELSE IF ~Verifies(b, o, n)
    THEN Attempt("mismatch", o + HeaderLen + n, <<>>, F.certain, n + HeaderLen)
    ELSE IF ~Decodes(Body(b, o, n))
    THEN Attempt("invalid", o, <<>>, F.certain, n + HeaderLen)
    ELSE Attempt("record", o + HeaderLen + n, Body(b, o, n), FALSE, n + HeaderLen)

ParseFrameAt(F, b, o) == Parsed(F, b, o, LengthField(At(b, o + 2)), complete_by_checksum(b, o))

\* sound_frame_after_partial and its budgeted sibling: the first later magic
\* whose frame decodes, unless the budget runs out before it is reached.
RECURSIVE SoundFrom(_, _, _, _, _)
SoundAt(F, b, c, a, spent, budgeted) ==
    IF a.kind = "record" THEN [found |-> "sound", at |-> c, spent |-> spent + a.cost]
    ELSE SoundFrom(F, b, c + 1, spent + a.cost, budgeted)

SoundFrom(F, b, from, spent, budgeted) ==
    LET c == resync_to_next_magic(b, from)
    IN IF c = -1 THEN [found |-> "none", at |-> -1, spent |-> spent]
       ELSE IF budgeted /\ exceeded(b, spent)
       THEN [found |-> "undetermined", at |-> -1, spent |-> spent]
       ELSE SoundAt(F, b, c, ParseFrameAt(F, b, c), spent, budgeted)

sound_frame_after_partial(F, b, o) == SoundFrom(F, b, o + 1, 0, FALSE)
sound_frame_after_partial_budgeted(F, b, o, spent) == SoundFrom(F, b, o + 1, spent, TRUE)

SoundAfter(F, b, o, spent, budgeted) ==
    IF budgeted THEN sound_frame_after_partial_budgeted(F, b, o, spent)
    ELSE [sound_frame_after_partial(F, b, o) EXCEPT !.spent = spent]

(***************************************************************************)
(* The decode loops.  A scan ends with the records it found, the offsets   *)
(* it reports as damaged, and the bytes it takes for an interrupted append.*)
(***************************************************************************)
Loop(budgeted, onInvalid) == [budgeted |-> budgeted, onInvalid |-> onInvalid]
Start == [o |-> 0, recs |-> <<>>, failed |-> {}, spent |-> 0]
Stop(st, tail) == [recs |-> st.recs, failed |-> st.failed, tail |-> tail, spent |-> st.spent]

\* Mutant: the scan steps over damage without recording it.
FailSilently(st, never) == st

Fail(st, never) == [st EXCEPT !.failed = @ \cup {[at |-> st.o, never |-> never]}]

\* foundation/container.rs checksum_mismatch_is_complete: a complete damaged
\* record, unless a sound frame starts inside the bytes it claims.
checksum_mismatch_is_complete(b, o, bodyEnd, sound) ==
    bodyEnd = Len(b) \/ sound.found # "sound" \/ sound.at >= bodyEnd

\* What the loop does with one attempt: it goes on from an offset, or stops.
Resume(st, o) == [st |-> [st EXCEPT !.o = o], stop |-> o = -1, tail |-> 0]
Halt(st, tail) == [st |-> st, stop |-> TRUE, tail |-> tail]

TailOrDamage(b, searched, sound) ==
    CASE sound.found = "none" -> Halt(searched, Len(b) - searched.o)
      [] sound.found = "undetermined" -> Halt(Fail(searched, FALSE), 0)
      [] OTHER -> Resume(Fail(searched, FALSE), sound.at)

Judge(b, loop, st, a, paid, sound, next) ==
    IF loop.budgeted /\ exceeded(b, st.spent) THEN Halt(Fail(st, FALSE), 0)
    ELSE IF a.kind = "record"
    THEN Resume([paid EXCEPT !.recs = Append(@, [at |-> st.o, body |-> a.body])], a.next)
    ELSE IF a.kind = "partial" \/ (loop.onInvalid = "tail" /\ ~a.never)
    THEN TailOrDamage(b, [paid EXCEPT !.spent = sound.spent], sound)
    ELSE IF loop.onInvalid = "resync" /\ a.kind = "mismatch" /\ loop.budgeted
    THEN Resume(Fail([paid EXCEPT !.spent = IF a.next = Len(b) THEN @ ELSE sound.spent],
                     checksum_mismatch_is_complete(b, st.o, a.next, sound)), next)
    ELSE Resume(Fail(paid, a.never), next)

Attempted(F, b, loop, st, a) ==
    Judge(b, loop, st, a, [st EXCEPT !.spent = @ + a.cost],
          SoundAfter(F, b, st.o, st.spent + a.cost, loop.budgeted),
          resync_to_next_magic(b, st.o + 1))

RECURSIVE Scan(_, _, _, _)
GoOn(F, b, loop, turn) ==
    IF turn.stop THEN Stop(turn.st, turn.tail) ELSE Scan(F, b, loop, turn.st)

Scan(F, b, loop, st) ==
    GoOn(F, b, loop, Attempted(F, b, loop, st, ParseFrameAt(F, b, st.o)))

\* The readers: the frames each parses and the loop it parses them in.
Reader(frame, loop) == [frame |-> frame, loop |-> loop]

decode_generation_records == Reader(parse_generation_frame_at, Loop(FALSE, "tail"))
decode_trust_key_records == Reader(parse_trust_key_frame_at, Loop(FALSE, "tail"))
decode_trust_policy_records == Reader(parse_trust_policy_frame_at, Loop(TRUE, "tail"))
decode_received_index_records == Reader(parse_received_frame_at, Loop(TRUE, "tail"))
decode_author_key_records == Reader(parse_author_key_frame_at, Loop(FALSE, "tail"))
decode_pointer_index_records == Reader(parse_pointer_frame_at, Loop(TRUE, "tail"))
decode_ref_container_records == Reader(parse_ref_container_frame_at, Loop(TRUE, "tail"))
decode_wal_records == Reader(parse_wal_frame_at, Loop(TRUE, "tail"))
decode_frames_with == Reader(parse_container_frame_at, Loop(TRUE, "resync"))
decode_index_records_at == Reader(parse_index_frame_at, Loop(FALSE, "resync"))

ReaderOf(f) ==
    CASE f = "generation" -> decode_generation_records
      [] f = "trust_key" -> decode_trust_key_records
      [] f = "trust_policy" -> decode_trust_policy_records
      [] f = "received" -> decode_received_index_records
      [] f = "author_key" -> decode_author_key_records
      [] f = "pointer" -> decode_pointer_index_records
      [] f = "ref_log" -> decode_ref_container_records
      [] f = "wal" -> decode_wal_records
      [] f = "container" -> decode_frames_with
      [] f = "index" -> decode_index_records_at

Decode(f, b) == Scan(ReaderOf(f).frame, b, ReaderOf(f).loop, Start)

has_item_failure(r) == r.failed # {}

\* foundation/tail_guard.rs: the writers refuse to append behind an unclean tail.
require_no_unclean_tail(r) == r.tail = 0

(***************************************************************************)
(* The file's life: appends, whole or cut short by a crash, damage done by *)
(* the medium, and the repair that removes the tail of an interrupted      *)
(* append.                                                                 *)
(***************************************************************************)
FixedBody(f) == f \in {"generation", "index"}
Nested == <<Byte(4)>> \o frame_record(<<Byte(5)>>)
Bodies(f) ==
    {<<Byte(1)>>} \cup (IF FixedBody(f) THEN {} ELSE {<<Magic, Byte(3)>>, Nested})

\* A payload made of frame headers, each of which claims the rest of the file.
Dense == FlattenSeq([i \in 1 .. 18 |->
                       <<Magic, Version(1), Length(4 * (18 - i)), Byte(7)>>])
Budgeted == {"trust_policy", "received", "pointer", "ref_log", "wal", "container"}

\* The object containers and the object index append unconditionally; every
\* other writer reads its file first and refuses a tail or a damaged record.
MayAppend ==
    \/ fmt \in {"container", "index"}
    \/ require_no_unclean_tail(replay) /\ ~has_item_failure(replay)

Init ==
    /\ fmt \in Formats
    /\ \/ bytes = <<>> /\ written = <<>>
       \/ /\ fmt \in Budgeted
          /\ bytes = frame_record(Dense)
          /\ written = <<[at |-> 0, body |-> Dense, state |-> "whole"]>>
    /\ rotted = 0
    /\ replay = Decode(fmt, bytes)

\* append_file_required: the frame is written at the end of the file; a crash
\* leaves any part of it.
AppendRecord(body, k) ==
    /\ Len(written) < MaxFrames[fmt] /\ Len(bytes) + k <= MaxCells
    /\ MayAppend
    /\ bytes' = bytes \o SubSeq(frame_record(body), 1, k)
    /\ written' = Append(written, [at |-> Len(bytes), body |-> body,
                                   state |-> IF k = Len(frame_record(body)) THEN "whole" ELSE "torn"])
    /\ replay' = Decode(fmt, bytes')
    /\ UNCHANGED <<fmt, rotted>>

\* The values a damaged cell may take.
Damaged(c) ==
    IF c.t = "length" THEN {Length(0), Length(c.x[1] + 1), Length(Huge)} \ {c}
    ELSE IF c.t = "version" THEN {Version(2)} ELSE {Junk}

Rot(o) ==
    /\ rotted < MaxRot
    /\ o \in 0 .. Len(bytes) - 1
    /\ \E c \in Damaged(At(bytes, o)) : bytes' = [bytes EXCEPT ![o + 1] = c]
    /\ written' = [i \in DOMAIN written |->
         IF /\ written[i].at <= o
            /\ (i = Len(written) \/ o < written[i + 1].at)
            /\ written[i].state = "whole"
         THEN [written[i] EXCEPT !.state = "rotted"] ELSE written[i]]
    /\ rotted' = rotted + 1
    /\ replay' = Decode(fmt, bytes')
    /\ UNCHANGED fmt

\* Wal::truncate_trailing_partial and its siblings: refused on a damaged
\* record, otherwise the file is cut where the tail starts.
truncate_trailing_partial ==
    LET len == Len(bytes) - replay.tail
    IN /\ fmt # "index"
       /\ ~has_item_failure(replay)
       /\ replay.tail # 0
       /\ bytes' = SubSeq(bytes, 1, len)
       /\ replay' = Decode(fmt, bytes')
       /\ written' = SelectSeq(written, LAMBDA w : w.at < len)
       /\ UNCHANGED <<fmt, rotted>>

Next ==
    \/ \E body \in Bodies(fmt) : \E k \in 1 .. HeaderLen + Len(body) : AppendRecord(body, k)
    \/ \E o \in 0 .. Len(bytes) - 1 : Rot(o)
    \/ truncate_trailing_partial

Spec == Init /\ [][Next]_vars

(***************************************************************************)
(* Properties.                                                             *)
(***************************************************************************)
Whole == SelectSeq(written, LAMBDA w : w.state = "whole")
Placed(ws) == [i \in DOMAIN ws |-> [at |-> ws[i].at, body |-> ws[i].body]]

\* A reader that reports no damage has not been misled: what it returns is a
\* prefix of the records written, in order, and everything after them is the
\* tail it reports (the decode loops of every container).
SilenceMeansPrefix ==
    ~has_item_failure(replay) =>
        /\ Len(replay.recs) <= Len(written)
        /\ \A i \in DOMAIN replay.recs :
              /\ replay.recs[i] = [at |-> written[i].at, body |-> written[i].body]
              /\ written[i].state # "torn"
        /\ replay.tail = 0 => Len(replay.recs) = Len(written)

\* A record written whole and left alone is always found, whatever happened
\* before it in the file: damage and interrupted appends never hide a later
\* sound record (sound_frame_after_partial, resync_to_next_magic).  A scan the
\* budget cut short may miss one, and then it reports damage, not a tail.
SoundRecordsAreFound ==
    \/ Range(Placed(Whole)) \subseteq Range(replay.recs)
    \/ fmt \in Budgeted /\ exceeded(bytes, replay.spent) /\ has_item_failure(replay)

\* In the formats that let the checksum decide, damage to a record that was
\* written whole is reported as damage, never as the tail of an interrupted
\* append that a repair may cut (complete_by_checksum; the WAL and the object
\* containers do not make this promise).
DamageIsNeverATail ==
    (/\ fmt \notin {"wal", "container"}
     /\ \A i \in DOMAIN written : written[i].state # "torn"
     /\ \E i \in DOMAIN written : written[i].state = "rotted")
    => has_item_failure(replay)

\* A crash during the last append is a tail and nothing else: no damage is
\* reported, and the reader returns every earlier record (the unclean-tail rule).
CrashIsATail ==
    (/\ rotted = 0
     /\ \A i \in DOMAIN written : written[i].state = "torn" => i = Len(written)
     /\ written # <<>> /\ Last(written).body \notin {Nested, Dense})
    => /\ ~has_item_failure(replay)
       /\ replay.recs = Placed(Whole)

\* The three together: a reader tells records, damage and tails apart.
RecordsDamageAndTailsAreToldApart == SoundRecordsAreFound /\ DamageIsNeverATail /\ CrashIsATail
=============================================================================
