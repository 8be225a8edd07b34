------------------------------ MODULE MCExchange ------------------------------
(***************************************************************************)
(* Small repositories that import and export: archives (ArchiveImport) and *)
(* bundles (BundleExchange).  A behaviour runs one of the two and leaves   *)
(* the other as it starts.                                                 *)
(***************************************************************************)
EXTENDS Naturals, Sequences, TLC

CONSTANTS None, Procs

VARIABLES part,
          file, journal, lock, proc, wt, shelf, n, before, done,
          held, refs, received, keys, unfinished, held_by, given, out, own, job, m

\* b1 <- b2 and b1 <- bf <- bg; s1 <- s2 on "m", sf a rival of s2, s3 names b2
\* again after s2; b9 and s9 are a history of their own.
Obj(kind) == [kind |-> kind, parents |-> {}, patches |-> {}, snapshot |-> {}, target |-> {}, size |-> 1,
              previous |-> {}, blobs |-> {}, baseline |-> {}, attests |-> {}, ref |-> "m"]
Graph ==
  "c1" :> Obj("blob") @@
  "p1" :> [Obj("patch") EXCEPT !.blobs = {"c1"}] @@
  "b1" :> [Obj("block") EXCEPT !.patches = {"p1"}] @@
  "b2" :> [Obj("block") EXCEPT !.parents = {"b1"}] @@
  "bf" :> [Obj("block") EXCEPT !.parents = {"b1"}] @@
  "bg" :> [Obj("block") EXCEPT !.parents = {"bf"}] @@
  "a2" :> [Obj("attestation") EXCEPT !.target = {"b2"}] @@
  "s1" :> [Obj("refstate") EXCEPT !.target = {"b1"}] @@
  "s2" :> [Obj("refstate") EXCEPT !.target = {"b2"}, !.previous = {"s1"}, !.attests = {"a2"}] @@
  "s3" :> [Obj("refstate") EXCEPT !.target = {"b2"}, !.previous = {"s2"}] @@
  "sf" :> [Obj("refstate") EXCEPT !.target = {"bf"}, !.previous = {"s1"}] @@
  "sg" :> [Obj("refstate") EXCEPT !.target = {"bg"}, !.previous = {"s1"}] @@
  "b9" :> Obj("block") @@
  "s9" :> [Obj("refstate") EXCEPT !.target = {"b9"}]

\* The archives' histories have no blobs and no attestations.
ArchiveGraph ==
  [id \in {"p1", "b1", "b2", "bf", "bg", "s1", "s2", "sg", "b9", "s9"} |-> [Graph[id] EXCEPT !.blobs = {}, !.attests = {}]]

Maintainer == [role |-> "MAINTAINER", key |-> "mk", pub |-> "M"]
Stranger   == [role |-> "MAINTAINER", key |-> "sk", pub |-> "S"]
Forged     == [role |-> "MAINTAINER", key |-> "mk", pub |-> "X"]
Author     == [role |-> "AUTHOR", key |-> "ak", pub |-> "A"]
Adopted    == {[key |-> "mk", pub |-> "M"]}
AuthorKeys == <<[key |-> "ak", pub |-> "A"]>>

-----------------------------------------------------------------------------
(* Archives. *)

AllSections == <<"objects", "reflog", "pointers", "received", "keys">>
Layout == [i \in DOMAIN AllSections |-> [kind |-> AllSections[i], at |-> i, len |-> 1]]
Stored(id) == [id |-> id, sigs |-> IF Graph[id].kind = "patch" THEN {} ELSE {Maintainer}]
Update(ref, old, new, seq, sig) == [ref |-> ref, old |-> old, new |-> new, seq |-> seq, sigs |-> {sig}]
Main == <<"m">>
Side == <<"n">>
RemoteMain == <<"remotes", "m">>

Plain(objects, log, pointers, imported) ==
  [objects |-> [i \in DOMAIN objects |-> Stored(objects[i])], reflog |-> log, pointers |-> pointers,
   received |-> imported, keys |-> AuthorKeys, policy |-> Adopted, damaged |-> {},
   manifest |-> Layout, manifestAt |-> 6]

Two == Plain(<<"b2", "p1", "b1", "s1", "s2">>,
             <<Update(Main, None, "s1", 1, Maintainer), Update(Main, "s1", "s2", 2, Maintainer)>>,
             <<[ref |-> Main, rs |-> "s1"], [ref |-> Main, rs |-> "s2"]>>, <<[ref |-> RemoteMain, rs |-> "s1"]>>)
\* The first of the two updates is by a key nobody here has adopted; a crash tore
\* the last append of the objects.
HalfTrusted == [Two EXCEPT !.reflog[1].sigs = {Stranger}, !.damaged = {<<"objects", "tail">>}]
\* bg is a ref's, its parent bf is not carried.
Unclosed == Plain(<<"bg", "sg">>, <<Update(Side, None, "sg", 1, Maintainer)>>, <<[ref |-> Side, rs |-> "sg"]>>, <<>>)
Rotted == [Two EXCEPT !.damaged = {<<"objects", "record">>}]
Archives == [two |-> Two, half |-> HalfTrusted, unclosed |-> Unclosed, rotted |-> Rotted]

Empty == [objects |-> <<>>, index |-> <<>>, reflog |-> <<>>, pointers |-> <<>>, received |-> <<>>, keys |-> <<>>]
\* A repository that already received s1.
Earlier ==
  [Empty EXCEPT !.objects = <<Stored("p1"), Stored("b1"), Stored("s1")>>,
                !.index = <<[id |-> "p1", at |-> 1], [id |-> "b1", at |-> 2], [id |-> "s1", at |-> 3]>>,
                !.received = <<[ref |-> RemoteMain, rs |-> "s1"]>>]
WritesMain == <<[ref |-> Main, rs |-> "s9", objects |-> <<"b9", "s9">>, sigs |-> {Maintainer}]>>

Archive == INSTANCE ArchiveImport WITH
  Meta <- ArchiveGraph, MaxCountedSignatures <- 1, Archive <- Archives, Policy <- Adopted,
  CurrentBranch <- Main, QueueOwner <- None, Written <- WritesMain, Sections <- AllSections,
  ObjectBound <- 1, Overlap <- FALSE, MaxRuns <- 3, MaxFaults <- 2, MaxEdits <- 1, MaxExports <- 1

-----------------------------------------------------------------------------
(* Bundles. *)

Signed(id) == [id |-> id, sigs |-> CASE Graph[id].kind = "patch" -> {Author}
                                     [] Graph[id].kind = "blob" -> {}
                                     [] OTHER -> {Maintainer}]
Bundled(ids) ==
  [version |-> 3, ref |-> "m", declaredRef |-> "m", declaredCount |-> Len(ids),
   objects |-> [i \in DOMAIN ids |-> Signed(ids[i])], keys |-> AuthorKeys]

First == Bundled(<<"s1", "b1", "p1", "c1">>)
Second == Bundled(<<"s2", "s1", "b1", "b2", "p1", "c1", "a2">>)
SecondForged == [Second EXCEPT !.objects[4].sigs = {Maintainer, Forged}]
Third == Bundled(<<"s3", "s2", "s1", "b1", "b2", "p1", "c1", "a2">>)
Rival == Bundled(<<"sf", "s1", "b1", "bf", "p1", "c1">>)
\* Without bf, the parent of bg.
Lacking == Bundled(<<"sg", "s1", "b1", "bg", "p1", "c1">>)
Files == [first |-> First, second |-> Second, forged |-> SecondForged, rival |-> Rival, third |-> Third,
          lacking |-> Lacking]

\* This repository has the root of that history and takes its second step.
Root == [id \in {"c1", "p1", "b1", "s1"} |-> Signed(id).sigs]
Steps == <<Signed("b2"), Signed("a2"), Signed("s2")>>

Bundle == INSTANCE BundleExchange WITH
  Meta <- Graph, Given <- Files, Swaps <- {<<"second", "forged">>}, Policy <- Adopted, Derivable <- {},
  OwnWork <- Steps, OwnRef <- "m", MaxObjects <- 9, MaxCountedSignatures <- 2, MaxRuns <- 2, MaxFaults <- 1,
  lock <- held_by, file <- given, shelf <- out, proc <- job, n <- m

-----------------------------------------------------------------------------
archiveVars == <<file, journal, lock, proc, wt, shelf, n, before, done>>
bundleVars == <<held, refs, received, keys, unfinished, held_by, given, out, own, job, m>>
vars == <<part, archiveVars, bundleVars>>

\* Perhaps an archive import was left unfinished with one block landed.
Init ==
  /\ part \in {"archive", "bundle"}
  /\ \E files \in IF part = "archive" THEN {Earlier} ELSE {Empty} : Archive!InitWith(files)
  /\ \E left \in IF part = "bundle" THEN {{}, {"b9"}} ELSE {{}} :
       Bundle!InitWith(Root @@ [id \in left |-> {Maintainer}], "m" :> "s1", left)

Next ==
  \/ part = "archive" /\ Archive!Next /\ UNCHANGED <<part, bundleVars>>
  \/ part = "bundle" /\ Bundle!Next /\ UNCHANGED <<part, archiveVars>>

Spec == Init /\ [][Next]_vars

Interchangeable == Permutations(Procs)

-----------------------------------------------------------------------------
\* What a finished command wrote is not taken away by a resumed import or by a
\* cancellation (ArchiveImport!DoneIsKept).
DoneIsKept == part = "archive" => Archive!DoneIsKept

\* A cancelled import leaves the containers as it found them
\* (ArchiveImport!CancelRestores).
CancelRestores == Archive!CancelRestores

\* Refs lead to whole, trusted histories that can be exported again
\* (ArchiveImport!RepositoryStaysWhole).
RepositoryStaysWhole == part = "archive" => Archive!RepositoryStaysWhole

\* What a bundle import stores and its received ref leads to is whole, and so is
\* what is exported (BundleExchange!TransferIsWhole).
TransferIsWhole == part = "bundle" => (Bundle!TransferIsWhole /\ Bundle!PreviewForetellsImport)

\* A received ref moves only forward unless it is told otherwise
\* (BundleExchange!ReceivedNeverMovesBack).
ReceivedNeverMovesBack == Bundle!ReceivedNeverMovesBack
=============================================================================
