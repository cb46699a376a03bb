----------------------------- MODULE MCPublishing -----------------------------
(* Instance: an edition of each of two books, paperbacks until an edit     *)
(* takes the format away, two builds at a time; or up to three uploads at  *)
(* a time.  The books, each with its edition, are interchangeable, and so  *)
(* are the builds and the uploads.                                         *)
(* Packages and documents share no state, so one of them moves.            *)
EXTENDS CreatorFiles, TLC

CONSTANTS e1, e2, b1, b2, Mara, Imprint, Kindle, r1, r2, d1, d2, d3

VARIABLE part

MCBookOf == (e1 :> b1) @@ (e2 :> b2)

MCAuthors == {
    [name |-> Mara, display |-> NoName, publisher |-> Imprint],
    [name |-> Kindle, display |-> Mara, publisher |-> NoName]}

MCInit ==
    /\ Init /\ part \in {"packages", "documents"}
    /\ \A e \in Editions : edition[e].format \in PrintFormats

MCNext ==
    /\ UNCHANGED part
    /\ \/ part = "packages" /\ PackagesMove
       \/ part = "documents" /\ DocumentsMove

MCSpec == MCInit /\ [][MCNext]_<<vars, part>>

Swap == (e1 :> e2) @@ (e2 :> e1) @@ (b1 :> b2) @@ (b2 :> b1)

Symmetry == {Swap} \cup Permutations({r1, r2}) \cup Permutations({d1, d2, d3})
=============================================================================
