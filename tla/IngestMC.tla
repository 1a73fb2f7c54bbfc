------------------------------ MODULE IngestMC ------------------------------
(* TLC instances of Ingest. *)
EXTENDS Ingest, TLC

CONSTANTS acme, beta, apdf, bpdf, n1, d1, d2, d3

TwoPaths == {1, 2}
ThreePaths == {1, 2, 3}

\* acme/a.pdf, imports/a.pdf and inbox/b.pdf.
Hints == 1 :> acme @@ 2 :> NoHint @@ 3 :> NoHint
Names == 1 :> apdf @@ 2 :> apdf @@ 3 :> bpdf

\* acme/a.pdf and inbox/b.pdf.
FolderAndInbox == 1 :> acme @@ 2 :> NoHint
TwoNames == 1 :> apdf @@ 2 :> bpdf

\* An invoice and its revision under the same number.
Revisions == {d1, d2}

\* The two, and a document without a number.
Docs == {d1, d2, d3}
Sellers == d1 :> acme @@ d2 :> acme @@ d3 :> beta
Numbers == d1 :> n1 @@ d2 :> n1 @@ d3 :> NoNumber
=============================================================================
