-------------------------------- MODULE Paper --------------------------------
(***************************************************************************)
(* What the documents look like that Extraction, Rules and Dashboard are   *)
(* about.  Docs[d] is a record of                                          *)
(*   file, supplier, number   the file's name, its folder, invoice_number  *)
(*   wrapped                  page 1 is the sentinel of an embedded PDF    *)
(*   pages                    for each page its `answer`, a record as the  *)
(*                            schema wants it, and its `size` in tokens    *)
(*   date, customer, address  header fields that the dashboards read       *)
(*   marked                   the number says that it is a duplicate       *)
(***************************************************************************)
CONSTANTS
    Doc,      \* documents
    Docs,     \* [Doc -> what is printed]
    None      \* a field that is missing or null

=============================================================================
