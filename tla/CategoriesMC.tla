---------------------------- MODULE CategoriesMC ----------------------------
(* Two invoices, the first of two batches and the second without text; a
   category in one spelling, the escape hatch in two. *)
EXTENDS Categories

InvoiceOfItem == [i \in Item |-> IF i = "x3" THEN 2 ELSE 1]
LowerCase == [c \in Name |-> IF c = "OTHER" THEN "Other" ELSE c]
=============================================================================
