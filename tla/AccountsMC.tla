----------------------------- MODULE AccountsMC -----------------------------
(* The accounts of two users, the first of them an admin from the start. *)
EXTENDS Accounts
=============================================================================
