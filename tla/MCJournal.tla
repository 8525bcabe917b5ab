----------------------------- MODULE MCJournal ------------------------------
(***************************************************************************)
(* Journal with one cell of each discipline and a journal short enough to  *)
(* wrap around within two or three transactions.                           *)
(***************************************************************************)
EXTENDS Journal
=============================================================================
