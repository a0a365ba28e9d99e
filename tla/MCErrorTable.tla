---------------------------- MODULE MCErrorTable ----------------------------
(***************************************************************************)
(* ErrorTable with every list of up to four among three records.           *)
(***************************************************************************)
EXTENDS ErrorTable, TLC

Permuted == Permutations(Names)
=============================================================================
