------------------------------ MODULE MCAppCore ------------------------------
(***************************************************************************)
(* Small instances of the app's core.                                      *)
(***************************************************************************)
EXTENDS AppCore, TLC

Interchangeable == Permutations(Sessions) \union Permutations(Attempts)
===============================================================================
