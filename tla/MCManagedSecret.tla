--------------------------- MODULE MCManagedSecret ---------------------------
(***************************************************************************)
(* A Secret with two keys, which the worker and the ticker fill, with two  *)
(* strings to draw and a user who may set, remove or change both keys.     *)
(***************************************************************************)
EXTENDS ManagedSecret, TLC

Symmetries == Permutations(Threads) \cup Permutations(Keys) \cup Permutations(Strings)
=============================================================================
