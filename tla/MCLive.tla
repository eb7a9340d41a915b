------------------------------- MODULE MCLive -------------------------------
(* LiveProduction with interchangeable releases. *)
EXTENDS LiveProduction, TLC

Interchangeable == Permutations(Releases)
=============================================================================
