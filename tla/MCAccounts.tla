----------------------------- MODULE MCAccounts -----------------------------
(***************************************************************************)
(* Instances of AccountService for TLC.                                    *)
(***************************************************************************)
EXTENDS AccountService, TLC

CONSTANT N1

\* Every pair of keys opens the one broker account: then keys are interchangeable.
MCKeyNumber == [k \in Keys |-> N1]

Interchangeable == Permutations(Requests) \cup Permutations(Keys)
=============================================================================
