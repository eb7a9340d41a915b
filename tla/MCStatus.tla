------------------------------- MODULE MCStatus --------------------------------
(* Two releases with different strategy identities. *)
EXTENDS StatusReadModel
MCIdentity == <<"x", "y">>
================================================================================
