--------------------------- MODULE AtomicPublication ---------------------------
(***************************************************************************)
(* What a reader of the runtime state is promised: there is one sequence   *)
(* of publications, each shown whole or not at all.  A publication can be  *)
(* withdrawn (a run has started to write), a withdrawn one never comes     *)
(* back, intents never get fewer from one publication to the next, and     *)
(* only a publication of one broker snapshot of its own run is healthy.    *)
(***************************************************************************)
EXTENDS Naturals

VARIABLES number,    \* publications are numbered in the order they are made
          readable,  \* whether the last one may be read
          content    \* what it says

vars == <<number, readable, content>>

Whole(c) == c.status # "FAIL" => c.performance.snapshot = c.run /\ c.positions.snapshot = c.run

Init == number = 0 /\ readable = FALSE

Publish ==
  /\ number' > number
  /\ readable'
  /\ Whole(content')
  /\ content'.run >= content.run
  /\ content'.performance.intents >= content.performance.intents

Withdraw == readable /\ ~readable' /\ UNCHANGED <<number, content>>

Spec == Init /\ [][Publish \/ Withdraw]_vars
=============================================================================
