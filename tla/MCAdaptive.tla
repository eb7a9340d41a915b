------------------------------- MODULE MCAdaptive -------------------------------
(***************************************************************************)
(* Instances of AdaptiveExecutor for TLC.                                  *)
(***************************************************************************)
EXTENDS AdaptiveExecutor, TLC

CONSTANTS A, B, Stop1, Buy1

\* Two symbols: all in A, or split evenly.
MCTargets == {A :> 2 @@ B :> 0, A :> 0 @@ B :> 2}
MCTargetsBoth == {A :> 2 @@ B :> 2}
MCTargetsOne == {A :> 2 @@ B :> 0}

Account(p, c, b, q) == [pos |-> p, cash |-> c, book |-> b, plan |-> q]
Left(s, side, q) == [sym |-> s, side |-> side, qty |-> q, filled |-> 0,
                     status |-> "new", foreign |-> TRUE]

\* Cash only.
CashAccount == {Account(A :> 0 @@ B :> 0, 3, NoOrders, NoPlan)}
\* A held lot under a legacy trailing stop, and a BUY nobody remembers.
LegacyAccount == {Account(A :> 1 @@ B :> 1, 3,
                          (Stop1 :> Left(B, "sell", 1)) @@ (Buy1 :> Left(A, "buy", 1)),
                          NoPlan)}
\* Cash, the orders of an earlier release, or a held lot and a plan stored by a release with another plan schema.
OldPlan(riskOff) ==
  [month |-> 1, signal |-> 0, weights |-> Flat, riskOff |-> riskOff,
   tier |-> "HALT", release |-> 1, valid |-> FALSE]
UpgradedAccounts ==
  CashAccount \cup LegacyAccount \cup
  {Account(A :> 1 @@ B :> 0, 2, NoOrders, OldPlan(riskOff)) : riskOff \in BOOLEAN}
=============================================================================
