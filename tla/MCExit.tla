------------------------------- MODULE MCExit -------------------------------
(* InfrastructureExit with one overlay, the hedge and one stock. *)
EXTENDS InfrastructureExit

MCSleeves == <<"TQQQ">>

Order(n, s, side, lots) ==
  [id |-> OwnerID(n), sym |-> s, side |-> side, left |-> lots, st |-> "open"]

Account(hedge, sleeve, stock, orders) ==
  [pos |-> [s \in Symbols |-> CASE s = "SH" -> hedge [] s = "TQQQ" -> sleeve [] OTHER -> stock],
   book |-> orders]

\* The last session of the strategies before V11, with what it left working; two
\* shorts; and a SELL that is larger than what it closes.
MCAccounts ==
  {Account(1, 2, 0, {}),
   Account(0, 1, 0, {Order(0, "TQQQ", "buy", 1)}),
   Account(0, -2, -1, {}),
   Account(2, 0, -2, {Order(0, "a", "buy", 1)}),
   Account(1, 0, 1, {Order(0, "a", "sell", 2)})}
=============================================================================
