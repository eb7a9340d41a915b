------------------------- MODULE InfrastructureExit -------------------------
(* The invocation around the adaptive executor: execute_trades.py run and     *)
(* midday.  Before a stock may be bought, every short is covered, BUYs that no *)
(* plan owns are cancelled, and the positions of the retired strategies (base, *)
(* leveraged overlays, hedge) are sold.  V11 gives each of them the target 0.  *)
(*                                                                            *)
(* Every order is a DAY order whose client order ID contains the date, so the  *)
(* book is the orders of this session, dead ones included: they are what an ID *)
(* is compared with.  Orders of earlier sessions are never looked up again.    *)
EXTENDS Integers, Sequences, SequencesExt, FiniteSets, FiniteSetsExt

CONSTANTS
  Hedge,            \* SH, whose manager also runs at midday
  Sleeves,          \* the other retired symbols, in the order they are managed
  Stocks,           \* symbols the adaptive strategy trades
  Lots,             \* the largest position of the instance
  InitialAccounts,  \* [pos, book] of the first session
  MaxAttempts,      \* max_attempts of _reserve_short_cover_client_order_id
  MaxDisturbances   \* bounds failures and orders the owner places by hand

VARIABLES
  pos,      \* broker: lots of each symbol, negative when short
  book,     \* broker: the session's orders [id, sym, side, left, st], st "open",
            \* "cancelling", "filled" or "dead"
  run,      \* the invocation: program counter and locals
  disturbances

vars == <<pos, book, run, disturbances>>

Infrastructure == {Hedge} \cup ToSet(Sleeves)
Symbols == Infrastructure \cup Stocks
Sides == {"buy", "sell"}

\* _execution_client_order_id: purpose, symbol and what else is digested.
CoverID(s, quantity, attempt) == <<"v11-cover", s, quantity, attempt>>
MigrationIDOfQuantity(s) == <<"v11-migration", s, pos[s], 0>>
MigrationID(s) == <<"v11-migration", s, 0, 0>>
PlanID(s) == <<"adaptive", s, 0, 0>>
OwnerID(n) == <<"owner", n, 0, 0>>

Working(o) == o.st \in {"open", "cancelling"}
OpenOrders == {o \in book : Working(o)}
WorkingIn(s, side) == {o \in OpenOrders : o.sym = s /\ o.side = side}
Total(orders) == FoldSet(LAMBDA o, n : o.left + n, 0, orders)
Known(id) == \E o \in book : o.id = id

Idle == [pc |-> "idle", kind |-> "run", allow |-> FALSE, held |-> [s \in {} |-> 0],
         todo |-> <<>>, cover |-> FALSE, quantity |-> 0, id |-> <<>>]

Init ==
  /\ \E account \in InitialAccounts : pos = account.pos /\ book = account.book
  /\ run = Idle
  /\ disturbances = 0

\* ------------------------------------------------------------ cancellation

\* A failure, or an act of the owner.
Disturbance == disturbances < MaxDisturbances /\ disturbances' = disturbances + 1

\* _cancel_selected_orders_and_wait: an order that already waits for its
\* cancellation is left alone, and a request that fails does not stop the next.
\* Whatever the broker answers, the invocation ends here.
CancelAndWait(orders) ==
  \E unsent \in SUBSET orders :
    /\ IF unsent = {} THEN UNCHANGED disturbances ELSE Disturbance
    /\ book' = {IF o \in orders \ unsent THEN [o EXCEPT !.st = "cancelling"] ELSE o :
                  o \in book}
    /\ run' = Idle
    /\ UNCHANGED pos

\* ------------------------------------------------------------------ shorts

\* run_execution, _run_midday_command: the gates (market clock, validation,
\* risk tier) are one answer here; the short preflight comes first and reads
\* positions.
StartRun(kind) ==
  /\ run.pc = "idle"
  /\ \E allow \in BOOLEAN :
       run' = [Idle EXCEPT !.pc = "shortOrders", !.kind = kind, !.allow = allow, !.held = pos]
  /\ UNCHANGED <<pos, book, disturbances>>

Shorts(held) == {s \in Symbols : held[s] < 0}

\* Working SELLs may not exceed the long position they close.
SellConflicts(held) ==
  {o \in OpenOrders : o.side = "sell" /\ Total(WorkingIn(o.sym, "sell")) > Max({0, held[o.sym]})}

\* Working BUYs of a short symbol that only cover it.
SafeCovers(held) ==
  {o \in OpenOrders : o.side = "buy" /\ o.sym \in Shorts(held)
                        /\ Total(WorkingIn(o.sym, "buy")) <= -held[o.sym]}

\* With a conflict or a short, every other BUY goes, and every SELL of a short.
ShortConflicts(held) ==
  IF SellConflicts(held) = {} /\ Shorts(held) = {} THEN {}
  ELSE SellConflicts(held) \cup {o \in OpenOrders : o.side = "buy" /\ o \notin SafeCovers(held)}

\* _reconcile_v11_short_positions.
ReconcileShorts ==
  /\ run.pc = "shortOrders"
  /\ \/ /\ ShortConflicts(run.held) # {}
        /\ CancelAndWait(ShortConflicts(run.held))
     \/ /\ ShortConflicts(run.held) = {}
        /\ run' = CASE Shorts(run.held) = {} -> [run EXCEPT !.pc = "openBuys", !.held = <<>>]
                    [] SafeCovers(run.held) # {} -> Idle
                    [] OTHER -> [run EXCEPT !.pc = "cover", !.cover = TRUE,
                                            !.todo = SetToSeq(Shorts(run.held))]
        /\ UNCHANGED <<pos, book, disturbances>>

\* The attempts of this cover that the broker has ended.
Attempt(s, quantity) ==
  LET untried == {a \in 1..MaxAttempts :
                    ~\E o \in book : o.id = CoverID(s, quantity, a) /\ o.st = "dead"}
  IN IF untried = {} THEN 0 ELSE Min(untried)

\* The next symbol of todo, or the end of the list: covers end the invocation,
\* sales are followed by the migration status.
NextSymbol ==
  IF Len(run.todo) > 1
  THEN [run EXCEPT !.pc = IF run.cover THEN "cover" ELSE "manage",
                   !.todo = Tail(run.todo), !.quantity = 0, !.id = Idle.id]
  ELSE IF run.cover THEN Idle
  ELSE [run EXCEPT !.pc = "status", !.todo = <<>>, !.quantity = 0, !.id = Idle.id]

\* _reserve_short_cover_client_order_id: an ID the broker does not know, after
\* attempts that it ended without a fill.
ReserveCover ==
  /\ run.pc = "cover"
  /\ LET s == Head(run.todo)
         attempt == Attempt(s, -run.held[s])
         id == CoverID(s, -run.held[s], attempt)
     IN run' = IF attempt = 0 \/ Known(id) THEN NextSymbol
               ELSE [run EXCEPT !.pc = "close", !.id = id]
  /\ UNCHANGED <<pos, book, disturbances>>

\* ---------------------------------------------------------- open BUYs

\* _reconcile_v11_open_buys_preflight: a BUY stays only if the gates are open, it
\* belongs to the plan and its symbol is not retired.
OpenBuysPreflight ==
  LET unowned == {o \in OpenOrders : o.side = "buy"
                    /\ (~run.allow \/ o.sym \in Infrastructure \/ o.id # PlanID(o.sym))}
  IN /\ run.pc = "openBuys"
     /\ \/ unowned # {} /\ CancelAndWait(unowned)
        \/ /\ unowned = {}
           /\ run' = [run EXCEPT !.pc = "infraBuys"]
           /\ UNCHANGED <<pos, book, disturbances>>

\* A mutant: the overlays have no manager of their own.
ForgetsSleeves ==
  /\ run.pc = "infraBuys"
  /\ run' = [run EXCEPT !.pc = "manage", !.todo = <<Hedge>>]
  /\ UNCHANGED <<pos, book, disturbances>>

\* _cancel_v11_infrastructure_buys, read again just before the sales.  What
\* follows a cancellation changes nothing: the sales are skipped, the adaptive
\* executor is not called.
InfrastructureBuys ==
  LET unwanted == {o \in OpenOrders : o.side = "buy" /\ o.sym \in Infrastructure}
  IN /\ run.pc = "infraBuys"
     /\ \/ unwanted # {} /\ CancelAndWait(unwanted)
        \/ /\ unwanted = {}
           /\ run' = [run EXCEPT !.pc = "manage",
                        !.todo = IF run.kind = "midday" THEN <<Hedge>> ELSE <<Hedge>> \o Sleeves]
           /\ UNCHANGED <<pos, book, disturbances>>

\* ------------------------------------------------------------- the managers

\* With the target 0 whatever is held is closed.  The manager's own look at the
\* positions is one with that of close_position.
CloseRetired(s) ==
  run' = IF pos[s] = 0 THEN NextSymbol
         ELSE [run EXCEPT !.pc = "closeOrders", !.id = MigrationID(s), !.quantity = pos[s]]

\* manage_bear_hedge.
ManageHedge ==
  /\ run.pc = "manage"
  /\ Head(run.todo) = Hedge
  /\ CloseRetired(Hedge)
  /\ UNCHANGED <<pos, book, disturbances>>

\* manage_base_position, manage_tqqq_position, manage_upro_position.
ManageSleeve(s) ==
  /\ run.pc = "manage"
  /\ Head(run.todo) = s
  /\ CloseRetired(s)
  /\ UNCHANGED <<pos, book, disturbances>>

\* close_position: the position, then the working orders of its side, then the
\* order.  The broker does not take an ID twice.
ClosePosition ==
  /\ run.pc = "close"
  /\ LET s == Head(run.todo)
     IN run' = IF pos[s] = 0 THEN NextSymbol
               ELSE [run EXCEPT !.pc = "closeOrders", !.quantity = pos[s]]
  /\ UNCHANGED <<pos, book, disturbances>>

CloseSide == IF run.quantity < 0 THEN "buy" ELSE "sell"

PendingCloses ==
  /\ run.pc = "closeOrders"
  /\ run' = IF WorkingIn(Head(run.todo), CloseSide) # {} THEN NextSymbol
            ELSE [run EXCEPT !.pc = "submit"]
  /\ UNCHANGED <<pos, book, disturbances>>

\* Whether the call then returns or raises makes no difference: every outcome of
\* it is a row of the report.
SubmitClose ==
  /\ run.pc = "submit"
  /\ book' = IF Known(run.id) THEN book
             ELSE book \cup {[id |-> run.id, sym |-> Head(run.todo), side |-> CloseSide,
                              left |-> Max({run.quantity, -run.quantity}), st |-> "open"]}
  /\ run' = NextSymbol
  /\ UNCHANGED <<pos, disturbances>>

\* ----------------------------------------------- migration status and plan

\* A mutant: only orders keep the gate closed.
IgnorePositions ==
  /\ run.pc = "status"
  /\ run' = [run EXCEPT !.pc = "statusOrders"]
  /\ UNCHANGED <<pos, book, disturbances>>

\* _infrastructure_migration_status reads positions, then orders.  A retired
\* position or order closes the gate; the adaptive exits run in any case.
StatusPositions ==
  /\ run.pc = "status"
  /\ run' = [run EXCEPT !.pc = "statusOrders",
                        !.allow = run.allow /\ \A s \in Infrastructure : pos[s] = 0]
  /\ UNCHANGED <<pos, book, disturbances>>

StatusOrders ==
  /\ run.pc = "statusOrders"
  /\ run' = [run EXCEPT !.pc = "adaptive",
                        !.allow = run.allow /\ \A o \in OpenOrders : o.sym \notin Infrastructure]
  /\ UNCHANGED <<pos, book, disturbances>>

\* manage_momentum_picks: all that matters here of what AdaptiveExecutor
\* specifies is that it buys a stock when the gate is open and no SELL works.
AdaptiveBuys(s) ==
  /\ run.pc = "adaptive"
  /\ run.allow
  /\ \A o \in OpenOrders : o.side = "buy"
  /\ Shorts(pos) = {}
  /\ ~Known(PlanID(s))
  /\ pos[s] < Lots
  /\ book' = book \cup {[id |-> PlanID(s), sym |-> s, side |-> "buy", left |-> 1, st |-> "open"]}
  /\ run' = Idle
  /\ UNCHANGED <<pos, disturbances>>

AdaptiveWaits ==
  /\ run.pc = "adaptive"
  /\ run' = Idle
  /\ UNCHANGED <<pos, book, disturbances>>

\* ----------------------------------------------------------------- failures

\* _cancel_all_orders_fail_closed, and abort_untrusted_positions: with no
\* positions, or no orders, to go by, everything that works is cancelled.
EarlyReadFails ==
  /\ run.pc \in {"shortOrders", "openBuys"}
  /\ Disturbance
  /\ book' = {IF Working(o) THEN [o EXCEPT !.st = "cancelling"] ELSE o : o \in book}
  /\ run' = Idle
  /\ UNCHANGED pos

\* A manager that fails reports it and lets the next one run; a status that
\* cannot be read keeps the gate closed.
LaterReadFails ==
  /\ \/ /\ run.pc \in {"cover", "manage", "close", "closeOrders", "submit"}
        /\ run' = NextSymbol
     \/ /\ run.pc \in {"status", "statusOrders"}
        /\ run' = [run EXCEPT !.pc = "adaptive", !.allow = FALSE]
  /\ Disturbance
  /\ UNCHANGED <<pos, book>>

\* An exception no one catches, or the end of the runner.
RunDies ==
  /\ run.pc # "idle"
  /\ Disturbance
  /\ run' = Idle
  /\ UNCHANGED <<pos, book>>

\* ------------------------------------------------------- broker and owner

FillLot(o) ==
  /\ Working(o)
  /\ LET after == IF o.side = "buy" THEN pos[o.sym] + 1 ELSE pos[o.sym] - 1
     IN after \in -Lots..Lots /\ pos' = [pos EXCEPT ![o.sym] = after]
  /\ book' = (book \ {o}) \cup
       {[o EXCEPT !.left = o.left - 1, !.st = IF o.left = 1 THEN "filled" ELSE o.st]}
  /\ UNCHANGED <<run, disturbances>>

FillSymbol(s) == \E o \in book : o.sym = s /\ FillLot(o)

ConfirmCancel(o) ==
  /\ o.st = "cancelling"
  /\ book' = (book \ {o}) \cup {[o EXCEPT !.st = "dead"]}
  /\ UNCHANGED <<pos, run, disturbances>>

\* The session ends: every order expires, and tomorrow's IDs are new.
NextDay ==
  /\ run.pc = "idle"
  /\ book # {}
  /\ book' = {}
  /\ UNCHANGED <<pos, run, disturbances>>

\* The owner trades by hand, but not while the program runs.
OwnerTrades(s, side) ==
  /\ run.pc = "idle"
  /\ Disturbance
  /\ book' = book \cup {[id |-> OwnerID(disturbances + 1), sym |-> s, side |-> side,
                         left |-> 1, st |-> "open"]}
  /\ UNCHANGED <<pos, run>>

\* ---------------------------------------------------------------- the whole

Program ==
  \/ ReconcileShorts \/ ReserveCover \/ OpenBuysPreflight \/ InfrastructureBuys
  \/ ManageHedge \/ \E s \in ToSet(Sleeves) : ManageSleeve(s)
  \/ ClosePosition \/ PendingCloses \/ SubmitClose
  \/ StatusPositions \/ StatusOrders \/ AdaptiveWaits
  \/ \E s \in Stocks : AdaptiveBuys(s)

Next ==
  \/ \E kind \in {"run", "midday"} : StartRun(kind)
  \/ Program
  \/ EarlyReadFails \/ LaterReadFails \/ RunDies
  \/ \E o \in book : FillLot(o) \/ ConfirmCancel(o)
  \/ NextDay
  \/ \E s \in Symbols, side \in Sides : OwnerTrades(s, side)

Spec == Init /\ [][Next]_vars

\* A started invocation goes on.  The full run is scheduled every session and
\* sessions end.  An order that is offered again and again is taken some time.
FairSpec ==
  /\ Spec
  /\ WF_vars(Program)
  /\ SF_vars(StartRun("run"))
  /\ SF_vars(NextDay)
  /\ \A s \in Symbols : SF_vars(FillSymbol(s))

\* --------------------------------------------------------------- properties

Ours(o) == o.id[1] \in {"v11-cover", "v11-migration"}

\* A cover or a migration sale never carries a position through zero: with
\* everything else that works on its side, it fits what is held when it is sent,
\* although positions were read before orders and fills went on in between
\* (close_position, _reserve_short_cover_client_order_id).  Orders of somebody
\* else in the same symbol are excepted: nothing protects that race.
ClosesFit ==
  [][\A o \in book' \ book :
       (/\ Ours(o)
        /\ ~Known(o.id)
        /\ \A p \in book : p.sym = o.sym => p.id[1] # "owner")
       => Total({p \in book' : Working(p) /\ p.sym = o.sym /\ p.side = o.side})
            <= IF o.side = "sell" THEN pos[o.sym] ELSE -pos[o.sym]]_vars

\* No stock is bought while a retired position is held, an order of a retired
\* symbol works, or anything is short: what _infrastructure_migration_status
\* and the preflights found is still so when the adaptive executor acts
\* (run_execution, _run_midday_command).
BuysAfterMigration ==
  [][\A o \in book' \ book :
       (o.id = PlanID(o.sym) /\ ~Known(o.id))
       => /\ Shorts(pos) = {}
          /\ \A s \in Infrastructure : pos[s] = 0
          /\ \A p \in OpenOrders : p.sym \notin Infrastructure]_vars

\* If the owner leaves the account alone, the retired positions and every short are
\* gone some day and stay gone, however the runs fail on the way.
MigrationEnds == <>[](Shorts(pos) = {} /\ \A s \in Infrastructure : pos[s] = 0)

=============================================================================
