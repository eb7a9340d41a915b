---------------------------- MODULE AdaptiveExecutor ----------------------------
(***************************************************************************)
(* The V11 executor of scripts/execute_trades.py: one invocation at a time *)
(* reads the broker, keeps one frozen target plan in performance.json,     *)
(* cancels every BUY the plan does not authorise, sells first, buys later, *)
(* and retires the plan when the filled positions match it.  The broker    *)
(* fills, expires and cancels orders concurrently; a submission may be     *)
(* accepted and still look failed; the process may die between any two     *)
(* steps and restarts from performance.json.                               *)
(*                                                                         *)
(* One lot of every symbol is worth one unit of cash, so equity is         *)
(* constant and a target weight is a number of lots.                       *)
(***************************************************************************)
EXTENDS Integers, FiniteSets, FiniteSetsExt, Functions

CONSTANTS
  Symbols,            \* the ranking universe and everything held
  Targets,            \* portfolios the planner may choose in tier NORMAL, in lots
  Reserve,            \* min_cash_pct of equity, in lots
  HardGate,           \* below_sma200_floor_pct <= 0: SPY below SMA200 is risk-off
  SessionsPerMonth,
  InitialAccounts,    \* [pos, cash, book, plan] the first invocation may find
  NoPlan, NoOrder,    \* absent plan, no order being submitted
  MaxDay, MaxRelease, \* bounds on the calendar and on deployments
  MaxMoves,           \* bound on changes of day, release, tier, trend and gate
  MaxFaults           \* bound on crashes, failed calls and unfilled expiries

Sides == {"buy", "sell"}
Tiers == {"NORMAL", "CAUTIOUS", "HALT"}
Flat == [s \in Symbols |-> 0]
NoAttempts == [i \in {} |-> 0]
NoOrders == [c \in {} |-> 0]
OpenStatuses == {"new", "pending_cancel"}
RetryStatuses == {"canceled", "expired"}

Plans == [month : Nat, signal : Nat, weights : [Symbols -> Nat], riskOff : BOOLEAN,
          tier : Tiers, release : Nat, valid : BOOLEAN]
Orders == [sym : Symbols, side : Sides, qty : Nat, filled : Nat,
           status : OpenStatuses \cup RetryStatuses \cup {"filled"}, foreign : BOOLEAN]
IsBook(b) ==
  \A c \in DOMAIN b : /\ b[c] \in Orders /\ b[c].filled <= b[c].qty
                      /\ b[c].status \in OpenStatuses => b[c].filled < b[c].qty

ASSUME PlansAssumption == NoPlan \notin Plans

ASSUME BoundsAssumption ==
  /\ Reserve \in Nat /\ HardGate \in BOOLEAN
  /\ SessionsPerMonth \in Nat \ {0} /\ MaxDay \in Nat /\ SessionsPerMonth <= MaxDay
  /\ MaxRelease \in Nat \ {0} /\ MaxMoves \in Nat /\ MaxFaults \in Nat

\* Half of a target is a number of lots as well.
ASSUME TargetsAssumption ==
  /\ Targets \subseteq [Symbols -> Nat]
  /\ \A w \in Targets, s \in Symbols : w[s] % 2 = 0

\* No attempt is recorded yet: every order the executor finds is foreign to it.
ASSUME AccountsAssumption ==
  \A a \in InitialAccounts :
    /\ a.pos \in [Symbols -> Nat] /\ a.cash \in Int
    /\ IsBook(a.book) /\ IsFiniteSet(DOMAIN a.book)
    /\ \A c \in DOMAIN a.book : a.book[c].foreign
    /\ a.plan \in Plans \cup {NoPlan}

VARIABLES
  \* the broker
  pos, cash, book,
  \* the world: calendar, deployed code, risk tier, SPY trend, clock and
  \* validation gate
  day, release, tier, above, gate,
  \* performance.json
  plan, attempts, lastRebal, latch,
  \* the running invocation and its locals
  pc, run,
  \* bounds, and the months rebalanced since the last risk-off intent
  moves, faults, done

broker == <<pos, cash, book>>
world == <<day, release, tier, above, gate, moves>>
durable == <<plan, attempts, lastRebal, latch, done>>
vars == <<broker, world, durable, pc, run, faults>>

Month(d) == d \div SessionsPerMonth

(***************************************************************************)
(* The order book.  An adaptive order is named by its client order ID, a   *)
(* digest of the plan's content, the intent and the attempt number; any    *)
(* other ID is an order some earlier release left behind.                  *)
(***************************************************************************)
Remaining(o) == o.qty - o.filled
\* (mutant) an order asked to cancel is taken for a closed one
ForgetPendingCancels(b) == {c \in DOMAIN b : b[c].status = "new"}

OpenOrders(b) == {c \in DOMAIN b : b[c].status \in OpenStatuses}

OpenBuys(b) == {c \in OpenOrders(b) : b[c].side = "buy"}

\* The lots an order still asks for, and those working for a symbol on a side.
Lots(b) == [c \in DOMAIN b |-> Remaining(b[c])]
Working(b, s, side) == {c \in OpenOrders(b) : b[c].sym = s /\ b[c].side = side}
Pending(b, s, side) == SumFunctionOnSet(Lots(b), Working(b, s, side))

ClientOrderId(p, intent, n) == [plan |-> p, intent |-> intent, attempt |-> n]
NewOrder(i) == [sym |-> i.sym, side |-> i.side, qty |-> i.qty,
                filled |-> 0, status |-> "new", foreign |-> FALSE]

(***************************************************************************)
(* The frozen plan.  The plan ID is a digest of exactly these fields; a    *)
(* plan that fails the structure check (an older schema, a damaged file)   *)
(* is not `valid'.                                                         *)
(***************************************************************************)
NewPlan(month, signal, weights, riskOff, t) ==
  [month |-> month, signal |-> signal, weights |-> weights,
   riskOff |-> riskOff, tier |-> t, release |-> release, valid |-> TRUE]

Sized(w, t) == IF t = "CAUTIOUS" THEN [s \in Symbols |-> w[s] \div 2] ELSE w

ZeroTargetIntent == plan # NoPlan /\ plan.riskOff /\ plan.weights = Flat

BelongsToPlan(c, o) ==
  /\ plan # NoPlan /\ plan.valid /\ ~o.foreign
  /\ plan.weights[o.sym] > 0
  /\ c.intent \in DOMAIN attempts
  /\ c = ClientOrderId(plan, c.intent, attempts[c.intent])

OrderOfPlan(c, o) ==
  /\ ~o.foreign
  /\ \E i \in DOMAIN attempts : c = ClientOrderId(plan, i, attempts[i])

\* (mutant) a risk-off plan goes stale like any other
StaleRiskOffToo ==
  /\ plan # NoPlan /\ plan.valid /\ ~run.riskOff
  /\ plan.month # run.month \/ plan.release # release

\* (mutant) a plan is not bound to the code that froze it
StaleByMonthOnly ==
  /\ plan # NoPlan /\ plan.valid /\ ~plan.riskOff /\ ~run.riskOff
  /\ plan.month # run.month

StalePlan ==
  /\ plan # NoPlan /\ plan.valid /\ ~plan.riskOff /\ ~run.riskOff
  /\ plan.month # run.month \/ plan.release # release

StricterTier ==
  plan # NoPlan /\ plan.valid /\ run.tier = "CAUTIOUS" /\ plan.tier = "NORMAL"

DirectionalLongs == {s \in Symbols : run.pos[s] > 0}

(***************************************************************************)
(* Invocations.  `run' holds the locals of the running invocation and is   *)
(* Blank between invocations.                                              *)
(***************************************************************************)
Blank == [tier |-> "HALT", allow |-> FALSE, month |-> 0, riskOff |-> FALSE,
          orders |-> NoOrders, pos |-> Flat, cash |-> 0, todo |-> {},
          current |-> NoOrder, sold |-> FALSE, bought |-> FALSE,
          blocked |-> FALSE, spendable |-> 0]

Goto(label, r) == pc' = label /\ run' = r
Stop == Goto("idle", Blank)
Fault == faults < MaxFaults /\ faults' = faults + 1

Init ==
  /\ \E a \in InitialAccounts :
       pos = a.pos /\ cash = a.cash /\ book = a.book /\ plan = a.plan
  /\ day = SessionsPerMonth /\ release = 1
  /\ tier = "NORMAL" /\ above = TRUE /\ gate = TRUE
  /\ attempts = NoAttempts /\ lastRebal = 0 /\ latch = FALSE
  /\ pc = "idle" /\ run = Blank
  /\ moves = 0 /\ faults = 0 /\ done = {}

\* Ask the broker to cancel the orders of S and stop; any request may fail,
\* and a request for an order that is no longer working is refused.
CancelRequested(S) ==
  [c \in DOMAIN book |-> IF c \in S /\ book[c].status = "new"
                         THEN [book[c] EXCEPT !.status = "pending_cancel"]
                         ELSE book[c]]

CancelAndStop(S) ==
  /\ \E sent \in SUBSET S :
       /\ IF sent = S THEN UNCHANGED faults ELSE Fault
       /\ book' = CancelRequested(sent)
  /\ Stop
  /\ UNCHANGED <<pos, cash, world, durable>>

\* The risk snapshot, then the positions of the long-only preflight.  When the
\* account or its history cannot be read the tier is the one persisted earlier,
\* or today's without the rolling drawdown: any tier, and no exposure is allowed.
StartCycle ==
  /\ pc = "idle"
  /\ \E available \in BOOLEAN, t \in Tiers :
       /\ IF available THEN t = tier /\ UNCHANGED faults ELSE Fault
       /\ Goto("capacity", [Blank EXCEPT !.tier = t, !.pos = pos,
                                         !.allow = available /\ t # "HALT"])
  /\ UNCHANGED <<broker, world, durable>>

\* Every SELL of a symbol whose working SELLs exceed the long position, and
\* then every BUY as well.
OversizedSells(p, b) ==
  {c \in OpenOrders(b) : b[c].side = "sell" /\ Pending(b, b[c].sym, "sell") > p[b[c].sym]}

SellConflicts(p, b) ==
  IF OversizedSells(p, b) = {} THEN {} ELSE OversizedSells(p, b) \cup OpenBuys(b)

\* The preflight reads positions before orders; the adaptive manager reads
\* orders before positions.
CapacityPreflight ==
  /\ pc = "capacity"
  /\ SellConflicts(run.pos, book) = {}
  /\ Goto("preflight", [run EXCEPT !.allow = @ /\ gate])
  /\ UNCHANGED <<broker, world, durable, faults>>

ReconcileSellCapacity ==
  LET conflicts == IF pc = "capacity" THEN SellConflicts(run.pos, book)
                                      ELSE SellConflicts(run.pos, run.orders)
  IN /\ pc \in {"capacity", "reconcile"}
     /\ conflicts # {}
     /\ CancelAndStop(conflicts)

\* The early audit of open BUYs, on its own read of the order book.
PlanGateOpen ==
  /\ run.allow
  /\ plan # NoPlan /\ plan.valid /\ ~plan.riskOff
  /\ plan.month = Month(day)
  /\ plan.release = release
  /\ run.tier # "HALT" /\ ~StricterTier

UnauthorisedBuys ==
  {c \in OpenBuys(book) :
     ~(PlanGateOpen /\ (above \/ ~HardGate) /\ BelongsToPlan(c, book[c]))}

BuyPreflightPasses ==
  /\ pc = "preflight"
  /\ UnauthorisedBuys = {}
  /\ Goto("orders", run)
  /\ UNCHANGED <<broker, world, durable, faults>>

BuyPreflightCancels ==
  /\ pc = "preflight"
  /\ UnauthorisedBuys # {}
  /\ CancelAndStop(UnauthorisedBuys)

\* (mutant) the manager trusts the positions the preflight read
ReuseOldPositions ==
  /\ pc = "orders"
  /\ Goto("reconcile", [run EXCEPT !.month = Month(day),
                                   !.orders = [c \in OpenOrders(book) |-> book[c]]])
  /\ UNCHANGED <<broker, world, durable, faults>>

ReadOrders ==
  /\ pc = "orders"
  /\ Goto("positions", [run EXCEPT !.month = Month(day),
                                   !.orders = [c \in OpenOrders(book) |-> book[c]]])
  /\ UNCHANGED <<broker, world, durable, faults>>

ReadPositions ==
  /\ pc = "positions"
  /\ Goto("reconcile", [run EXCEPT !.pos = pos])
  /\ UNCHANGED <<broker, world, durable, faults>>

SellCapacityHolds ==
  /\ pc = "reconcile"
  /\ SellConflicts(run.pos, run.orders) = {}
  /\ Goto("risk", run)
  /\ UNCHANGED <<broker, world, durable, faults>>

\* A broker or market-data read fails.  While the order book is unknown every
\* order is cancelled; once it is known every BUY of it is.
ReadFails ==
  /\ \/ pc \in {"capacity", "preflight", "orders", "positions", "account"}
     \/ pc = "risk" /\ run.tier # "HALT"
  /\ Fault
  /\ \E S \in CASE pc = "capacity"  -> {OpenOrders(book)}
                [] pc = "preflight" -> {OpenOrders(book), OpenBuys(book)}
                [] OTHER            -> {OpenBuys(run.orders)} :
       book' = CancelRequested(S)
  /\ Stop
  /\ UNCHANGED <<pos, cash, world, durable>>

(***************************************************************************)
(* The decision.  Risk-off intent is persisted before any cancellation.    *)
(***************************************************************************)
RiskOff == run.tier = "HALT" \/ (HardGate /\ ~above)
Signal == IF run.tier = "HALT" THEN 0 ELSE day
ZeroPlan(signal) == NewPlan(run.month, signal, Flat, TRUE, run.tier)

StorePlan(p) == plan' = p /\ attempts' = NoAttempts

PersistRiskOff ==
  /\ pc = "risk"
  /\ RiskOff \/ ZeroTargetIntent
  /\ latch' = TRUE
  /\ IF plan # NoPlan /\ plan.valid /\ plan.riskOff
     THEN UNCHANGED <<plan, attempts, done>>
     ELSE StorePlan(ZeroPlan(Signal)) /\ done' = {}
  /\ Goto("cancel", [run EXCEPT !.riskOff = RiskOff])
  /\ UNCHANGED <<broker, world, lastRebal, faults>>

StayRiskOn ==
  /\ pc = "risk"
  /\ ~(RiskOff \/ ZeroTargetIntent)
  /\ Goto("cancel", run)
  /\ UNCHANGED <<broker, world, durable, faults>>

\* Every open BUY must be an intent of the current plan under open gates, and
\* a held symbol sheds its legacy trailing stop before it can be sold.
Cancellations ==
  {c \in OpenBuys(run.orders) :
     \/ run.riskOff \/ StalePlan \/ StricterTier \/ ~run.allow
     \/ ~BelongsToPlan(c, run.orders[c])}
  \cup {c \in DOMAIN run.orders : /\ run.orders[c].foreign
                                  /\ run.orders[c].side = "sell"
                                  /\ run.orders[c].sym \in DirectionalLongs}

CancelUntrusted ==
  /\ pc = "cancel"
  /\ Cancellations # {}
  /\ CancelAndStop(Cancellations)

NothingToCancel ==
  /\ pc = "cancel"
  /\ Cancellations = {}
  /\ Goto("plan", run)
  /\ UNCHANGED <<broker, world, durable, faults>>

\* A stale plan waits for its own orders to become terminal, then is dropped.
ActivePlanOrders == {c \in DOMAIN run.orders : OrderOfPlan(c, run.orders[c])}

WaitForStalePlan ==
  /\ pc = "plan" /\ StalePlan
  /\ ActivePlanOrders # {}
  /\ Stop
  /\ UNCHANGED <<broker, world, durable, faults>>

AbortInvalidPlan ==
  /\ pc = "plan"
  /\ plan # NoPlan /\ ~plan.valid
  /\ Stop
  /\ UNCHANGED <<broker, world, durable, faults>>

DropStalePlan ==
  /\ pc = "plan" /\ StalePlan
  /\ ActivePlanOrders = {}
  /\ StorePlan(NoPlan)
  /\ UNCHANGED <<broker, world, lastRebal, latch, done, pc, run, faults>>

\* CAUTIOUS halves the frozen NORMAL targets without ranking again; staleness
\* was decided before and is not looked at a second time.
RescalePlan ==
  /\ pc = "plan" /\ StricterTier /\ ~StalePlan
  /\ StorePlan(NewPlan(plan.month, plan.signal, Sized(plan.weights, "CAUTIOUS"),
                       FALSE, "CAUTIOUS"))
  /\ Goto("target", run)
  /\ UNCHANGED <<broker, world, lastRebal, latch, done, faults>>

\* A regular rebalance already restored exposure.
ConsumeLatch ==
  /\ pc = "plan" /\ plan = NoPlan /\ ~run.riskOff
  /\ latch /\ DirectionalLongs # {}
  /\ latch' = FALSE
  /\ UNCHANGED <<broker, world, plan, attempts, lastRebal, done, pc, run, faults>>

NoPlanRiskOn ==
  /\ pc = "plan" /\ plan = NoPlan /\ ~run.riskOff
  /\ ~(latch /\ DirectionalLongs # {})

DeferPlan ==
  /\ NoPlanRiskOn
  /\ ~run.allow
  /\ Stop
  /\ UNCHANGED <<broker, world, durable, faults>>

\* The latch allows one off-cycle target once the market is confirmed.
ReentryReady(confirmed) == latch /\ DirectionalLongs = {} /\ confirmed

AlreadyRebalanced ==
  /\ NoPlanRiskOn
  /\ run.allow
  /\ \E confirmed \in BOOLEAN : lastRebal = run.month /\ ~ReentryReady(confirmed)
  /\ Stop
  /\ UNCHANGED <<broker, world, durable, faults>>

\* (mutant) the completed month is not looked at
FreezeAgain ==
  /\ NoPlanRiskOn /\ run.allow
  /\ \E w \in Targets :
       StorePlan(NewPlan(run.month, day, Sized(w, run.tier), FALSE, run.tier))
  /\ Goto("account", run)
  /\ UNCHANGED <<broker, world, lastRebal, latch, done, faults>>

FreezeNewPlan ==
  /\ NoPlanRiskOn
  /\ run.allow
  /\ \E confirmed \in BOOLEAN : lastRebal # run.month \/ ReentryReady(confirmed)
  /\ \E w \in Targets :
       StorePlan(NewPlan(run.month, day, Sized(w, run.tier), FALSE, run.tier))
  /\ Goto("account", run)
  /\ UNCHANGED <<broker, world, lastRebal, latch, done, faults>>

PlanningFails ==
  /\ NoPlanRiskOn
  /\ run.allow
  /\ Fault
  /\ Stop
  /\ UNCHANGED <<broker, world, durable>>

\* The plan this cycle trades: a risk-off decision replaces whatever else is
\* stored, any other decision keeps it.
ReplaceByZeroPlan ==
  /\ pc = "target" /\ run.riskOff /\ ~plan.riskOff
  /\ StorePlan(ZeroPlan(Signal))
  /\ Goto("account", run)
  /\ UNCHANGED <<broker, world, lastRebal, latch, done, faults>>

\* (mutant) the structure of a stored plan is not checked
UseAnyPlan ==
  /\ pc \in {"target", "plan"} /\ plan # NoPlan
  /\ ~StalePlan /\ ~StricterTier
  /\ run.riskOff => plan.riskOff
  /\ Goto("account", run)
  /\ UNCHANGED <<broker, world, durable, faults>>

UseStoredPlan ==
  /\ pc = "target" \/ (pc = "plan" /\ plan # NoPlan /\ plan.valid
                        /\ ~StalePlan /\ ~StricterTier)
  /\ run.riskOff => plan.riskOff
  /\ Goto("account", run)
  /\ UNCHANGED <<broker, world, durable, faults>>

(***************************************************************************)
(* Orders.  An intent is reserved in performance.json before it is sent;   *)
(* what happened to the previous attempt decides the next client order ID. *)
(***************************************************************************)
ReadAccount ==
  /\ pc = "account"
  /\ Goto("sell", [run EXCEPT !.cash = cash, !.todo = DirectionalLongs])
  /\ UNCHANGED <<broker, world, durable, faults>>

\* One symbol of the current phase is done, with or without an order.
Skip(s) == run' = [run EXCEPT !.todo = @ \ {s}]
Block(s) == run' = [run EXCEPT !.todo = @ \ {s}, !.blocked = TRUE]

Intent(s, side, q) == [sym |-> s, side |-> side, qty |-> q]

PriorOrder(i) ==
  IF i \in DOMAIN attempts THEN ClientOrderId(plan, i, attempts[i]) ELSE NoOrder

\* (mutant) attempts count from zero
NextAttemptFromZero(i) ==
  IF i \notin DOMAIN attempts THEN 0
  ELSE IF PriorOrder(i) \in DOMAIN book THEN attempts[i] + 1 ELSE attempts[i]

\* (mutant) a retry reuses the client order ID of the order that expired
NeverAdvance(i) == IF i \in DOMAIN attempts THEN attempts[i] ELSE 1

NextAttempt(i) ==
  IF i \notin DOMAIN attempts THEN 1
  ELSE IF PriorOrder(i) \in DOMAIN book THEN attempts[i] + 1 ELSE attempts[i]

\* (mutant) only an order the broker never saw is retried
RetryLostOnly(i) == PriorOrder(i) \notin DOMAIN book

Reservable(i) ==
  PriorOrder(i) \in DOMAIN book => book[PriorOrder(i)].status \in RetryStatuses

\* (mutant) the intent is not written before it is sent
SendUnrecorded(i) ==
  /\ Reservable(i)
  /\ UNCHANGED attempts
  /\ Goto("submit", [run EXCEPT !.todo = @ \ {i.sym},
                                !.current = ClientOrderId(plan, i, NextAttempt(i))])

ReserveIntent(i) ==
  /\ Reservable(i)
  /\ attempts' = [j \in DOMAIN attempts \cup {i} |->
                    IF j = i THEN NextAttempt(i) ELSE attempts[j]]
  /\ Goto("submit", [run EXCEPT !.todo = @ \ {i.sym},
                                !.current = ClientOrderId(plan, i, NextAttempt(i))])

\* (mutant) working SELLs are not subtracted
SellAllExcess(s) == run.pos[s] - plan.weights[s]

SellQuantity(s) == run.pos[s] - plan.weights[s] - Pending(run.orders, s, "sell")

BuyBlocksSell(s) == Pending(run.orders, s, "buy") > 0

\* Reserve an order for the intent, or leave it to a later cycle when the
\* previous attempt is still working or has filled.
TryIntent(i) ==
  \/ ReserveIntent(i)
  \/ ~Reservable(i) /\ Block(i.sym) /\ UNCHANGED <<pc, attempts>>

\* Positions are visited in the order the broker lists them: any order.
SelectSell ==
  /\ pc = "sell"
  /\ \E s \in run.todo :
       \/ BuyBlocksSell(s) /\ Block(s) /\ UNCHANGED <<pc, attempts>>
       \/ /\ ~BuyBlocksSell(s) /\ SellQuantity(s) <= 0
          /\ Skip(s) /\ UNCHANGED <<pc, attempts>>
       \/ /\ ~BuyBlocksSell(s)
          /\ \E q \in 1 .. run.pos[s] :
               q = SellQuantity(s) /\ TryIntent(Intent(s, "sell", q))
  /\ UNCHANGED <<broker, world, plan, lastRebal, latch, done, faults>>

\* Buys wait for every sell to settle, for every pending buy, and for the gate.
SellsPending ==
  run.sold \/ run.blocked \/ \E c \in DOMAIN run.orders : run.orders[c].side = "sell"

BuyPhaseOpen ==
  /\ plan.weights # Flat
  /\ ~SellsPending
  /\ OpenBuys(run.orders) = {}
  /\ run.allow

SellsDone ==
  /\ pc = "sell" /\ run.todo = {}
  /\ IF BuyPhaseOpen
     THEN Goto("buy", [run EXCEPT !.todo = {s \in Symbols : plan.weights[s] > 0},
                                  !.spendable = run.cash - Reserve])
     ELSE Goto("finish", run)
  /\ UNCHANGED <<broker, world, durable, faults>>

BuyQuantity(s) ==
  Min({plan.weights[s] - run.pos[s] - Pending(run.orders, s, "buy"), run.spendable})

\* validate_order on a fresh account, and the fresh validation and clock gates
OrderValid(q) == tier # "HALT" /\ cash - q >= Reserve

\* Targets are visited by falling weight, then by name: equal weights, any order.
SelectBuy ==
  /\ pc = "buy"
  /\ \E s \in run.todo :
       \/ BuyQuantity(s) <= 0 /\ Skip(s) /\ UNCHANGED <<pc, attempts>>
       \/ \E q \in 1 .. plan.weights[s] :
            /\ q = BuyQuantity(s)
            /\ \/ ~OrderValid(q) /\ Block(s) /\ UNCHANGED <<pc, attempts>>
               \/ /\ OrderValid(q) /\ ~gate
                  /\ run' = [run EXCEPT !.todo = {}, !.blocked = TRUE]
                  /\ UNCHANGED <<pc, attempts>>
               \/ OrderValid(q) /\ gate /\ TryIntent(Intent(s, "buy", q))
  /\ UNCHANGED <<broker, world, plan, lastRebal, latch, done, faults>>

BuysDone ==
  /\ pc = "buy" /\ run.todo = {}
  /\ Goto("finish", run)
  /\ UNCHANGED <<broker, world, durable, faults>>

\* A quote or the lookup of a previous attempt fails for one symbol; after a
\* failed lookup the cash of a BUY still counts as spent.
SymbolFails ==
  /\ pc \in {"sell", "buy"}
  /\ Fault
  /\ \E s \in run.todo, spent \in BOOLEAN :
       /\ spent => pc = "buy" /\ BuyQuantity(s) > 0
       /\ run' = [run EXCEPT !.todo = @ \ {s}, !.blocked = TRUE,
                             !.spendable = IF spent THEN @ - BuyQuantity(s) ELSE @]
  /\ UNCHANGED <<broker, world, durable, pc>>

\* The broker takes an order whose client ID is new and refuses a used one.
\* A lost request or a lost answer looks like any other failure.
\* (mutant) a submitted BUY leaves the spendable cash as it was
SpendNothing(accepted) ==
  LET i == run.current.intent IN
  Goto(i.side, [run EXCEPT
    !.current = NoOrder,
    !.sold = @ \/ (accepted /\ i.side = "sell"),
    !.bought = @ \/ (accepted /\ i.side = "buy"),
    !.blocked = @ \/ ~accepted])

AfterSubmit(accepted) ==
  LET i == run.current.intent IN
  Goto(i.side, [run EXCEPT
    !.current = NoOrder,
    !.sold = @ \/ (accepted /\ i.side = "sell"),
    !.bought = @ \/ (accepted /\ i.side = "buy"),
    !.blocked = @ \/ ~accepted,
    !.spendable = IF i.side = "buy" THEN @ - i.qty ELSE @])

Place(c) == book' = [d \in DOMAIN book \cup {c} |->
                       IF d = c THEN NewOrder(c.intent) ELSE book[d]]

SubmitAccepted ==
  /\ pc = "submit"
  /\ run.current \notin DOMAIN book
  /\ Place(run.current)
  /\ AfterSubmit(TRUE)
  /\ UNCHANGED <<pos, cash, world, durable, faults>>

SubmitRefused ==
  /\ pc = "submit"
  /\ run.current \in DOMAIN book
  /\ AfterSubmit(FALSE)
  /\ UNCHANGED <<broker, world, durable, faults>>

SubmitAmbiguous ==
  /\ pc = "submit"
  /\ run.current \notin DOMAIN book
  /\ Fault
  /\ Place(run.current) \/ UNCHANGED book
  /\ AfterSubmit(FALSE)
  /\ UNCHANGED <<pos, cash, world, durable>>

\* Only filled positions observed with no working order complete a plan.
Converged == \A s \in Symbols : run.pos[s] = plan.weights[s]

CompletePlan ==
  /\ pc = "finish"
  /\ run.orders = NoOrders /\ ~run.sold /\ ~run.bought /\ ~run.blocked
  /\ Converged
  /\ lastRebal' = plan.month
  /\ latch' = plan.riskOff
  /\ StorePlan(NoPlan)
  /\ done' = IF plan.riskOff THEN done ELSE done \cup {plan.month}
  /\ Stop
  /\ UNCHANGED <<broker, world, faults>>

KeepPlan ==
  /\ pc = "finish"
  /\ ~(run.orders = NoOrders /\ ~run.sold /\ ~run.bought /\ ~run.blocked /\ Converged)
  /\ Stop
  /\ UNCHANGED <<broker, world, durable, faults>>

Crash ==
  /\ pc # "idle"
  /\ Fault
  /\ Stop
  /\ UNCHANGED <<broker, world, durable>>

(***************************************************************************)
(* The broker (external): limit orders fill lot by lot, a cancel request   *)
(* races the fills, a day order may expire.                                *)
(***************************************************************************)
Signed(o) == IF o.side = "buy" THEN 1 ELSE -1

FillLot(c) ==
  LET o == book[c] IN
  /\ c \in OpenOrders(book)
  /\ book' = [book EXCEPT ![c].filled = @ + 1,
                          ![c].status = IF Remaining(o) = 1 THEN "filled" ELSE @]
  /\ pos' = [pos EXCEPT ![o.sym] = @ + Signed(o)]
  /\ cash' = cash - Signed(o)
  /\ UNCHANGED <<world, durable, pc, run, faults>>

ConfirmCancel(c) ==
  /\ c \in OpenOrders(book) /\ book[c].status = "pending_cancel"
  /\ book' = [book EXCEPT ![c].status = "canceled"]
  /\ UNCHANGED <<pos, cash, world, durable, pc, run, faults>>

Expire(c) ==
  /\ c \in OpenOrders(book)
  /\ Fault
  /\ book' = [book EXCEPT ![c].status = "expired"]
  /\ UNCHANGED <<pos, cash, world, durable, pc, run>>

(***************************************************************************)
(* The world (external): each change is counted in `moves'.  A release is  *)
(* deployed between invocations only.                                      *)
(***************************************************************************)
Move == moves < MaxMoves /\ moves' = moves + 1

NextDay ==
  /\ Move /\ day < MaxDay
  /\ day' = day + 1
  /\ UNCHANGED <<broker, release, tier, above, gate, durable, pc, run, faults>>

Deploy ==
  /\ Move /\ pc = "idle"
  /\ release' \in (1 .. MaxRelease) \ {release}
  /\ UNCHANGED <<broker, day, tier, above, gate, durable, pc, run, faults>>

Reassess ==
  /\ Move
  /\ tier' \in Tiers \ {tier}
  /\ UNCHANGED <<broker, day, release, above, gate, durable, pc, run, faults>>

CrossAverage ==
  /\ Move /\ HardGate
  /\ above' = ~above
  /\ UNCHANGED <<broker, day, release, tier, gate, durable, pc, run, faults>>

ToggleGate ==
  /\ Move
  /\ gate' = ~gate
  /\ UNCHANGED <<broker, day, release, tier, above, durable, pc, run, faults>>

Preflight == StartCycle \/ CapacityPreflight \/ ReconcileSellCapacity
             \/ BuyPreflightPasses \/ BuyPreflightCancels
Snapshot == ReadOrders \/ ReadPositions \/ SellCapacityHolds
Decide == PersistRiskOff \/ StayRiskOn \/ CancelUntrusted \/ NothingToCancel
          \/ AbortInvalidPlan \/ WaitForStalePlan \/ DropStalePlan \/ RescalePlan \/ ConsumeLatch
          \/ DeferPlan \/ AlreadyRebalanced \/ FreezeNewPlan
          \/ ReplaceByZeroPlan \/ UseStoredPlan
Trade == ReadAccount \/ SelectSell \/ SellsDone \/ SelectBuy \/ BuysDone
         \/ SubmitAccepted \/ SubmitRefused \/ CompletePlan \/ KeepPlan

Executor == Preflight \/ Snapshot \/ Decide \/ Trade
Failure == ReadFails \/ PlanningFails \/ SymbolFails \/ SubmitAmbiguous \/ Crash
Broker == \E c \in DOMAIN book : FillLot(c) \/ ConfirmCancel(c)
World == NextDay \/ Deploy \/ Reassess \/ CrossAverage \/ ToggleGate

Next == Executor \/ Failure \/ Broker \/ World \/ \E c \in DOMAIN book : Expire(c)

Spec == Init /\ [][Next]_vars

\* The workflow is rerun every session, and a working order is eventually
\* filled, or cancelled when that was asked for.
FairSpec == Spec /\ WF_vars(Executor) /\ WF_vars(Broker)

(***************************************************************************)
(* Properties.                                                             *)
(***************************************************************************)
\* Every variable keeps its type; a working order is not filled, and no order
\* is filled beyond its size.
TypeOK ==
  /\ pos \in [Symbols -> Int] /\ cash \in Int /\ IsBook(book)
  /\ day \in SessionsPerMonth .. MaxDay /\ release \in 1 .. MaxRelease
  /\ tier \in Tiers /\ above \in BOOLEAN /\ gate \in BOOLEAN
  /\ plan \in Plans \cup {NoPlan}
  /\ \A i \in DOMAIN attempts : attempts[i] \in Nat \ {0}
  /\ lastRebal \in Nat /\ latch \in BOOLEAN
  /\ moves \in 0 .. MaxMoves /\ faults \in 0 .. MaxFaults

Adaptive(c) == ~book[c].foreign

\* V11 is long-only: whatever the broker fills first, the working SELLs of a
\* symbol never exceed the lots held, through partial fills, retries, expiries,
\* ambiguous submissions and restarts.
NoOversell == \A s \in Symbols : Pending(book, s, "sell") <= pos[s]

\* The executor never works a BUY and a SELL of its own in one symbol.
NoSelfCross ==
  \A c, d \in DOMAIN book :
    ~(/\ Adaptive(c) /\ book[c].side = "buy" /\ book[c].status \in OpenStatuses
      /\ Adaptive(d) /\ book[d].side = "sell" /\ book[d].status \in OpenStatuses
      /\ book[c].sym = book[d].sym)

\* A BUY that fills completely leaves no more than its plan's target: no
\* retry after an unknown outcome buys the same shortfall twice.
BuysWithinTarget ==
  \A c \in OpenBuys(book) : Adaptive(c) =>
    pos[book[c].sym] + Pending(book, book[c].sym, "buy") <= c.plan.weights[book[c].sym]

\* While the executor has a BUY working, all working BUYs together leave the
\* cash reserve untouched: sale proceeds are not spent before they settle.
BuysFunded ==
  (\E c \in OpenBuys(book) : Adaptive(c)) =>
    cash - SumFunctionOnSet(Lots(book), OpenBuys(book)) >= Reserve

\* No replaced plan leaves a BUY working: a BUY not yet asked to cancel is an
\* intent of the stored plan, unless a risk-off plan has just replaced it.
BuysBelongToPlan ==
  \A c \in OpenBuys(book) :
    Adaptive(c) /\ book[c].status = "new" =>
      BelongsToPlan(c, book[c]) \/ (plan # NoPlan /\ plan.riskOff)

\* The steps of a cycle that rest on its reads of orders and positions, and a
\* cycle that read no working order and has sent nothing since.
Deciding == {"reconcile", "risk", "cancel", "plan", "target", "account", "sell",
             "submit", "buy", "finish"}
Quiet == run.orders = NoOrders /\ ~run.sold /\ ~run.bought /\ ~run.blocked

\* When nothing was open in the orders read and nothing was sent since, the
\* positions the decision rests on are the positions the account has, however
\* many fills came between the reads: only such a cycle retires a plan.
SnapshotExact ==
  pc \in Deciding /\ Quiet => OpenOrders(book) = {} /\ run.pos = pos

\* README: a zero-target risk-off plan survives retries, month boundaries,
\* strategy upgrades and market recovery until the account is in cash.
RiskOffSurvives ==
  [][ZeroTargetIntent /\ ~ZeroTargetIntent' => pos = Flat /\ OpenOrders(book) = {}]_vars

\* A month is rebalanced once, and once more only after a risk-off intent:
\* the recovery latch is spent by the target it allows.
OneRebalancePerEpisode ==
  [][pc = "finish" /\ plan' = NoPlan /\ plan # NoPlan /\ ~plan.riskOff =>
       plan.month \notin done]_vars

\* An order is submitted only for a well-formed plan, and towards a target
\* above zero only in the month and by the release that froze it: whatever was stored by
\* an older release or left over from an older month is never traded.
TradesCurrentPlan ==
  [][\A c \in DOMAIN book' \ DOMAIN book :
       /\ c.plan.valid
       /\ c.plan.weights = Flat \/ (c.plan.month = run.month /\ c.plan.release = release)]_vars

\* README: HALT sends the directional target to zero and is enforced on every
\* execution cycle: a stored risk-off plan always ends with the account in cash.
RiskOffFlattens ==
  ZeroTargetIntent ~> (pos = Flat)

\* The lots of s the stored plan still wants traded on a side.
Wanted(s, side) == IF side = "sell" THEN pos[s] - plan.weights[s]
                                    ELSE plan.weights[s] - pos[s]

\* The plan needs a trade it already made once: the lookup of that intent
\* answers FILLED and every later cycle waits for a position refresh.
RepeatedIntent ==
  /\ plan # NoPlan
  /\ \E i \in DOMAIN attempts :
       /\ Wanted(i.sym, i.side) = i.qty
       /\ PriorOrder(i) \in DOMAIN book /\ book[PriorOrder(i)].status = "filled"

\* Whatever fails, expires, is refused or answered late, a risk-off plan keeps
\* exposure forever only while it needs a trade it already made once.
RiskOffStuckOnlyByRepeat ==
  ~<>[](ZeroTargetIntent /\ pos # Flat /\ ~RepeatedIntent)

\* Once the gates stay open and the tier away from HALT, no plan is pending
\* forever, with the same exception: every frozen target converges or is replaced.
PlanSettles ==
  <>[](gate /\ tier # "HALT" /\ ~RepeatedIntent) => []<>(plan = NoPlan)
=============================================================================
