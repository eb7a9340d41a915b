--------------------------- MODULE LiveProduction ---------------------------
(***************************************************************************)
(* Real money: the runs of .github/workflows/live-production.yml, the      *)
(* restore and publication of their encrypted state                        *)
(* (scripts/restore_live_runtime.py, scripts/live_runtime_crypto.py), and  *)
(* the absolute limits every order passes (scripts/trade.py,               *)
(* scripts/broker_mode.py), against a broker that moves between any two    *)
(* reads.                                                                  *)
(*                                                                         *)
(* An order is one lot at a limit.  What the strategy wants to trade is    *)
(* any lot at any time: the limits have to hold whatever it asks.  Runs    *)
(* are serialised by the workflow's concurrency group.  An order whose     *)
(* submission got no answer is "hidden" until the broker shows it or drops *)
(* it; it does one or the other before the next run.                       *)
(***************************************************************************)
EXTENDS Integers, FiniteSets, FiniteSetsExt, Functions, Sequences

CONSTANTS
  Budget,      \* LIVE_CAPITAL_BUDGET_USD
  OrderCap,    \* LIVE_MAX_ORDER_NOTIONAL_USD
  CycleCap,    \* LIVE_MAX_CYCLE_NOTIONAL_USD
  Funds,       \* the cash the account is opened with
  Prices,      \* values of one lot, and limits
  Releases,    \* values of PRODUCTION_RELEASE_SHA
  MaxOrders,   \* bound: orders submitted in all
  MaxRuns,     \* bound: workflow runs
  MaxMoves,    \* bound: deposits, price moves, operator acts
  MaxFaults    \* bound: lost answers and dead processes

\* resolve_broker_mode: live trades only with all three limits set, and coherent.
ResolvesLive ==
  /\ {Budget, OrderCap, CycleCap} \subseteq Nat \ {0}
  /\ OrderCap <= CycleCap
ASSUME MoneyAssumption ==
  /\ ResolvesLive /\ Funds \in Nat \ {0}
  /\ Prices \subseteq Nat \ {0} /\ Prices # {}
ASSUME BoundsAssumption ==
  /\ {MaxOrders, MaxRuns, MaxMoves, MaxFaults} \subseteq Nat
  /\ Releases # {}

VARIABLES
  pos, price, cash,  \* Alpaca: lots held, the value of one, cash
  orders,            \* Alpaca: every order ever submitted
  kill,              \* the kill switch file exists
  release,           \* PRODUCTION_RELEASE_SHA
  history,           \* the runs that ended, as GitHub shows them
  job,               \* the run in progress
  ledger,            \* the process's live ledger
  reads,             \* the reads of the capital snapshot in progress
  moves, faults,
  low,               \* ghost: the lowest price of the process's life
  late               \* ghost: BUYs submitted since the kill switch was set

broker == <<pos, price, cash, orders>>
operator == <<kill, release>>
ghosts == <<low, late>>
bounds == <<moves, faults>>
vars == <<broker, operator, history, job, ledger, reads, bounds, ghosts>>

Working == {"open", "hidden"}
Those(side, statuses) ==
  {i \in DOMAIN orders : orders[i].side = side /\ orders[i].status \in statuses}
LimitsOf(S) == SumFunctionOnSet([i \in DOMAIN orders |-> orders[i].limit], S)

NoJob == [phase |-> "idle", release |-> "none",
          execute |-> FALSE, knows |-> 0, limit |-> 0, side |-> "none"]
InProcess == job.phase \in {"trading", "checking", "authorised"}
NoLedger == [known |-> FALSE, initial |-> 0, cash |-> 0, spent |-> 0]

Init ==
  /\ pos = 0 /\ price \in Prices /\ cash = Funds /\ orders = <<>>
  /\ kill = FALSE /\ release \in Releases
  /\ history = <<>> /\ job = NoJob /\ ledger = NoLedger /\ reads = <<>>
  /\ moves = 0 /\ faults = 0 /\ low = price /\ late = 0

(***************************************************************************)
(* The broker, the market and the operator.                                *)
(***************************************************************************)
MovePrice == \E p \in Prices \ {price} :
  /\ moves < MaxMoves
  /\ price' = p /\ moves' = moves + 1
  /\ low' = IF InProcess /\ low < p THEN low ELSE p
  /\ UNCHANGED <<pos, cash, orders, operator, history, job, ledger, reads, faults, late>>

Deposit ==
  /\ moves < MaxMoves
  /\ cash' = cash + 1 /\ moves' = moves + 1
  /\ UNCHANGED <<pos, price, orders, operator, history, job, ledger, reads, faults, ghosts>>

\* A BUY fills at or below its limit, a SELL at or above it, at the price.
Fill(i) ==
  /\ orders[i].status = "open"
  /\ LET buy == orders[i].side = "buy" IN
     /\ IF buy THEN price <= orders[i].limit ELSE price >= orders[i].limit
     /\ pos' = IF buy THEN pos + 1 ELSE pos - 1
     /\ cash' = IF buy THEN cash - price ELSE cash + price
  /\ orders' = [orders EXCEPT ![i].status = "filled"]
  /\ UNCHANGED <<price, operator, history, job, ledger, reads, bounds, ghosts>>

\* A working order is cancelled, rejected or expires.
Die(i) ==
  /\ orders[i].status \in Working
  /\ orders' = [orders EXCEPT ![i].status = "dead"]
  /\ UNCHANGED <<pos, price, cash, operator, history, job, ledger, reads, bounds, ghosts>>

Appear(i) ==
  /\ orders[i].status = "hidden"
  /\ orders' = [orders EXCEPT ![i].status = "open"]
  /\ UNCHANGED <<pos, price, cash, operator, history, job, ledger, reads, bounds, ghosts>>

SetKillSwitch == \E on \in BOOLEAN \ {kill} :
  /\ moves < MaxMoves
  /\ kill' = on /\ late' = 0 /\ moves' = moves + 1
  /\ UNCHANGED <<broker, release, history, job, ledger, reads, faults, low>>

Approve == \E r \in Releases \ {release} :
  /\ moves < MaxMoves
  /\ release' = r /\ moves' = moves + 1
  /\ UNCHANGED <<broker, kill, history, job, ledger, reads, faults, ghosts>>

(***************************************************************************)
(* A run: restore the newest encrypted state of the release or, when the   *)
(* operator asks for it, start an empty book; then trade, or only preview. *)
(***************************************************************************)
Native(r) == {i \in DOMAIN history : history[i].artifact /\ history[i].release = r}

TrustsTheNewestArtifact(i) == TRUE
\* Provenance.latest: nothing after the artifact's run may have executed, and
\* what cannot be read counts as executed.
NothingAfter(i) == \A j \in DOMAIN history : j > i => history[j].executed = "skipped"

\* Provenance.empty: no artifact of any release, no execution by any run.
NoEarlierExecution ==
  \A i \in DOMAIN history : ~history[i].artifact /\ history[i].executed = "skipped"

\* empty_snapshot: a flat account, funded within the budget.
FlatFunded ==
  /\ pos = 0 /\ Those("buy", {"open"}) \union Those("sell", {"open"}) = {}
  /\ 0 < cash /\ cash <= Budget

Ended(executed, artifact) ==
  history' = Append(history, [release |-> job.release, executed |-> executed,
                              artifact |-> artifact, knows |-> job.knows])

Dispatch == \E execute \in BOOLEAN :
  /\ job.phase = "idle" /\ Len(history) < MaxRuns
  /\ Those("buy", {"hidden"}) \union Those("sell", {"hidden"}) = {}
  /\ job' = [NoJob EXCEPT !.phase = "start", !.release = release, !.execute = execute]
  /\ UNCHANGED <<broker, operator, history, ledger, reads, bounds, ghosts>>

RestoreNative ==
  /\ job.phase = "start" /\ Native(job.release) # {}
  /\ LET newest == Max(Native(job.release)) IN
     /\ NothingAfter(newest)
     /\ job' = [job EXCEPT !.phase = "restored", !.knows = history[newest].knows]
  /\ UNCHANGED <<broker, operator, history, ledger, reads, bounds, ghosts>>

\* Taken only when LIVE_RUNTIME_BOOTSTRAP asks for it, which it may at any run.
Bootstrap ==
  /\ job.phase = "start" /\ Native(job.release) = {}
  /\ NoEarlierExecution /\ FlatFunded
  /\ job' = [job EXCEPT !.phase = "restored"]
  /\ UNCHANGED <<broker, operator, history, ledger, reads, bounds, ghosts>>

\* A refused restore, a failed preflight or preview, or operation = preflight:
\* the execution step is skipped and nothing is packed.
EndUnexecuted ==
  /\ job.phase \in {"start", "restored"}
  /\ Ended("skipped", FALSE) /\ job' = NoJob
  /\ UNCHANGED <<broker, operator, ledger, reads, bounds, ghosts>>

\* run_step execute: a new process, with a new ledger.
BeginExecute ==
  /\ job.phase = "restored" /\ job.execute
  /\ job' = [job EXCEPT !.phase = "trading"]
  /\ ledger' = NoLedger /\ low' = price
  /\ UNCHANGED <<broker, operator, history, reads, bounds, late>>

\* The child wrote its record within the execution: receipt, pack, upload.
EndExecuted ==
  /\ job.phase = "trading"
  /\ Ended("done", TRUE) /\ job' = NoJob /\ ledger' = NoLedger /\ low' = price
  /\ UNCHANGED <<broker, operator, reads, bounds, late>>

\* Killed, timed out, or its record or receipt is missing: the step shows as
\* executed and no state is packed.  A lost runner leaves a step nobody can
\* read, whether or not it had begun.
EndWithoutReceipt ==
  /\ InProcess /\ faults < MaxFaults
  /\ \E shown \in {"done", "unknown"} : Ended(shown, FALSE)
  /\ job' = NoJob /\ ledger' = NoLedger /\ reads' = <<>> /\ low' = price
  /\ faults' = faults + 1
  /\ UNCHANGED <<broker, operator, moves, late>>

LoseRunner ==
  /\ job.phase \in {"start", "restored"} /\ faults < MaxFaults
  /\ Ended("unknown", FALSE) /\ job' = NoJob /\ faults' = faults + 1
  /\ UNCHANGED <<broker, operator, ledger, reads, moves, ghosts>>

(***************************************************************************)
(* place_limit_order and enforce_live_order_limits, for one order.         *)
(***************************************************************************)
IgnoresKillSwitch(limit) == limit <= OrderCap /\ ledger.spent + limit <= CycleCap
NoCycleCeiling(limit) == ~kill /\ limit <= OrderCap
\* The checks before the snapshot: kill switch, order ceiling, cycle ceiling.
MayBuy(limit) ==
  /\ ~kill /\ limit <= OrderCap
  /\ ledger.spent + limit <= CycleCap

BeginBuy == \E limit \in Prices :
  /\ job.phase = "trading" /\ Len(orders) < MaxOrders
  /\ MayBuy(limit)
  /\ job' = [job EXCEPT !.phase = "checking", !.limit = limit, !.side = "buy"]
  /\ UNCHANGED <<broker, operator, history, ledger, reads, bounds, ghosts>>

\* Selling is never capped, not even read for: exits stay possible.
BeginSell == \E limit \in Prices :
  /\ job.phase = "trading" /\ Len(orders) < MaxOrders
  /\ Cardinality(Those("sell", Working)) < pos
  /\ job' = [job EXCEPT !.phase = "authorised", !.limit = limit, !.side = "sell"]
  /\ UNCHANGED <<broker, operator, history, ledger, reads, bounds, ghosts>>

\* Account, positions, open orders; and again.
Requests == <<"account", "positions", "orders", "account", "positions", "orders">>
Answer(request) ==
  CASE request = "account" -> <<cash + pos * price, cash>>
    [] request = "positions" -> <<pos, pos * price>>
    [] request = "orders" -> [i \in Those("buy", {"open"}) \union Those("sell", {"open"}) |->
                                orders[i]]

Read ==
  /\ job.phase = "checking" /\ Len(reads) < Len(Requests)
  /\ reads' = Append(reads, Answer(Requests[Len(reads) + 1]))
  /\ UNCHANGED <<broker, operator, history, job, ledger, bounds, ghosts>>

Lesser(a, b) == IF a < b THEN a ELSE b
Greater(a, b) == IF a < b THEN b ELSE a

\* _live_capital_snapshot: the two reads must agree on quantities and orders.
Agree == reads[2][1] = reads[5][1] /\ reads[3] = reads[6]
IgnoresTheBook == 0
Promises(book) == [i \in DOMAIN book |-> IF book[i].side = "buy" THEN book[i].limit ELSE 0]
Promised == SumFunctionOnSet(Promises(reads[3]), DOMAIN reads[3])
Snapshot == [equity |-> Lesser(reads[1][1], reads[4][1]),
             committed |-> Greater(reads[2][2], reads[5][2]) + Promised,
             cash |-> Lesser(reads[1][2], reads[4][2]) - Promised]

ForgetsReservations(s) ==
  [initial |-> s.committed, first |-> s.cash, exposure |-> s.committed, cash |-> s.cash]
\* What the process has reserved stays counted until it ends, shown or not.
Reserved(s) ==
  LET initial == IF ledger.known THEN ledger.initial ELSE s.committed
      first == IF ledger.known THEN ledger.cash ELSE s.cash
  IN  [initial |-> initial, first |-> first,
       exposure |-> Greater(s.committed, initial + ledger.spent),
       cash |-> Lesser(s.cash, first - ledger.spent)]

WithinCapital(limit) ==
  /\ Agree
  /\ Reserved(Snapshot).exposure + limit <= Lesser(Budget, Snapshot.equity)
  /\ limit <= Reserved(Snapshot).cash

\* Reservation precedes submission and is kept if that fails.
Authorise ==
  /\ job.phase = "checking" /\ Len(reads) = Len(Requests)
  /\ WithinCapital(job.limit)
  /\ ledger' = [known |-> TRUE, initial |-> Reserved(Snapshot).initial,
                cash |-> Reserved(Snapshot).first, spent |-> ledger.spent + job.limit]
  /\ job' = [job EXCEPT !.phase = "authorised"] /\ reads' = <<>>
  /\ UNCHANGED <<broker, operator, history, bounds, ghosts>>

RefuseBuy ==
  /\ job.phase = "checking" /\ Len(reads) = Len(Requests)
  /\ ~WithinCapital(job.limit)
  /\ job' = [job EXCEPT !.phase = "trading"] /\ reads' = <<>>
  /\ UNCHANGED <<broker, operator, history, ledger, bounds, ghosts>>

\* submit_order: accepted; accepted or not without an answer; or rejected.
Submit == \E status \in {"open", "hidden", "dead"} :
  /\ job.phase = "authorised"
  /\ status = "hidden" => faults < MaxFaults
  /\ faults' = faults + IF status = "hidden" THEN 1 ELSE 0
  /\ orders' = Append(orders, [side |-> job.side, limit |-> job.limit, status |-> status])
  /\ late' = late + IF kill /\ job.side = "buy" THEN 1 ELSE 0
  /\ job' = [job EXCEPT !.phase = "trading", !.limit = 0, !.side = "none", !.knows = @ + 1]
  /\ UNCHANGED <<pos, price, cash, operator, history, ledger, reads, moves, low>>

Next ==
  \/ MovePrice \/ Deposit \/ SetKillSwitch \/ Approve
  \/ \E i \in DOMAIN orders : Fill(i) \/ Die(i) \/ Appear(i)
  \/ Dispatch \/ RestoreNative \/ Bootstrap \/ EndUnexecuted
  \/ BeginExecute \/ EndExecuted \/ EndWithoutReceipt \/ LoseRunner
  \/ BeginBuy \/ BeginSell \/ Read \/ Authorise \/ RefuseBuy \/ Submit

Spec == Init /\ [][Next]_vars

(***************************************************************************)
(* Properties.                                                             *)
(***************************************************************************)
\* Types, and the order of the capital snapshot's reads.
TypeOK ==
  /\ pos \in Nat /\ price \in Prices /\ cash \in Nat
  /\ \A i \in DOMAIN orders :
       orders[i] \in [side : {"buy", "sell"}, limit : Prices,
                      status : {"open", "hidden", "filled", "dead"}]
  /\ kill \in BOOLEAN /\ release \in Releases
  /\ \A i \in DOMAIN history :
       history[i] \in [release : Releases, executed : {"skipped", "done", "unknown"},
                       artifact : BOOLEAN, knows : Nat]
  /\ job.phase \in {"idle", "start", "restored", "trading", "checking", "authorised"}
  /\ ledger.spent \in 0..CycleCap /\ ledger.initial \in Nat
  /\ Len(reads) <= Len(Requests) /\ (reads # <<>> => job.phase = "checking")
  /\ low \in Prices /\ (InProcess => low <= price) /\ late \in Nat

Bought == {i \in DOMAIN orders' : i \notin DOMAIN orders /\ orders'[i].side = "buy"
                                 /\ orders'[i].status \in Working}

\* Whatever fills, appears, dies or moves between the reads, whatever got no
\* answer before: when a BUY reaches the broker, every lot held (at the lowest
\* price the process saw) and every BUY still working, shown or not, fit the
\* capital allocated to live trading, and cash pays for every BUY still working, so
\* that no fill can borrow (trade.py:584-606).
BuysCovered ==
  [][Bought # {} =>
       /\ pos' * low' + LimitsOf(Those("buy", Working))' <= Budget
       /\ LimitsOf(Those("buy", Working))' <= cash']_vars

\* The kill switch is read once, before the snapshot: it stops the next BUY,
\* and can be late for one (trade.py:558-562).
KillSwitchLate == late <= 1

\* A run that may trade holds a book that knows every order ever sent with
\* these keys: no crash, lost state or release change makes it start over on
\* top of a real position (restore_live_runtime.py:562-609).
NothingForgotten ==
  InProcess \/ job.phase = "restored" => job.knows = Len(orders)
=============================================================================
