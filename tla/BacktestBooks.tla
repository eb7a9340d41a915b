--------------------------- MODULE BacktestBooks ---------------------------
(* The two simulators of the V11 policy, session by session on the same data:  *)
(* backtest/engine.py run_backtest, and research_tools/fast_sim.py _simulate,   *)
(* which searches parameters in its place and promises the same decisions.      *)
(* Each is translated from its own source.                                      *)
(*                                                                              *)
(* Money is an integer: prices, weights in percent and the slippage are chosen   *)
(* so that every fill is exact.  A ranking is the set of names it returns, with  *)
(* equal weights; what the allocation does with sectors is left out.  One        *)
(* confirming close ends risk-off (momentum_risk_on_reentry_days of the policy). *)
EXTENDS Integers, Sequences, SequencesExt, FiniteSets, FiniteSetsExt, Functions

CONSTANTS
  Symbols,           \* candidates, in the order of their names
  Opens,             \* the opens of one session: symbol -> price, or 0 without a bar
  Rankings,          \* what the ranking may return: sets of symbols
  StartingCash,
  SlippagePct,       \* of the open, against the order
  MaxGross,          \* max_gross_exposure_pct
  FloorPct,          \* below_sma200_floor_pct; 0 is the hard gate
  Lookback,          \* RISK_LOOKBACK_SESSIONS
  SessionsPerMonth,
  MaxSessions        \* bounds the calendar

Names == ToSet(Symbols)
BuyFill(open) == (open * (100 + SlippagePct)) \div 100
SellFill(open) == (open * (100 - SlippagePct)) \div 100

ASSUME SymbolsAssumption == Symbols \in Seq(Names) /\ Rankings \subseteq SUBSET Names
\* Equity never falls to zero, where both programs would drop the plan.
ASSUME PolicyAssumption ==
  /\ {StartingCash, MaxGross, FloorPct} \subseteq Nat /\ StartingCash > 0
  /\ SlippagePct \in 0 .. 99 /\ Lookback \in Nat \ {0, 1}
  /\ SessionsPerMonth \in Nat \ {0} /\ MaxSessions \in Nat
\* Nothing is sold for nothing.
ASSUME OpensAssumption ==
  /\ Opens \subseteq [Names -> Nat]
  /\ \A opens \in Opens, s \in Names : opens[s] > 0 => SellFill(opens[s]) > 0

VARIABLES
  session,   \* sessions simulated
  engine,    \* the portfolio and the locals of run_backtest
  refused,   \* run_backtest raised MissingPriceError
  fast,      \* the portfolio and the locals of _simulate
  restored,  \* ghost: since risk-off, a target was asked for or exposure is back
  exiting    \* ghost: a risk-off liquidation has begun and is not complete

vars == <<session, engine, refused, fast, restored, exiting>>

\* buy_after_date is left out: it is only ever compared with the day that set it,
\* on another day.
NoPlan == [names |-> {}, gross |-> 0, tier |-> "none", above |-> TRUE, month |-> -1,
           riskOff |-> FALSE]

\* The equities of the last snapshots that the assessment looks back on, oldest first.
NewBook == [folio |-> [cash |-> StartingCash, qty |-> [s \in Names |-> 0],
                       mark |-> [s \in Names |-> 0]],
            equities |-> <<StartingCash>>, plan |-> NoPlan, latched |-> FALSE, formed |-> FALSE]

Init ==
  /\ session = 0
  /\ engine = NewBook /\ fast = NewBook
  /\ refused = FALSE
  /\ restored = FALSE /\ exiting = FALSE

\* ------------------------------------------------------------- the portfolio

Held(f) == {s \in Names : f.qty[s] > 0}
Value(f, s) == f.qty[s] * f.mark[s]
Equity(f) == f.cash + SumFunctionOnSet([s \in Names |-> Value(f, s)], Names)

\* open: the whole position is marked at the fill.
Purchase(f, s, quantity, fill) ==
  IF quantity <= 0 \/ quantity * fill > f.cash THEN f
  ELSE [f EXCEPT !.qty[s] = @ + quantity, !.mark[s] = fill, !.cash = @ - quantity * fill]

\* close and partial_close of what is sold of each position in a session, which does
\* not depend on the order.
Sale(f, sold, opens) ==
  [cash |-> f.cash + SumFunctionOnSet([s \in Names |-> sold[s] * SellFill(opens[s])], Names),
   qty |-> [s \in Names |-> f.qty[s] - sold[s]],
   mark |-> [s \in Names |-> IF sold[s] = f.qty[s] THEN 0 ELSE f.mark[s]]]

MarkToMarket(f, opens) ==
  [f EXCEPT !.mark = [s \in Names |-> IF s \in Held(f) THEN opens[s] ELSE 0]]

Recorded(equities, equity) ==
  LET all == Append(equities, equity) IN IF Len(all) > Lookback THEN Tail(all) ELSE all
RecordSnapshot(b) == [b EXCEPT !.equities = Recorded(@, Equity(b.folio))]

\* assess_portfolio_risk on the completed sessions.
Tier(b) ==
  LET current == Last(b.equities)
      previous == b.equities[Max({1, Len(b.equities) - 1})]
      peak == Max(ToSet(b.equities)) IN
  CASE 100 * current <= 92 * previous -> "HALT"
    [] /\ 100 * current > 92 * previous
       /\ 10 * current <= 9 * peak \/ 100 * current <= 95 * previous -> "CAUTIOUS"
    [] OTHER -> "NORMAL"

Rank(tier) == CASE tier = "NORMAL" -> 0 [] tier = "CAUTIOUS" -> 1 [] OTHER -> 2

\* _target_gross_weight: half of it in CAUTIOUS, capped below the average.
Gross(tier, above) ==
  LET scaled == CASE tier = "NORMAL" -> MaxGross [] tier = "CAUTIOUS" -> MaxGross \div 2 [] OTHER -> 0
  IN IF above THEN scaled ELSE Min({scaled, FloorPct})

Month(n) == n \div SessionsPerMonth
MonthStart(n) == n = 0 \/ Month(n - 1) # Month(n)

\* The weight of a name, in percent.
Weight(plan, s) == IF s \in plan.names THEN plan.gross \div Cardinality(plan.names) ELSE 0

Form(names, above, tier) ==
  [NoPlan EXCEPT !.names = names, !.above = above, !.tier = tier,
                 !.gross = Gross(tier, above),
                 !.month = Month(session)]

\* A mutant: the exit is over after one attempt.
ForgottenExit(month) == NoPlan

ZeroPlan(month) == [NoPlan EXCEPT !.tier = "HALT", !.month = month, !.riskOff = TRUE]

\* 100 times what a position has above its target, or lacks.
Excess(f, plan, s, equity) == 100 * Value(f, s) - equity * Weight(plan, s)
Shortfall(f, plan, s, equity) == equity * Weight(plan, s) - 100 * Value(f, s)
Drifts(amount, equity) == 2 * amount > equity      \* by more than 0.5 % of equity

\* The gate of the latch knows no floor.  The gate of the execution does.
LatchGate(tier, market) == tier = "HALT" \/ market # "above"
ExitGate(tier, market) == tier = "HALT" \/ market = "none" \/ (market = "below" /\ FloorPct = 0)

\* ---------------------------------------------------------- backtest/engine.py

\* The latch is set by risk-off, and cleared by exposure that a month start has
\* restored.
EngineLatch(b, tier, market) ==
  LatchGate(tier, market) \/ (b.latched /\ (Held(b.folio) = {} \/ b.plan.riskOff))

EngineForces(b, tier, market) == b.latched /\ ~LatchGate(tier, market) /\ b.plan = NoPlan

\* _close_directional_positions, and the plan that what has no open leaves behind.
EngineExit(b, opens) ==
  LET sold == [s \in Names |-> IF opens[s] > 0 THEN b.folio.qty[s] ELSE 0]
      left == Sale(b.folio, sold, opens)
      month == IF b.plan.riskOff THEN b.plan.month ELSE Month(session)
  IN [b EXCEPT !.folio = left, !.plan = IF Held(left) = {} THEN NoPlan ELSE ZeroPlan(month)]

\* The plan to execute: the pending one of this month, in the stricter tier, or a new
\* one where the calendar, a stale plan or the recovery asks for it.
EngineTarget(b, tier, market, names, force) ==
  LET stale == b.plan # NoPlan /\ b.plan.month # Month(session)
      kept == b.plan # NoPlan /\ ~stale
  IN CASE kept /\ Rank(tier) > Rank(b.plan.tier) ->
            [b EXCEPT !.plan = [@ EXCEPT !.tier = tier, !.gross = Gross(tier, b.plan.above)]]
       [] kept /\ Rank(tier) <= Rank(b.plan.tier) -> b
       [] ~kept /\ (stale \/ force \/ MonthStart(session)) ->
            [b EXCEPT !.plan = Form(names, market = "above", tier), !.formed = TRUE]
       [] OTHER -> b

\* Dropped names, and what exceeds its target by more than the drift and a share.
EngineSells(f, plan, opens) ==
  LET equity == Equity(f)
      over(s) == Drifts(Excess(f, plan, s, equity), equity)
      shares(s) == Min({f.qty[s], Excess(f, plan, s, equity) \div (100 * SellFill(opens[s]))})
  IN [s \in Names |->
        IF s \notin Held(f) \/ opens[s] = 0 \/ (s \in plan.names /\ ~over(s)) THEN 0
        ELSE IF s \notin plan.names THEN f.qty[s]
        ELSE IF shares(s) <= 0 THEN 0 ELSE shares(s)]

\* A sale that was needed, made or not, ends the session.
EngineSellRequired(f, plan, opens) ==
  LET equity == Equity(f)
      over(s) == Drifts(Excess(f, plan, s, equity), equity)
  IN \E s \in Held(f) :
       \/ s \notin plan.names
       \/ over(s) /\ (opens[s] = 0 \/ EngineSells(f, plan, opens)[s] > 0)

\* One name of the buy leg.
EngineBuy(f, plan, equity, s, opens) ==
  LET fill == BuyFill(opens[s])
      missing == Shortfall(f, plan, s, equity)
  IN IF s \notin plan.names \/ opens[s] = 0 \/ ~Drifts(missing, equity) THEN f
     ELSE Purchase(f, s, Min({missing \div (100 * fill), f.cash \div fill}), fill)

EngineBuys(f, plan, opens) ==
  LET bought[n \in 0 .. Len(Symbols)] ==
        IF n = 0 THEN f ELSE EngineBuy(bought[n - 1], plan, Equity(f), Symbols[n], opens)
  IN bought[Len(Symbols)]

\* The plan stays pending while a name is materially below its target.
EngineSettles(f, plan) ==
  \A s \in plan.names : ~Drifts(Shortfall(f, plan, s, Equity(f)), Equity(f))

\* _execute_adaptive_momentum.
EngineExecute(b, tier, market, names, force, opens) ==
  IF ExitGate(tier, market) \/ b.plan.riskOff THEN EngineExit(b, opens)
  ELSE LET t == EngineTarget(b, tier, market, names, force)
           bought == EngineBuys(t.folio, t.plan, opens)
       IN IF t.plan = NoPlan THEN t
          ELSE IF EngineSellRequired(t.folio, t.plan, opens)
          THEN [t EXCEPT !.folio = Sale(@, EngineSells(@, t.plan, opens), opens)]
          ELSE [t EXCEPT !.folio = bought,
                         !.plan = IF EngineSettles(bought, @) THEN NoPlan ELSE @]

\* One day of run_backtest, when every position has a price.
EngineSession(b, market, names, opens) ==
  LET tier == Tier(b)
      marked == [b EXCEPT !.folio = MarkToMarket(@, opens), !.formed = FALSE,
                          !.latched = EngineLatch(b, tier, market)]
      force == EngineForces(marked, tier, market)
      traded == EngineExecute(marked, tier, market, names, force, opens)
  IN RecordSnapshot([traded EXCEPT !.latched = @ /\ ~force])

\* mark_to_market(strict=True) raises.
EngineRefuses(b, opens) == \E s \in Held(b.folio) : opens[s] = 0

\* ------------------------------------------------- research_tools/fast_sim.py

\* A position without a bar keeps its last mark.
FastMark(f, opens) ==
  [f EXCEPT !.mark =
     [s \in Names |-> IF f.qty[s] > 0 /\ opens[s] > 0 THEN opens[s] ELSE f.mark[s]]]

\* A mutant: exposure that a month start restored leaves the latch set.
LatchUntilForced(b, tier, market) == LatchGate(tier, market) \/ b.latched

FastLatch(b, tier, market) ==
  \/ LatchGate(tier, market)
  \/ b.latched /\ ~(Held(b.folio) # {} /\ ~b.plan.riskOff)

\* A mutant: last month's basket stays pending.
CalendarOffers(plan, month, force) == plan = NoPlan /\ (force \/ MonthStart(session))

FastOffers(plan, month, force) ==
  \/ plan # NoPlan /\ plan.month # month
  \/ plan = NoPlan /\ (force \/ MonthStart(session))

\* The pending plan, or the scanner's weights.
FastPlan(b, tier, market, names, force) ==
  IF FastOffers(b.plan, Month(session), force) THEN Form(names, market = "above", tier)
  ELSE IF b.plan # NoPlan /\ Rank(tier) > Rank(b.plan.tier)
  THEN [b.plan EXCEPT !.tier = tier, !.gross = Gross(tier, b.plan.above)]
  ELSE b.plan

\* The sell leg: the shares of a position that are to go.
FastExcess(f, plan, s, opens) ==
  LET equity == Equity(f)
      excess == Excess(f, plan, s, equity)
  IN CASE s \notin plan.names -> f.qty[s]
       [] s \in plan.names /\ Drifts(excess, equity) ->
            IF opens[s] = 0 THEN f.qty[s]
            ELSE Max({0, Min({f.qty[s], excess \div (100 * SellFill(opens[s]))})})
       [] OTHER -> 0

\* The buy leg, one name after the other, against the equity before it.
FastBuy(f, plan, equity, s, opens) ==
  LET lacks == Shortfall(f, plan, s, equity)
      buys == /\ s \in plan.names
              /\ opens[s] > 0
              /\ Drifts(lacks, equity)
  IN IF buys
     THEN Purchase(f, s, Min({lacks \div (100 * BuyFill(opens[s])), f.cash \div BuyFill(opens[s])}),
                   BuyFill(opens[s]))
     ELSE f

FastPurchases(f, plan, opens) ==
  LET before == Equity(f)
      after[n \in 0 .. Len(Symbols)] ==
        IF n = 0 THEN f ELSE FastBuy(after[n - 1], plan, before, Symbols[n], opens)
  IN after[Len(Symbols)]

\* What has an open is sold; what has none is a sale still to make.
FastSale(f, excess, opens) ==
  Sale(f, [s \in Names |-> IF opens[s] = 0 THEN 0 ELSE excess[s]], opens)

\* _rebalance: the portfolio and the plan it leaves.
FastRebalance(b, tier, market, names, force, opens) ==
  LET f == b.folio IN
  IF ExitGate(tier, market) \/ b.plan.riskOff
  THEN LET left == {s \in Held(f) : opens[s] = 0}
           month == IF b.plan.riskOff THEN b.plan.month ELSE Month(session)
       IN [b EXCEPT !.folio = FastSale(f, f.qty, opens),
                    !.plan = IF left = {} THEN NoPlan ELSE ZeroPlan(month)]
  ELSE LET plan == FastPlan(b, tier, market, names, force)
           excess == [s \in Names |-> FastExcess(f, plan, s, opens)]
           bought == FastPurchases(f, plan, opens)
           equity == Equity(bought)
           pending == \E s \in plan.names : Drifts(Shortfall(bought, plan, s, equity), equity)
       IN IF plan = NoPlan THEN b
          ELSE IF \E s \in Held(f) : excess[s] > 0
          THEN [b EXCEPT !.plan = plan, !.folio = FastSale(f, excess, opens)]
          ELSE [b EXCEPT !.plan = IF pending THEN plan ELSE NoPlan, !.folio = bought]

\* One pass of the loop of _simulate.
FastSession(b, market, names, opens) ==
  LET tier == Tier(b)
      latched == FastLatch(b, tier, market)
      force == latched /\ ~LatchGate(tier, market) /\ b.plan = NoPlan
      offers == ~ExitGate(tier, market) /\ ~b.plan.riskOff
                  /\ FastOffers(b.plan, Month(session), force)
      marked == [b EXCEPT !.folio = FastMark(@, opens), !.latched = latched /\ ~force,
                          !.formed = offers]
  IN RecordSnapshot(FastRebalance(marked, tier, market, names, force, opens))

\* ------------------------------------------------------------------ the whole

\* The same data for both.  After a refusal only the fast simulator goes on.
Session(market, names, opens) ==
  /\ session < MaxSessions
  /\ session' = session + 1
  /\ refused' = (refused \/ EngineRefuses(engine, opens))
  /\ engine' = IF refused' THEN engine ELSE EngineSession(engine, market, names, opens)
  /\ fast' = FastSession(fast, market, names, opens)
  /\ restored' = /\ ~LatchGate(Tier(fast), market)
                 /\ \/ restored
                    \/ fast'.formed /\ fast.plan = NoPlan
                    \/ Held(fast.folio)' # {} /\ ~fast'.plan.riskOff
  /\ exiting' = ((exiting \/ ExitGate(Tier(fast), market)) /\ Held(fast.folio)' # {})

Next == \E market \in {"none", "above", "below"}, names \in Rankings, opens \in Opens :
          Session(market, names, opens)

Spec == Init /\ [][Next]_vars

\* --------------------------------------------------------------- properties

\* fast_sim.py: "reproduces the engine's decision sequence exactly".  On the same data
\* both hold the same shares, cash, marks, latch and pending plan after every session,
\* as long as the engine does not refuse to value a position without a bar.
Parity == ~refused => engine = fast

\* strategy_config.py: "Exactly one fresh 12-1 target is formed after one confirmed
\* risk-on close, then the normal month-start cadence resumes."  Between month starts a target is
\* formed only after a risk-off session, once, and from an empty book: the latch must
\* go when a month start below the average has restored exposure already.
OneRankPerEpisode ==
  [][fast'.formed \/ (engine'.formed /\ ~refused') =>
       MonthStart(session) \/ (~restored /\ Held(fast.folio) = {})]_vars

\* engine.py, _close_directional_positions: a missing open must not erase the exit
\* because the gate recovers first.  From a risk-off exit on nothing is bought until
\* nothing is held.
RiskOffUntilFlat ==
  [][exiting => \A s \in Names : fast'.folio.qty[s] <= fast.folio.qty[s]]_vars

=============================================================================
