# Verification of the nate_trader V11 production system

This directory holds TLA+ specifications of the program that trades the V11
account, the TLC configurations that check them on small instances, and proofs
of their most important properties. Every definition is translated from the
source; `PROJECT.json` maps it to the lines it stands for.

## 1. Inventory

| component | source | state it keeps | operations | status |
|---|---|---|---|---|
| V11 adaptive executor | `scripts/execute_trades.py`, `scripts/trade.py` | `performance.json`: the pending plan, its order attempts, the last rebalance month, the risk-off latch | one invocation per session: preflights, broker reads, decision, cancellations, sells, buys, completion | `AdaptiveExecutor` |
| Risk policy and portfolio reads | `scripts/risk_policy.py`, `scripts/portfolio.py` | equity history | tier assessment, snapshots | as an input |
| Target selection | `scripts/adaptive_momentum.py`, `scripts/strategy_config.py` | none | ranking to target weights | the constant `Targets` |
| Production runner, runtime generations | `scripts/production_run.py`, `scripts/runtime_generation.py` | `performance.json`, `positions.json`, `production/last_run.json` | execute, capture or recover a snapshot, publish, verify | `RuntimePublication`, `AtomicPublication` |
| Paper lineage | `scripts/restore_paper_runtime.py`, `ops/paper_cadence.py`, `.github/workflows/paper-*.yml` | workflow runs and artifacts | guard, restore, execute, verify, upload; watchdog dispatch | `PaperLineage` |
| Handoff and settlement | `scripts/runtime_handoff.py`, `scripts/prepare_runtime_handoff.py`, `scripts/recovery_settlement.py` | handoff manifest (the pin), evidence in the state | hand a plan to the next release, twice at most; settle an old one | `PlanHandoff`, adoption in `PaperLineage` |
| Live capital ledger | `scripts/trade.py` 372-614, `scripts/broker_mode.py` | per-process ledger, kill switch | double-read snapshot, order limits | `LiveProduction` |
| Live runtime restore | `scripts/restore_live_runtime.py`, `scripts/live_runtime_crypto.py` | encrypted artifacts | bootstrap, restore, publish | `LiveProduction` |
| Short and infrastructure reconciliation, midday run | `scripts/execute_trades.py`, `scripts/trade.py` 768-849 | orders of the session | covers, preflights, sales of retired positions, migration status | `InfrastructureExit` |
| Executors of the strategies before V11 | `scripts/execute_trades.py` | cooldowns, regime confirmation | rebalances no released configuration reaches | not modelled |
| Account lifecycle, refresh generations, verification tokens | `supabase/migrations` 0013-0023 | Postgres tables | create, verify, publish, retract, rotate, delete | `AccountService` |
| Dashboard account service and broker refresh | `dashboard/lib/accounts`, `dashboard/app/api/accounts` | requests, the dialog's operation id | the awaits between those calls | `AccountService` |
| Backtest engine and search simulator | `scripts/backtest/engine.py`, `scripts/backtest/portfolio_sim.py`, `scripts/research_tools/fast_sim.py` | simulated book, pending plan, latch | one session after the other | `BacktestBooks`, the V11 path |
| Dashboard status read model | `dashboard/lib/status` | cached answers of GitHub | select the execution and the preflight to show, judge their lineage, compute the effective gate | `StatusReadModel` |
| Research, containment gate, forward observation, user interface | many | none of the account's | offline numerics, shell, reports, rendering | out of scope |

How they interact. GitHub starts a workflow run, from a schedule, from the
watchdog or by hand. The run asks the cadence guard, restores the newest runtime
artifact, and starts the production runner. The runner calls the executor, which
reads the broker, writes `performance.json` before every order, and submits.
Then the runner publishes three files as one generation, and the workflow
verifies and uploads them. The dashboard reads the artifact. The broker fills,
expires and cancels orders all the while. Live production is the same executor
behind absolute limits, with encrypted artifacts. Apart from all this the dashboard
keeps its own accounts in Postgres and mirrors what the broker reports of them. The
backtests decided the policy and share its code only in the ranking.

What is hard here, and what should hold:

* **The broker moves between two reads.** Orders and positions come from two
  requests. A decision must not count an order neither as working nor as held.
* **Submissions are ambiguous.** A call may raise although the order was taken;
  the next cycle finds out by client order ID. It must not buy or sell twice.
* **The process dies anywhere.** An intent is written before it is sent, and the
  three published files are replaced one after the other.
* **Plans outlive their context**: the month, the release, the schema, the risk
  tier under which they were frozen. Risk-off intent must outlive all of these;
  everything else must not.
* **Plans must end.** A frozen plan blocks the next one, so it has to converge.
* **Runs overlap.** A late scheduled run and its replacement may both exist, and
  the state one run left may have been overtaken by another.
* **People act in between.** Releases are approved, pins set and cleared, keys
  rotated, accounts deleted, orders placed by hand, each between two steps of
  something else.
* **The page is a mixture.** The dashboard reads list, approval, steps and artifacts
  one after the other, from caches of different ages, while production goes on, and
  must neither show an older execution as the newest nor pass the gate on the report
  of another cycle.
* **Two programs must agree.** The simulator that searches parameters is a second
  implementation of the engine that judges them.

PROJECT.json lists these hazards one by one with the line where each bites and
the properties that watch it, and says of the few that none watches why.

## 2. Modules

### AdaptiveExecutor

One process, the invocation, with a program counter `pc` and its locals `run`;
the broker (`pos`, `cash`, `book`); `performance.json` (`plan`, `attempts`,
`lastRebal`, `latch`); and the world around them (calendar, release, tier, SPY
trend, clock and validation gate). One action is one stretch of the program
between two reads or writes that others can see:

| `pc` | actions | code (`execute_trades.py`) |
|---|---|---|
| `idle` | `StartCycle` | the risk snapshot, 93-162 |
| `capacity` | `CapacityPreflight`, `ReconcileSellCapacity` | working SELLs against positions, 1578-1756 |
| `preflight` | `BuyPreflightPasses`, `BuyPreflightCancels` | the early audit of BUYs, 1463-1546 |
| `orders`, `positions`, `reconcile` | `ReadOrders`, `ReadPositions`, `SellCapacityHolds` | the two reads, 2382-2440 |
| `risk` | `PersistRiskOff`, `StayRiskOn` | 2441-2522 |
| `cancel` | `CancelUntrusted`, `NothingToCancel` | 2524-2676 |
| `plan` | `AbortInvalidPlan`, `WaitForStalePlan`, `DropStalePlan`, `RescalePlan`, `ConsumeLatch`, `DeferPlan`, `AlreadyRebalanced`, `FreezeNewPlan`, `UseStoredPlan` | 2678-2971 |
| `target` | `ReplaceByZeroPlan`, `UseStoredPlan` | 2816-2844 |
| `account`, `sell`, `submit`, `buy`, `finish` | `ReadAccount`, `SelectSell`, `SellsDone`, `SelectBuy`, `BuysDone`, `Submit...`, `CompletePlan`, `KeepPlan` | 2973-3342 |
| any | `ReadFails`, `PlanningFails`, `SymbolFails`, `SubmitAmbiguous`, `Crash` | the exception branches |

Broker and world actions (`FillLot`, `ConfirmCancel`, `Expire`, `NextDay`,
`Deploy`, `Reassess`, `CrossAverage`, `ToggleGate`) are interleaved with them
freely, except that a release is deployed between invocations.

What is abstracted. Lots are integers, and one lot of any symbol is worth one
unit of cash: equity is constant and a target weight is a number of lots. A client
order ID is the record of what the program digests into it: plan, intent and
attempt. A plan ID is the plan's content. Weights are even, so halving is exact.
A submission that fails either reached the broker before the next step or never
does. Short positions, the infrastructure migration and an unreadable
`performance.json` are left out.

Ghost state: `done` holds the months rebalanced since the last risk-off intent;
only a property reads it.

### RuntimePublication and AtomicPublication

`RuntimePublication` is `production_run.main` around `runtime_generation`: three
files, the runner's program counter, and the staged generation. Every step may
raise, and the process may be killed between any two. A digest is the file
itself; a generation ID is the number of the draw. `AtomicPublication` is what a
reader is promised: publications appear whole, in order, with intents never
getting fewer, and can be withdrawn but never come back. `AtomicSpec` is the
refinement; it maps the verified files to the published content.

### PaperLineage

The workflow `paper-production.yml` as a sequence of runs, each with what the
API later shows of it: status, conclusion, the outcome of the execution step,
and whether restore, sanity and broker checks passed. `job` is the run that
holds the runner:

| `job.at` | actions | code |
|---|---|---|
| `none` | `StartRun` | the concurrency group, `vars.PRODUCTION_RELEASE_SHA` |
| `guard` | `GuardAdmits`, `GuardRefuses` | `paper_cadence.assessment`, `main` |
| `restore`, `install` | `RestoreChooses`, `RestoreInstalls`, `RestoreRefuses` | `restore_paper_runtime.restore`, `Provenance.latest`, `install_state` |
| `preflight`, `execute` | `ChecksPass`, `Execute` | the checks, the market gate, the execution step |
| `publish` | `ExecutionSucceeds`, `ExecutionFails`, `PublicationFails` | verify and upload, also after a failed execution |
| any | `StepFails`, `RunLost` | a step that fails, a runner that disappears |

The watchdog looks twice and dispatches after the second look without another
(`WatchdogLooks`, `WatchdogDispatches`, `WatchdogStandsDown`). The queue is
GitHub's: one run runs, one waits, a third takes the place of the second.

What is abstracted. A runtime state is the set of runs whose executions it
remembers, so "a run trades from a state that forgets an order" is a set that
misses an element. Runs are serialised, so every comparison of time stamps is a
comparison of two numbers: how many executions had begun. A cancelled or timed-out
execution is `failure`, which every reader treats alike; a run whose step list
cannot be read is `unreadable`. One assessment is one step, and its
time windows and API pages are left out. Checks of what an archive holds only ever
refuse, so they are `StepFails`.

### StatusReadModel

A request of the dashboard beside `PaperLineage`: `Production` is the workflow's own
step, recording in `left` what a completed run shows of its preflight, and `view` is
the request.

| `view.at` | actions | code |
|---|---|---|
| `idle` | `Begin` | the run list and the approval, from the cache or not (`fetchWorkflowRuns`) |
| `approval` | `ResolveApproval` | `resolveApprovedSha`: environment, server, or derived and no approval |
| `execution` | `selectLatestExecution` | `scanRuns` with `ExecutionVerdict` for each run |
| `preflight` | `selectLatestPreflight` | `scanRuns` with `PreflightVerdict` for each run |
| `assemble` | `Answer` | `evaluateLineage`, `LineageOK`, `EffectiveGate` |

A walk stops at the first run that did not provably do nothing (`StepOutcome`); what
expired, what cannot be fetched and what belongs to another release stop it too. Since
a cached answer is the answer of an earlier moment, a request that finds the list or
the approval in the cache is one that began when they were fetched. A concurrent
slower request that puts an older page back is not modelled, and neither is a document that objects to
itself: its schema, step windows, ages and digests can only turn a pass into a refusal.

### PlanHandoff

What `PaperLineage` restores is one value there; here it is opened. `state` is the
newest published state: release, plan, evidence of the hops behind it, the last
completed month and whether its plan had a signal date, the latch. A plan is named by
the release, the month, the close it was ranked on and its kind (ranked, halved, a
liquidation); an attempt by plan, intent and number. `Prepare` writes the pin
(`prepare_runtime_handoff.py`), `Approve` and `ClearPin` are the operator's, and
`StartRun` is the adoption with all its refusals (`Authorised`: unhanded, settled for
this release, or handed over with evidence that reconciles). A run then goes through the
stages of a cycle (execute_trades.py 2484-3325), each of which may be its last: `Halt`
freezes a liquidation, `Drop` and `Halve` replace what is stale or too large,
`ConsumeLatch`, `Rank` (a month once, and again from cash after a liquidation,
`ReentryReady`), `Send`, `Complete`. `Settle` is `recovery_settlement.settle` from any
archived state the operator names. What a cycle decides about sizes, cash and open
orders is `AdaptiveExecutor`.

* Any stage may be taken whose guard holds, so every tier and every answer of the market
  is covered; a run without one is a run that found nothing to do.
* Each ranking reads a later close than the one before, so a plan ranked again in its
  month has client IDs of its own. A liquidation under HALT bears no close: two of them
  in a month share their IDs, and the second is refused what the first has sent.
* `held` names the orders that bought what is held. A fill of a ranked plan may buy or
  sell, so any subset may be left.
* A settlement may start from an artifact that is not the newest. It forgets what was
  completed, ranked or frozen after it, a liquidation included; positions and orders must
  match, but it is not asked whether it is the newest. `RankedOncePerEpisode` and
  `LiquidationKept` therefore except settlements.
* A run whose carried plan went stale and which ended before it ranked anew leaves
  evidence without a plan, and the next one is refused. That is meant ("no silent
  disappearance"); the same after a completed liquidation is
  reported in section 4.
* The pin has to be cleared before the run after the settled one (`SettledFor`).
* A plan of another release is refused twice, by `OwnPlan` and by the missing
  evidence. Each alone would do; the mutant that breaks `RankedOncePerEpisode` drops
  both.
* The owner's orders are placed between runs only.

### LiveProduction

One live run at a time (`job.phase`): `Dispatch`, `Bootstrap` or `RestoreNative`,
`BeginExecute`, any number of orders, and one of five ends. An order is one lot at a
limit, wanted at any time, because the limits have to hold whatever the strategy asks
for. `BeginBuy` is `_enforce_live_limits` up to the kill switch, order and cycle caps
(trade.py 545-583), `Read` one of the six requests of the capital snapshot, in their
order, `Authorise` and `RefuseBuy` the comparison and the reservation, `Submit` the
call that may answer or not. Between any two of them orders fill, die or appear, and
prices move. Ghost `low` is the lowest price of the process: the code takes the
smaller of two equities, so exposure is bounded at the price it last trusted.

Left out: withdrawals, and the bypass for covering a short (trade.py 563), since live
V11 is long only. With one symbol the comparison of the two reads is not what protects
the budget; the ledger and the greater of the two exposures are.

### AccountService

Each function of the last migration that defines it is one action, because it runs as
one transaction under the account's row lock. Each await of the server code is a step
of a request (`req[r].at`): resolve, validate, create, confirm; ask, record;
history, walk, publish; check, rotate. A mirror row is the revision of what the
broker had, so "a row older than its generation" is a comparison of numbers. Trades,
order imports and account groups are left out.

### InfrastructureExit

The invocation around the adaptive executor, `run` and `midday`, by program counter:
shorts are found and covered one after the other (1578-1894), BUYs no plan owns are
cancelled (1416-1546), the hedge and the sleeves get their target 0 (3591-3712,
4259-4343), each through the two reads of `close_position` (trade.py 768-849), and the
migration status (4807-4842) decides whether the adaptive executor may buy. A
client order ID carries the date, so an ID is used once a session; `NextDay` clears
the book because all these orders are DAY orders.

* Another's order in the same symbol that fills between the two reads of
  `close_position` can oversell; `ClosesFit` excepts it.
* A working GTC SELL of a retired symbol would keep the migration pending. The program
  sends none.
* The managers of the earlier strategies are modelled as V11 configures them: every
  target 0.

### BacktestBooks

`EngineSession` is one day of `run_backtest`, `FastSession` one pass of `_simulate`,
each translated from its own file; `Session` gives both the same gate, ranking
and opens. Portfolio, fills, tier and gross weight are stated once: the search
simulator imports the tier and copies the rest line by line. `engine` and `fast` are
records with the same fields, the portfolio a record in them, so agreement is equality.
A ranking is a set of names with equal weights. All sales of a session are one `Sale`:
both loops compute each from the equity before them, so their order cannot matter. The
buy loops share the cash, so they are recursive functions over `Symbols`, in whose order
both programs buy at equal weights.

* The engine marks with `strict=True` and raises when a held symbol has no bar, so
  its branches for an exit or a plan that misses an open are reached only for symbols
  it does not hold. `fast_sim.py` carries the old mark and goes on; its list of known
  divergences does not name this. `Parity` is therefore claimed up to the engine's
  refusal, and `RiskOffUntilFlat` speaks of the simulator that can miss an open.
* The tier looks back over the last `Lookback` sessions, as `assess_portfolio_risk` does
  over 22: three in the run, so that within its five sessions a peak leaves the window.
* A month start with an empty ranking leaves the latch set, so the month may be ranked
  once more; `OneRankPerEpisode` counts the targets formed with no plan pending.
* `target_strategy_runner.py`, which ends a plan with an integer residual that the
  engine keeps pending, is not modelled.

## 3. Runs

| run | question | size |
|---|---|---|
| `adaptive_core` | two symbols, two targets, two months, all tiers, one failure | 1.7 M states |
| `adaptive_upgrade` | a release and a month change under a pending plan, a stored plan of another schema, a legacy stop and an unknown BUY, the hard SMA200 gate, two targets, a reserve of two | 1.3 M |
| `adaptive_settles` | do plans end, under fairness | 0.3 M |
| `publication` | three runs, three intents, four failures | 0.6 M |
| `status` | two runs after the first, two releases, two operator acts, one failure, a request of the dashboard at any moment | 1.2 M |
| `lineage_settles` | two days, a silent or late schedule, one failure, under fairness | 0.1 M |
| `handoff` | four releases, two universes, two hops, two runs with any stages, two operator acts (a month, an approval, a pin, a settlement), one lost answer | 0.9 M |
| `live` | two releases, three orders, three runs, one move, two faults | 4.0 M |
| `accounts` | three requests on two operations and two pairs of keys, one change at the broker, one fault | 1.5 M |
| `exits` | five inherited accounts, both kinds of invocation, one failure or order by hand, under fairness | 0.2 M |
| `backtests` | five sessions in two months, every gate, ranking and missing bar | 0.2 M |
| `halt_keeps_exposure` | a statement of the documentation that the code does not meet | counterexample |

Properties of the executor:

* `NoOversell`, `NoSelfCross`, `BuysWithinTarget`, `BuysFunded`: whatever the
  broker fills first, working orders never exceed lots held, never cross, never
  overshoot the frozen target, never spend the reserve or unsettled proceeds.
* `BuysBelongToPlan`, `TradesCurrentPlan`: no order outlives the plan it was
  made for, and no plan is traded outside its month and release.
* `SnapshotExact`: the cycle that retires a plan saw the account as it is.
* `RiskOffSurvives`, `OneRebalancePerEpisode`: risk-off intent ends in cash, and
  a month is rebalanced once per episode.
* `RiskOffStuckOnlyByRepeat`, `PlanSettles`: plans end, with one exception that
  `RepeatedIntent` describes exactly and finding 1 is about.

Properties of the runner: `IntentsKept`, `HealthIsEarned`, `OneFailurePublished`
and the refinement `AtomicSpec`. `OneFailurePublished` counts from the captured
execution context on: a run whose context is refused has nothing to publish.

Properties of the lineage: `NothingForgotten`, an execution starts from a state
that remembers all earlier ones, even those that left no artifact, across
releases; `AutomatedFirst`, an automated execution is never the second of its
day; `SessionSettles`, the watchdog neither leaves a session open nor dispatches
for ever.

Properties of the status page, both of the completed runs in the list the request read:
`NothingNewerHidden`, no newer successful execution is passed over because its artifact
expired or belongs to another release; `GateIsNewestCycle`, the gate passes only for the
newest cycle that executed, on the report of that cycle, with nothing after it that
reached its preflight. Production goes on between the walks of a request, not within one.

Properties of the handoff: `OneOrderPerIntent`, an intent is traded again only after
its attempt died, over both hops; `RankedOncePerEpisode`, no order of approvals, pins,
refused runs and releases drops a plan and ranks its month again: it takes a completed
liquidation, after which the executor may re-enter, or a settlement; `LiquidationKept`,
a liquidation begun under HALT is in force until nothing is held, whatever recovers,
fails or is approved in between.

Properties of live production: `BuysCovered`, when a BUY reaches the broker, all lots
and all working BUYs, shown or hidden, fit the budget and the cash; `KillSwitchLate`,
the switch can be late for one BUY, no more; `NothingForgotten`, a run that may trade
knows every order ever sent.

Properties of the accounts: `OneAccountPerBinding`; `CreatedIsWhatWasAsked`, an
operation ID never vouches for another form; `MirrorAsNewAsItsGeneration`;
`VerdictsAreCurrent`, verdicts and refreshes were learned with the keys they are
recorded against, and in order.

Properties of the exits: `ClosesFit`, no cover or sale carries a position through
zero; `BuysAfterMigration`, what the status found still holds when stocks are bought;
`MigrationEnds`.

Properties of the backtests: `Parity`, `OneRankPerEpisode`, `RiskOffUntilFlat`.

Bounds. Two symbols are the least with which one can be sold to pay for the
other. Two lots are the least that fill partly and halve. Two sessions of one
session each are two months. `MaxMoves` counts every change of the world and
`MaxFaults` every failure, so two moves are, for example, a HALT and a recovery,
or a deployment and a month boundary. One failure per behaviour reaches every
exception branch; `adaptive_settles` allows two. The publication run needs two
failures in one run to reach the paths where nothing is published, and two more
for the next run. In `status`, two runs after the first are one that loses its artifact
and one that must notice, or an execution and a newer run beside it; two operator acts
are an approval and a preflight by hand; its second day is left to the proofs, which
hold for any. `lineage_settles` has room for more runs
than its two days can create, so no run is held back by `MaxRuns`. Type
invariants bound nothing else: book, attempts and IDs grow only with moves and
faults. `publication` may stop: after `MaxRuns` runs there is nothing left to
do, so it does not check deadlock; nor do the status, lineage, live, handoff, account and backtest runs, whose
calendars, runs or requests are bounded. The executor runs do: a cycle can always
start again. So does `exits`.

Three requests are the least of which one overtakes two others. Three live orders are
one that gets no answer, one that spends the budget it holds, and one too many; the
budget of four is the smallest with which order, cycle and budget caps differ. Four
releases are the two of the first hop, that of the second, and the one with another
universe. The handoff begins with a plan already handed on up to twice, so two acts and two
runs are what happens next: a hop and the run that adopts it, or a settlement and a pin
left in place. `MaxDisturbances` of one is one exception in any branch; with the owner's
order as the alternative it also bounds what `MigrationEnds` excepts. Five sessions of
three to a month hold a month start, a risk-off, a recovery and a second month start;
prices are such that every fill is exact, a fall of a tenth is a HALT at full weight
and a CAUTIOUS at half of it.

Fairness. `FairSpec` assumes weak fairness of the executor as a whole (the
workflow runs every session, and no step waits for another process) and of the
broker as a whole (a working order eventually fills or confirms its
cancellation). It assumes none of tiers, gates, calendar or failures.
`PaperLineage` assumes weak fairness of the run (GitHub starts what waits and a
step ends) and of the watchdog, which comes back within its window; the schedule
may stay silent, and no operator acts. `InfrastructureExit` assumes weak fairness of a
started invocation; strong fairness of starting the full run and of the end of a
session, because the workflow starts every session but another invocation may hold the
runner at any moment; and strong fairness of fills for each symbol, because DAY orders
come and go and an order offered again and again is taken some day. Failures, the owner
and midday runs are not fair.

## 4. Findings

`halt_keeps_exposure`. An order intent is keyed by plan, symbol, side, quantity and
target. A zero-target plan that must sell the same quantity a second time is told its
first order has FILLED and waits forever. README 48-49 and the strategy document
186-187 promise that liquidation finishes.

Observations that no run states, met while the modules were written:

* A release that was handed a plan meets HALT and liquidates. The completed liquidation
  has no signal date (execute_trades.py 2449, 3322), `_completion_record`
  (runtime_handoff.py 760) wants one, and every later run of that release is refused with
  `carried_plan_missing`. The comment at 886-887 says a target run may have "legitimately
  completed it or exited". TLC reaches it in `PlanHandoff` in six states: the carried
  order ends, nothing is held, and one run liquidates and completes.
* Pages of the run list are cached apart (github-api.ts 333-378), so a fresh first page
  over a cached second one can miss the run that moved across the boundary in between.
* A rerun of an execution is refused by the guard (paper_cadence.py 249), and its
  record becomes a failed second attempt. `selectLatestExecution` then passes the run by
  as unsuccessful, before `attemptIsAttributable` could stop there, and may show an
  older execution. The gate stays shut: the preflight selection stops at the rerun.
* A zero-target plan rebuilt at tier NORMAL from an invalid stored plan is taken at
  CAUTIOUS for a plan to halve (execute_trades.py 2729), and the rescaled plan is not
  risk-off. README 147-150 promises it survives. `RiskOffSurvives` holds where no
  stored plan is invalid (`adaptive_core`).
* A pending plan is halved at once at CAUTIOUS and lots just bought are sold;
  `strategy/v11_adaptive_momentum.md` 205 says CAUTIOUS never resizes in mid-month.
* A failed restore puts its run on the list that blocks the day (paper_cadence.py 185);
  `docs/PAPER_RUNTIME_HANDOFF.md` 319-323 says a late cron recovers from it.
* A run that waits has no steps to read, so the restore of the run before it refuses
  (restore_paper_runtime.py 431), and that refusal makes the guard of the waiting run
  answer blocked: when the late schedule and the watchdog both create a run, neither
  executes. `ops/paper_cadence.py` 1-5 promises that the lock serialises them.
  `SessionSettles` counts this as blocked, visible to a person.
* `create_account_operation` returns the account of a spent operation without looking
  at `deleted_at`, and `service.ts` 183-185 answers any row as created. The check that
  a deleted account is not reported as a creation (260-265) guards another path: an
  account deleted between resolution and call is answered as created.
* `broker-refresh.ts` 30-37 reads as if a generation ordered the fetches. It orders
  publications by their reservation: a retraction can be undone by a refresh that
  fetched before it and publishes after it.
* The dialog forgets its operation ID on every error that is not INDETERMINATE.

## 5. Proofs

TLAPS checks eight modules, for every value of the constants that satisfies the named
assumptions: any symbols, targets with even weights, well-formed initial accounts,
releases, universes, intents, keys, prices, limits, and any bounds on days, runs, orders,
moves and failures. The runs show the same properties on one small instance each.

Assumptions say no more than what the code relies on. `TargetsAssumption`: half of a
target is a number of lots. `AccountsAssumption`: what the executor finds at first is a
finite book of orders that are not its own. `PlansAssumption`, `NoneAssumption`: "no plan"
is not a plan, "none" is not a row. `ResolvesLive` and `MoneyAssumption` of live
production: configuration resolved to live, prices positive. The rest are ranges.

### The executor: `AdaptiveExecutorProofs`

* `TypeCorrect`: types are not inductive alone, because the plan a cycle trades
  is used without a test after it was tested. `LocalsOK` adds what the locals
  hold, and that a plan exists from `target` on.
* `SnapshotCorrect`: `SnapInv` adds the moment between the two reads: if the
  orders read were none, none is working when positions are read, since only
  this process creates orders. `SnapshotExact` then follows for the rest of the
  cycle because an order makes the cycle no longer quiet.
* `RiskOffSurvivesHalt`: under `~HardGate` and initial plans of the current
  schema, `RiskInv` says every zero-target plan was frozen by HALT, so its tier
  keeps rescaling away, staleness exempts it, and only completion ends it;
  completion uses `SnapshotCorrect`. Both assumptions are needed: without them
  the third observation of section 4 is a counterexample.
* `OversellCorrect`, `SelfCrossCorrect`, `TargetCorrect`, `FundedCorrect`,
  `BelongsCorrect`: what working orders can do to the account. One invariant,
  `TradeInv`, carries the five. None of them is inductive, because an order is placed on
  what was read several actions earlier, while the broker went on. `BookInv`: the book is
  finite and names the plans its orders were sent for. `PlanInv`: from `target` on there is
  a plan, and what is submitted was reserved for it. `SellInv`: between the reads and the
  first SELL, the orders the cycle remembers are the book, or the book has only shrunk
  since (`Shrinks`); so the headroom of a symbol computed from stale reads is never more
  than the real one. `BuyInv`: in the buy phase no SELL works, the symbols still to buy
  have no working order and the position that was read, and the spendable cash is at most
  what is left after all working BUYs and the reserve. The broker's steps are one relation
  (`Settles`: lots move from orders to the account, no order is added), and so are those
  of a submission (`Places`). A step is one of these, or touches neither book nor account,
  or begins a new phase (`StepKinds`); each property is then proved against three kinds of
  step instead of forty actions. `OversellCorrect` assumes what the property states of the
  initial accounts: an account that has offered too many lots before is not repaired.
* `OneRebalanceCorrect`: `EpisodeInv` relates the months done since the last risk-off
  intent to the last rebalance, the stored plan and the latch: a plan that may restore
  exposure is for a later month than any done, and risk-off intent, in a plan, in the latch
  or in the cycle's memory, means that no month is done. Its hypothesis is needed: a
  stored plan from a future month would be completed before that month begins.
* `CurrentPlanCorrect`: `CurrentInv` carries the staleness test to the orders sent after
  it. Its hypothesis, that stored risk-off plans target cash, is what the executor writes.

This, `LiveProductionProofs` and `BacktestBooksProofs` rest on `SumTheorems`: that the
community modules' `SumFunctionOnSet` has a value for finite sets, takes its elements in
any order (`SumRemove`), and what follows for a sum that changes in one element. Since the
library's induction theorems need operators as parameters, induction is by least
counterexample over a set of subsets (`SubsetInduction`), from well-foundedness of the
natural numbers.

### The runner, the workflow and the page: `RuntimePublicationProofs`, `PaperLineageProofs`

* `IntentsKeptCorrect`, `HealthCorrect`: from `PubInv`, which orders the IDs on
  disk, staged and drawn, and says what the summary may claim at each step.
* `AtomicPublicationImplemented`: replacing the commit record publishes, and
  once a file differs from the record nothing but a new record restores it.
* `OneFailureCorrect`: `FailureInv` adds `Counted`: every way to end without a verified
  publication has raised twice, because the refusal of the broker and the first failed
  publication are counted before the handlers that can still fail.
* `NothingForgottenCorrect`, `AutomatedFirstCorrect`, from `LineageInv`. `Shapes` and the
  first conjunct of `PubInv` are the type invariants of the two modules: proved, so not
  run. That a run starts from all executions is not inductive, because it speaks only of
  the moment after one began. `Memory` says what makes it so: an artifact holds exactly
  the executions up to its own. `Records` says what the API shows of a run: a run that is
  queued, skipped or not yet executing has executed nothing, and a completed one was last
  seen after its execution. So when `Latest` finds no run that may have executed after the
  newest artifact, the artifact holds them all (`LatestRemembers`). `First` carries the
  guard's answer to the execution: runs are serialised, so nobody else executes in
  between, and a new day only makes it truer (`GuardStep`).
* `NewestShownCorrect`, `GateCorrect`: the page over the completed runs of the list it
  read, one walk a step (the miss at a page boundary of section 4 is outside), and over `LineageInv`. `HistoryKept` is all the
  reader needs of production: a completed run keeps its record, and a new one is not
  completed. `ViewInv` says what each walk has left behind: every successful run of the
  list newer than the chosen execution executed nothing, and every run newer than the
  chosen preflight shows a skipped one (`PassedByExecution`, `PassedByPreflight`); both
  stay true because the list holds completed runs only.

### The handoff: `PlanHandoffProofs`

`HandoffCorrect` proves `HandoffInv`, from which `HandoffTypes` and `IntentsTradedOnce`
follow at once, and `EpisodesRankedOnce` and `LiquidationsKept` step by step. The
properties speak of orders and months; the invariant speaks of the plan in force
(`Current`), which is the newest state's or that of the copy a run works on. `RunInv`: a
run holds a state of the approved release and a plan it was handed or made.
`AttemptsKnown`: every attempt at an intent but the last of the plan in force is dead; a
hop copies the record along with the plan, an unanswered attempt counts as known, and a
second liquidation of the month, which knows nothing of the first, finds its IDs in use. `RankedInv`: a month that counts as ranked has its plan, or that
plan's successor, in force, or is recorded as completed by one that was no liquidation.
So the only ways to a second ranking are those that take the month out of `ranked`.
`RankedInv` is why the authorisation matters: a run of another release that reached
`Drop` with a plan of the current month would break it, and `Authorised` with `RunInv` is
what keeps it from there. For `LiquidationsKept` each stage is shown to leave a liquidation
alone or to find nothing held: it is never stale, never halved, and `Halt` begins none over it.

### The accounts: `AccountServiceProofs`

`AccountInv` has four parts. `TypeInv`, with what a request holds at each step
(`WellFormed`); `AccountTypes` includes that an account has at most one open token.
`RowInv`, for `BindingCorrect` and `CreatedCorrect`: `Rooted`, a row has the operation that
made it and the broker account its keys open; `Pinned`, a request in flight asks the same
broker account as the row it names, with the keys of the version it names. `VerdictInv`,
for `VerdictsCorrect`: `Condemned`, keys of a row found revoked are revoked, and no answer
that says otherwise can still be recorded, because it has lost its token or names an older
version; `HeardRevoked`, an answer that says so is true, since the broker never makes a
revoked key valid again. `MirrorInv`, for `MirrorCorrect`: `SeenSinceBegun`, a refresh saw
each item no older than when it began; `SeenInOrder`, one of a later generation saw nothing
older than what an earlier one began with, published or in flight; `FloorReached`, the
broker has passed the ghost floor. So whichever of two refreshes publishes last, the mirror
is as new as the generation it carries. Accounts are deleted and re-keyed in
between: a refresh of a deleted account can no longer publish, which is why the second
and third parts speak of existing rows only.

### Live production: `LiveProductionProofs`

* `NothingForgottenCorrect`, `KillSwitchCorrect`, from `LiveInv`. `Remembered` says that
  between executions an artifact with no execution after it knows every order, and that
  without an execution there is no order; a bootstrap and a restore each rest on one
  of the two. `SwitchInv` says that once a BUY was late no other has passed the
  switch.
* `LiveTypes`, `BuysCoveredCorrect`, from `CapitalInv`. The snapshot reads cash, positions
  and orders twice, one request after the other, and fills go on in between. The argument
  is that the process is only ever wrong in the safe direction: between two of its
  actions the market eases the account (`Eases`: at the lowest price the process saw, lots
  held and BUYs working never grow together, and cash not promised never shrinks). For the
  first BUY of a process nothing is in the ledger: `FirstReads` bounds, read by read, what
  the second pass over cash and positions can have missed of the orders shown in between,
  and needs `Fresh`, that no earlier BUY is still hidden. From then on the ledger answers
  (`Funded`): initial exposure plus spending bounds the account whatever the reads show,
  and initial cash minus spending is still there. `SellsHeld` keeps a SELL from taking lots
  that are not held. The property values exposure at `low`, the lowest price of the
  process, because the ledger is at the prices of the moment of each order.

### The backtests: `BacktestBooksProofs`

`ParityCorrect`, `OneRankCorrect` and `ExitFirstCorrect`, from `BooksInv`, for any opens,
rankings, parameters and length. For `Parity` the invariant is equality itself; the work is
one session. `SellsAgree`: with an open for every position both loops sell as much of each,
and one ends the session when the other does. `BuysAgree`: the buy loops agree pass by pass.
A recursive function is a CHOOSE, so `LoopExists` first shows that a loop has values at all,
and `LoopsAgree` that two loops which begin and pass alike end alike. `TargetsAgree`: four
branches on the calendar in one program, one condition in the other. `SessionStep` puts
them together: the engine clears the latch after it has traded, the simulator before.
For the other two, `Episode`: a plan that restores exposure is of the last session's
month, and once exposure is back the latch is clear or the next risk-on session clears it;
and a risk-off exit under way means that a risk-off plan is pending. Assumed are prices
whose sale fetches something, and cash at the start: equity never falls to zero, where
both programs drop the plan.

### Left to TLC

Liveness and whatever speaks of ENABLED: `PlanSettles`, `RiskOffStuckOnlyByRepeat`,
`SessionSettles`, `MigrationEnds`. `ClosesFit` and `BuysAfterMigration` of
`InfrastructureExit` are not proved yet. No recursive operator is used.

## 6. Not modelled

In the executor: prices and their moves, fractional quantities, an unreadable
`performance.json`, ranking. GitHub's and Alpaca's error formats, encryption itself,
rendering. The executors of the strategies before V11: the released configuration
(`_V11_POLICY`, strategy_config.py 318-392) reaches none. Read, not modelled: their
regime flatten persists the confirmation before its closes and is not retried, their
confirmation windows count runs instead of days, and the momentum exit marks the month
done although `close_position` returns its errors.

Screening, research and validation scripts are offline
numerics over one process, and the containment gate is shell. A late-landing submission,
one that appears at the broker after a later lookup, is assumed away in
`AdaptiveExecutor`: Alpaca answers the lookup of an ID after the request ended. In
`LiveProduction` a hidden order appears or dies before the next run.

## 7. Plan

1. done: `AdaptiveExecutor`, `RuntimePublication`, `AtomicPublication` and proofs.
2. done: `PaperLineage`, `PlanHandoff`, `LiveProduction`, `AccountService`,
   `InfrastructureExit`, `BacktestBooks`, checked by TLC, and proofs about all but
   `InfrastructureExit`.
3. Target selection: allocation under position and sector caps against a reference.
4. done: the execution the dashboard shows, `StatusReadModel`.
5. An abstract frozen-target portfolio, and `AdaptiveExecutor` shown to implement it.
6. In `PaperLineage`: reruns of a run, expired artifacts for the restore, and with
   them the page boundary and the attempts in `StatusReadModel`.

Proofs: done for every safety property of the executor, the runner, the workflow, the
status page, the handoff, the accounts, live production and the backtests. Next
`ClosesFit` and `BuysAfterMigration` of `InfrastructureExit`.
