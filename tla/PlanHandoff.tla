---------------------------- MODULE PlanHandoff ----------------------------
(***************************************************************************)
(* A frozen plan and its orders carried from one release to the next       *)
(* (scripts/runtime_handoff.py, scripts/prepare_runtime_handoff.py), at    *)
(* most twice, and the read-only settlement that retires it when a third   *)
(* release ranks another universe (scripts/recovery_settlement.py,         *)
(* scripts/paper_broker_audit.py).                                         *)
(*                                                                         *)
(* PaperLineage shows that runs restore the newest state; here `state` is  *)
(* that state, and a run is what it does to the plan.  A plan is what one  *)
(* release (home) ranked on one close in one month, its halved successor,  *)
(* or a liquidation; an attempt is an order under a client ID the plan,    *)
(* the intent and the attempt's number determine.  What a cycle decides    *)
(* about sizes, cash and open orders is AdaptiveExecutor; here a run goes  *)
(* through its stages and only their outcomes appear.                      *)
(***************************************************************************)
EXTENDS Integers, FiniteSets, FiniteSetsExt, Functions

CONSTANTS
  Releases,     \* releases; each has an identity of its own
  Universe,     \* the ranking universe of each release
  Intents,      \* trades of a plan
  MaxMonth, MaxClose, MaxTries, MaxRuns, MaxActs, MaxFaults,  \* bounds
  None

ASSUME ReleaseAssumption == Releases \subseteq Nat /\ 1..3 \subseteq Releases /\ DOMAIN Universe = Releases
ASSUME BoundsAssumption ==
  {MaxMonth, MaxClose, MaxTries} \subseteq Nat \ {0} /\ {MaxRuns, MaxActs, MaxFaults} \subseteq Nat

VARIABLES
  orders,    \* Alpaca: the status of every client order ID
  stray,     \* Alpaca: an order no plan knows, placed by the owner
  held,      \* Alpaca: positions, as the orders that bought them
  month,
  close,     \* the latest close a ranking has read; the next one reads a later
  approved,  \* PRODUCTION_RELEASE_SHA
  pin,       \* the approved handoff manifest
  state,     \* the newest published state
  archive,   \* the published states a settlement may start from
  run,       \* the run in progress and its working copy of the state
  runs, acts, faults,
  ranked,    \* history: months ranked, and neither liquidated nor settled since
  settlements  \* history: how often a plan was settled

broker == <<orders, stray, held>>
calendar == <<month, close>>
operator == <<approved, pin, acts>>
history == <<ranked, settlements>>
vars == <<broker, calendar, operator, state, archive, run, runs, faults, history>>

Kinds == {"ranked", "halved", "off"}
\* A ranked or halved plan bears the close it was ranked on, a liquidation under
\* HALT none: two of them in a month share their IDs.
Ids == {k \in Releases \X (1..MaxMonth) \X (0..MaxClose) \X Kinds \X Intents \X (1..MaxTries) :
          k[3] = 0 <=> k[4] = "off"}
Id(p, i) == <<p.home, p.month, p.signal, p.kind, i, p.tries[i].n>>
Tried(p) == {i \in Intents : p.tries[i].n > 0}
IdsOf(p) == {Id(p, i) : i \in Tried(p)}
In(status) == {k \in Ids : orders[k] = status}
Assets == Ids \cup {None}  \* an order's, or the owner's

PlanType ==
  {p \in [home : Releases, month : 1..MaxMonth, signal : 0..MaxClose, kind : Kinds,
          tries : [Intents -> [n : 0..MaxTries, sent : BOOLEAN]]] : p.signal = 0 <=> p.kind = "off"}
\* Evidence of the hops behind a state: one, or the two there may be.
FirstHop == [target : Releases, plan : PlanType, prior : {None}]
Hops == FirstHop \cup [target : Releases, plan : PlanType, prior : FirstHop]
\* done and dated: the last completed month, and whether its plan had a signal date.
StateType ==
  [rel : Releases, plan : PlanType \cup {None}, evidence : Hops \cup {None}, done : 0..MaxMonth,
   dated : BOOLEAN, latch : BOOLEAN, settled : BOOLEAN, passed : BOOLEAN, book : SUBSET Assets]
ASSUME NoneAssumption == None \notin PlanType /\ None \notin Hops /\ None \notin StateType

Untried == [i \in Intents |-> [n |-> 0, sent |-> FALSE]]
Plan(home, kind, signal) ==
  [home |-> home, month |-> month, signal |-> signal, kind |-> kind, tries |-> Untried]
SamePlan(p, q) ==
  p.home = q.home /\ p.month = q.month /\ p.signal = q.signal /\ p.kind = q.kind
NoRun == [work |-> None, carried |-> FALSE, stage |-> "over"]

\* Release 1 has ranked and sent one order; its state is the newest, or the plan
\* has been handed on once or twice since, to releases whose runs sent nothing.
Init ==
  /\ month = 1 /\ close = 1
  /\ \E i \in Intents, last \in {r \in 1..3 : \A q \in 1..r : Universe[q] = Universe[1]} :
       LET p == [Plan(1, "ranked", 1) EXCEPT !.tries[i] = [n |-> 1, sent |-> TRUE]]
           first == [target |-> 2, plan |-> p, prior |-> None]
           second == [target |-> 3, plan |-> p, prior |-> first] IN
       /\ approved = last
       /\ pin = <<None, first, second>>[last]
       /\ state = [rel |-> approved, plan |-> p, evidence |-> pin, done |-> 0, dated |-> FALSE,
                   latch |-> FALSE, settled |-> FALSE, passed |-> TRUE, book |-> {}]
       /\ orders = [k \in Ids |-> IF k = Id(p, i) THEN "active" ELSE "none"]
  /\ stray = "none" /\ held = {} /\ archive = {} /\ run = NoRun
  /\ runs = 0 /\ acts = 0 /\ faults = 0
  /\ ranked = {1} /\ settlements = 0

(***************************************************************************)
(* The broker, the calendar and the operator.                              *)
(***************************************************************************)
\* A liquidation's order sells; a ranked or halved plan's buys or sells.
Fill == \E k \in In("active") :
  /\ orders' = [orders EXCEPT ![k] = "filled"]
  /\ \/ held' \in SUBSET held
     \/ k[4] # "off" /\ held' = held \union {k}
  /\ UNCHANGED <<stray, calendar, operator, state, archive, run, runs, faults, history>>
\* Rejected, expired, or cancelled: a run first cancels open BUYs that are not of
\* the stored plan or that its gate or tier forbids, and ends if it finds one.
Die == \E k \in In("active") :
  /\ orders' = [orders EXCEPT ![k] = "dead"]
  /\ UNCHANGED <<stray, held, calendar, operator, state, archive, run, runs, faults, history>>
\* A submission that got no answer shows up, during the run or after it.
Appear == \E k \in In("hidden") :
  /\ orders' = [orders EXCEPT ![k] = "active"]
  /\ UNCHANGED <<stray, held, calendar, operator, state, archive, run, runs, faults, history>>
OwnerTrades ==
  /\ run = NoRun
  /\ \/ stray = "none" /\ faults < MaxFaults /\ faults' = faults + 1 /\ stray' = "active"
        /\ UNCHANGED held
     \/ stray = "active" /\ stray' = "filled" /\ held' = held \union {None} /\ UNCHANGED faults
  /\ UNCHANGED <<orders, calendar, operator, state, archive, run, runs, history>>
NextMonth ==
  /\ run = NoRun /\ month < MaxMonth /\ month' = month + 1
  /\ acts < MaxActs /\ acts' = acts + 1
  /\ UNCHANGED <<broker, close, approved, pin, state, archive, run, runs, faults, history>>

Approve == \E r \in Releases \ {approved} :
  /\ run = NoRun /\ acts < MaxActs /\ acts' = acts + 1 /\ approved' = r
  /\ UNCHANGED <<broker, calendar, pin, state, archive, run, runs, faults, history>>
ClearPin ==
  /\ run = NoRun /\ pin # None /\ acts < MaxActs /\ acts' = acts + 1 /\ pin' = None
  /\ UNCHANGED <<broker, calendar, approved, state, archive, run, runs, faults, history>>

(***************************************************************************)
(* reconcile_broker: the open orders are exactly those the plan knows, and *)
(* an attempt moved on only from one that died.  Both books are read twice *)
(* and a difference refuses, so the reads count as one.                    *)
(***************************************************************************)
AdvancedFromDead(original, current) ==
  \A i \in Tried(original) :
    /\ current.tries[i].n >= original.tries[i].n
    /\ current.tries[i].n > original.tries[i].n => orders[Id(original, i)] = "dead"
BookExplained(original, current) ==
  /\ stray # "active"
  /\ In("active") \subseteq IdsOf(original) \union IdsOf(current)
Reconciles(original, current) ==
  AdvancedFromDead(original, current) /\ BookExplained(original, current)
ReconcilesChain(evidence, current) ==
  /\ Reconciles(evidence.plan, current)
  /\ evidence.prior # None => Reconciles(evidence.prior.plan, current)

\* validate_source: a frozen plan with attempts, every one of them answered.
Transferable(p) ==
  /\ p # None /\ p.kind # "off" /\ Tried(p) # {}
  /\ \A i \in Tried(p) : p.tries[i].sent
\* prior_source: a second hop carries the plan of the first, and no other.
ContinuesAnyHop(s) == TRUE
ContinuesFirstHop(s) ==
  s.evidence # None =>
    /\ s.evidence.prior = None
    /\ s.evidence.target = s.rel /\ SamePlan(s.evidence.plan, s.plan)

\* prepare_runtime_handoff, and the protected variables set from its output.
Prepare == \E t \in Releases \ {state.rel} :
  /\ run = NoRun /\ acts < MaxActs
  /\ Transferable(state.plan) /\ ContinuesFirstHop(state) /\ state.passed
  /\ state.plan.month = month /\ Universe[t] = Universe[state.plan.home]
  /\ LET manifest == [target |-> t, plan |-> state.plan, prior |-> state.evidence] IN
     /\ ReconcilesChain(manifest, state.plan)
     /\ pin' = manifest
  /\ acts' = acts + 1
  /\ UNCHANGED <<broker, calendar, approved, state, archive, run, runs, faults, history>>

(***************************************************************************)
(* A run: restore, authorise, trade, publish.                              *)
(***************************************************************************)
Native == state.rel = approved
\* _completion_record, which asks for a signal date, and _native_successor_allowed.
Completed(work, original) == work.dated /\ work.done >= original.month
HalvedFrom(p, original) ==
  /\ p.kind = "halved" /\ original.kind = "ranked"
  /\ p.month = original.month /\ p.signal = original.signal
Honoured(work, original) ==
  \/ Completed(work, original)
  \/ /\ work.plan # None
     /\ \/ work.plan.month > original.month
        \/ work.plan.kind = "off" /\ work.latch
        \/ HalvedFrom(work.plan, original)

\* No approval and no evidence: the plan must be this release's own.
OwnPlan(work) == work.plan # None => work.plan.home = approved
UnpinnedIsEnough(work) == pin = None
Unhanded(work) == pin = None /\ work.evidence = None /\ OwnPlan(work)
\* A pin left in place after a settlement for this release.
SettledFor(work) == pin # None /\ work.evidence = None /\ work.settled /\ work.plan = None
Evidence(work) ==
  /\ pin # None /\ work.evidence = pin /\ pin.target = approved
  /\ Universe[approved] = Universe[pin.plan.home]
Carries(work) ==
  /\ work.plan # None /\ work.plan.home = pin.plan.home
  /\ SamePlan(work.plan, pin.plan) /\ ReconcilesChain(pin, work.plan)
Succeeded(work, last) ==
  /\ work.plan # None => work.plan.home = approved
  /\ last = approved /\ Honoured(work, pin.plan)
Handed(work, last) == Evidence(work) /\ (Carries(work) \/ Succeeded(work, last))

\* restore, handoff: the very state the manifest was made from, still newest.
Adoptable ==
  /\ ~Native /\ pin # None /\ pin.target = approved
  /\ state.plan = pin.plan /\ state.evidence = pin.prior /\ state.passed
  /\ pin.plan.month = month /\ Universe[approved] = Universe[pin.plan.home]
Restored == IF Native THEN state ELSE [state EXCEPT !.rel = approved, !.evidence = pin]
Authorised(work, last) == Unhanded(work) \/ SettledFor(work) \/ Handed(work, last)

\* _settlement_source: twice handed, and replaced by the second target's plan.
SettlementSource(s) ==
  /\ s.evidence # None /\ s.evidence.prior # None /\ s.evidence.target = s.rel
  /\ s.plan # None /\ s.plan.home = s.rel /\ Tried(s.plan) # {}

Published(work, passed) ==
  /\ state' = [work EXCEPT !.rel = approved, !.settled = FALSE, !.passed = passed, !.book = held]
  /\ archive' = archive \union {s \in {state'} : SettlementSource(s)}
  /\ run' = NoRun

StartRun ==
  /\ run = NoRun /\ runs < MaxRuns /\ runs' = runs + 1
  /\ Native \/ Adoptable
  /\ IF Authorised(Restored, state.rel)
     THEN /\ run' = [work |-> Restored, carried |-> Evidence(Restored) /\ Carries(Restored),
                     stage |-> "plan"]
          /\ UNCHANGED <<state, archive>>
     ELSE Published(Restored, FALSE)  \* refused before anything is sent
  /\ UNCHANGED <<broker, calendar, operator, faults, history>>

EndRun ==
  /\ run # NoRun
  /\ \/ Published(run.work, TRUE) /\ UNCHANGED faults
     \/ Published(run.work, FALSE) /\ faults < MaxFaults /\ faults' = faults + 1
  /\ UNCHANGED <<broker, calendar, operator, runs, history>>

(***************************************************************************)
(* The stages of a run: the plan is settled on, traded, and retired.       *)
(***************************************************************************)
\* A liquidation is never stale; another plan is, in a later month or when it is
\* neither this release's nor carried.
StaleLiquidationToo(p) == p.month # month \/ (p.home # approved /\ ~run.carried)
Stale(p) == p.kind # "off" /\ (p.month # month \/ (p.home # approved /\ ~run.carried))
Planning == run.stage = "plan"
Stored == run.work.plan # None
Works(work) == run' = [run EXCEPT !.work = work]
Replaces(work, p) == run' = [work |-> [work EXCEPT !.plan = p], carried |-> FALSE, stage |-> "trade"]

\* HALT freezes a liquidation before anything else, whatever is stored or done.
Halt ==
  /\ Planning /\ (Stored => run.work.plan.kind # "off")
  /\ Replaces([run.work EXCEPT !.latch = TRUE], Plan(approved, "off", 0))
  /\ UNCHANGED <<broker, calendar, operator, state, archive, runs, faults, history>>

\* A stale plan goes once its orders are terminal; the run may end before it ranks.
Drop ==
  /\ Planning /\ Stored /\ Stale(run.work.plan)
  /\ IdsOf(run.work.plan) \intersect In("active") = {}
  /\ Works([run.work EXCEPT !.plan = None])
  /\ UNCHANGED <<broker, calendar, operator, state, archive, runs, faults, history>>

\* CAUTIOUS halves a plan made under NORMAL, on the same signal.
Halve ==
  /\ Planning /\ Stored /\ run.work.plan.kind = "ranked" /\ ~Stale(run.work.plan)
  /\ Replaces(run.work, Plan(approved, "halved", run.work.plan.signal))
  /\ UNCHANGED <<broker, calendar, operator, state, archive, runs, faults, history>>

\* Positions without a plan end the episode the latch remembers.
ConsumeLatch ==
  /\ Planning /\ ~Stored /\ run.work.latch /\ held # {}
  /\ Works([run.work EXCEPT !.latch = FALSE])
  /\ UNCHANGED <<broker, calendar, operator, state, archive, runs, faults, history>>

\* A month is ranked once, and again from cash after a liquidation; the market
\* confirms the re-entry or not.
ReentryReady(work) == work.latch /\ held = {}
RanksAnew(work) == work.plan = None /\ (work.done # month \/ ReentryReady(work))
Rank ==
  /\ Planning /\ RanksAnew(run.work) /\ (run.work.latch => held = {})
  /\ close < MaxClose /\ close' = close + 1
  /\ Replaces(run.work, Plan(approved, "ranked", close + 1))
  /\ ranked' = ranked \union {month}
  /\ UNCHANGED <<broker, month, operator, state, archive, runs, faults, settlements>>

Tradeable == run # NoRun /\ run.stage # "over" /\ Stored /\ ~Stale(run.work.plan)

\* Reserve the next attempt and send it; the answer may be lost either way.  An ID
\* the broker knows, of an earlier liquidation of the month, is refused.
Dead(p, i) == p.tries[i].n > 0 /\ orders[Id(p, i)] = "dead"
Unknown(p, i) == p.tries[i].n > 0 /\ orders[Id(p, i)] = "none"
RetryAlways(p, i) == TRUE
MayRetry(p, i) == p.tries[i].n = 0 \/ Dead(p, i) \/ Unknown(p, i)
Attempted(p, i, sent) ==
  [p EXCEPT !.tries[i] = [n |-> IF Unknown(p, i) THEN p.tries[i].n ELSE p.tries[i].n + 1,
                          sent |-> sent]]
Send == \E i \in Intents, sent \in BOOLEAN :
  LET plan == run.work.plan
      next == Attempted(plan, i, sent)
      key == Id(next, i) IN
  /\ Tradeable /\ MayRetry(plan, i) /\ next.tries[i].n <= MaxTries
  /\ plan.kind = "off" => held # {}
  /\ run' = [run EXCEPT !.work.plan = next, !.stage = "sent"]
  /\ \/ sent /\ orders[key] = "none" /\ orders' = [orders EXCEPT ![key] = "active"]
        /\ UNCHANGED faults
     \/ ~sent /\ orders[key] # "none" /\ UNCHANGED <<orders, faults>>
     \/ /\ ~sent /\ orders[key] = "none" /\ faults < MaxFaults /\ faults' = faults + 1
        /\ orders' = [orders EXCEPT ![key] = "hidden"] \/ UNCHANGED orders
  /\ UNCHANGED <<stray, held, calendar, operator, state, archive, runs, history>>

\* Nothing is open or was sent, and the positions are the targets: none, for a
\* liquidation.
FilledIsEnough(p) == Tried(p) = Intents /\ IdsOf(p) \subseteq In("filled")
Converged(p) == IF p.kind = "off" THEN held = {} ELSE FilledIsEnough(p)
Complete ==
  /\ Tradeable /\ run.stage # "sent" /\ Converged(run.work.plan)
  /\ In("active") = {} /\ stray # "active"
  /\ LET p == run.work.plan
         off == p.kind = "off" IN
     /\ run' = [run EXCEPT !.stage = "over",
                  !.work = [@ EXCEPT !.plan = None, !.done = p.month, !.dated = ~off, !.latch = off]]
     /\ ranked' = IF off THEN ranked \ {p.month} ELSE ranked
  /\ UNCHANGED <<broker, calendar, operator, state, archive, runs, faults, settlements>>

(***************************************************************************)
(* Settlement of a source artifact the operator names, for a target.       *)
(***************************************************************************)
\* audit, _audit_is_settleable, _audit_plan_orders: every attempt of the active
\* and of the first plan filled, nothing open, positions as in the source.
AllFilled(s) ==
  /\ IdsOf(s.plan) \union IdsOf(s.evidence.prior.plan) \subseteq In("filled")
  /\ In("active") = {} /\ stray # "active"
PositionsMatch(s) == s.book = held

Settle == \E s \in archive, t \in Releases :
  /\ run = NoRun /\ acts < MaxActs /\ acts' = acts + 1
  /\ AllFilled(s) /\ PositionsMatch(s)
  /\ t # s.evidence.plan.home /\ Universe[t] # Universe[s.evidence.plan.home]
  /\ state' = [s EXCEPT !.rel = t, !.plan = None, !.evidence = None, !.settled = TRUE,
                        !.passed = TRUE]
  /\ ranked' = {} /\ settlements' = settlements + 1
  /\ UNCHANGED <<broker, calendar, approved, pin, archive, run, runs, faults>>

Next ==
  \/ Fill \/ Die \/ Appear \/ OwnerTrades \/ NextMonth \/ Approve \/ ClearPin \/ Prepare
  \/ StartRun \/ Halt \/ Drop \/ Halve \/ ConsumeLatch \/ Rank \/ Send \/ Complete \/ EndRun
  \/ Settle

Spec == Init /\ [][Next]_vars

(***************************************************************************)
(* Properties.                                                             *)
(***************************************************************************)
\* Types; and a plan is handed over twice at most.
TypeOK ==
  /\ orders \in [Ids -> {"none", "hidden", "active", "filled", "dead"}]
  /\ stray \in {"none", "active", "filled"} /\ held \subseteq Assets /\ approved \in Releases
  /\ {state} \union archive \union ({run.work} \ {None}) \subseteq StateType
  /\ pin \in Hops \union {None} /\ run.carried \in BOOLEAN

\* An intent of a plan is traded once, whatever hops, lost answers and refused
\* runs lie between its attempts: no attempt follows one that works or filled
\* (runtime_handoff.py:274-294, 612-620).
OneOrderPerIntent ==
  \A k \in Ids : k[6] > 1 /\ orders[k] # "none"
    => orders[<<k[1], k[2], k[3], k[4], k[5], k[6] - 1>>] = "dead"

\* No sequence of approvals, pins, refused runs and releases makes a release
\* drop a plan it was not handed and rank the same month again; only a completed
\* liquidation or a settlement lets a ranked month be ranked once more
\* (runtime_handoff.py:806-835, execute_trades.py:2788-2794, 2845-2849).
RankedOncePerEpisode == [][Rank => month \notin ranked]_vars

\* The plan in force: in the newest state, or in the copy a run works on.
Current == IF run = NoRun THEN state ELSE run.work
Liquidating == Current.plan # None /\ Current.plan.kind = "off"

\* A liquidation outlives the HALT that began it: whatever the tier recovers to,
\* months, releases, pins and failed runs, it is given up with nothing held or by
\* a settlement (execute_trades.py:2500-2522).
LiquidationKept ==
  [][Liquidating /\ settlements' = settlements => Liquidating' \/ held = {}]_vars
=============================================================================
