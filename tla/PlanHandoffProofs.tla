------------------------- MODULE PlanHandoffProofs -------------------------
(***************************************************************************)
(* Proofs about PlanHandoff, for any releases, universes, intents and      *)
(* bounds.                                                                 *)
(***************************************************************************)
EXTENDS PlanHandoff, TLAPS

Statuses == {"none", "hidden", "active", "filled", "dead"}
RunType == [work : StateType \cup {None}, carried : BOOLEAN,
            stage : {"plan", "trade", "sent", "over"}]

Shapes ==
  /\ orders \in [Ids -> Statuses] /\ stray \in {"none", "active", "filled"} /\ held \subseteq Assets
  /\ month \in 1..MaxMonth /\ close \in 1..MaxClose
  /\ approved \in Releases /\ pin \in Hops \cup {None}
  /\ state \in StateType /\ archive \subseteq StateType
  /\ run \in RunType
  /\ run # NoRun => run.work \in StateType
  /\ settlements \in Nat

\* A run works for the approved release, on a plan it was handed or one of its own.
RunInv ==
  run # NoRun =>
    /\ run.work.rel = approved
    /\ run.work.plan # None => run.carried \/ run.work.plan.home = approved

\* The plan in force moved on only from attempts that died.
Attempt(p, i, n) == <<p.home, p.month, p.signal, p.kind, i, n>>
AttemptsKnown ==
  Current.plan # None =>
    \A i \in Intents, n \in 1..MaxTries :
      n + 1 = Current.plan.tries[i].n => orders[Attempt(Current.plan, i, n)] = "dead"

\* A month that was ranked has its plan or that plan's successor still in force, or
\* is recorded as completed by one that was not a liquidation.
RankedInv ==
  /\ ranked \subseteq 1..month
  /\ month \in ranked =>
       \/ Current.plan # None /\ Current.plan.month = month
       \/ Current.plan = None /\ Current.done = month /\ ~Current.latch

HandoffInv == Shapes /\ RunInv /\ AttemptsKnown /\ OneOrderPerIntent /\ RankedInv

(***************************************************************************)
(* Typing.                                                                 *)
(***************************************************************************)
\* A plan of this month is well formed, and nothing of it has been tried.
LEMMA PlanTypes ==
  ASSUME NEW r \in Releases, NEW kind \in Kinds, NEW signal \in 0..MaxClose, month \in 1..MaxMonth,
         signal = 0 <=> kind = "off"
  PROVE  /\ Plan(r, kind, signal) \in PlanType
         /\ Plan(r, kind, signal).home = r /\ Plan(r, kind, signal).month = month
         /\ Plan(r, kind, signal).kind = kind
         /\ \A i \in Intents : Plan(r, kind, signal).tries[i].n = 0
<1>1. /\ Untried \in [Intents -> [n : 0..MaxTries, sent : BOOLEAN]]
      /\ \A i \in Intents : Untried[i].n = 0
  BY BoundsAssumption DEF Untried
<1> QED BY <1>1 DEF Plan, PlanType

\* None of the things a run carries is the sentinel.
LEMMA Sentinels ==
  /\ \A p \in PlanType : p # None
  /\ \A s \in StateType : s # None /\ (s.plan # None => s.plan \in PlanType)
  /\ \A e \in Hops : e # None /\ e.plan \in PlanType /\ e.target \in Releases
  BY NoneAssumption DEF StateType, Hops, FirstHop

\* An attempt at an intent of a plan has an ID.
LEMMA AttemptIds ==
  ASSUME NEW p \in PlanType, NEW i \in Intents, NEW n \in 1..MaxTries
  PROVE  Attempt(p, i, n) \in Ids
<1>1. /\ p.home \in Releases /\ p.month \in 1..MaxMonth /\ p.signal \in 0..MaxClose
      /\ p.kind \in Kinds /\ (p.signal = 0 <=> p.kind = "off")
  BY DEF PlanType
<1> QED BY <1>1 DEF Attempt, Ids

\* The initial states satisfy the inductive invariant.
LEMMA InitHandoff == Init => HandoffInv
<1> SUFFICES ASSUME Init PROVE HandoffInv
  OBVIOUS
<1> USE ReleaseAssumption, BoundsAssumption
<1>1. /\ month = 1 /\ 1 \in 1..MaxMonth /\ close = 1 /\ 1 \in 1..MaxClose /\ 1 \in 1..MaxTries
      /\ 1 \in Releases /\ 2 \in Releases /\ 3 \in Releases
  BY DEF Init
<1>2. PICK i \in Intents, last \in {r \in 1..3 : \A q \in 1..r : Universe[q] = Universe[1]} :
        LET p == [Plan(1, "ranked", 1) EXCEPT !.tries[i] = [n |-> 1, sent |-> TRUE]]
            first == [target |-> 2, plan |-> p, prior |-> None]
            second == [target |-> 3, plan |-> p, prior |-> first] IN
        /\ approved = last
        /\ pin = <<None, first, second>>[last]
        /\ state = [rel |-> approved, plan |-> p, evidence |-> pin, done |-> 0, dated |-> FALSE,
                    latch |-> FALSE, settled |-> FALSE, passed |-> TRUE, book |-> {}]
        /\ orders = [k \in Ids |-> IF k = Id(p, i) THEN "active" ELSE "none"]
  BY DEF Init
<1> DEFINE p == [Plan(1, "ranked", 1) EXCEPT !.tries[i] = [n |-> 1, sent |-> TRUE]]
           first == [target |-> 2, plan |-> p, prior |-> None]
           second == [target |-> 3, plan |-> p, prior |-> first]
<1>3. /\ p \in PlanType /\ p.home = 1 /\ p.month = 1 /\ p.kind = "ranked"
      /\ p.tries[i].n = 1 /\ \A j \in Intents : j # i => p.tries[j].n = 0
  <2>1. /\ Plan(1, "ranked", 1) \in PlanType
        /\ Plan(1, "ranked", 1).home = 1 /\ Plan(1, "ranked", 1).month = month
        /\ Plan(1, "ranked", 1).kind = "ranked"
        /\ \A j \in Intents : Plan(1, "ranked", 1).tries[j].n = 0
    <3>1. "ranked" \in Kinds /\ 1 \in 0..MaxClose /\ month \in 1..MaxMonth
          /\ (1 = 0 <=> "ranked" = "off")
      BY <1>1 DEF Kinds
    <3> QED BY <3>1, <1>1, PlanTypes
  <2>2. PICK pl \in PlanType : pl = Plan(1, "ranked", 1)
    BY <2>1
  <2>3. p = [pl EXCEPT !.tries[i] = [n |-> 1, sent |-> TRUE]]
    BY <2>2
  <2> HIDE DEF p
  <2>4. 1 \in 0..MaxTries
    BY <1>1
  <2>5. /\ p \in PlanType /\ p.tries[i] = [n |-> 1, sent |-> TRUE]
        /\ p.home = pl.home /\ p.month = pl.month /\ p.kind = pl.kind
        /\ \A j \in Intents : j # i => p.tries[j] = pl.tries[j]
    BY <2>3, <2>4 DEF PlanType
  <2> QED BY <2>1, <2>2, <2>5, <1>1
<1> HIDE DEF p
<1>4. last \in 1..3 /\ last \in Releases
  BY <1>1
<1>5. first \in FirstHop /\ first \in Hops /\ second \in Hops
  BY <1>1, <1>3 DEF FirstHop, Hops
<1>6. pin \in Hops \cup {None} /\ approved \in Releases
  <2>1. pin = <<None, first, second>>[last] /\ approved = last
    BY <1>2 DEF p
  <2> HIDE DEF first, second
  <2> QED BY <2>1, <1>4, <1>5
<1> HIDE DEF first, second
<1>7. /\ state = [rel |-> approved, plan |-> p, evidence |-> pin, done |-> 0, dated |-> FALSE,
                  latch |-> FALSE, settled |-> FALSE, passed |-> TRUE, book |-> {}]
      /\ orders = [k \in Ids |-> IF k = Id(p, i) THEN "active" ELSE "none"]
  BY <1>2 DEF p
<1>8. state \in StateType /\ state.plan = p /\ p # None
  BY <1>1, <1>3, <1>6, <1>7, NoneAssumption DEF StateType
<1>9. Current = state /\ run = NoRun
  BY DEF Current, Init
<1>10. Shapes
  BY <1>1, <1>6, <1>7, <1>8 DEF Shapes, Init, NoRun, Statuses, RunType
<1>11. RunInv
  BY DEF RunInv, Init
<1>12. AttemptsKnown
  <2>1. \A j \in Intents, n \in 1..MaxTries : n + 1 # p.tries[j].n
    BY <1>3
  <2> QED BY <2>1, <1>8, <1>9 DEF AttemptsKnown
<1>13. OneOrderPerIntent
  BY <1>3, <1>7 DEF OneOrderPerIntent, Id
<1>14. RankedInv
  <2>1. ranked = {1} /\ 1 \in 1..month
    BY <1>1 DEF Init
  <2>2. Current.plan # None /\ Current.plan.month = month
    BY <1>1, <1>3, <1>8, <1>9
  <2> QED BY <2>1, <2>2 DEF RankedInv
<1> QED BY <1>10, <1>11, <1>12, <1>13, <1>14 DEF HandoffInv

(***************************************************************************)
(* Steps that leave the plan in force as it is.                            *)
(***************************************************************************)
\* No order is placed under a new ID, and none comes back to life.
OrdersMoveOn ==
  \A k \in Ids : /\ orders'[k] = "none" <=> orders[k] = "none"
                 /\ orders[k] = "dead" => orders'[k] = "dead"
\* The plan stays, and what a completed one left.
PlanStays ==
  /\ Current'.plan = Current.plan /\ Current'.done = Current.done
  /\ Current'.latch = Current.latch

\* A plan whose attempts stay, over orders that move on.
LEMMA AttemptsMoveOn ==
  ASSUME HandoffInv, OrdersMoveOn
  PROVE  /\ OneOrderPerIntent'
         /\ Current'.plan = Current.plan => AttemptsKnown'
<1> USE DEF HandoffInv, OrdersMoveOn
<1>1. OneOrderPerIntent'
  <2> SUFFICES ASSUME NEW k \in Ids, k[6] > 1, orders'[k] # "none"
               PROVE  orders'[<<k[1], k[2], k[3], k[4], k[5], k[6] - 1>>] = "dead"
    BY DEF OneOrderPerIntent
  <2>1. <<k[1], k[2], k[3], k[4], k[5], k[6] - 1>> \in Ids
    BY BoundsAssumption DEF Ids
  <2> QED BY <2>1 DEF OneOrderPerIntent
<1>2. ASSUME Current'.plan = Current.plan PROVE AttemptsKnown'
  <2> SUFFICES ASSUME Current.plan # None, NEW i \in Intents, NEW n \in 1..MaxTries,
                      n + 1 = Current.plan.tries[i].n
               PROVE  orders'[Attempt(Current.plan, i, n)] = "dead"
    BY <1>2 DEF AttemptsKnown, Attempt
  <2>1. Current.plan \in PlanType
    BY Sentinels DEF Shapes, Current
  <2>2. Attempt(Current.plan, i, n) \in Ids
    BY <2>1, AttemptIds
  <2> QED BY <2>2 DEF AttemptsKnown
<1> QED BY <1>1, <1>2

\* Steps that keep the plan and move orders forward keep what intents and ranks
\* rest on; a month that begins has not been ranked.
LEMMA PlanKept ==
  ASSUME HandoffInv, OrdersMoveOn, PlanStays, UNCHANGED ranked,
         month' = month \/ month' = month + 1
  PROVE  AttemptsKnown' /\ OneOrderPerIntent' /\ RankedInv'
<1>1. AttemptsKnown' /\ OneOrderPerIntent'
  BY AttemptsMoveOn DEF PlanStays
<1>2. RankedInv'
  <2>1. ranked \subseteq 1..month /\ month \in Nat
    BY BoundsAssumption DEF HandoffInv, RankedInv, Shapes
  <2>2. CASE month' = month
    BY <2>2, <2>1 DEF HandoffInv, RankedInv, PlanStays
  <2>3. CASE month' = month + 1
    BY <2>3, <2>1 DEF RankedInv
  <2> QED BY <2>2, <2>3
<1> QED BY <1>1, <1>2

\* The steps of the broker, the calendar and the operator.
Outside == Fill \/ Die \/ Appear \/ OwnerTrades \/ NextMonth \/ Approve \/ ClearPin \/ Prepare
\* They leave the plan in force alone.
LEMMA OutsideStep ==
  ASSUME HandoffInv, Outside
  PROVE  HandoffInv' /\ UNCHANGED Current
<1> DEFINE Still == /\ UNCHANGED <<run, state, archive, ranked, settlements>>
                    /\ run # NoRun => UNCHANGED approved
                    /\ month' = month \/ month' = month + 1
<1>1. Still /\ OrdersMoveOn /\ Shapes'
  <2> USE DEF HandoffInv, operator, calendar, history
  <2>1. CASE Fill
    <3>1. PICK k \in In("active") :
            /\ orders' = [orders EXCEPT ![k] = "filled"]
            /\ held' \in SUBSET held \/ held' = held \union {k}
      BY <2>1 DEF Fill
    <3>2. held' \subseteq Assets
      BY <3>1 DEF Shapes, Assets, In
    <3> QED BY <2>1, <3>1, <3>2 DEF Fill, In, OrdersMoveOn, Shapes, Statuses
  <2>2. CASE Die
    BY <2>2 DEF Die, In, OrdersMoveOn, Shapes, Statuses
  <2>3. CASE Appear
    BY <2>3 DEF Appear, In, OrdersMoveOn, Shapes, Statuses
  <2>4. CASE OwnerTrades
    BY <2>4 DEF OwnerTrades, OrdersMoveOn, Shapes, Assets
  <2>5. CASE NextMonth
    BY <2>5, BoundsAssumption DEF NextMonth, OrdersMoveOn, Shapes, broker
  <2>6. CASE Approve
    BY <2>6 DEF Approve, OrdersMoveOn, Shapes, broker
  <2>7. CASE ClearPin
    BY <2>7 DEF ClearPin, OrdersMoveOn, Shapes, broker
  <2>8. CASE Prepare
    <3>1. state \in StateType /\ state.evidence \in Hops \cup {None}
      BY DEF Shapes, StateType
    <3>2. state.plan \in PlanType
      BY <2>8, <3>1, Sentinels DEF Prepare, Transferable
    <3>3. state.evidence \in FirstHop \cup {None}
      <4>1. \A e \in Hops : e.prior = None => e \in FirstHop
        BY NoneAssumption DEF Hops, FirstHop
      <4> QED BY <4>1, <2>8, <3>1 DEF Prepare, ContinuesFirstHop
    <3>4. \A t \in Releases : [target |-> t, plan |-> state.plan, prior |-> state.evidence] \in Hops
      BY <3>2, <3>3 DEF Hops, FirstHop
    <3>5. pin' \in Hops
      BY <2>8, <3>4 DEF Prepare
    <3> QED BY <2>8, <3>5 DEF Prepare, OrdersMoveOn, Shapes, broker
  <2> QED BY <2>1, <2>2, <2>3, <2>4, <2>5, <2>6, <2>7, <2>8 DEF Outside
<1>2. UNCHANGED Current
  BY <1>1 DEF Current, NoRun
<1>3. PlanStays
  BY <1>2 DEF PlanStays
<1>4. RunInv'
  BY <1>1 DEF RunInv, HandoffInv, NoRun
<1> QED BY <1>1, <1>2, <1>3, <1>4, PlanKept DEF HandoffInv

\* What a run restores is the plan in force, relabelled.
LEMMA RestoredKeeps ==
  ASSUME HandoffInv, run = NoRun, Native \/ Adoptable
  PROVE  /\ Restored \in StateType
         /\ Restored.plan = state.plan /\ Restored.done = state.done
         /\ Restored.latch = state.latch /\ Restored.rel = approved
<1>1. /\ state \in StateType /\ approved \in Releases /\ pin \in Hops \cup {None}
  BY DEF HandoffInv, Shapes
<1>2. CASE Native
  BY <1>1, <1>2 DEF Native, Restored
<1>3. CASE ~Native /\ Adoptable
  <2>1. Restored = [state EXCEPT !.rel = approved, !.evidence = pin]
    BY <1>3 DEF Restored
  <2> QED BY <1>1, <2>1 DEF StateType
<1> QED BY <1>2, <1>3

\* Publication stores the working copy.
LEMMA PublishedKeeps ==
  ASSUME NEW work \in StateType, NEW passed \in BOOLEAN, Published(work, passed),
         approved \in Releases, archive \subseteq StateType, held \subseteq Assets
  PROVE  /\ state' \in StateType /\ run' = NoRun /\ archive' \subseteq StateType
         /\ state'.plan = work.plan /\ state'.done = work.done /\ state'.latch = work.latch
<1>1. /\ state' = [work EXCEPT !.rel = approved, !.settled = FALSE, !.passed = passed, !.book = held]
      /\ archive' = archive \cup {s \in {state'} : SettlementSource(s)} /\ run' = NoRun
  BY DEF Published
<1>2. /\ state' \in StateType /\ state'.plan = work.plan /\ state'.done = work.done
      /\ state'.latch = work.latch
  BY <1>1 DEF StateType
<1> QED BY <1>1, <1>2

\* Installing or inheriting a state keeps the inductive invariant.
LEMMA StartRunStep ==
  ASSUME HandoffInv, StartRun
  PROVE  HandoffInv' /\ PlanStays
<1> USE DEF calendar, operator, broker, history
<1>1. /\ run = NoRun /\ (Native \/ Adoptable)
      /\ UNCHANGED <<orders, stray, held, month, close, approved, pin, ranked, settlements>>
  BY DEF StartRun
<1>2. /\ Restored \in StateType /\ Restored.plan = state.plan /\ Restored.done = state.done
      /\ Restored.latch = state.latch /\ Restored.rel = approved
  BY <1>1, RestoredKeeps
<1>3. /\ Shapes /\ Current = state /\ approved \in Releases /\ archive \subseteq StateType
      /\ held \subseteq Assets
  BY <1>1 DEF HandoffInv, Current, Shapes
<1>4. OrdersMoveOn
  BY <1>1 DEF OrdersMoveOn
<1>5. CASE Authorised(Restored, state.rel)
  <2>1. /\ run' = [work |-> Restored, carried |-> Evidence(Restored) /\ Carries(Restored),
                   stage |-> "plan"]
        /\ UNCHANGED <<state, archive>>
    BY <1>5 DEF StartRun
  <2>2. run' # NoRun /\ run'.work = Restored
    BY <1>2, <2>1, Sentinels DEF NoRun
  <2>3. Current' = Restored
    BY <2>2 DEF Current, NoRun
  <2>4. PlanStays
    BY <1>2, <1>3, <2>3 DEF PlanStays
  <2>5. run' \in RunType
    <3>1. (Evidence(Restored) /\ Carries(Restored)) \in BOOLEAN
      BY DEF Evidence, Carries
    <3> QED BY <1>2, <2>1, <3>1 DEF RunType
  <2>6. Shapes'
    BY <1>1, <1>2, <1>3, <2>1, <2>2, <2>5 DEF Shapes
  <2>7. Restored.plan # None => run'.carried \/ Restored.plan.home = approved
    BY <1>5, <2>1 DEF Authorised, Unhanded, OwnPlan, SettledFor, Handed, Succeeded
  <2>8. RunInv'
    BY <1>1, <1>2, <2>2, <2>7 DEF RunInv
  <2> QED BY <1>1, <1>4, <2>4, <2>6, <2>8, PlanKept DEF HandoffInv
<1>6. CASE ~Authorised(Restored, state.rel)
  <2>1. Published(Restored, FALSE)
    BY <1>6 DEF StartRun
  <2>2. /\ state' \in StateType /\ run' = NoRun /\ archive' \subseteq StateType
        /\ state'.plan = Restored.plan /\ state'.done = Restored.done
        /\ state'.latch = Restored.latch
    BY <1>2, <1>3, <2>1, PublishedKeeps
  <2>3. Current' = state'
    BY <2>2 DEF Current, NoRun
  <2>4. PlanStays
    BY <1>2, <1>3, <2>2, <2>3 DEF PlanStays
  <2>5. Shapes'
    BY <1>1, <1>3, <2>2 DEF Shapes, NoRun, RunType
  <2>6. RunInv'
    BY <2>2 DEF RunInv, NoRun
  <2> QED BY <1>1, <1>4, <2>4, <2>5, <2>6, PlanKept DEF HandoffInv
<1> QED BY <1>5, <1>6

\* The end of a run keeps the inductive invariant.
LEMMA EndRunStep ==
  ASSUME HandoffInv, EndRun
  PROVE  HandoffInv' /\ PlanStays
<1> USE DEF calendar, operator, broker, history
<1>1. /\ run # NoRun
      /\ UNCHANGED <<orders, stray, held, month, close, approved, pin, ranked, settlements>>
  BY DEF EndRun
<1>2. PICK passed \in BOOLEAN : Published(run.work, passed)
  BY DEF EndRun
<1>3. /\ Shapes /\ Current = run.work /\ run.work \in StateType
      /\ approved \in Releases /\ archive \subseteq StateType /\ held \subseteq Assets
  BY <1>1 DEF HandoffInv, Shapes, Current, RunInv
<1>4. /\ state' \in StateType /\ run' = NoRun /\ archive' \subseteq StateType
      /\ state'.plan = run.work.plan /\ state'.done = run.work.done
      /\ state'.latch = run.work.latch
  BY <1>2, <1>3, PublishedKeeps
<1>5. Current' = state'
  BY <1>4 DEF Current, NoRun
<1>6. OrdersMoveOn
  BY <1>1 DEF OrdersMoveOn
<1>7. PlanStays
  BY <1>3, <1>4, <1>5 DEF PlanStays
<1>8. Shapes'
  BY <1>1, <1>3, <1>4 DEF Shapes, NoRun, RunType
<1>9. RunInv'
  BY <1>4 DEF RunInv, NoRun
<1> QED BY <1>1, <1>6, <1>7, <1>8, <1>9, PlanKept DEF HandoffInv

(***************************************************************************)
(* The stages of a run.                                                    *)
(***************************************************************************)
\* What a stage of a run leaves alone.
RunOnly ==
  UNCHANGED <<stray, held, month, approved, pin, state, archive>>

\* A run whose working copy is again one of the approved release.
LEMMA WorkUpdated ==
  ASSUME HandoffInv, run # NoRun, RunOnly, run' \in RunType, run'.work \in StateType,
         run'.work.rel = run.work.rel,
         run'.work.plan # None => run'.carried \/ run'.work.plan.home = approved,
         orders' \in [Ids -> Statuses], close' \in 1..MaxClose, settlements' = settlements
  PROVE  Shapes' /\ RunInv' /\ Current' = run'.work /\ Current = run.work
<1> USE DEF RunOnly
<1>1. run' # NoRun
  BY Sentinels DEF NoRun
<1>2. Current' = run'.work /\ Current = run.work
  BY <1>1 DEF Current, NoRun
<1>3. RunInv'
  BY <1>1 DEF RunInv, HandoffInv
<1>4. Shapes'
  BY <1>1 DEF Shapes, HandoffInv
<1> QED BY <1>2, <1>3, <1>4

\* A plan of the approved release without attempts may replace the one in force.
LEMMA NewPlanStep ==
  ASSUME HandoffInv, run # NoRun, RunOnly, NEW work \in StateType, work.rel = run.work.rel,
         NEW q \in PlanType, q.home = approved, \A i \in Intents : q.tries[i].n = 0,
         Replaces(work, q), orders' = orders, close' \in 1..MaxClose, settlements' = settlements
  PROVE  /\ Shapes' /\ RunInv' /\ AttemptsKnown' /\ OneOrderPerIntent'
         /\ Current'.plan = q /\ q # None
<1>1. run' = [work |-> [work EXCEPT !.plan = q], carried |-> FALSE, stage |-> "trade"]
  BY DEF Replaces
<1>2. /\ run'.work \in StateType /\ run'.work.plan = q /\ run'.work.rel = run.work.rel
      /\ run' \in RunType
  <2>1. [work EXCEPT !.plan = q] \in StateType
    BY DEF StateType
  <2> QED BY <1>1, <2>1 DEF StateType, RunType
<1>3. /\ Shapes' /\ RunInv' /\ Current' = run'.work
  <2>1. orders' \in [Ids -> Statuses]
    BY DEF HandoffInv, Shapes
  <2> QED BY <1>2, <2>1, WorkUpdated
<1>4. AttemptsKnown'
  <2>1. \A i \in Intents, n \in 1..MaxTries : n + 1 # q.tries[i].n
    OBVIOUS
  <2> QED BY <1>2, <1>3, <2>1 DEF AttemptsKnown
<1>5. OneOrderPerIntent'
  BY DEF HandoffInv, OneOrderPerIntent
<1> QED BY <1>2, <1>3, <1>4, <1>5, Sentinels

\* What every stage of a run finds.
LEMMA Working ==
  ASSUME HandoffInv, run # NoRun
  PROVE  /\ Shapes /\ run \in RunType /\ run.work \in StateType /\ Current = run.work
         /\ run.work.rel = approved /\ approved \in Releases
         /\ month \in 1..MaxMonth /\ close \in 1..MaxClose /\ month \in Nat
         /\ run.work.plan # None => run.work.plan \in PlanType
         /\ run.work.plan # None => run.carried \/ run.work.plan.home = approved
  BY Sentinels, BoundsAssumption DEF HandoffInv, Shapes, RunInv, Current

\* HALT keeps the inductive invariant: the plan it freezes is of this month.
LEMMA HaltStep ==
  ASSUME HandoffInv, Halt
  PROVE  HandoffInv' /\ ~Liquidating
<1> USE DEF calendar, operator, broker, history
<1>1. /\ run # NoRun /\ RunOnly /\ UNCHANGED <<orders, close, ranked, settlements>>
      /\ run.work.plan # None => run.work.plan.kind # "off"
      /\ Replaces([run.work EXCEPT !.latch = TRUE], Plan(approved, "off", 0))
  BY DEF Halt, Planning, NoRun, Stored, RunOnly
<1>2. /\ Current = run.work /\ run.work \in StateType /\ approved \in Releases
      /\ month \in 1..MaxMonth /\ close \in 1..MaxClose
  BY <1>1, Working
<1>3. PICK work \in StateType : work = [run.work EXCEPT !.latch = TRUE] /\ work.rel = run.work.rel
  <2>1. [run.work EXCEPT !.latch = TRUE] \in StateType
    BY <1>2 DEF StateType
  <2>2. [run.work EXCEPT !.latch = TRUE].rel = run.work.rel
    BY <1>2 DEF StateType
  <2> QED BY <2>1, <2>2
<1>4. PICK q \in PlanType :
        /\ q = Plan(approved, "off", 0) /\ q.home = approved /\ q.month = month
        /\ \A i \in Intents : q.tries[i].n = 0
  <2>1. "off" \in Kinds /\ 0 \in 0..MaxClose /\ (0 = 0 <=> "off" = "off")
    BY BoundsAssumption DEF Kinds
  <2> QED BY <1>2, <2>1, PlanTypes
<1>5. /\ Shapes' /\ RunInv' /\ AttemptsKnown' /\ OneOrderPerIntent'
      /\ Current'.plan = q /\ q # None
  BY <1>1, <1>2, <1>3, <1>4, NewPlanStep
<1>6. RankedInv'
  BY <1>1, <1>4, <1>5 DEF HandoffInv, RankedInv, RunOnly
<1>7. ~Liquidating
  BY <1>1, <1>2 DEF Liquidating
<1> QED BY <1>5, <1>6, <1>7 DEF HandoffInv

\* Halving keeps the inductive invariant: a plan that is not stale is of this month.
LEMMA HalveStep ==
  ASSUME HandoffInv, Halve
  PROVE  HandoffInv' /\ ~Liquidating
<1> USE DEF calendar, operator, broker, history
<1>1. /\ run # NoRun /\ RunOnly /\ UNCHANGED <<orders, close, ranked, settlements>>
      /\ run.work.plan.kind = "ranked"
      /\ Replaces(run.work, Plan(approved, "halved", run.work.plan.signal))
  BY DEF Halve, Planning, NoRun, RunOnly
<1>2. /\ Current = run.work /\ run.work \in StateType /\ approved \in Releases
      /\ month \in 1..MaxMonth /\ close \in 1..MaxClose
  BY <1>1, Working
<1>3. run.work.plan \in PlanType
  BY <1>1, <1>2, Working DEF Halve, Stored
<1>4. PICK q \in PlanType :
        /\ q = Plan(approved, "halved", run.work.plan.signal) /\ q.home = approved
        /\ q.month = month /\ \A i \in Intents : q.tries[i].n = 0
  <2>1. /\ "halved" \in Kinds /\ run.work.plan.signal \in 0..MaxClose
        /\ run.work.plan.signal # 0
    BY <1>1, <1>3 DEF Kinds, PlanType
  <2> QED BY <1>2, <2>1, PlanTypes
<1>5. /\ Shapes' /\ RunInv' /\ AttemptsKnown' /\ OneOrderPerIntent'
      /\ Current'.plan = q /\ q # None
  BY <1>1, <1>2, <1>4, NewPlanStep
<1>6. RankedInv'
  BY <1>1, <1>4, <1>5 DEF HandoffInv, RankedInv, RunOnly
<1>7. ~Liquidating
  BY <1>1, <1>2 DEF Liquidating
<1> QED BY <1>5, <1>6, <1>7 DEF HandoffInv

\* A ranking keeps the inductive invariant, and its month was not ranked: it has no
\* plan in force, and no completed one that was not a liquidation.
LEMMA RankStep ==
  ASSUME HandoffInv, Rank
  PROVE  HandoffInv' /\ month \notin ranked /\ ~Liquidating
<1> USE DEF calendar, operator, broker, history
<1>1. /\ run # NoRun /\ RunOnly /\ UNCHANGED <<orders, settlements>>
      /\ run.work.plan = None /\ (run.work.done # month \/ run.work.latch)
      /\ close < MaxClose /\ close' = close + 1 /\ ranked' = ranked \union {month}
      /\ Replaces(run.work, Plan(approved, "ranked", close + 1))
  BY DEF Rank, Planning, NoRun, RunOnly, RanksAnew, ReentryReady
<1>2. /\ Current = run.work /\ run.work \in StateType /\ approved \in Releases
      /\ month \in 1..MaxMonth /\ close \in 1..MaxClose /\ month \in Nat
  BY <1>1, Working
<1>3. close + 1 \in 0..MaxClose /\ close' \in 1..MaxClose /\ close + 1 # 0
  BY <1>1, <1>2, BoundsAssumption
<1>4. PICK q \in PlanType :
        /\ q = Plan(approved, "ranked", close + 1) /\ q.home = approved /\ q.month = month
        /\ \A i \in Intents : q.tries[i].n = 0
  <2>1. "ranked" \in Kinds
    BY DEF Kinds
  <2> QED BY <1>2, <1>3, <2>1, PlanTypes
<1>5. /\ Shapes' /\ RunInv' /\ AttemptsKnown' /\ OneOrderPerIntent'
      /\ Current'.plan = q /\ q # None
  BY <1>1, <1>2, <1>3, <1>4, NewPlanStep
<1>6. month \notin ranked
  BY <1>1, <1>2 DEF HandoffInv, RankedInv
<1>7. RankedInv'
  <2>1. ranked \subseteq 1..month /\ month \in 1..month /\ month' = month
    BY <1>1, <1>2 DEF HandoffInv, RankedInv, RunOnly
  <2>2. ranked' \subseteq 1..month
    BY <1>1, <2>1
  <2> QED BY <2>1, <2>2, <1>4, <1>5 DEF RankedInv
<1>8. ~Liquidating
  BY <1>1, <1>2 DEF Liquidating
<1> QED BY <1>5, <1>6, <1>7, <1>8 DEF HandoffInv

\* Dropping a stale plan keeps the inductive invariant: it is of an earlier month.
LEMMA DropStep ==
  ASSUME HandoffInv, Drop
  PROVE  HandoffInv' /\ ~Liquidating
<1> USE DEF calendar, operator, broker, history
<1>1. /\ run # NoRun /\ RunOnly /\ UNCHANGED <<orders, close, ranked, settlements>>
      /\ run.work.plan # None /\ run.work.plan.kind # "off" /\ Stale(run.work.plan)
      /\ run' = [run EXCEPT !.work = [run.work EXCEPT !.plan = None]]
  BY DEF Drop, Planning, NoRun, RunOnly, Stored, Works, Stale
<1>2. /\ Current = run.work /\ run.work \in StateType /\ run \in RunType
      /\ month \in 1..MaxMonth /\ close \in 1..MaxClose
      /\ run.carried \/ run.work.plan.home = approved
  BY <1>1, Working
<1>3. /\ run'.work \in StateType /\ run'.work.plan = None /\ run'.work.rel = run.work.rel
      /\ run' \in RunType
  <2>1. [run.work EXCEPT !.plan = None] \in StateType
    BY <1>2 DEF StateType
  <2> QED BY <1>1, <1>2, <2>1 DEF StateType, RunType
<1>4. Shapes' /\ RunInv' /\ Current' = run'.work
  <2>1. orders' \in [Ids -> Statuses] /\ close' \in 1..MaxClose /\ settlements' = settlements
    BY <1>1, <1>2 DEF HandoffInv, Shapes
  <2> QED BY <1>1, <1>3, <2>1, WorkUpdated
<1>5. AttemptsKnown' /\ OneOrderPerIntent'
  BY <1>1, <1>3, <1>4 DEF HandoffInv, AttemptsKnown, OneOrderPerIntent
<1>6. month \notin ranked
  BY <1>1, <1>2 DEF HandoffInv, RankedInv, Stale
<1>7. RankedInv'
  BY <1>1, <1>6 DEF HandoffInv, RankedInv, RunOnly
<1>8. ~Liquidating
  BY <1>1, <1>2 DEF Liquidating
<1> QED BY <1>4, <1>5, <1>7, <1>8 DEF HandoffInv

\* Consuming the latch keeps it: while it is set without a plan the month is not ranked.
LEMMA ConsumeLatchStep ==
  ASSUME HandoffInv, ConsumeLatch
  PROVE  HandoffInv' /\ ~Liquidating
<1> USE DEF calendar, operator, broker, history
<1>1. /\ run # NoRun /\ RunOnly /\ UNCHANGED <<orders, close, ranked, settlements>>
      /\ run.work.plan = None /\ run.work.latch
      /\ run' = [run EXCEPT !.work = [run.work EXCEPT !.latch = FALSE]]
  BY DEF ConsumeLatch, Planning, NoRun, RunOnly, Stored, Works
<1>2. /\ Current = run.work /\ run.work \in StateType /\ run \in RunType
      /\ month \in 1..MaxMonth /\ close \in 1..MaxClose
  BY <1>1, Working
<1>3. /\ run'.work \in StateType /\ run'.work.plan = None /\ run'.work.rel = run.work.rel
      /\ run' \in RunType
  <2>1. [run.work EXCEPT !.latch = FALSE] \in StateType
    BY <1>2 DEF StateType
  <2> QED BY <1>1, <1>2, <2>1 DEF StateType, RunType
<1>4. Shapes' /\ RunInv' /\ Current' = run'.work
  <2>1. orders' \in [Ids -> Statuses] /\ close' \in 1..MaxClose /\ settlements' = settlements
    BY <1>1, <1>2 DEF HandoffInv, Shapes
  <2> QED BY <1>1, <1>3, <2>1, WorkUpdated
<1>5. AttemptsKnown' /\ OneOrderPerIntent'
  BY <1>1, <1>3, <1>4 DEF HandoffInv, AttemptsKnown, OneOrderPerIntent
<1>6. month \notin ranked
  BY <1>1, <1>2 DEF HandoffInv, RankedInv
<1>7. RankedInv'
  BY <1>1, <1>6 DEF HandoffInv, RankedInv, RunOnly
<1>8. ~Liquidating
  BY <1>1, <1>2 DEF Liquidating
<1> QED BY <1>4, <1>5, <1>7, <1>8 DEF HandoffInv

\* Recording an attempt of one intent leaves the plan otherwise as it is.
LEMMA AttemptRecorded ==
  ASSUME NEW p \in PlanType, NEW i \in Intents, NEW n \in 1..MaxTries, NEW b \in BOOLEAN,
         NEW q, q = [p EXCEPT !.tries[i] = [n |-> n, sent |-> b]]
  PROVE  /\ q \in PlanType /\ q.home = p.home /\ q.month = p.month
         /\ q.signal = p.signal /\ q.kind = p.kind /\ q.tries[i].n = n
         /\ \A j \in Intents : j # i => q.tries[j] = p.tries[j]
  BY DEF PlanType

\* The number of the attempt a send makes: the last one's if the broker never saw
\* it, else the next one.
Number(p, i) == IF Unknown(p, i) THEN p.tries[i].n ELSE p.tries[i].n + 1
\* The attempt before it died.
LEMMA NumberFollows ==
  ASSUME HandoffInv, run # NoRun, NEW p \in PlanType, p = Current.plan, NEW i \in Intents,
         MayRetry(p, i), Number(p, i) <= MaxTries
  PROVE  /\ Number(p, i) \in 1..MaxTries
         /\ \A m \in 1..MaxTries : m + 1 = Number(p, i) => orders[Attempt(p, i, m)] = "dead"
<1>1. p.tries[i].n \in 0..MaxTries
  BY DEF PlanType
<1>2. Number(p, i) \in 1..MaxTries
  BY <1>1, BoundsAssumption DEF Number, Unknown
<1>3. ASSUME NEW m \in 1..MaxTries, m + 1 = Number(p, i)
      PROVE  orders[Attempt(p, i, m)] = "dead"
  <2>1. CASE Unknown(p, i)
    BY <2>1, <1>3, Sentinels DEF Number, HandoffInv, AttemptsKnown
  <2>2. CASE ~Unknown(p, i)
    <3>1. p.tries[i].n = m
      BY <2>2, <1>1, <1>3 DEF Number
    <3>2. Dead(p, i)
      BY <2>2, <3>1 DEF MayRetry
    <3> QED BY <3>1, <3>2 DEF Dead, Id, Attempt
  <2> QED BY <2>1, <2>2
<1> QED BY <1>2, <1>3

\* Sending an order keeps the inductive invariant, and the plan what it is.
LEMMA SendStep ==
  ASSUME HandoffInv, Send
  PROVE  HandoffInv' /\ (Liquidating => Liquidating')
<1> USE DEF calendar, operator, broker, history
<1>1. run # NoRun /\ RunOnly /\ UNCHANGED <<close, ranked, settlements>>
  BY DEF Send, Tradeable, RunOnly
<1>2. /\ Shapes /\ run \in RunType /\ run.work \in StateType /\ Current = run.work
      /\ orders \in [Ids -> Statuses] /\ close \in 1..MaxClose
  BY <1>1, Working DEF Shapes
<1>3. PICK p \in PlanType : p = run.work.plan
  BY <1>1, Working DEF Send, Tradeable, Stored
<1>4. PICK i \in Intents, b \in BOOLEAN :
        /\ MayRetry(p, i) /\ Attempted(p, i, b).tries[i].n <= MaxTries
        /\ run' = [run EXCEPT !.work.plan = Attempted(p, i, b), !.stage = "sent"]
        /\ \/ orders' = orders
           \/ /\ orders[Id(Attempted(p, i, b), i)] = "none"
              /\ \E status \in {"active", "hidden"} :
                   orders' = [orders EXCEPT ![Id(Attempted(p, i, b), i)] = status]
  BY <1>3 DEF Send
<1>5. p.tries[i] \in [n : 0..MaxTries, sent : BOOLEAN] /\ p.tries \in [Intents -> [n : 0..MaxTries, sent : BOOLEAN]]
  BY DEF PlanType
<1>6. Attempted(p, i, b) = [p EXCEPT !.tries[i] = [n |-> Number(p, i), sent |-> b]]
  BY DEF Attempted, Number
<1>7. Attempted(p, i, b).tries[i].n = Number(p, i)
  <2> HIDE DEF Number
  <2> QED BY <1>5, <1>6 DEF PlanType
<1>8. /\ Number(p, i) \in 1..MaxTries
      /\ \A m \in 1..MaxTries : m + 1 = Number(p, i) => orders[Attempt(p, i, m)] = "dead"
  BY <1>1, <1>2, <1>3, <1>4, <1>7, NumberFollows
<1>9. PICK n \in 1..MaxTries :
        /\ n = Number(p, i)
        /\ \A m \in 1..MaxTries : m + 1 = n => orders[Attempt(p, i, m)] = "dead"
  BY <1>8
<1>10. PICK q \in PlanType :
         /\ q = Attempted(p, i, b) /\ q.home = p.home /\ q.month = p.month
         /\ q.signal = p.signal /\ q.kind = p.kind /\ q.tries[i].n = n
         /\ \A j \in Intents : j # i => q.tries[j] = p.tries[j]
  <2>1. Attempted(p, i, b) = [p EXCEPT !.tries[i] = [n |-> n, sent |-> b]]
    BY <1>6, <1>9
  <2> QED BY <2>1, AttemptRecorded
<1>11. PICK key \in Ids : key = Attempt(p, i, n) /\ key = Id(Attempted(p, i, b), i)
  <2>1. Id(Attempted(p, i, b), i) = Attempt(p, i, n)
    BY <1>10 DEF Id, Attempt
  <2> QED BY <2>1, AttemptIds
<1>12. \/ orders' = orders
       \/ /\ orders[key] = "none"
          /\ \E status \in {"active", "hidden"} : orders' = [orders EXCEPT ![key] = status]
  BY <1>4, <1>11
<1>13. /\ run'.work \in StateType /\ run'.carried = run.carried /\ run'.work.plan = q
       /\ run'.work.rel = run.work.rel /\ run' \in RunType
  <2>1. run' = [run EXCEPT !.work.plan = q, !.stage = "sent"]
    BY <1>4, <1>10
  <2> QED BY <1>2, <2>1 DEF StateType, RunType
<1>14. Shapes' /\ RunInv' /\ Current' = run'.work
  <2>1. orders' \in [Ids -> Statuses]
    BY <1>2, <1>12 DEF Statuses
  <2>2. run'.carried \/ run'.work.plan.home = approved
    BY <1>1, <1>3, <1>10, <1>13, Sentinels, Working
  <2>3. close' \in 1..MaxClose /\ settlements' = settlements
    BY <1>1, <1>2
  <2> QED BY <1>1, <1>13, <2>1, <2>2, <2>3, WorkUpdated
\* Orders that died stay dead; every other ID is as it was.
<1>15. /\ \A k \in Ids : k # key => orders'[k] = orders[k]
       /\ \A k \in Ids : orders[k] = "dead" => orders'[k] = "dead"
       /\ orders'[key] # orders[key] => orders[key] = "none"
  BY <1>2, <1>12
<1>16. AttemptsKnown'
  <2> SUFFICES ASSUME NEW j \in Intents, NEW m \in 1..MaxTries, m + 1 = q.tries[j].n
               PROVE  orders'[Attempt(p, j, m)] = "dead"
    BY <1>10, <1>13, <1>14 DEF AttemptsKnown, Attempt
  <2>1. orders[Attempt(p, j, m)] = "dead"
    <3>1. CASE j = i
      BY <3>1, <1>9, <1>10
    <3>2. CASE j # i
      BY <3>2, <1>2, <1>3, <1>10, Sentinels DEF HandoffInv, AttemptsKnown
    <3> QED BY <3>1, <3>2
  <2> QED BY <2>1, <1>15, AttemptIds
<1>17. OneOrderPerIntent'
  <2> SUFFICES ASSUME NEW k \in Ids, k[6] > 1, orders'[k] # "none"
               PROVE  orders'[<<k[1], k[2], k[3], k[4], k[5], k[6] - 1>>] = "dead"
    BY DEF OneOrderPerIntent
  <2>1. <<k[1], k[2], k[3], k[4], k[5], k[6] - 1>> \in Ids
    BY BoundsAssumption DEF Ids
  <2>2. CASE orders[k] # "none"
    BY <2>1, <2>2, <1>15 DEF HandoffInv, OneOrderPerIntent
  <2>3. CASE orders[k] = "none"
    <3>1. k = key
      BY <2>3, <1>15
    <3>2. k[6] = n
      BY <3>1, <1>11 DEF Attempt
    <3>3. n - 1 \in 1..MaxTries /\ (n - 1) + 1 = n
      BY <3>2, BoundsAssumption
    <3>4. <<k[1], k[2], k[3], k[4], k[5], k[6] - 1>> = Attempt(p, i, n - 1)
      BY <3>1, <3>2, <1>11 DEF Attempt
    <3> QED BY <3>3, <3>4, <2>1, <1>9, <1>15
  <2> QED BY <2>2, <2>3
<1>18. RankedInv'
  BY <1>1, <1>2, <1>3, <1>10, <1>13, <1>14, Sentinels DEF HandoffInv, RankedInv, RunOnly
<1>19. Liquidating => Liquidating'
  BY <1>2, <1>3, <1>10, <1>13, <1>14, Sentinels DEF Liquidating
<1> QED BY <1>14, <1>16, <1>17, <1>18, <1>19 DEF HandoffInv

\* Completing a plan keeps the inductive invariant; a liquidation completes with
\* nothing held, and opens its month again.
LEMMA CompleteStep ==
  ASSUME HandoffInv, Complete
  PROVE  HandoffInv' /\ (Liquidating => held = {})
<1> USE DEF calendar, operator, broker, history
<1>1. /\ run # NoRun /\ RunOnly /\ UNCHANGED <<orders, close, settlements>>
      /\ run.work.plan # None /\ ~Stale(run.work.plan) /\ Converged(run.work.plan)
  BY DEF Complete, Tradeable, Stored, RunOnly
<1>2. /\ run \in RunType /\ run.work \in StateType /\ Current = run.work
      /\ close \in 1..MaxClose /\ month \in Nat
  BY <1>1, Working
<1>3. PICK p \in PlanType : p = run.work.plan
  BY <1>1, Working
<1>4. PICK off \in BOOLEAN :
        /\ off <=> p.kind = "off"
        /\ run' = [run EXCEPT !.stage = "over",
                     !.work = [run.work EXCEPT !.plan = None, !.done = p.month,
                                               !.dated = (p.kind # "off"), !.latch = (p.kind = "off")]]
        /\ ranked' = IF p.kind = "off" THEN ranked \ {p.month} ELSE ranked
  <2>1. /\ run' = [run EXCEPT !.stage = "over",
                     !.work = [run.work EXCEPT !.plan = None, !.done = p.month,
                                               !.dated = ~(p.kind = "off"), !.latch = (p.kind = "off")]]
        /\ ranked' = IF p.kind = "off" THEN ranked \ {p.month} ELSE ranked
    BY <1>3 DEF Complete
  <2> QED BY <2>1
<1>5. /\ run'.work \in StateType /\ run'.work.plan = None /\ run'.work.rel = run.work.rel
      /\ run'.work.done = p.month /\ (run'.work.latch <=> p.kind = "off") /\ run' \in RunType
  <2>1. PICK b1 \in BOOLEAN, b2 \in BOOLEAN :
          /\ b1 = (p.kind # "off") /\ b2 = (p.kind = "off")
          /\ run' = [run EXCEPT !.stage = "over",
               !.work = [run.work EXCEPT !.plan = None, !.done = p.month, !.dated = b1, !.latch = b2]]
    BY <1>4
  <2>2. p.month \in 0..MaxMonth
    BY DEF PlanType
  <2>3. PICK w \in StateType :
          /\ w = [run.work EXCEPT !.plan = None, !.done = p.month, !.dated = b1, !.latch = b2]
          /\ w.plan = None /\ w.rel = run.work.rel /\ w.done = p.month /\ w.latch = b2
    <3>1. [run.work EXCEPT !.plan = None, !.done = p.month, !.dated = b1, !.latch = b2] \in StateType
      BY <1>2, <2>2 DEF StateType
    <3> QED BY <1>2, <3>1 DEF StateType
  <2>4. run' = [run EXCEPT !.stage = "over", !.work = w]
    BY <2>1, <2>3
  <2>5. run'.work = w /\ run' \in RunType
    BY <1>2, <2>4 DEF RunType
  <2> QED BY <2>1, <2>3, <2>5
<1>6. Shapes' /\ RunInv' /\ Current' = run'.work
  <2>1. orders' \in [Ids -> Statuses] /\ close' \in 1..MaxClose /\ settlements' = settlements
    BY <1>1, <1>2 DEF HandoffInv, Shapes
  <2> QED BY <1>1, <1>5, <2>1, WorkUpdated
<1>7. AttemptsKnown' /\ OneOrderPerIntent'
  BY <1>1, <1>5, <1>6 DEF HandoffInv, AttemptsKnown, OneOrderPerIntent
<1>8. RankedInv'
  <2>1. ranked \subseteq 1..month /\ ranked' \subseteq ranked /\ month' = month
    BY <1>1, <1>4 DEF HandoffInv, RankedInv, RunOnly
  <2>2. ASSUME month \in ranked' PROVE Current'.done = month /\ ~Current'.latch
    <3>1. month \in ranked /\ p.month = month
      BY <2>1, <2>2, <1>1, <1>2, <1>3 DEF HandoffInv, RankedInv
    <3>2. p.kind # "off"
      BY <2>2, <3>1, <1>4
    <3> QED BY <3>1, <3>2, <1>5, <1>6
  <2> QED BY <2>1, <2>2, <1>5, <1>6 DEF RankedInv
<1>9. Liquidating => held = {}
  BY <1>1, <1>2 DEF Liquidating, Converged
<1> QED BY <1>6, <1>7, <1>8, <1>9 DEF HandoffInv

\* After a settlement nothing is in force and every month may be ranked.
LEMMA SettleStep ==
  ASSUME HandoffInv, Settle
  PROVE  HandoffInv' /\ settlements' # settlements
<1> USE DEF calendar, operator, broker, history
<1>1. PICK s \in archive, t \in Releases :
        /\ run = NoRun /\ settlements' = settlements + 1 /\ ranked' = {}
        /\ state' = [s EXCEPT !.rel = t, !.plan = None, !.evidence = None, !.settled = TRUE,
                              !.passed = TRUE]
        /\ UNCHANGED <<orders, stray, held, month, close, approved, pin, archive, run>>
  BY DEF Settle
<1>2. Shapes /\ s \in StateType
  BY <1>1 DEF HandoffInv, Shapes
<1>3. state' \in StateType /\ state'.plan = None
  BY <1>1, <1>2 DEF StateType
<1>4. Current' = state' /\ run' = NoRun /\ settlements' \in Nat /\ settlements' # settlements
  BY <1>1, <1>2 DEF Current, NoRun, Shapes
<1>5. Shapes' /\ RunInv'
  BY <1>1, <1>2, <1>3, <1>4 DEF Shapes, RunInv, NoRun
<1>6. AttemptsKnown' /\ OneOrderPerIntent' /\ RankedInv'
  BY <1>1, <1>3, <1>4 DEF HandoffInv, AttemptsKnown, OneOrderPerIntent, RankedInv
<1> QED BY <1>4, <1>5, <1>6 DEF HandoffInv

(***************************************************************************)
(* The theorems.                                                           *)
(***************************************************************************)
\* Every action keeps the inductive invariant, ranks only a month that is open, and
\* gives a liquidation up with nothing held or by a settlement.
LEMMA HandoffStep ==
  ASSUME HandoffInv, [Next]_vars
  PROVE  /\ HandoffInv'
         /\ Rank => month \notin ranked
         /\ Liquidating /\ settlements' = settlements => Liquidating' \/ held = {}
<1>1. CASE Outside
  <2>1. HandoffInv' /\ UNCHANGED Current
    BY <1>1, OutsideStep
  <2> QED BY <2>1, RankStep DEF Liquidating
<1>2. CASE StartRun
  BY <1>2, StartRunStep, RankStep DEF PlanStays, Liquidating
<1>3. CASE EndRun
  BY <1>3, EndRunStep, RankStep DEF PlanStays, Liquidating
<1>4. CASE Halt
  BY <1>4, HaltStep, RankStep
<1>5. CASE Drop
  BY <1>5, DropStep, RankStep
<1>6. CASE Halve
  BY <1>6, HalveStep, RankStep
<1>7. CASE ConsumeLatch
  BY <1>7, ConsumeLatchStep, RankStep
<1>8. CASE Rank
  BY <1>8, RankStep
<1>9. CASE Send
  BY <1>9, SendStep, RankStep
<1>10. CASE Complete
  BY <1>10, CompleteStep, RankStep
<1>11. CASE Settle
  BY <1>11, SettleStep, RankStep
<1>12. CASE UNCHANGED vars
  <2>1. UNCHANGED <<orders, stray, held, month, close, approved, pin, state, archive, run, ranked,
                    settlements>>
    BY <1>12 DEF vars, broker, calendar, operator, history
  <2>2. UNCHANGED Current
    BY <2>1 DEF Current, NoRun
  <2>3. HandoffInv'
    BY <2>1, <2>2 DEF HandoffInv, Shapes, RunInv, AttemptsKnown, OneOrderPerIntent, RankedInv, NoRun
  <2> QED BY <2>2, <2>3, RankStep DEF Liquidating
<1> QED BY <1>1, <1>2, <1>3, <1>4, <1>5, <1>6, <1>7, <1>8, <1>9, <1>10, <1>11, <1>12
    DEF Next, Outside

\* Every reachable state satisfies the inductive invariant, re-entries after a
\* liquidation included.
THEOREM HandoffCorrect == Spec => []HandoffInv
<1>1. HandoffInv /\ [Next]_vars => HandoffInv'
  BY HandoffStep
<1> QED BY <1>1, InitHandoff, PTL DEF Spec

\* The state, the evidence behind it and the manifest are well formed: a plan is
\* handed over twice at most, whatever the operators prepare and approve.
THEOREM HandoffTypes == Spec => []TypeOK
<1>1. HandoffInv => TypeOK
  <2> SUFFICES ASSUME HandoffInv PROVE TypeOK
    OBVIOUS
  <2>1. /\ orders \in [Ids -> Statuses] /\ stray \in {"none", "active", "filled"}
        /\ held \subseteq Assets /\ approved \in Releases
    BY DEF HandoffInv, Shapes
  <2>2. /\ state \in StateType /\ archive \subseteq StateType /\ pin \in Hops \cup {None}
        /\ run \in RunType
    BY DEF HandoffInv, Shapes
  <2>3. {state} \union archive \union ({run.work} \ {None}) \subseteq StateType /\ run.carried \in BOOLEAN
    BY <2>2 DEF RunType
  <2> QED BY <2>1, <2>2, <2>3 DEF TypeOK, Statuses
<1> QED BY <1>1, HandoffCorrect, PTL

\* No attempt at an intent follows one that works, filled or is unanswered,
\* whatever hops and refused runs lie between (runtime_handoff.py:274-294).
THEOREM IntentsTradedOnce == Spec => []OneOrderPerIntent
<1>1. HandoffInv => OneOrderPerIntent
  BY DEF HandoffInv
<1> QED BY <1>1, HandoffCorrect, PTL

\* Only a completed liquidation or a settlement lets a month be ranked again
\* (runtime_handoff.py:806-835, execute_trades.py:2788-2794, 2845-2849).
THEOREM EpisodesRankedOnce == Spec => RankedOncePerEpisode
<1>1. HandoffInv /\ [Next]_vars => [Rank => month \notin ranked]_vars
  BY HandoffStep
<1> QED BY <1>1, HandoffCorrect, PTL DEF Spec, RankedOncePerEpisode

\* A liquidation is given up with nothing held or by a settlement, whatever the
\* tier recovers to and whichever releases follow (execute_trades.py:2500-2522).
THEOREM LiquidationsKept == Spec => LiquidationKept
<1>1. HandoffInv /\ [Next]_vars
        => [Liquidating /\ settlements' = settlements => Liquidating' \/ held = {}]_vars
  BY HandoffStep
<1> QED BY <1>1, HandoffCorrect, PTL DEF Spec, LiquidationKept
=============================================================================
