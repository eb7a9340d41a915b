------------------------- MODULE LiveProductionProofs -------------------------
(***************************************************************************)
(* Proofs about LiveProduction, for any limits, prices, releases and       *)
(* bounds.                                                                 *)
(***************************************************************************)
EXTENDS LiveProduction, SequenceTheorems, SumTheorems

Order == [side : {"buy", "sell"}, limit : Prices,
          status : {"open", "hidden", "filled", "dead"}]
Entry == [release : Releases, executed : {"skipped", "done", "unknown"},
          artifact : BOOLEAN, knows : Nat]
Job == [phase : {"idle", "start", "restored", "trading", "checking", "authorised"},
        release : Releases \cup {"none"}, execute : BOOLEAN, knows : Nat,
        limit : Prices \cup {0}, side : {"none", "buy", "sell"}]

\* The book, the history and the run; and what a run holds when it is past its
\* start, and before it submits.
Shapes ==
  /\ orders \in Seq(Order) /\ history \in Seq(Entry) /\ job \in Job
  /\ kill \in BOOLEAN /\ release \in Releases
  /\ job.phase # "idle" => job.release \in Releases
  /\ job.phase = "checking" => job.side = "buy" /\ job.limit \in Prices
  /\ job.phase = "authorised" => job.side # "none" /\ job.limit \in Prices

\* Between executions, an artifact with no execution after it knows every order, and
\* without any execution there is no order.
Remembered ==
  /\ ~InProcess =>
       /\ \A i \in DOMAIN history :
            history[i].artifact /\ NothingAfter(i) => history[i].knows = Len(orders)
       /\ NoEarlierExecution => Len(orders) = 0
  /\ job.phase \in {"idle", "start"} => job.knows = 0
  /\ NothingForgotten

\* A BUY that passed the kill switch before it was set is the last.
SwitchInv ==
  /\ late \in {0, 1}
  /\ late = 1 => kill /\ ~(job.phase \in {"checking", "authorised"} /\ job.side = "buy")

LiveInv == Shapes /\ Remembered /\ SwitchInv

\* The newest of some runs is one of them.
LEMMA MaxMember ==
  ASSUME NEW n \in Nat, NEW S \in SUBSET (1..n), S # {}
  PROVE  Max(S) \in S
<1> DEFINE T == {n - i : i \in S}
<1>1. T \in SUBSET Nat /\ T # {}
  <2>1. \A i \in S : i \in 1..n
    OBVIOUS
  <2>2. \A i \in S : n - i \in Nat
    BY <2>1
  <2> QED BY <2>2
<1>2. PICK x \in T : \A y \in T : x <= y
  <2> HIDE DEF T
  <2> QED BY <1>1, LeastNumber
<1>3. \A y \in T : ~(y < x)
  <2> HIDE DEF T
  <2> QED BY <1>1, <1>2
<1>4. PICK i \in S : x = n - i
  BY <1>2
<1>5. \A j \in S : i >= j
  BY <1>3, <1>4
<1> QED BY <1>5 DEF Max

\* An empty history and an empty book know of each other.
LEMMA LiveInit == Init => LiveInv
<1> SUFFICES ASSUME Init PROVE LiveInv
  OBVIOUS
<1>1. Shapes
  BY EmptySeq DEF Init, Shapes, NoJob, Job
<1>2. Remembered
  BY DEF Init, Remembered, NoJob, InProcess, NothingForgotten
<1>3. SwitchInv
  BY DEF Init, SwitchInv
<1> QED BY <1>1, <1>2, <1>3 DEF LiveInv

\* Steps that leave runs and orders alone, the status of an order aside.
LEMMA Elsewhere ==
  ASSUME LiveInv, UNCHANGED <<history, job>>, kill' \in BOOLEAN, release' \in Releases,
         orders' \in Seq(Order), Len(orders') = Len(orders),
         late' = 0 \/ (late' = late /\ kill' = kill)
  PROVE  LiveInv'
<1>1. Shapes'
  BY DEF LiveInv, Shapes
<1>2. Remembered'
  BY DEF LiveInv, Remembered, InProcess, NothingForgotten, NothingAfter, NoEarlierExecution
<1>3. SwitchInv'
  BY DEF LiveInv, SwitchInv
<1> QED BY <1>1, <1>2, <1>3 DEF LiveInv

\* An order that fills, dies or appears is no new order.
LEMMA StatusChanges ==
  ASSUME LiveInv, NEW i \in DOMAIN orders, NEW s \in {"open", "filled", "dead"},
         orders' = [orders EXCEPT ![i].status = s],
         UNCHANGED <<history, job, kill, release, late>>
  PROVE  LiveInv'
<1>1. orders \in Seq(Order) /\ i \in 1..Len(orders)
  BY DEF LiveInv, Shapes
<1>2. [orders[i] EXCEPT !.status = s] \in Order
  <2>1. orders[i] \in Order
    BY <1>1, ElementOfSeq
  <2> QED BY <2>1 DEF Order
<1>3. orders' = [orders EXCEPT ![i] = [orders[i] EXCEPT !.status = s]]
  BY <1>1
<1>4. orders' \in Seq(Order) /\ Len(orders') = Len(orders)
  BY <1>1, <1>2, <1>3, ExceptSeq
<1> QED BY <1>4, Elsewhere DEF LiveInv, Shapes

\* Steps of the run that leave orders and history alone.
LEMMA RunGoesOn ==
  ASSUME LiveInv, UNCHANGED <<orders, history, operator, late>>, job' \in Job,
         job.phase # "idle", job'.phase # "idle", job'.release = job.release,
         job'.knows = job.knows, InProcess, InProcess',
         job'.phase = "checking" => job'.side = "buy" /\ job'.limit \in Prices,
         job'.phase = "authorised" => job'.side # "none" /\ job'.limit \in Prices,
         (job'.phase \in {"checking", "authorised"} /\ job'.side = "buy") =>
            ~kill \/ (job.phase \in {"checking", "authorised"} /\ job.side = "buy")
  PROVE  LiveInv'
<1>1. Shapes'
  BY DEF LiveInv, Shapes, operator
<1>2. Remembered'
  BY DEF LiveInv, Remembered, InProcess, NothingForgotten
<1>3. SwitchInv'
  BY DEF LiveInv, SwitchInv, operator
<1> QED BY <1>1, <1>2, <1>3 DEF LiveInv

\* What the end of a run adds to the history.
LEMMA HistoryGrows ==
  ASSUME LiveInv, NEW executed \in {"skipped", "done", "unknown"}, NEW artifact \in BOOLEAN,
         job.phase # "idle", Ended(executed, artifact), NEW n, n = Len(history)
  PROVE  /\ n \in Nat /\ history' \in Seq(Entry) /\ DOMAIN history = 1..n
         /\ DOMAIN history' = 1..(n + 1)
         /\ \A i \in 1..n : history'[i] = history[i]
         /\ history'[n + 1].executed = executed /\ history'[n + 1].artifact = artifact
         /\ history'[n + 1].knows = job.knows
<1> DEFINE e == [release |-> job.release, executed |-> executed, artifact |-> artifact,
                 knows |-> job.knows]
<1>1. e \in Entry
  BY DEF LiveInv, Shapes, Entry, Job
<1>2. history \in Seq(Entry) /\ history' = Append(history, e)
  BY DEF LiveInv, Shapes, Ended
<1> HIDE DEF e
<1>3. /\ history' \in Seq(Entry) /\ Len(history') = Len(history) + 1
      /\ \A i \in 1..Len(history) : history'[i] = history[i]
      /\ history'[Len(history) + 1] = e
  BY <1>1, <1>2, AppendProperties
<1> QED BY <1>2, <1>3, LenProperties DEF e

\* A run that did not execute ends.
LEMMA UnexecutedEnds ==
  ASSUME LiveInv, NEW executed \in {"skipped", "unknown"}, Ended(executed, FALSE),
         job.phase \in {"start", "restored"}, job' = NoJob,
         UNCHANGED <<orders, operator, late>>
  PROVE  LiveInv'
<1> DEFINE n == Len(history)
<1>0. job.phase # "idle" /\ executed \in {"skipped", "done", "unknown"} /\ FALSE \in BOOLEAN
  OBVIOUS
<1>1. /\ n \in Nat /\ history' \in Seq(Entry) /\ DOMAIN history = 1..n
      /\ DOMAIN history' = 1..(n + 1)
      /\ \A i \in 1..n : history'[i] = history[i]
      /\ ~history'[n + 1].artifact
  BY <1>0, HistoryGrows
<1> HIDE DEF n
<1>2. Shapes'
  BY <1>1 DEF LiveInv, Shapes, NoJob, Job, operator
<1>3. ~InProcess /\ ~InProcess' /\ Len(orders') = Len(orders)
  BY DEF InProcess, NoJob
<1>4. \A i \in DOMAIN history' :
        history'[i].artifact /\ NothingAfter(i)' => history'[i].knows = Len(orders')
  <2> SUFFICES ASSUME NEW i \in DOMAIN history', history'[i].artifact, NothingAfter(i)'
               PROVE  history'[i].knows = Len(orders')
    OBVIOUS
  <2>1. i \in 1..n /\ history'[i] = history[i]
    BY <1>1
  <2>2. NothingAfter(i)
    BY <1>1, <2>1 DEF NothingAfter
  <2> QED BY <1>1, <1>3, <2>1, <2>2 DEF LiveInv, Remembered
<1>5. NoEarlierExecution' => NoEarlierExecution
  BY <1>1 DEF NoEarlierExecution
<1>6. job'.knows = 0 /\ NothingForgotten'
  BY DEF NoJob, NothingForgotten, InProcess
<1>7. Remembered'
  BY <1>3, <1>4, <1>5, <1>6 DEF LiveInv, Remembered
<1>8. SwitchInv'
  BY DEF LiveInv, SwitchInv, NoJob, operator
<1> QED BY <1>2, <1>7, <1>8 DEF LiveInv

\* A process ends: its artifact, if there is one, knows every order, and no older one
\* is trusted again.
LEMMA ProcessEnds ==
  ASSUME LiveInv, NEW executed \in {"done", "unknown"}, NEW artifact \in BOOLEAN,
         Ended(executed, artifact), InProcess, job' = NoJob, UNCHANGED <<orders, operator, late>>
  PROVE  LiveInv'
<1> DEFINE n == Len(history)
<1>0. job.phase # "idle" /\ executed \in {"skipped", "done", "unknown"}
  BY DEF InProcess
<1>1. /\ n \in Nat /\ history' \in Seq(Entry) /\ DOMAIN history = 1..n
      /\ DOMAIN history' = 1..(n + 1)
      /\ history'[n + 1].executed = executed /\ history'[n + 1].knows = job.knows
  BY <1>0, HistoryGrows
<1> HIDE DEF n
<1>2. Shapes'
  BY <1>1 DEF LiveInv, Shapes, NoJob, Job, operator
<1>3. \A i \in DOMAIN history' :
        history'[i].artifact /\ NothingAfter(i)' => history'[i].knows = Len(orders')
  <2> SUFFICES ASSUME NEW i \in DOMAIN history', NothingAfter(i)'
               PROVE  history'[i].knows = Len(orders')
    OBVIOUS
  <2>1. i = n + 1
    BY <1>1 DEF NothingAfter
  <2> QED BY <1>1, <2>1 DEF LiveInv, Remembered, NothingForgotten
<1>4. ~NoEarlierExecution'
  BY <1>1 DEF NoEarlierExecution
<1>5. job'.knows = 0 /\ NothingForgotten'
  BY DEF NoJob, NothingForgotten, InProcess
<1>6. Remembered'
  BY <1>3, <1>4, <1>5 DEF Remembered
<1>7. SwitchInv'
  BY DEF LiveInv, SwitchInv, NoJob, operator
<1> QED BY <1>2, <1>6, <1>7 DEF LiveInv

\* The artifact that is restored knows every order.
LEMMA RestoreStep == ASSUME LiveInv, RestoreNative PROVE LiveInv'
<1> DEFINE newest == Max(Native(job.release))
<1>1. newest \in Native(job.release)
  <2>1. Len(history) \in Nat /\ DOMAIN history = 1..Len(history)
    BY DEF LiveInv, Shapes
  <2>2. Native(job.release) \in SUBSET (1..Len(history)) /\ Native(job.release) # {}
    BY <2>1 DEF Native, RestoreNative
  <2> QED BY <2>1, <2>2, MaxMember
<1>2. newest \in DOMAIN history /\ history[newest].artifact /\ NothingAfter(newest)
  BY <1>1 DEF Native, RestoreNative
<1>3. history[newest].knows = Len(orders)
  BY <1>2 DEF LiveInv, Remembered, InProcess, RestoreNative
<1>4. job' = [job EXCEPT !.phase = "restored", !.knows = Len(orders)]
  BY <1>3 DEF RestoreNative
<1>5. Len(orders) \in Nat
  BY DEF LiveInv, Shapes
<1> HIDE DEF newest
<1>6. Shapes'
  BY <1>4, <1>5 DEF LiveInv, Shapes, Job, RestoreNative, broker, operator
<1>7. Remembered'
  <2>1. job'.phase = "restored" /\ job'.knows = Len(orders') /\ ~InProcess
    BY <1>4, <1>5 DEF LiveInv, Shapes, Job, RestoreNative, InProcess, broker
  <2>2. UNCHANGED <<history, orders>>
    BY DEF RestoreNative, broker
  <2>3. /\ \A i \in DOMAIN history :
             history[i].artifact /\ NothingAfter(i) => history[i].knows = Len(orders)
        /\ NoEarlierExecution => Len(orders) = 0
    BY <2>1 DEF LiveInv, Remembered
  <2>4. NoEarlierExecution' => NoEarlierExecution
    BY <2>2 DEF NoEarlierExecution
  <2>5. \A i \in DOMAIN history : NothingAfter(i)' => NothingAfter(i)
    BY <2>2 DEF NothingAfter
  <2> QED BY <2>1, <2>2, <2>3, <2>4, <2>5 DEF Remembered, NothingForgotten
<1>8. SwitchInv'
  BY <1>4 DEF LiveInv, Shapes, Job, SwitchInv, RestoreNative, operator, ghosts
<1> QED BY <1>6, <1>7, <1>8 DEF LiveInv

\* A submitted order is known to the run that sent it.
LEMMA SubmitStep == ASSUME LiveInv, Submit PROVE LiveInv'
<1>1. PICK status \in {"open", "hidden", "dead"} :
        orders' = Append(orders, [side |-> job.side, limit |-> job.limit, status |-> status])
  BY DEF Submit
<1>2. [side |-> job.side, limit |-> job.limit, status |-> status] \in Order
  BY DEF LiveInv, Shapes, Job, Order, Submit
<1>3. orders' \in Seq(Order) /\ Len(orders') = Len(orders) + 1 /\ Len(orders) \in Nat
  BY <1>1, <1>2, AppendProperties, LenProperties DEF LiveInv, Shapes
<1>4. /\ job' = [job EXCEPT !.phase = "trading", !.limit = 0, !.side = "none", !.knows = @ + 1]
      /\ job.phase = "authorised" /\ UNCHANGED <<history, operator>>
      /\ late' = late + IF kill /\ job.side = "buy" THEN 1 ELSE 0
  BY DEF Submit
<1>5. Shapes'
  <2>1. job.knows + 1 \in Nat /\ job \in Job
    BY DEF LiveInv, Shapes, Job
  <2>2. /\ job' = [job EXCEPT !.phase = "trading", !.limit = 0, !.side = "none",
                               !.knows = job.knows + 1]
        /\ job'.phase = "trading" /\ job'.release = job.release
    BY <1>4, <2>1 DEF Job
  <2>3. job' \in Job
    BY <2>1, <2>2 DEF Job
  <2> QED BY <1>3, <1>4, <2>2, <2>3 DEF LiveInv, Shapes, operator
<1>6. Remembered'
  BY <1>3, <1>4 DEF LiveInv, Shapes, Job, Remembered, InProcess, NothingForgotten
<1>7. SwitchInv'
  BY <1>4 DEF LiveInv, Shapes, Job, SwitchInv, operator
<1> QED BY <1>5, <1>6, <1>7 DEF LiveInv

\* Every action keeps what runs and artifacts know.
LEMMA LiveStep == LiveInv /\ [Next]_vars => LiveInv'
<1> SUFFICES ASSUME LiveInv, [Next]_vars PROVE LiveInv'
  OBVIOUS
<1> USE DEF broker, operator, ghosts, bounds
<1>0. /\ orders \in Seq(Order) /\ kill \in BOOLEAN /\ release \in Releases /\ job \in Job
      /\ job.phase # "idle" => job.release \in Releases
  BY DEF LiveInv, Shapes
<1>1. CASE MovePrice \/ Deposit \/ SetKillSwitch \/ Approve \/ Read \/ UNCHANGED vars
  <2>1. /\ UNCHANGED <<history, job, orders>> /\ kill' \in BOOLEAN /\ release' \in Releases
        /\ late' = 0 \/ (late' = late /\ kill' = kill)
    BY <1>0, <1>1 DEF MovePrice, Deposit, SetKillSwitch, Approve, Read, vars
  <2> QED BY <1>0, <2>1, Elsewhere
<1>2. CASE \E i \in DOMAIN orders : Fill(i) \/ Die(i) \/ Appear(i)
  BY <1>2, StatusChanges DEF Fill, Die, Appear
<1>3. CASE Dispatch
  <2>1. PICK execute \in BOOLEAN :
          job' = [NoJob EXCEPT !.phase = "start", !.release = release, !.execute = execute]
    BY <1>3 DEF Dispatch
  <2>2. job.phase = "idle" /\ UNCHANGED <<orders, history, kill, release, late>>
    BY <1>3 DEF Dispatch
  <2>3. Shapes'
    BY <1>0, <2>1, <2>2 DEF LiveInv, Shapes, NoJob, Job
  <2>4. Remembered'
    BY <2>1, <2>2 DEF LiveInv, Remembered, InProcess, NothingForgotten, NoJob, NothingAfter,
       NoEarlierExecution
  <2>5. SwitchInv'
    BY <2>1, <2>2 DEF LiveInv, SwitchInv, NoJob
  <2> QED BY <2>3, <2>4, <2>5 DEF LiveInv
<1>4. CASE RestoreNative
  BY <1>4, RestoreStep
<1>5. CASE Bootstrap
  <2>1. /\ job.phase = "start" /\ NoEarlierExecution /\ job' = [job EXCEPT !.phase = "restored"]
        /\ UNCHANGED <<orders, history, kill, release, late>>
    BY <1>5 DEF Bootstrap
  <2>2. Len(orders) = 0 /\ job.knows = 0
    BY <2>1 DEF LiveInv, Remembered, InProcess
  <2>3. Shapes'
    BY <1>0, <2>1 DEF LiveInv, Shapes, Job
  <2>4. Remembered'
    BY <1>0, <2>1, <2>2 DEF LiveInv, Job, Remembered, InProcess, NothingForgotten, NothingAfter,
       NoEarlierExecution
  <2>5. SwitchInv'
    BY <1>0, <2>1 DEF LiveInv, SwitchInv, Job
  <2> QED BY <2>3, <2>4, <2>5 DEF LiveInv
<1>6. CASE EndUnexecuted \/ LoseRunner
  BY <1>6, UnexecutedEnds DEF EndUnexecuted, LoseRunner
<1>7. CASE BeginExecute
  <2>1. /\ job.phase = "restored" /\ job' = [job EXCEPT !.phase = "trading"]
        /\ UNCHANGED <<orders, history, kill, release, late>>
    BY <1>7 DEF BeginExecute
  <2>2. Shapes'
    BY <1>0, <2>1 DEF LiveInv, Shapes, Job
  <2>3. Remembered'
    BY <1>0, <2>1 DEF LiveInv, Job, Remembered, InProcess, NothingForgotten
  <2>4. SwitchInv'
    BY <1>0, <2>1 DEF LiveInv, SwitchInv, Job
  <2> QED BY <2>2, <2>3, <2>4 DEF LiveInv
<1>8. CASE EndExecuted
  BY <1>8, ProcessEnds DEF EndExecuted, InProcess
<1>9. CASE EndWithoutReceipt
  BY <1>9, ProcessEnds DEF EndWithoutReceipt
<1>10. CASE BeginBuy
  <2>1. PICK limit \in Prices : /\ job' = [job EXCEPT !.phase = "checking", !.limit = limit, !.side = "buy"]
                                /\ MayBuy(limit)
    BY <1>10 DEF BeginBuy
  <2> QED BY <1>0, <1>10, <2>1, RunGoesOn DEF BeginBuy, MayBuy, Job, InProcess
<1>11. CASE BeginSell
  <2>1. PICK limit \in Prices : job' = [job EXCEPT !.phase = "authorised", !.limit = limit, !.side = "sell"]
    BY <1>11 DEF BeginSell
  <2> QED BY <1>0, <1>11, <2>1, RunGoesOn DEF BeginSell, Job, InProcess
<1>12. CASE Authorise \/ RefuseBuy
  <2>1. /\ job.phase = "checking" /\ UNCHANGED <<orders, history, operator, late>>
        /\ \E p \in {"authorised", "trading"} : job' = [job EXCEPT !.phase = p]
    BY <1>12 DEF Authorise, RefuseBuy
  <2>2. job.side = "buy" /\ job.limit \in Prices
    BY <2>1 DEF LiveInv, Shapes
  <2> QED BY <1>0, <2>1, <2>2, RunGoesOn DEF Job, InProcess
<1>13. CASE Submit
  BY <1>13, SubmitStep
<1> QED BY <1>1, <1>2, <1>3, <1>4, <1>5, <1>6, <1>7, <1>8, <1>9, <1>10, <1>11, <1>12, <1>13 DEF Next

\* What runs and artifacts know holds in every reachable state.
LEMMA LiveInvariant == Spec => []LiveInv
<1> QED BY LiveInit, LiveStep, PTL DEF Spec

\* restore_live_runtime.py: whatever runs, releases, lost runners and missing artifacts
\* came before, a run that may trade knows every order ever sent with these keys.
THEOREM NothingForgottenCorrect == Spec => []NothingForgotten
<1>1. LiveInv => NothingForgotten
  BY DEF LiveInv, Remembered
<1> QED BY <1>1, LiveInvariant, PTL

\* trade.py: at most one BUY is submitted after the kill switch was set.
THEOREM KillSwitchCorrect == Spec => []KillSwitchLate
<1>1. LiveInv => KillSwitchLate
  BY DEF LiveInv, SwitchInv, KillSwitchLate
<1> QED BY <1>1, LiveInvariant, PTL

(***************************************************************************)
(* The book as money: what working BUYs may still spend, how many lots     *)
(* working SELLs may still take.                                           *)
(***************************************************************************)
WorkingIn(o, side) == {i \in DOMAIN o : o[i].side = side /\ o[i].status \in Working}
HiddenBuys(o) == {i \in DOMAIN o : o[i].side = "buy" /\ o[i].status = "hidden"}
Limits(o) == [i \in DOMAIN o |-> o[i].limit]
BuyLimits(o) == SumFunctionOnSet(Limits(o), WorkingIn(o, "buy"))
Sells(o) == Cardinality(WorkingIn(o, "sell"))

\* A book is a finite list of orders with limits that are prices.
LEMMA BookFacts ==
  ASSUME NEW o \in Seq(Order)
  PROVE  /\ \A i \in DOMAIN o : o[i] \in Order /\ Limits(o)[i] \in Nat /\ o[i].limit \in Nat
         /\ \A side : WorkingIn(o, side) \in SUBSET DOMAIN o /\ IsFiniteSet(WorkingIn(o, side))
         /\ Sells(o) \in Nat
<1>1. Len(o) \in Nat /\ DOMAIN o = 1..Len(o) /\ \A i \in DOMAIN o : o[i] \in Order
  BY LenProperties, ElementOfSeq
<1>2. IsFiniteSet(DOMAIN o)
  BY <1>1, FS_Interval
<1>3. \A i \in DOMAIN o : Limits(o)[i] \in Nat /\ o[i].limit \in Nat
  BY <1>1, MoneyAssumption DEF Limits, Order
<1>4. \A side : WorkingIn(o, side) \in SUBSET DOMAIN o
  BY DEF WorkingIn
<1>5. \A side : IsFiniteSet(WorkingIn(o, side))
  BY <1>2, <1>4, FS_Subset
<1>6. Sells(o) \in Nat
  BY <1>5, FS_CardinalityType DEF Sells
<1> QED BY <1>1, <1>3, <1>4, <1>5, <1>6

\* What working BUYs may spend is at least what any of them may.
LEMMA BuyLimitsNumber ==
  ASSUME NEW o \in Seq(Order)
  PROVE  /\ BuyLimits(o) \in Nat
         /\ \A i \in WorkingIn(o, "buy") : o[i].limit <= BuyLimits(o)
<1>1. \A i \in WorkingIn(o, "buy") : Limits(o)[i] \in Nat /\ Limits(o)[i] = o[i].limit
  BY BookFacts DEF Limits, WorkingIn
<1>2. IsFiniteSet(WorkingIn(o, "buy"))
  BY BookFacts
<1> QED BY <1>1, <1>2, SumOfNumbers DEF BuyLimits

\* Only the status of order i changes.
Changes(o, p, i) ==
  /\ DOMAIN p = DOMAIN o
  /\ \A j \in DOMAIN o : /\ p[j].side = o[j].side /\ p[j].limit = o[j].limit
                         /\ j # i => p[j].status = o[j].status

\* An order whose status changes to one that is still working.
LEMMA StillWorking ==
  ASSUME NEW o \in Seq(Order), NEW i \in DOMAIN o, o[i].status \in Working,
         NEW p, Changes(o, p, i), p[i].status \in Working
  PROVE  /\ \A side : WorkingIn(p, side) = WorkingIn(o, side)
         /\ BuyLimits(p) = BuyLimits(o) /\ Sells(p) = Sells(o)
<1>1. /\ DOMAIN p = DOMAIN o
      /\ \A j \in DOMAIN o : /\ p[j].side = o[j].side /\ p[j].limit = o[j].limit
                             /\ p[j].status \in Working <=> o[j].status \in Working
  BY DEF Changes
<1>2. \A side : WorkingIn(p, side) = WorkingIn(o, side)
  BY <1>1 DEF WorkingIn
<1>3. Limits(p) = Limits(o)
  BY <1>1 DEF Limits
<1> QED BY <1>2, <1>3 DEF BuyLimits, Sells

\* An order that is filled, cancelled, rejected or expires.
LEMMA NotWorking ==
  ASSUME NEW o \in Seq(Order), NEW i \in DOMAIN o, o[i].status \in Working,
         NEW p, Changes(o, p, i), p[i].status \notin Working
  PROVE  /\ \A side : WorkingIn(p, side) = WorkingIn(o, side) \ {i}
         /\ o[i].side = "buy" => BuyLimits(p) = BuyLimits(o) - o[i].limit /\ Sells(p) = Sells(o)
         /\ o[i].side = "sell" => BuyLimits(p) = BuyLimits(o) /\ Sells(p) = Sells(o) - 1
<1>1. o[i] \in Order
  BY BookFacts
<1>2. /\ DOMAIN p = DOMAIN o
      /\ \A j \in DOMAIN o : /\ p[j].side = o[j].side /\ p[j].limit = o[j].limit
                             /\ p[j].status \in Working <=> o[j].status \in Working /\ j # i
  BY DEF Changes
<1>3. \A side : WorkingIn(p, side) = WorkingIn(o, side) \ {i}
  BY <1>2 DEF WorkingIn
<1>4. Limits(p) = Limits(o)
  BY <1>2 DEF Limits
<1>5. CASE o[i].side = "buy"
  <2> DEFINE B == WorkingIn(o, "buy")
  <2>1. i \in B /\ IsFiniteSet(B) /\ \A j \in B : Limits(o)[j] \in Int
    <3>1. i \in B
      BY <1>5 DEF WorkingIn
    <3>2. IsFiniteSet(B) /\ B \subseteq DOMAIN o
      BY BookFacts
    <3>3. \A j \in DOMAIN o : Limits(o)[j] \in Int
      BY BookFacts
    <3> QED BY <3>1, <3>2, <3>3
  <2>2. Limits(o)[i] = o[i].limit /\ o[i].limit \in Nat
    BY BookFacts DEF Limits
  <2> HIDE DEF B
  <2>3. SumFunctionOnSet(Limits(o), B) = Limits(o)[i] + SumFunctionOnSet(Limits(o), B \ {i})
    BY <2>1, SumRemove
  <2>4. IsFiniteSet(B \ {i}) /\ SumFunctionOnSet(Limits(o), B \ {i}) \in Int
    BY <2>1, FS_RemoveElement, SumType
  <2>5. BuyLimits(p) = SumFunctionOnSet(Limits(o), B \ {i})
    BY <1>3, <1>4 DEF BuyLimits, B
  <2>6. BuyLimits(p) = BuyLimits(o) - o[i].limit
    BY <2>2, <2>3, <2>4, <2>5 DEF BuyLimits, B
  <2>7. i \notin WorkingIn(o, "sell")
    BY <1>5 DEF WorkingIn
  <2> QED BY <1>3, <1>5, <2>6, <2>7 DEF Sells
<1>6. CASE o[i].side = "sell"
  <2>1. i \in WorkingIn(o, "sell") /\ i \notin WorkingIn(o, "buy")
    BY <1>6 DEF WorkingIn
  <2>2. Sells(p) = Sells(o) - 1
    <3> DEFINE S == WorkingIn(o, "sell")
    <3>1. IsFiniteSet(S)
      BY BookFacts
    <3>2. WorkingIn(p, "sell") = S \ {i}
      BY <1>3
    <3> HIDE DEF S
    <3>3. Cardinality(S \ {i}) = IF i \in S THEN Cardinality(S) - 1 ELSE Cardinality(S)
      BY <3>1, FS_RemoveElement
    <3> QED BY <2>1, <3>2, <3>3 DEF Sells, S
  <2>3. WorkingIn(p, "buy") = WorkingIn(o, "buy")
    BY <1>3, <2>1
  <2>4. BuyLimits(p) = BuyLimits(o)
    BY <1>4, <2>3 DEF BuyLimits
  <2> QED BY <1>3, <1>6, <2>2, <2>4
<1> QED BY <1>1, <1>3, <1>5, <1>6 DEF Order

\* Order r joins the book, as number n.
Joins(o, p, r, n) == p = Append(o, r) /\ n = Len(o) + 1

\* An order that is submitted.
LEMMA NewlyWorking ==
  ASSUME NEW o \in Seq(Order), NEW r \in Order, NEW p, NEW n, Joins(o, p, r, n)
  PROVE  /\ n \notin DOMAIN o /\ DOMAIN p = DOMAIN o \cup {n} /\ p[n] = r
         /\ \A i \in DOMAIN o : p[i] = o[i]
         /\ r.side = "buy" => /\ BuyLimits(p) <= BuyLimits(o) + r.limit
                              /\ Sells(p) = Sells(o)
         /\ r.side = "sell" => BuyLimits(p) = BuyLimits(o) /\ Sells(p) <= Sells(o) + 1
<1>1. /\ Len(o) \in Nat /\ p \in Seq(Order) /\ Len(p) = n /\ p[n] = r
      /\ \A i \in 1..Len(o) : p[i] = o[i]
  BY AppendProperties, LenProperties DEF Joins
<1>2. n \notin DOMAIN o /\ DOMAIN p = DOMAIN o \cup {n} /\ \A i \in DOMAIN o : p[i] = o[i]
  BY <1>1, LenProperties DEF Joins
<1>3. \A side : WorkingIn(p, side) = IF r.side = side /\ r.status \in Working
                                     THEN WorkingIn(o, side) \cup {n} ELSE WorkingIn(o, side)
  BY <1>1, <1>2 DEF WorkingIn
<1> DEFINE B == WorkingIn(o, "buy")
<1>4. /\ IsFiniteSet(B) /\ n \notin B
      /\ \A i \in B : Limits(o)[i] \in Int /\ Limits(p)[i] = Limits(o)[i]
      /\ Limits(p)[n] = r.limit /\ r.limit \in Nat
  <2>1. IsFiniteSet(B) /\ n \notin B /\ \A i \in B : Limits(o)[i] \in Int
    <3>1. IsFiniteSet(B) /\ B \subseteq DOMAIN o
      BY BookFacts
    <3>2. \A j \in DOMAIN o : Limits(o)[j] \in Int
      BY BookFacts
    <3> QED BY <1>2, <3>1, <3>2
  <2>2. \A i \in B : Limits(p)[i] = Limits(o)[i]
    BY <1>2 DEF Limits, WorkingIn
  <2>3. Limits(p)[n] = r.limit /\ r.limit \in Nat
    BY <1>1, <1>2, MoneyAssumption DEF Limits, Order
  <2> QED BY <2>1, <2>2, <2>3
<1> HIDE DEF B
<1>5. SumFunctionOnSet(Limits(p), B) = BuyLimits(o) /\ BuyLimits(o) \in Nat
  BY <1>4, SumSame, BuyLimitsNumber DEF BuyLimits, B
<1>6. SumFunctionOnSet(Limits(p), B \cup {n}) = r.limit + BuyLimits(o)
  <2>1. \A i \in B : Limits(p)[i] \in Int
    BY <1>4
  <2>2. Limits(p)[n] \in Int
    BY <1>4
  <2>3. SumFunctionOnSet(Limits(p), B \cup {n}) = Limits(p)[n] + SumFunctionOnSet(Limits(p), B)
    BY <1>4, <2>1, <2>2, SumAdd
  <2> QED BY <1>4, <1>5, <2>3
<1>7. CASE r.side = "buy"
  <2>1. Sells(p) = Sells(o)
    BY <1>3, <1>7 DEF Sells
  <2>2. WorkingIn(p, "buy") \in {B, B \cup {n}}
    BY <1>3, <1>7 DEF B
  <2>3. BuyLimits(p) \in {BuyLimits(o), r.limit + BuyLimits(o)}
    BY <1>5, <1>6, <2>2 DEF BuyLimits
  <2>4. BuyLimits(p) <= BuyLimits(o) + r.limit
    BY <1>4, <1>5, <2>3
  <2> QED BY <1>1, <1>2, <1>7, <2>1, <2>4
<1>8. CASE r.side = "sell"
  <2>1. BuyLimits(p) = BuyLimits(o)
    BY <1>3, <1>5, <1>8 DEF BuyLimits, B
  <2>2. IsFiniteSet(WorkingIn(o, "sell")) /\ Sells(o) \in Nat
    BY BookFacts
  <2>3. Cardinality(WorkingIn(o, "sell") \cup {n}) <= Sells(o) + 1
    <3> DEFINE S == WorkingIn(o, "sell")
    <3>1. IsFiniteSet(S) /\ Cardinality(S) \in Nat
      BY <2>2 DEF Sells
    <3> HIDE DEF S
    <3>2. Cardinality(S \cup {n}) = IF n \in S THEN Cardinality(S) ELSE Cardinality(S) + 1
      BY <3>1, FS_AddElement
    <3>3. Cardinality(S \cup {n}) <= Cardinality(S) + 1
      BY <3>1, <3>2
    <3> QED BY <3>3 DEF Sells, S
  <2>4. Sells(p) <= Sells(o) + 1
    <3>1. Sells(p) \in {Sells(o), Cardinality(WorkingIn(o, "sell") \cup {n})}
      BY <1>3 DEF Sells
    <3> QED BY <2>2, <2>3, <3>1
  <2> QED BY <1>1, <1>2, <1>8, <2>1, <2>4
<1> QED BY <1>7, <1>8, <1>1, <1>2

(***************************************************************************)
(* What the capital gate rests on.                                         *)
(***************************************************************************)
\* Capital held and promised at the lowest price the process saw; cash that no
\* working BUY may spend; what an authorised order adds.
Allocated == pos * low + BuyLimits(orders)
Free == cash - BuyLimits(orders)
Buying == job.phase = "authorised" /\ job.side = "buy"
Asked == IF Buying THEN job.limit ELSE 0
Leaving == IF job.phase = "authorised" /\ job.side = "sell" THEN 1 ELSE 0
Ledger == [known : BOOLEAN, initial : Nat, cash : Int, spent : 0 .. CycleCap]

MoneyTypes ==
  /\ pos \in Nat /\ price \in Prices /\ cash \in Int /\ low \in Prices
  /\ InProcess => low <= price
  /\ ledger \in Ledger
  /\ job.phase = "checking" => ledger.spent + job.limit <= CycleCap

\* What a read answered; the book that was read is a finite list.
Answers == (Int \X Int) \cup UNION {[D -> Order] : D \in SUBSET Nat}
Answered(k) == reads[k][1] \in Nat /\ reads[k][2] \in Int
ReadsTyped ==
  /\ reads \in Seq(Answers)
  /\ Len(reads) <= Len(Requests) /\ (reads # <<>> => job.phase = "checking")
  /\ \A k \in {1, 2, 4, 5} : Len(reads) >= k => Answered(k)
  /\ \A k \in {2, 5} : Len(reads) >= k => reads[k][2] \in Nat
  /\ Len(reads) >= 3 =>
       /\ IsFiniteSet(DOMAIN reads[3])
       /\ \A i \in DOMAIN reads[3] : Promises(reads[3])[i] \in Nat

\* Working SELLs, and one about to be submitted, sell lots that are held.
SellsHeld == Sells(orders) + Leaving <= pos

\* Cash pays for every working BUY and the authorised one; both fit the budget
\* with the lots held; what the process spent is in the ledger.
Funded ==
  /\ Asked <= Free
  /\ Buying => ledger.known /\ Allocated + job.limit <= Budget
  /\ InProcess /\ ledger.known =>
       /\ Allocated + Asked <= ledger.initial + ledger.spent
       /\ ledger.cash - ledger.spent <= Free - Asked

\* Until the first BUY of the process the broker shows every BUY.
Fresh ==
  /\ job.phase \in {"start", "restored"} => HiddenBuys(orders) = {}
  /\ InProcess /\ ~ledger.known => HiddenBuys(orders) = {} /\ ledger.spent = 0

\* The reads before the first BUY bound what they could not see together.
FirstReads ==
  job.phase = "checking" /\ ~ledger.known =>
    /\ Len(reads) >= 3 =>
         \A i \in WorkingIn(orders, "buy") :
            i \in DOMAIN reads[3] /\ Promises(reads[3])[i] = orders[i].limit
    /\ Len(reads) >= 4 => reads[4][2] - Promised <= Free
    /\ Len(reads) >= 5 => Allocated <= reads[5][2] + Promised

CapitalInv == MoneyTypes /\ ReadsTyped /\ SellsHeld /\ Funded /\ Fresh /\ FirstReads

\* The numbers a step compares.
LEMMA MoneyNumbers ==
  ASSUME LiveInv, MoneyTypes
  PROVE  /\ orders \in Seq(Order) /\ BuyLimits(orders) \in Nat /\ Sells(orders) \in Nat
         /\ low \in Nat /\ price \in Nat /\ pos * low \in Nat /\ pos * price \in Nat
         /\ Allocated \in Nat /\ Free \in Int /\ Asked \in Nat /\ Leaving \in {0, 1}
         /\ ledger.spent \in Nat /\ ledger.initial \in Nat /\ ledger.cash \in Int
         /\ Budget \in Nat /\ CycleCap \in Nat
<1>1. orders \in Seq(Order) /\ job \in Job
  BY DEF LiveInv, Shapes
<1>2. BuyLimits(orders) \in Nat /\ Sells(orders) \in Nat
  BY <1>1, BookFacts, BuyLimitsNumber
<1>3. low \in Nat /\ price \in Nat /\ pos \in Nat /\ cash \in Int
  BY MoneyAssumption DEF MoneyTypes
<1>4. pos * low \in Nat /\ pos * price \in Nat
  BY <1>3
<1>5. Allocated \in Nat /\ Free \in Int
  BY <1>2, <1>3, <1>4 DEF Allocated, Free
<1>6. Budget \in Nat /\ CycleCap \in Nat
  BY MoneyAssumption DEF ResolvesLive
<1>7. ledger.spent \in Nat /\ ledger.initial \in Nat /\ ledger.cash \in Int
  BY <1>6 DEF MoneyTypes, Ledger
<1>8. Asked \in Nat /\ Leaving \in {0, 1}
  <2>1. job.limit \in Prices \cup {0}
    BY <1>1 DEF Job
  <2>2. \A p \in Prices \cup {0} : p \in Nat
    BY MoneyAssumption
  <2>3. job.limit \in Nat
    BY <2>1, <2>2
  <2> QED BY <2>3 DEF Asked, Leaving
<1> QED BY <1>1, <1>2, <1>3, <1>4, <1>5, <1>6, <1>7, <1>8

(***************************************************************************)
(* The broker and the market only ease what the gate rests on.             *)
(***************************************************************************)
Eases ==
  /\ UNCHANGED <<job, ledger, reads>>
  /\ pos' \in Nat /\ price' \in Prices /\ cash' \in Int /\ low' \in Prices
  /\ InProcess => low' <= price' /\ Allocated' <= Allocated
  /\ Free <= Free'
  /\ Sells(orders') + pos <= Sells(orders) + pos'
  /\ \A i \in WorkingIn(orders', "buy") :
       i \in WorkingIn(orders, "buy") /\ orders'[i].limit = orders[i].limit
  /\ HiddenBuys(orders') \subseteq HiddenBuys(orders)

\* A step that only eases what the gate rests on keeps it.
LEMMA EasesCapital ==
  ASSUME LiveInv, LiveInv', CapitalInv, Eases PROVE CapitalInv'
<1> USE DEF CapitalInv
<1>1. MoneyTypes' /\ ReadsTyped'
  <2>1. MoneyTypes'
    BY DEF Eases, MoneyTypes, InProcess
  <2>2. ReadsTyped'
    BY DEF Eases, ReadsTyped, Answered
  <2> QED BY <2>1, <2>2
<1>2. /\ Allocated \in Nat /\ Free \in Int /\ Asked \in Nat /\ Leaving \in {0, 1}
      /\ Sells(orders) \in Nat /\ pos \in Nat /\ Budget \in Nat
      /\ ledger.spent \in Nat /\ ledger.initial \in Nat /\ ledger.cash \in Int
  BY MoneyNumbers DEF MoneyTypes
<1>3. /\ (Allocated \in Nat)' /\ (Free \in Int)' /\ (Sells(orders) \in Nat)' /\ (pos \in Nat)'
  <2>1. orders' \in Seq(Order) /\ pos' \in Nat /\ cash' \in Int /\ low' \in Nat
    BY MoneyAssumption DEF LiveInv, Shapes, Eases
  <2>2. BuyLimits(orders') \in Nat /\ Sells(orders') \in Nat
    BY <2>1, BookFacts, BuyLimitsNumber
  <2>3. \A a, b \in Nat : a * b \in Nat
    OBVIOUS
  <2>4. pos' * low' \in Nat
    BY <2>1, <2>3
  <2>5. (Allocated \in Nat)'
    BY <2>2, <2>4 DEF Allocated
  <2>6. (Free \in Int)'
    BY <2>1, <2>2 DEF Free
  <2> QED BY <2>1, <2>2, <2>5, <2>6
<1>4. job' = job /\ ledger' = ledger /\ reads' = reads /\ (InProcess' <=> InProcess)
      /\ Asked' = Asked /\ Leaving' = Leaving /\ (Buying' <=> Buying) /\ Promised' = Promised
  <2>1. job' = job /\ ledger' = ledger /\ reads' = reads
    BY DEF Eases
  <2>2. (InProcess' <=> InProcess) /\ (Buying' <=> Buying) /\ Leaving' = Leaving
    BY <2>1 DEF InProcess, Buying, Leaving
  <2>3. Asked' = Asked
    BY <2>1, <2>2 DEF Asked
  <2>4. Promised' = Promised
    BY <2>1 DEF Promised, Promises
  <2> QED BY <2>1, <2>2, <2>3, <2>4
<1>5. SellsHeld'
  <2>1. Sells(orders') + pos <= Sells(orders) + pos' /\ Sells(orders) + Leaving <= pos
    BY DEF Eases, SellsHeld
  <2>2. Sells(orders') + Leaving <= pos'
    BY <1>2, <1>3, <2>1
  <2> QED BY <1>4, <2>2 DEF SellsHeld
<1>6. Funded'
  <2>1. Free <= Free' /\ (InProcess => Allocated' <= Allocated)
    BY DEF Eases
  <2>2. (Asked <= Free)'
    <3>1. Asked <= Free
      BY DEF Funded
    <3> QED BY <1>2, <1>3, <1>4, <2>1, <3>1
  <2>3. (Buying => ledger.known /\ Allocated + job.limit <= Budget)'
    <3> SUFFICES ASSUME Buying PROVE ledger.known /\ Allocated' + job.limit <= Budget
      BY <1>4
    <3>1. job.limit = Asked
      BY DEF Asked
    <3>2. Allocated + Asked <= Budget
      BY <3>1 DEF Funded
    <3>3. ledger.known /\ InProcess
      BY DEF Funded, Buying, InProcess
    <3>4. Allocated' <= Allocated
      BY <2>1, <3>3
    <3>5. \A a, b, c, d \in Int : a <= b /\ b + c <= d => a + c <= d
      OBVIOUS
    <3>6. Allocated \in Int /\ Allocated' \in Int /\ Asked \in Int /\ Budget \in Int
      BY <1>2, <1>3
    <3>7. Allocated' + Asked <= Budget
      BY <3>2, <3>4, <3>5, <3>6
    <3> QED BY <3>1, <3>3, <3>7
  <2>4. (InProcess /\ ledger.known =>
           /\ Allocated + Asked <= ledger.initial + ledger.spent
           /\ ledger.cash - ledger.spent <= Free - Asked)'
    <3> SUFFICES ASSUME InProcess, ledger.known
                 PROVE  /\ Allocated' + Asked <= ledger.initial + ledger.spent
                        /\ ledger.cash - ledger.spent <= Free' - Asked
      BY <1>4
    <3>1. /\ Allocated + Asked <= ledger.initial + ledger.spent
          /\ ledger.cash - ledger.spent <= Free - Asked
      BY DEF Funded
    <3> QED BY <1>2, <1>3, <2>1, <3>1
  <2> QED BY <2>2, <2>3, <2>4 DEF Funded
<1>7. Fresh'
  BY <1>4 DEF Fresh, Eases
<1>8. FirstReads'
  <2> SUFFICES ASSUME job.phase = "checking", ~ledger.known
               PROVE  /\ Len(reads) >= 3 =>
                           \A i \in WorkingIn(orders', "buy") :
                              i \in DOMAIN reads[3] /\ Promises(reads[3])[i] = orders'[i].limit
                      /\ Len(reads) >= 4 => reads[4][2] - Promised <= Free'
                      /\ Len(reads) >= 5 => Allocated' <= reads[5][2] + Promised
    BY <1>4 DEF FirstReads
  <2>1. /\ Len(reads) >= 3 =>
             \A i \in WorkingIn(orders, "buy") :
                i \in DOMAIN reads[3] /\ Promises(reads[3])[i] = orders[i].limit
        /\ Len(reads) >= 4 => reads[4][2] - Promised <= Free
        /\ Len(reads) >= 5 => Allocated <= reads[5][2] + Promised
    BY DEF FirstReads
  <2>2. Free <= Free' /\ Allocated' <= Allocated
    BY DEF Eases, InProcess
  <2>3. Len(reads) >= 3 => Promised \in Nat
    <3>1. CASE Len(reads) >= 3
      <4>1. IsFiniteSet(DOMAIN reads[3]) /\ \A i \in DOMAIN reads[3] : Promises(reads[3])[i] \in Nat
        BY <3>1 DEF ReadsTyped
      <4> QED BY <4>1, SumOfNumbers DEF Promised
    <3> QED BY <3>1
  <2>4. Len(reads) \in Nat
    BY LenProperties DEF ReadsTyped
  <2>5. Len(reads) >= 4 => reads[4][2] - Promised <= Free'
    <3>1. Len(reads) >= 4 => reads[4][2] \in Int /\ Promised \in Nat
      BY <2>3, <2>4 DEF ReadsTyped, Answered
    <3> QED BY <1>2, <1>3, <2>1, <2>2, <3>1
  <2>6. Len(reads) >= 5 => Allocated' <= reads[5][2] + Promised
    <3>1. Len(reads) >= 5 => reads[5][2] \in Int /\ Promised \in Nat
      BY <2>3, <2>4 DEF ReadsTyped, Answered
    <3> QED BY <1>2, <1>3, <2>1, <2>2, <3>1
  <2>7. Len(reads) >= 3 =>
          \A i \in WorkingIn(orders', "buy") :
             i \in DOMAIN reads[3] /\ Promises(reads[3])[i] = orders'[i].limit
    BY <2>1 DEF Eases
  <2> QED BY <2>5, <2>6, <2>7
<1> QED BY <1>1, <1>5, <1>6, <1>7, <1>8

\* Steps that leave the book alone.
LEMMA SameBook ==
  ASSUME UNCHANGED <<orders, pos, job, ledger, reads>>, pos \in Nat,
         price' \in Prices, cash' \in Int, low' \in Prices, Sells(orders) \in Nat,
         InProcess => low' <= price' /\ Allocated' <= Allocated,
         Free <= Free'
  PROVE  Eases
<1>1. Sells(orders') + pos <= Sells(orders) + pos'
  OBVIOUS
<1> QED BY <1>1 DEF Eases

\* The process remembers the lowest price: what is held is worth that much.
LEMMA PriceEases ==
  ASSUME LiveInv, CapitalInv, MovePrice PROVE Eases
<1>1. PICK p \in Prices : /\ price' = p
                          /\ low' = IF InProcess /\ low < p THEN low ELSE p
  BY DEF MovePrice
<1>2. UNCHANGED <<orders, pos, job, ledger, reads, cash>>
  BY DEF MovePrice
<1>3. /\ pos \in Nat /\ low \in Nat /\ cash \in Int /\ low \in Prices /\ BuyLimits(orders) \in Nat
      /\ pos * low \in Nat /\ Sells(orders) \in Nat
  BY MoneyNumbers DEF CapitalInv, MoneyTypes
<1>4. p \in Nat
  BY MoneyAssumption
<1>5. low' \in Prices /\ low' \in Nat
  BY <1>1, <1>3, <1>4
<1>6. InProcess => low' <= p /\ low' <= low
  BY <1>1, <1>3, <1>4
<1>7. InProcess => Allocated' <= Allocated
  <2>1. \A a, b, c \in Nat : b <= c => a * b <= a * c
    OBVIOUS
  <2>2. InProcess => pos * low' <= pos * low
    BY <1>3, <1>5, <1>6, <2>1
  <2>3. \A a, b \in Nat : a * b \in Nat
    OBVIOUS
  <2>4. pos * low' \in Nat
    BY <1>3, <1>5, <2>3
  <2>5. InProcess => pos * low' + BuyLimits(orders) <= pos * low + BuyLimits(orders)
    BY <1>3, <2>2, <2>4
  <2> QED BY <1>2, <2>5 DEF Allocated
<1>8. Free' = Free /\ Free \in Int
  BY <1>2, <1>3 DEF Free
<1> QED BY <1>1, <1>2, <1>3, <1>5, <1>6, <1>7, <1>8, SameBook

\* Money that comes in, and acts of the operator.
LEMMA DepositEases ==
  ASSUME LiveInv, CapitalInv, Deposit \/ SetKillSwitch \/ Approve PROVE Eases
<1>1. /\ UNCHANGED <<orders, pos, job, ledger, reads, price, low>>
      /\ cash' = cash + 1 \/ cash' = cash
  BY DEF Deposit, SetKillSwitch, Approve, ghosts, broker
<1>2. /\ pos \in Nat /\ cash \in Int /\ BuyLimits(orders) \in Nat /\ Sells(orders) \in Nat
      /\ Allocated \in Nat
  BY MoneyNumbers DEF CapitalInv, MoneyTypes
<1>3. Free <= Free'
  <2>1. Free' = cash' - BuyLimits(orders) /\ Free = cash - BuyLimits(orders)
    BY <1>1 DEF Free
  <2> QED BY <1>1, <1>2, <2>1
<1>4. Allocated' = Allocated
  BY <1>1 DEF Allocated
<1>5. cash' \in Int /\ price' \in Prices /\ low' \in Prices /\ (InProcess => low' <= price')
  BY <1>1, <1>2 DEF CapitalInv, MoneyTypes
<1> QED BY <1>1, <1>2, <1>3, <1>4, <1>5, SameBook

\* A fill trades a limit for a lot that is worth no more when it buys, and a
\* lot that is held for its price when it sells.
LEMMA FillEases ==
  ASSUME LiveInv, LiveInv', CapitalInv, NEW i \in DOMAIN orders, Fill(i) PROVE Eases
<1> DEFINE o == orders
           n == orders[i].limit
<1>1. /\ o \in Seq(Order) /\ orders' \in Seq(Order) /\ o[i].status = "open"
      /\ orders' = [o EXCEPT ![i].status = "filled"]
      /\ "open" \in Working /\ "filled" \notin Working
      /\ UNCHANGED <<job, ledger, reads, price, low>>
  BY DEF LiveInv, Shapes, Fill, Working, ghosts
<1>2. /\ pos \in Nat /\ cash \in Int /\ price \in Nat /\ low \in Nat /\ n \in Nat /\ pos * low \in Nat
      /\ BuyLimits(o) \in Nat /\ BuyLimits(orders') \in Nat
      /\ Sells(o) \in Nat /\ Sells(orders') \in Nat /\ Leaving \in {0, 1}
  BY <1>1, BookFacts, BuyLimitsNumber, MoneyNumbers DEF CapitalInv, MoneyTypes
<1>3. /\ \A side : WorkingIn(orders', side) = WorkingIn(o, side) \ {i}
      /\ o[i].side = "buy" => BuyLimits(orders') = BuyLimits(o) - n /\ Sells(orders') = Sells(o)
      /\ o[i].side = "sell" => BuyLimits(orders') = BuyLimits(o) /\ Sells(orders') = Sells(o) - 1
  <2>1. Changes(o, orders', i) /\ orders'[i].status = "filled"
    <3>1. \A j \in DOMAIN o : o[j] \in Order
      BY <1>1, BookFacts
    <3> QED BY <1>1, <3>1 DEF Changes, Order
  <2>2. o[i].status \in Working /\ orders'[i].status \notin Working
    BY <1>1, <2>1
  <2>3. o \in Seq(Order) /\ i \in DOMAIN o /\ Changes(o, orders', i)
    BY <1>1, <2>1
  <2> HIDE DEF o
  <2>4. /\ \A side : WorkingIn(orders', side) = WorkingIn(o, side) \ {i}
        /\ o[i].side = "buy" => BuyLimits(orders') = BuyLimits(o) - o[i].limit
                                /\ Sells(orders') = Sells(o)
        /\ o[i].side = "sell" => BuyLimits(orders') = BuyLimits(o)
                                 /\ Sells(orders') = Sells(o) - 1
    BY <2>2, <2>3, NotWorking
  <2> QED BY <2>4 DEF o
<1>4. o[i].side \in {"buy", "sell"} /\ o[i] \in Order
  BY <1>1, BookFacts DEF Order
<1>5. \A j \in WorkingIn(orders', "buy") :
        j \in WorkingIn(o, "buy") /\ orders'[j].limit = o[j].limit
  BY <1>1, <1>3 DEF WorkingIn
<1>6. HiddenBuys(orders') \subseteq HiddenBuys(o)
  BY <1>1, <1>4 DEF HiddenBuys, Order
<1>7. (InProcess => low <= price) /\ Sells(o) + Leaving <= pos /\ price \in Prices /\ low \in Prices
  BY DEF CapitalInv, MoneyTypes, SellsHeld
<1>8. CASE o[i].side = "buy"
  <2>1. price <= n /\ pos' = pos + 1 /\ cash' = cash - price
    BY <1>8 DEF Fill
  <2>2. BuyLimits(orders') = BuyLimits(o) - n /\ Sells(orders') = Sells(o)
    BY <1>3, <1>8
  <2>3. Free <= Free'
    <3>1. Free' = (cash - price) - (BuyLimits(o) - n) /\ Free = cash - BuyLimits(o)
      BY <2>1, <2>2 DEF Free
    <3> HIDE DEF o, n
    <3> QED BY <1>2, <2>1, <3>1
  <2>4. InProcess => Allocated' <= Allocated
    <3>1. Allocated' = (pos + 1) * low + (BuyLimits(o) - n) /\ Allocated = pos * low + BuyLimits(o)
      BY <1>1, <2>1, <2>2 DEF Allocated
    <3>2. (pos + 1) * low = pos * low + low
      BY <1>2
    <3> HIDE DEF o, n
    <3> QED BY <1>2, <1>7, <2>1, <3>1, <3>2
  <2>5. pos' \in Nat /\ cash' \in Int /\ Sells(orders') + pos <= Sells(o) + pos'
    BY <1>2, <2>1, <2>2
  <2> QED BY <1>1, <1>5, <1>6, <1>7, <2>3, <2>4, <2>5 DEF Eases
<1>9. CASE o[i].side = "sell"
  <2>1. pos' = pos - 1 /\ cash' = cash + price
    BY <1>9 DEF Fill
  <2>2. BuyLimits(orders') = BuyLimits(o) /\ Sells(orders') = Sells(o) - 1
    BY <1>3, <1>9
  <2>3. Free <= Free'
    <3>1. Free' = (cash + price) - BuyLimits(o) /\ Free = cash - BuyLimits(o)
      BY <2>1, <2>2 DEF Free
    <3> HIDE DEF o, n
    <3> QED BY <1>2, <2>1, <3>1
  <2>4. Allocated' <= Allocated
    <3>1. Allocated' = (pos - 1) * low + BuyLimits(o) /\ Allocated = pos * low + BuyLimits(o)
      BY <1>1, <2>1, <2>2 DEF Allocated
    <3>2. (pos - 1) * low = pos * low - low
      BY <1>2
    <3> HIDE DEF o, n
    <3> QED BY <1>2, <3>1, <3>2
  <2>5. pos' \in Nat /\ cash' \in Int /\ Sells(orders') + pos <= Sells(o) + pos'
    BY <1>2, <1>7, <2>1, <2>2
  <2> QED BY <1>1, <1>5, <1>6, <1>7, <2>3, <2>4, <2>5 DEF Eases
<1> QED BY <1>4, <1>8, <1>9

\* An order that appears or dies.
LEMMA StatusEases ==
  ASSUME LiveInv, LiveInv', CapitalInv, NEW i \in DOMAIN orders, Die(i) \/ Appear(i) PROVE Eases
<1> DEFINE o == orders
<1>1. /\ o \in Seq(Order) /\ orders' \in Seq(Order) /\ o[i].status \in Working
      /\ UNCHANGED <<job, ledger, reads, price, low, pos, cash>>
      /\ \E s \in {"open", "dead"} : orders' = [o EXCEPT ![i].status = s]
  BY DEF LiveInv, Shapes, Die, Appear, Working, ghosts
<1>2. PICK s \in {"open", "dead"} : orders' = [o EXCEPT ![i].status = s]
  BY <1>1
<1>3. /\ pos \in Nat /\ cash \in Int /\ pos * low \in Nat /\ o[i].limit \in Nat
      /\ BuyLimits(o) \in Nat /\ BuyLimits(orders') \in Nat
      /\ Sells(o) \in Nat /\ Sells(orders') \in Nat
  BY <1>1, BookFacts, BuyLimitsNumber, MoneyNumbers DEF CapitalInv, MoneyTypes
<1>4. o[i] \in Order /\ Changes(o, orders', i) /\ orders'[i].status = s
  <2>1. \A j \in DOMAIN o : o[j] \in Order
    BY <1>1, BookFacts
  <2> QED BY <1>2, <2>1 DEF Changes, Order
<1>5. /\ \A side : WorkingIn(orders', side) \subseteq WorkingIn(o, side)
      /\ BuyLimits(orders') <= BuyLimits(o) /\ Sells(orders') <= Sells(o)
  <2>1. CASE s = "open"
    <3>1. s \in Working
      BY <2>1 DEF Working
    <3>2. /\ \A side : WorkingIn(orders', side) = WorkingIn(o, side)
          /\ BuyLimits(orders') = BuyLimits(o) /\ Sells(orders') = Sells(o)
      BY <1>1, <1>4, <3>1, StillWorking
    <3> QED BY <1>3, <3>2
  <2>2. CASE s = "dead"
    <3>1. s \notin Working
      BY <2>2 DEF Working
    <3>2. /\ \A side : WorkingIn(orders', side) = WorkingIn(o, side) \ {i}
          /\ o[i].side = "buy" => BuyLimits(orders') = BuyLimits(o) - o[i].limit
                                  /\ Sells(orders') = Sells(o)
          /\ o[i].side = "sell" => BuyLimits(orders') = BuyLimits(o)
                                   /\ Sells(orders') = Sells(o) - 1
      <4>1. /\ o \in Seq(Order) /\ i \in DOMAIN o /\ Changes(o, orders', i)
            /\ o[i].status \in Working /\ orders'[i].status \notin Working
        BY <1>1, <1>4, <3>1
      <4> HIDE DEF o
      <4> QED BY <4>1, NotWorking
    <3>3. o[i].side \in {"buy", "sell"}
      BY <1>4 DEF Order
    <3>4. BuyLimits(orders') <= BuyLimits(o) /\ Sells(orders') <= Sells(o)
      BY <1>3, <3>2, <3>3
    <3> QED BY <3>2, <3>4
  <2> QED BY <2>1, <2>2
<1>6. \A j \in WorkingIn(orders', "buy") :
        j \in WorkingIn(o, "buy") /\ orders'[j].limit = o[j].limit
  BY <1>2, <1>5 DEF WorkingIn
<1>7. HiddenBuys(orders') \subseteq HiddenBuys(o)
  BY <1>2, <1>4 DEF HiddenBuys, Order
<1>8. Free <= Free'
  <2>1. Free' = cash - BuyLimits(orders') /\ Free = cash - BuyLimits(o)
    BY <1>1 DEF Free
  <2> QED BY <1>3, <1>5, <2>1
<1>9. Allocated' <= Allocated
  <2>1. Allocated' = pos * low + BuyLimits(orders') /\ Allocated = pos * low + BuyLimits(o)
    BY <1>1 DEF Allocated
  <2> QED BY <1>3, <1>5, <2>1
<1>10. Sells(orders') + pos <= Sells(o) + pos'
  BY <1>1, <1>3, <1>5
<1>11. (InProcess => low <= price) /\ price \in Prices /\ low \in Prices
  BY DEF CapitalInv, MoneyTypes
<1> QED BY <1>1, <1>3, <1>6, <1>7, <1>8, <1>9, <1>10, <1>11 DEF Eases

(***************************************************************************)
(* The steps of the run.                                                   *)
(***************************************************************************)
\* A step of the run that leaves the broker alone and neither asks for a BUY nor
\* reads: it goes on with its ledger, or has none and no BUY is hidden from it.
LEMMA QuietCapital ==
  ASSUME LiveInv, CapitalInv, UNCHANGED broker, low' \in Prices,
         job'.phase \notin {"checking", "authorised"}, reads' = <<>>,
         ledger' \in {ledger, NoLedger},
         job'.phase \in {"start", "restored"} => HiddenBuys(orders) = {},
         \/ ~InProcess'
         \/ InProcess /\ ledger' = ledger /\ low' = low
         \/ ~ledger'.known /\ ledger'.spent = 0 /\ HiddenBuys(orders) = {} /\ low' <= price
  PROVE  CapitalInv'
<1> USE DEF CapitalInv, broker
<1>1. /\ Allocated \in Nat /\ Free \in Int /\ Asked \in Nat /\ Leaving \in {0, 1}
      /\ Sells(orders) \in Nat /\ pos \in Nat /\ CycleCap \in Nat
      /\ ledger.spent \in Nat /\ ledger.initial \in Nat /\ ledger.cash \in Int
  BY MoneyNumbers DEF MoneyTypes
<1>2. MoneyTypes'
  <2>1. NoLedger \in Ledger
    BY <1>1 DEF NoLedger, Ledger
  <2> QED BY <2>1 DEF MoneyTypes
<1>3. ReadsTyped'
  BY EmptySeq DEF ReadsTyped, Requests
<1>4. (Leaving = 0)' /\ (Asked = 0)' /\ ~Buying' /\ Free' = Free
  BY DEF Leaving, Asked, Buying, Free
<1>5. SellsHeld'
  BY <1>1, <1>4 DEF SellsHeld
<1>6. Funded'
  <2>1. Asked <= Free
    BY DEF Funded
  <2>2. ASSUME InProcess', ledger'.known
        PROVE  /\ Allocated' <= ledger'.initial + ledger'.spent
               /\ ledger'.cash - ledger'.spent <= Free
    <3>1. InProcess /\ ledger.known /\ ledger' = ledger /\ low' = low
      BY <2>2
    <3>2. /\ Allocated + Asked <= ledger.initial + ledger.spent
          /\ ledger.cash - ledger.spent <= Free - Asked
      BY <3>1 DEF Funded
    <3>3. Allocated' = Allocated
      BY <3>1 DEF Allocated
    <3>4. Allocated <= ledger.initial + ledger.spent /\ ledger.cash - ledger.spent <= Free
      BY <1>1, <3>2
    <3> QED BY <3>1, <3>3, <3>4
  <2>3. (Asked <= Free)'
    BY <1>1, <1>4, <2>1
  <2>4. (InProcess /\ ledger.known =>
           /\ Allocated + Asked <= ledger.initial + ledger.spent
           /\ ledger.cash - ledger.spent <= Free - Asked)'
    <3> SUFFICES ASSUME InProcess', ledger'.known
                 PROVE  /\ Allocated' + Asked' <= ledger'.initial + ledger'.spent
                        /\ ledger'.cash - ledger'.spent <= Free' - Asked'
      OBVIOUS
    <3>1. InProcess /\ ledger' = ledger /\ Allocated' = Allocated
      BY DEF Allocated
    <3> QED BY <1>1, <1>4, <2>2, <3>1
  <2> QED BY <1>4, <2>3, <2>4 DEF Funded
<1>7. Fresh'
  BY DEF Fresh
<1>8. FirstReads'
  BY DEF FirstReads
<1> QED BY <1>2, <1>3, <1>5, <1>6, <1>7, <1>8

\* The steps of the workflow, and a BUY that is refused.
LEMMA QuietStep ==
  ASSUME LiveInv, CapitalInv,
         \/ Dispatch \/ RestoreNative \/ Bootstrap \/ EndUnexecuted \/ BeginExecute
         \/ EndExecuted \/ EndWithoutReceipt \/ LoseRunner \/ RefuseBuy
  PROVE  CapitalInv'
<1>1. /\ job \in Job /\ (reads # <<>> => job.phase = "checking")
      /\ low \in Prices /\ price \in Prices /\ (InProcess => low <= price)
      /\ (job.phase \in {"start", "restored"} => HiddenBuys(orders) = {})
      /\ ~NoLedger.known /\ NoLedger.spent = 0
  BY DEF LiveInv, Shapes, CapitalInv, MoneyTypes, ReadsTyped, Fresh, NoLedger
<1>2. \A p \in Prices : p <= p
  BY MoneyAssumption
<1>3. CASE Dispatch
  <2>1. HiddenBuys(orders) = {}
    BY <1>3 DEF Dispatch, Those, HiddenBuys
  <2>2. /\ UNCHANGED broker /\ reads' = reads /\ ledger' = ledger /\ low' = low
        /\ job.phase = "idle" /\ job'.phase = "start"
    BY <1>3 DEF Dispatch, NoJob, ghosts
  <2> QED BY <1>1, <2>1, <2>2, QuietCapital DEF InProcess
<1>4. CASE RestoreNative \/ Bootstrap
  <2>1. /\ UNCHANGED broker /\ reads' = reads /\ ledger' = ledger /\ low' = low
        /\ job.phase = "start" /\ job'.phase = "restored"
    BY <1>1, <1>4 DEF RestoreNative, Bootstrap, Job, ghosts
  <2> QED BY <1>1, <2>1, QuietCapital DEF InProcess
<1>5. CASE EndUnexecuted \/ LoseRunner
  <2>1. /\ UNCHANGED broker /\ reads' = reads /\ ledger' = ledger /\ low' = low
        /\ job.phase \in {"start", "restored"} /\ job'.phase = "idle"
    BY <1>5 DEF EndUnexecuted, LoseRunner, NoJob, ghosts, Ended
  <2> QED BY <1>1, <2>1, QuietCapital DEF InProcess
<1>6. CASE BeginExecute
  <2>1. /\ UNCHANGED broker /\ reads' = reads /\ ledger' = NoLedger /\ low' = price
        /\ job.phase = "restored" /\ job'.phase = "trading"
    BY <1>1, <1>6 DEF BeginExecute, Job
  <2> QED BY <1>1, <1>2, <2>1, QuietCapital
<1>7. CASE EndExecuted \/ EndWithoutReceipt
  <2>1. /\ UNCHANGED broker /\ reads' = <<>> /\ ledger' = NoLedger /\ low' = price
        /\ job'.phase = "idle"
    BY <1>1, <1>7 DEF EndExecuted, EndWithoutReceipt, NoJob, Ended
  <2> QED BY <1>1, <2>1, QuietCapital DEF InProcess
<1>8. CASE RefuseBuy
  <2>1. /\ UNCHANGED broker /\ reads' = <<>> /\ ledger' = ledger /\ low' = low
        /\ job.phase = "checking" /\ job'.phase = "trading"
    BY <1>1, <1>8 DEF RefuseBuy, Job, ghosts
  <2> QED BY <1>1, <2>1, QuietCapital DEF InProcess
<1> QED BY <1>3, <1>4, <1>5, <1>6, <1>7, <1>8

\* An order is begun: the book and the ledger stay as they are.
LEMMA BeginStep ==
  ASSUME LiveInv, CapitalInv, BeginBuy \/ BeginSell PROVE CapitalInv'
<1> USE DEF CapitalInv
<1>1. /\ UNCHANGED <<broker, ledger, reads, low>> /\ job.phase = "trading" /\ job \in Job
  BY DEF LiveInv, Shapes, BeginBuy, BeginSell, ghosts
<1>2. /\ Allocated \in Nat /\ Free \in Int
      /\ Sells(orders) \in Nat /\ pos \in Nat /\ CycleCap \in Nat
      /\ ledger.spent \in Nat /\ ledger.initial \in Nat /\ ledger.cash \in Int
  BY MoneyNumbers DEF MoneyTypes
<1>3. reads = <<>> /\ Asked = 0 /\ InProcess
  BY <1>1 DEF ReadsTyped, Asked, Buying, InProcess
<1>4. PICK limit \in Prices :
        \/ /\ MayBuy(limit)
           /\ job' = [job EXCEPT !.phase = "checking", !.limit = limit, !.side = "buy"]
        \/ /\ Sells(orders) < pos
           /\ job' = [job EXCEPT !.phase = "authorised", !.limit = limit, !.side = "sell"]
  BY DEF BeginBuy, BeginSell, Those, Sells, WorkingIn
<1>5. \/ /\ job'.phase = "checking" /\ job'.limit = limit /\ ledger.spent + limit <= CycleCap
         /\ job'.side = "buy"
      \/ job'.phase = "authorised" /\ job'.side = "sell" /\ Sells(orders) < pos
  BY <1>1, <1>4 DEF MayBuy, Job
<1>6. MoneyTypes'
  BY <1>1, <1>3, <1>5 DEF MoneyTypes, broker, InProcess
<1>7. ReadsTyped'
  BY <1>1, <1>3, EmptySeq DEF ReadsTyped, Requests
<1>8. SellsHeld'
  <2>1. Sells(orders') = Sells(orders) /\ pos' = pos
    BY <1>1 DEF broker
  <2>2. CASE job'.phase = "checking"
    <3>1. Leaving' = 0 /\ Leaving = 0 /\ Sells(orders) + Leaving <= pos
      BY <1>1, <2>2 DEF Leaving, SellsHeld
    <3> QED BY <2>1, <3>1 DEF SellsHeld
  <2>3. CASE job'.phase = "authorised" /\ Sells(orders) < pos
    <3>1. Leaving' \in {0, 1}
      BY DEF Leaving
    <3> QED BY <1>2, <2>1, <2>3, <3>1 DEF SellsHeld
  <2> QED BY <1>5, <2>2, <2>3
<1>9. Funded'
  <2>1. ~Buying' /\ (Asked = 0)' /\ Free' = Free /\ Allocated' = Allocated /\ ledger' = ledger
    BY <1>1, <1>5 DEF Buying, Asked, Free, Allocated, broker
  <2> QED BY <1>3, <2>1 DEF Funded
<1>10. Fresh'
  BY <1>1, <1>3, <1>5 DEF Fresh, broker
<1>11. FirstReads'
  BY <1>1, <1>3 DEF FirstReads
<1> QED BY <1>6, <1>7, <1>8, <1>9, <1>10, <1>11

\* What a read answers: numbers of the account or the positions, or the orders shown.
LEMMA AnswerFacts ==
  ASSUME LiveInv, CapitalInv, NEW request \in {"account", "positions", "orders"}
  PROVE  /\ Answer(request) \in Answers
         /\ request # "orders" => /\ Answer(request)[1] \in Nat /\ Answer(request)[2] \in Int
         /\ request = "account" => Answer(request)[2] = cash
         /\ request = "positions" => /\ Answer(request)[2] = pos * price
                                     /\ Answer(request)[2] \in Nat
         /\ request = "orders" =>
              /\ IsFiniteSet(DOMAIN Answer(request))
              /\ \A i \in DOMAIN Answer(request) : Promises(Answer(request))[i] \in Nat
              /\ HiddenBuys(orders) = {} =>
                   \A i \in WorkingIn(orders, "buy") :
                      /\ i \in DOMAIN Answer(request)
                      /\ Promises(Answer(request))[i] = orders[i].limit
<1>1. /\ orders \in Seq(Order) /\ BuyLimits(orders) \in Nat /\ pos * price \in Nat
      /\ Free \in Int /\ Asked \in Nat /\ pos \in Nat /\ cash \in Int /\ Asked <= Free
  BY MoneyNumbers DEF CapitalInv, MoneyTypes, Funded
<1>2. cash \in Nat
  BY <1>1 DEF Free
<1>3. CASE request = "account"
  <2>1. Answer(request) = <<cash + pos * price, cash>>
    BY <1>3 DEF Answer
  <2>2. cash + pos * price \in Nat
    BY <1>1, <1>2
  <2> QED BY <1>1, <1>3, <2>1, <2>2 DEF Answers
<1>4. CASE request = "positions"
  <2>1. Answer(request) = <<pos, pos * price>>
    BY <1>4 DEF Answer
  <2> QED BY <1>1, <1>4, <2>1 DEF Answers
<1>5. CASE request = "orders"
  <2> DEFINE D == Those("buy", {"open"}) \union Those("sell", {"open"})
  <2>1. Answer(request) = [i \in D |-> orders[i]]
    BY <1>5 DEF Answer
  <2>2. D \subseteq DOMAIN orders /\ DOMAIN orders \subseteq Nat /\ IsFiniteSet(DOMAIN orders)
    <3>1. D \subseteq DOMAIN orders
      BY DEF Those
    <3>2. Len(orders) \in Nat /\ DOMAIN orders = 1..Len(orders)
      BY <1>1, LenProperties
    <3> QED BY <3>1, <3>2, FS_Interval
  <2>3. \A i \in D : orders[i] \in Order /\ orders[i].limit \in Nat
    BY <1>1, <2>2, BookFacts
  <2>4. HiddenBuys(orders) = {} => WorkingIn(orders, "buy") \subseteq D
    <3>1. WorkingIn(orders, "buy") \subseteq Those("buy", {"open"}) \cup HiddenBuys(orders)
      BY DEF WorkingIn, Those, HiddenBuys, Working
    <3> QED BY <3>1
  <2>5. \A i \in WorkingIn(orders, "buy") : orders[i].side = "buy"
    BY DEF WorkingIn
  <2> HIDE DEF D
  <2>6. IsFiniteSet(D)
    BY <2>2, FS_Subset
  <2>7. DOMAIN Answer(request) = D /\ \A i \in D : Answer(request)[i] = orders[i]
    BY <2>1
  <2>8. \A i \in D : Promises(Answer(request))[i] =
                       IF orders[i].side = "buy" THEN orders[i].limit ELSE 0
    BY <2>7 DEF Promises
  <2>9. Answer(request) \in Answers
    <3>1. D \in SUBSET Nat
      BY <2>2
    <3>2. Answer(request) \in [D -> Order]
      BY <2>1, <2>3
    <3>3. [D -> Order] \in {[E -> Order] : E \in SUBSET Nat}
      BY <3>1
    <3> QED BY <3>2, <3>3 DEF Answers
  <2> QED BY <1>5, <2>3, <2>4, <2>5, <2>6, <2>7, <2>8, <2>9
<1> QED BY <1>3, <1>4, <1>5

\* What the process was told the BUYs may spend.
LEMMA PromisedNumber ==
  ASSUME ReadsTyped, Len(reads) >= 3 PROVE Promised \in Nat
<1>1. IsFiniteSet(DOMAIN reads[3]) /\ \A i \in DOMAIN reads[3] : Promises(reads[3])[i] \in Nat
  BY DEF ReadsTyped
<1> QED BY <1>1, SumOfNumbers DEF Promised

\* A book of the broker that shows every working BUY promises what they may spend.
LEMMA PromisedCovers ==
  ASSUME LiveInv, ReadsTyped, Len(reads) >= 3,
         \A i \in WorkingIn(orders, "buy") :
            i \in DOMAIN reads[3] /\ Promises(reads[3])[i] = orders[i].limit
  PROVE  BuyLimits(orders) <= Promised
<1> DEFINE S == DOMAIN reads[3]
           T == WorkingIn(orders, "buy")
           w == Promises(reads[3])
           v == Limits(orders)
<1>1. IsFiniteSet(S) /\ \A i \in S : w[i] \in Nat
  BY DEF ReadsTyped
<1>2. T \in SUBSET S /\ T \in SUBSET DOMAIN orders
  BY DEF WorkingIn
<1>3. \A i \in DOMAIN orders : v[i] \in Nat
  BY BookFacts DEF LiveInv, Shapes
<1>4. \A i \in T : v[i] = w[i]
  BY <1>2 DEF Limits
<1>5. Promised = SumFunctionOnSet(w, S) /\ BuyLimits(orders) = SumFunctionOnSet(v, T)
  BY DEF Promised, BuyLimits
<1> HIDE DEF S, T, w, v
<1>6. \A i \in T : v[i] \in Nat /\ v[i] <= w[i]
  BY <1>2, <1>3, <1>4
<1> QED BY <1>1, <1>2, <1>5, <1>6, SumMonotone

\* A read: the next answer joins the others.
LEMMA ReadStep ==
  ASSUME LiveInv, CapitalInv, Read PROVE CapitalInv'
<1> USE DEF CapitalInv
<1> DEFINE n == Len(reads)
           request == Requests[n + 1]
           a == Answer(request)
<1>1. /\ UNCHANGED <<broker, ledger, job, low>> /\ job.phase = "checking"
      /\ reads' = Append(reads, a) /\ n < Len(Requests) /\ n \in Nat /\ reads \in Seq(Answers)
  BY LenProperties DEF Read, ghosts, ReadsTyped
<1>2. /\ n \in {0, 1, 2, 3, 4, 5} /\ Len(Requests) = 6
      /\ n \in {0, 3} => request = "account"
      /\ n \in {1, 4} => request = "positions"
      /\ n \in {2, 5} => request = "orders"
  <2>1. Len(Requests) = 6
    BY DEF Requests
  <2>2. /\ Requests[1] = "account" /\ Requests[4] = "account"
        /\ Requests[2] = "positions" /\ Requests[5] = "positions"
        /\ Requests[3] = "orders" /\ Requests[6] = "orders"
    BY DEF Requests
  <2>3. n \in Nat /\ n < 6
    BY <1>1, <2>1
  <2> HIDE DEF n
  <2>4. n \in {0, 1, 2, 3, 4, 5}
    BY <2>3
  <2> QED BY <2>1, <2>2, <2>4
<1>3. request \in {"account", "positions", "orders"}
  BY <1>2
<1>4. /\ a \in Answers
      /\ request # "orders" => a[1] \in Nat /\ a[2] \in Int
      /\ request = "account" => a[2] = cash
      /\ request = "positions" => a[2] = pos * price /\ a[2] \in Nat
      /\ request = "orders" =>
           /\ IsFiniteSet(DOMAIN a) /\ \A i \in DOMAIN a : Promises(a)[i] \in Nat
           /\ HiddenBuys(orders) = {} =>
                \A i \in WorkingIn(orders, "buy") :
                   i \in DOMAIN a /\ Promises(a)[i] = orders[i].limit
  BY <1>3, AnswerFacts
<1>5. /\ reads' \in Seq(Answers) /\ Len(reads') = n + 1 /\ reads'[n + 1] = a
      /\ \A k \in 1..n : reads'[k] = reads[k]
  BY <1>1, <1>4, AppendProperties
<1>6. /\ pos \in Nat /\ cash \in Int /\ price \in Nat /\ low \in Nat /\ low <= price
      /\ BuyLimits(orders) \in Nat
  BY <1>1, MoneyNumbers DEF MoneyTypes, InProcess
<1>7. MoneyTypes' /\ SellsHeld' /\ Funded' /\ Fresh'
  <2>1. Asked' = Asked /\ Leaving' = Leaving /\ Free' = Free /\ Allocated' = Allocated
    BY <1>1 DEF Asked, Buying, Leaving, Free, Allocated, broker
  <2>2. MoneyTypes'
    BY <1>1 DEF MoneyTypes, broker, InProcess
  <2>3. SellsHeld'
    BY <1>1, <2>1 DEF SellsHeld, broker
  <2>4. Funded'
    BY <1>1, <2>1 DEF Funded, Buying, InProcess
  <2>5. Fresh'
    BY <1>1 DEF Fresh, broker, InProcess
  <2> QED BY <2>2, <2>3, <2>4, <2>5
<1> HIDE DEF a, request, n
<1>8. n <= 6 /\ n + 1 <= 6 /\ n \in Nat
  BY <1>2
<1>9. n >= 3 => 3 \in 1..n /\ reads'[3] = reads[3]
  BY <1>5, <1>8
<1>10. ReadsTyped'
  <2>0. /\ \A k \in {1, 2, 4, 5} : n >= k => Answered(k)
        /\ \A k \in {2, 5} : n >= k => reads[k][2] \in Nat
        /\ n >= 3 => /\ IsFiniteSet(DOMAIN reads[3])
                     /\ \A i \in DOMAIN reads[3] : Promises(reads[3])[i] \in Nat
    BY DEF ReadsTyped, n
  <2>1. Len(reads') <= Len(Requests) /\ job'.phase = "checking"
    BY <1>1, <1>2, <1>5
  <2>2. \A k \in {1, 2, 4, 5} : n + 1 >= k => reads'[k][1] \in Nat /\ reads'[k][2] \in Int
    <3> SUFFICES ASSUME NEW k \in {1, 2, 4, 5}, n + 1 >= k
                 PROVE  reads'[k][1] \in Nat /\ reads'[k][2] \in Int
      OBVIOUS
    <3>1. CASE n >= k
      <4>1. k \in 1..n /\ Answered(k)
        BY <1>8, <2>0, <3>1
      <4> QED BY <1>5, <4>1 DEF Answered
    <3>2. CASE k = n + 1
      <4>1. request # "orders"
        BY <1>2, <3>2
      <4> QED BY <1>4, <1>5, <3>2, <4>1
    <3> QED BY <1>8, <3>1, <3>2
  <2>3. \A k \in {2, 5} : n + 1 >= k => reads'[k][2] \in Nat
    <3> SUFFICES ASSUME NEW k \in {2, 5}, n + 1 >= k PROVE reads'[k][2] \in Nat
      OBVIOUS
    <3>1. CASE n >= k
      <4>1. k \in 1..n /\ reads[k][2] \in Nat
        BY <1>8, <2>0, <3>1
      <4> QED BY <1>5, <4>1
    <3>2. CASE k = n + 1
      <4>1. request = "positions"
        BY <1>2, <3>2
      <4> QED BY <1>4, <1>5, <3>2, <4>1
    <3> QED BY <1>8, <3>1, <3>2
  <2>4. n + 1 >= 3 => /\ IsFiniteSet(DOMAIN reads'[3])
                      /\ \A i \in DOMAIN reads'[3] : Promises(reads'[3])[i] \in Nat
    <3>1. CASE n >= 3
      BY <1>9, <2>0, <3>1
    <3>2. CASE n = 2
      <4>1. request = "orders" /\ reads'[3] = a
        BY <1>2, <1>5, <3>2
      <4> QED BY <1>4, <4>1
    <3> QED BY <1>8, <3>1, <3>2
  <2> QED BY <1>5, <2>1, <2>2, <2>3, <2>4 DEF ReadsTyped, Answered
<1>11. FirstReads'
  <2> SUFFICES ASSUME ~ledger.known
               PROVE  /\ n + 1 >= 3 =>
                           \A i \in WorkingIn(orders, "buy") :
                              i \in DOMAIN reads'[3] /\ Promises(reads'[3])[i] = orders[i].limit
                      /\ n + 1 >= 4 => reads'[4][2] - Promised' <= Free
                      /\ n + 1 >= 5 => Allocated <= reads'[5][2] + Promised'
    <3>1. ledger' = ledger /\ orders' = orders /\ Free' = Free /\ Allocated' = Allocated
      BY <1>1 DEF broker, Free, Allocated
    <3> QED BY <1>5, <3>1 DEF FirstReads
  <2>0. /\ n >= 3 => \A i \in WorkingIn(orders, "buy") :
                        i \in DOMAIN reads[3] /\ Promises(reads[3])[i] = orders[i].limit
        /\ n >= 4 => reads[4][2] - Promised <= Free
        /\ n >= 5 => Allocated <= reads[5][2] + Promised
    BY <1>1 DEF FirstReads, n
  <2>1. n + 1 >= 3 => \A i \in WorkingIn(orders, "buy") :
                        i \in DOMAIN reads'[3] /\ Promises(reads'[3])[i] = orders[i].limit
    <3>1. CASE n >= 3
      BY <1>9, <2>0, <3>1
    <3>2. CASE n = 2
      <4>1. request = "orders" /\ reads'[3] = a
        BY <1>2, <1>5, <3>2
      <4>2. HiddenBuys(orders) = {}
        BY <1>1 DEF Fresh, InProcess
      <4> QED BY <1>4, <4>1, <4>2
    <3> QED BY <1>8, <3>1, <3>2
  <2>2. n >= 3 => Promised' = Promised /\ Promised \in Nat /\ BuyLimits(orders) <= Promised
    <3> SUFFICES ASSUME n >= 3
                 PROVE  Promised' = Promised /\ Promised \in Nat /\ BuyLimits(orders) <= Promised
      OBVIOUS
    <3>1. reads'[3] = reads[3]
      BY <1>9
    <3>2. Promised' = Promised
      BY <3>1 DEF Promised, Promises
    <3>3. Len(reads) >= 3 /\ ReadsTyped
      BY DEF n
    <3> QED BY <2>0, <3>2, <3>3, PromisedNumber, PromisedCovers
  <2>3. n + 1 >= 4 => reads'[4][2] - Promised' <= Free
    <3>1. CASE n >= 4
      <4>1. 4 \in 1..n /\ n >= 3
        BY <1>8, <3>1
      <4> QED BY <1>5, <2>0, <2>2, <3>1, <4>1
    <3>2. CASE n = 3
      <4>1. request = "account" /\ reads'[4] = a
        BY <1>2, <1>5, <3>2
      <4>2. reads'[4][2] = cash
        BY <1>4, <4>1
      <4>3. BuyLimits(orders) <= Promised /\ Promised' = Promised /\ Promised \in Nat
        BY <2>2, <3>2
      <4> QED BY <1>6, <4>2, <4>3 DEF Free
    <3> QED BY <1>8, <3>1, <3>2
  <2>4. n + 1 >= 5 => Allocated <= reads'[5][2] + Promised'
    <3>1. CASE n >= 5
      <4>1. 5 \in 1..n /\ n >= 3
        BY <1>8, <3>1
      <4> QED BY <1>5, <2>0, <2>2, <3>1, <4>1
    <3>2. CASE n = 4
      <4>1. request = "positions" /\ reads'[5] = a
        BY <1>2, <1>5, <3>2
      <4>2. reads'[5][2] = pos * price
        BY <1>4, <4>1
      <4>3. BuyLimits(orders) <= Promised /\ Promised' = Promised /\ Promised \in Nat
        BY <2>2, <3>2
      <4>4. pos * low <= pos * price /\ pos * low \in Nat /\ pos * price \in Nat
        <5>1. \A x, y, z \in Nat : y <= z => x * y <= x * z
          OBVIOUS
        <5>2. \A x, y \in Nat : x * y \in Nat
          OBVIOUS
        <5> QED BY <1>6, <5>1, <5>2
      <4>5. Allocated = pos * low + BuyLimits(orders)
        BY DEF Allocated
      <4>6. \A x, y, s, t \in Int : x <= y /\ s <= t => x + s <= y + t
        OBVIOUS
      <4>7. pos * low + BuyLimits(orders) <= pos * price + Promised
        BY <1>6, <4>3, <4>4, <4>6
      <4> QED BY <4>2, <4>3, <4>5, <4>7
    <3> QED BY <1>8, <3>1, <3>2
  <2> QED BY <2>1, <2>3, <2>4
<1> QED BY <1>7, <1>10, <1>11

\* What the checked snapshot says holds of the book, with what the process has
\* reserved counted.
LEMMA SnapshotBounds ==
  ASSUME LiveInv, CapitalInv, job.phase = "checking", Len(reads) = Len(Requests),
         NEW r, r = Reserved(Snapshot)
  PROVE  /\ r.initial \in Nat /\ r.first \in Int /\ r.exposure \in Int /\ r.cash \in Int
         /\ Snapshot.equity \in Nat
         /\ r.initial + ledger.spent <= r.exposure /\ r.cash <= r.first - ledger.spent
         /\ Allocated <= r.initial + ledger.spent /\ r.first - ledger.spent <= Free
<1> USE DEF CapitalInv
<1>1. Len(reads) >= 1 /\ Len(reads) >= 2 /\ Len(reads) >= 3 /\ Len(reads) >= 4 /\ Len(reads) >= 5
  <2>1. Len(Requests) = 6
    BY DEF Requests
  <2> QED BY <2>1
<1>2. /\ reads[1][1] \in Nat /\ reads[1][2] \in Int /\ reads[4][1] \in Nat /\ reads[4][2] \in Int
      /\ reads[2][2] \in Nat /\ reads[5][2] \in Nat
  BY <1>1 DEF ReadsTyped, Answered
<1>3. Promised \in Nat
  BY <1>1, PromisedNumber
<1>4. /\ Allocated \in Nat /\ Free \in Int /\ Asked = 0 /\ InProcess
      /\ ledger.spent \in Nat /\ ledger.initial \in Nat /\ ledger.cash \in Int
      /\ ledger.known \in BOOLEAN
  BY MoneyNumbers DEF MoneyTypes, Ledger, Asked, Buying, InProcess
<1> DEFINE s == Snapshot
           held == Greater(reads[2][2], reads[5][2])
           money == Lesser(reads[1][2], reads[4][2])
<1>5. /\ s.committed = held + Promised /\ s.cash = money - Promised
      /\ s.equity = Lesser(reads[1][1], reads[4][1])
  BY DEF Snapshot
<1>6. /\ held \in Nat /\ reads[5][2] <= held /\ money \in Int /\ money <= reads[4][2]
      /\ s.equity \in Nat
  BY <1>2, <1>5 DEF Greater, Lesser
<1> HIDE DEF s, held, money
<1>7. s.committed \in Nat /\ s.cash \in Int
  BY <1>3, <1>5, <1>6
<1>8. ledger.known =>
        /\ Allocated <= ledger.initial + ledger.spent /\ ledger.cash - ledger.spent <= Free
  BY <1>4 DEF Funded
<1>9. ~ledger.known => ledger.spent = 0 /\ Allocated <= s.committed /\ s.cash <= Free
  <2> SUFFICES ASSUME ~ledger.known
               PROVE  ledger.spent = 0 /\ Allocated <= s.committed /\ s.cash <= Free
    OBVIOUS
  <2>1. ledger.spent = 0
    BY <1>4 DEF Fresh
  <2>2. reads[4][2] - Promised <= Free /\ Allocated <= reads[5][2] + Promised
    BY <1>1 DEF FirstReads
  <2>3. reads[5][2] + Promised <= s.committed /\ s.cash <= reads[4][2] - Promised
    <3>1. \A x, y, p \in Int : x <= y => x + p <= y + p /\ x - p <= y - p
      OBVIOUS
    <3>2. reads[5][2] + Promised <= held + Promised
      BY <1>2, <1>3, <1>6, <3>1
    <3>3. money - Promised <= reads[4][2] - Promised
      BY <1>2, <1>3, <1>6, <3>1
    <3> QED BY <1>5, <3>2, <3>3
  <2>4. Allocated <= s.committed
    BY <1>2, <1>3, <1>4, <1>7, <2>2, <2>3
  <2>5. s.cash <= Free
    BY <1>2, <1>3, <1>4, <1>7, <2>2, <2>3
  <2> QED BY <2>1, <2>4, <2>5
<1>10. /\ r.initial = IF ledger.known THEN ledger.initial ELSE s.committed
       /\ r.first = IF ledger.known THEN ledger.cash ELSE s.cash
       /\ r.exposure = Greater(s.committed, r.initial + ledger.spent)
       /\ r.cash = Lesser(s.cash, r.first - ledger.spent)
  BY DEF Reserved, s
<1>11. /\ r.initial \in Nat /\ r.first \in Int
       /\ Allocated <= r.initial + ledger.spent /\ r.first - ledger.spent <= Free
  <2>1. CASE ledger.known
    BY <1>4, <1>8, <1>10, <2>1
  <2>2. CASE ~ledger.known
    <3>1. r.initial = s.committed /\ r.first = s.cash
      BY <1>10, <2>2
    <3> QED BY <1>4, <1>7, <1>9, <2>2, <3>1
  <2> QED BY <2>1, <2>2
<1>12. /\ r.exposure \in Int /\ r.initial + ledger.spent <= r.exposure
       /\ r.cash \in Int /\ r.cash <= r.first - ledger.spent
  BY <1>4, <1>7, <1>10, <1>11 DEF Greater, Lesser
<1> QED BY <1>6, <1>11, <1>12 DEF s

\* A BUY is authorised: it is reserved in the ledger.
LEMMA AuthoriseStep ==
  ASSUME LiveInv, CapitalInv, Authorise PROVE CapitalInv'
<1> USE DEF CapitalInv
<1> DEFINE r == Reserved(Snapshot)
           l == job.limit
<1>1. /\ UNCHANGED <<broker, low>> /\ reads' = <<>> /\ job \in Job
      /\ job.phase = "checking" /\ Len(reads) = Len(Requests)
      /\ job' = [job EXCEPT !.phase = "authorised"]
      /\ ledger' = [known |-> TRUE, initial |-> r.initial, cash |-> r.first,
                    spent |-> ledger.spent + l]
      /\ r.exposure + l <= Lesser(Budget, Snapshot.equity) /\ l <= r.cash
      /\ job.side = "buy" /\ l \in Prices
  BY DEF Authorise, WithinCapital, ghosts, LiveInv, Shapes
<1>2. /\ r.initial \in Nat /\ r.first \in Int /\ r.exposure \in Int /\ r.cash \in Int
      /\ Snapshot.equity \in Nat
      /\ r.initial + ledger.spent <= r.exposure /\ r.cash <= r.first - ledger.spent
      /\ Allocated <= r.initial + ledger.spent /\ r.first - ledger.spent <= Free
  BY <1>1, SnapshotBounds
<1>3. /\ Allocated \in Nat /\ Free \in Int /\ ledger.spent \in Nat /\ CycleCap \in Nat
      /\ Budget \in Nat /\ Leaving = 0 /\ l \in Nat
      /\ ledger.spent + l <= CycleCap /\ low \in Prices /\ low <= price
  <2>1. l \in Nat
    BY <1>1, MoneyAssumption
  <2> QED BY <1>1, <2>1, MoneyNumbers DEF MoneyTypes, Leaving, InProcess
<1>4. Lesser(Budget, Snapshot.equity) <= Budget
  BY <1>2, <1>3 DEF Lesser
<1>5. Lesser(Budget, Snapshot.equity) \in Int
  BY <1>2, <1>3 DEF Lesser
<1> HIDE DEF r
<1>6. /\ l <= Free /\ Allocated + l <= Budget
      /\ Allocated + l <= r.initial + (ledger.spent + l)
      /\ r.first - (ledger.spent + l) <= Free - l
  <2> HIDE DEF l
  <2>1. l <= Free
    BY <1>1, <1>2, <1>3
  <2>2. Allocated + l <= Budget
    <3>1. \A x, y, z \in Int : x <= y /\ y <= z => x <= z /\ x + l <= z + l
      BY <1>3
    <3>2. Allocated + l <= r.exposure + l
      BY <1>2, <1>3, <3>1
    <3>3. r.exposure + l <= Budget
      BY <1>1, <1>2, <1>3, <1>4, <1>5, <3>1
    <3> QED BY <1>2, <1>3, <3>1, <3>2, <3>3
  <2> QED BY <1>2, <1>3, <2>1, <2>2
<1>7. job'.phase = "authorised" /\ job'.side = "buy" /\ job'.limit = l
  BY <1>1 DEF Job
<1>8. /\ Allocated' = Allocated /\ Free' = Free /\ Asked' = l /\ Leaving' = 0 /\ Buying'
      /\ ledger'.known /\ ledger'.initial = r.initial /\ ledger'.cash = r.first
      /\ ledger'.spent = ledger.spent + l
  BY <1>1, <1>7 DEF Allocated, Free, Asked, Leaving, Buying, broker
<1>9. MoneyTypes'
  <2>1. ledger.spent + l \in 0 .. CycleCap
    BY <1>3
  <2>2. ledger' \in Ledger
    BY <1>1, <1>2, <2>1 DEF Ledger
  <2> QED BY <1>1, <1>3, <1>7, <2>2 DEF MoneyTypes, broker, InProcess
<1>10. ReadsTyped'
  BY <1>1, EmptySeq DEF ReadsTyped, Requests
<1>11. SellsHeld'
  BY <1>1, <1>3, <1>8 DEF SellsHeld, broker
<1>12. Funded'
  <2>1. (Asked <= Free)'
    BY <1>6, <1>8
  <2>2. (Buying => ledger.known /\ Allocated + job.limit <= Budget)'
    BY <1>6, <1>7, <1>8
  <2>3. (/\ Allocated + Asked <= ledger.initial + ledger.spent
         /\ ledger.cash - ledger.spent <= Free - Asked)'
    BY <1>6, <1>8
  <2> QED BY <2>1, <2>2, <2>3 DEF Funded
<1>13. Fresh' /\ FirstReads'
  BY <1>7, <1>8 DEF Fresh, FirstReads
<1> QED BY <1>9, <1>10, <1>11, <1>12, <1>13

\* What a submission adds to the book.
LEMMA SubmitMoney ==
  ASSUME LiveInv, CapitalInv, Submit
  PROVE  /\ Allocated' <= Allocated + Asked /\ Allocated' \in Nat
         /\ Free - Asked <= Free' /\ Free' \in Int
         /\ Sells(orders') + Leaving' <= pos'
         /\ job.side = "sell" => Free' = Free /\ HiddenBuys(orders') = HiddenBuys(orders)
         /\ \A i \in DOMAIN orders' : i \in DOMAIN orders \/ orders'[i].side = job.side
<1> USE DEF CapitalInv
<1>1. PICK status \in {"open", "hidden", "dead"} :
        orders' = Append(orders, [side |-> job.side, limit |-> job.limit, status |-> status])
  BY DEF Submit
<1> DEFINE e == [side |-> job.side, limit |-> job.limit, status |-> status]
           n == Len(orders) + 1
<1>2. /\ job.phase = "authorised" /\ UNCHANGED <<pos, cash, low>> /\ job'.phase = "trading"
      /\ job \in Job /\ job.side \in {"buy", "sell"} /\ job.limit \in Prices
  BY DEF Submit, LiveInv, Shapes, Job
<1>3. e \in Order /\ orders \in Seq(Order)
  BY <1>2 DEF Order, LiveInv, Shapes
<1>4. /\ n \notin DOMAIN orders /\ DOMAIN orders' = DOMAIN orders \cup {n} /\ orders'[n] = e
      /\ \A i \in DOMAIN orders : orders'[i] = orders[i]
      /\ e.side = "buy" => /\ BuyLimits(orders') <= BuyLimits(orders) + e.limit
                           /\ Sells(orders') = Sells(orders)
      /\ e.side = "sell" => /\ BuyLimits(orders') = BuyLimits(orders)
                            /\ Sells(orders') <= Sells(orders) + 1
  <2> HIDE DEF e, n
  <2>1. Joins(orders, orders', e, n)
    BY <1>1 DEF e, n, Joins
  <2>2. e \in Order /\ orders \in Seq(Order)
    BY <1>3
  <2> QED BY <2>1, <2>2, NewlyWorking
<1>5. e.side = job.side /\ e.limit = job.limit
  OBVIOUS
<1>6. /\ Asked = IF job.side = "buy" THEN job.limit ELSE 0
      /\ Leaving = IF job.side = "sell" THEN 1 ELSE 0
      /\ Leaving' = 0
  BY <1>2 DEF Asked, Buying, Leaving
<1> HIDE DEF e, n
<1>7. /\ BuyLimits(orders) \in Nat /\ Sells(orders) \in Nat /\ Allocated \in Nat /\ Free \in Int
      /\ pos * low \in Nat /\ pos \in Nat /\ cash \in Int /\ Asked \in Nat /\ job.limit \in Nat
  <2>1. job.limit \in Nat
    BY <1>2, MoneyAssumption
  <2> QED BY <2>1, MoneyNumbers DEF MoneyTypes
<1>8. BuyLimits(orders') \in Nat /\ Sells(orders') \in Nat
  <2>1. orders' \in Seq(Order)
    BY <1>1, <1>3, AppendProperties DEF e
  <2> QED BY <2>1, BookFacts, BuyLimitsNumber
<1>9. BuyLimits(orders') <= BuyLimits(orders) + Asked
  BY <1>2, <1>4, <1>5, <1>6, <1>7, <1>8
<1>10. Allocated' <= Allocated + Asked /\ Allocated' \in Nat
  <2>1. Allocated' = pos * low + BuyLimits(orders') /\ Allocated = pos * low + BuyLimits(orders)
    BY <1>2 DEF Allocated
  <2> QED BY <1>7, <1>8, <1>9, <2>1
<1>11. Free - Asked <= Free' /\ Free' \in Int
  <2>1. Free' = cash - BuyLimits(orders') /\ Free = cash - BuyLimits(orders)
    BY <1>2 DEF Free
  <2> QED BY <1>7, <1>8, <1>9, <2>1
<1>12. Sells(orders') + Leaving' <= pos'
  <2>1. Sells(orders) + Leaving <= pos
    BY DEF SellsHeld
  <2>2. Sells(orders') <= Sells(orders) + Leaving
    BY <1>2, <1>4, <1>5, <1>6, <1>7, <1>8
  <2>3. Leaving \in Nat
    BY <1>6
  <2> QED BY <1>2, <1>6, <1>7, <1>8, <2>1, <2>2, <2>3
<1>13. job.side = "sell" => Free' = Free /\ HiddenBuys(orders') = HiddenBuys(orders)
  <2> SUFFICES ASSUME job.side = "sell"
               PROVE  Free' = Free /\ HiddenBuys(orders') = HiddenBuys(orders)
    OBVIOUS
  <2>1. Free' = Free
    BY <1>2, <1>4, <1>5 DEF Free
  <2>2. orders'[n].side = "sell"
    BY <1>4, <1>5
  <2> QED BY <1>4, <2>1, <2>2 DEF HiddenBuys
<1> QED BY <1>4, <1>5, <1>10, <1>11, <1>12, <1>13

\* An order reaches the broker.
LEMMA SubmitCapital ==
  ASSUME LiveInv, CapitalInv, Submit PROVE CapitalInv'
<1> USE DEF CapitalInv
<1>1. /\ UNCHANGED <<pos, price, cash, ledger, reads, low>> /\ job.phase = "authorised"
      /\ job'.phase = "trading" /\ job \in Job /\ job.side \in {"buy", "sell"}
  BY DEF Submit, LiveInv, Shapes, Job
<1>2. /\ Allocated' <= Allocated + Asked /\ Allocated' \in Nat
      /\ Free - Asked <= Free' /\ Free' \in Int
      /\ Sells(orders') + Leaving' <= pos'
      /\ job.side = "sell" => Free' = Free /\ HiddenBuys(orders') = HiddenBuys(orders)
  BY SubmitMoney
<1>3. /\ Allocated \in Nat /\ Free \in Int /\ Asked \in Nat
      /\ ledger.spent \in Nat /\ ledger.initial \in Nat /\ ledger.cash \in Int
  BY MoneyNumbers
<1>4. reads = <<>> /\ InProcess /\ InProcess' /\ (Asked = 0)' /\ ~Buying'
  BY <1>1 DEF ReadsTyped, InProcess, Asked, Buying
<1>5. MoneyTypes'
  BY <1>1, <1>4 DEF MoneyTypes
<1>6. ReadsTyped'
  BY <1>1, <1>4, EmptySeq DEF ReadsTyped, Requests
<1>7. Funded'
  <2>1. Asked <= Free
    BY DEF Funded
  <2>2. ledger.known => /\ Allocated + Asked <= ledger.initial + ledger.spent
                        /\ ledger.cash - ledger.spent <= Free - Asked
    BY <1>4 DEF Funded
  <2>3. 0 <= Free'
    BY <1>2, <1>3, <2>1
  <2>4. ledger.known => /\ Allocated' <= ledger.initial + ledger.spent
                        /\ ledger.cash - ledger.spent <= Free'
    BY <1>2, <1>3, <2>2
  <2>5. ledger.known => /\ Allocated' + 0 <= ledger.initial + ledger.spent
                        /\ ledger.cash - ledger.spent <= Free' - 0
    BY <1>2, <1>3, <2>4
  <2> QED BY <1>1, <1>4, <2>3, <2>5 DEF Funded
<1>8. Fresh'
  <2>1. CASE job.side = "buy"
    <3>1. ledger.known
      BY <1>1, <2>1 DEF Funded, Buying
    <3> QED BY <1>1, <3>1 DEF Fresh
  <2>2. CASE job.side = "sell"
    BY <1>1, <1>2, <1>4, <2>2 DEF Fresh
  <2> QED BY <1>1, <2>1, <2>2
<1>9. FirstReads'
  BY <1>1 DEF FirstReads
<1> QED BY <1>2, <1>5, <1>6, <1>7, <1>8, <1>9 DEF SellsHeld

\* An account with its cash and no order.
LEMMA CapitalInit == Init => CapitalInv
<1> SUFFICES ASSUME Init PROVE CapitalInv
  OBVIOUS
<1>1. /\ pos = 0 /\ price \in Prices /\ cash = Funds /\ orders = <<>> /\ low = price
      /\ ledger = NoLedger /\ reads = <<>> /\ job.phase = "idle" /\ job.limit = 0
  BY DEF Init, NoJob
<1>2. Funds \in Nat /\ price \in Nat /\ CycleCap \in Nat /\ \A p \in Prices : p <= p
  BY <1>1, MoneyAssumption DEF ResolvesLive
<1>3. /\ WorkingIn(orders, "buy") = {} /\ WorkingIn(orders, "sell") = {}
      /\ HiddenBuys(orders) = {}
  BY <1>1 DEF WorkingIn, HiddenBuys
<1>4. BuyLimits(orders) = 0 /\ Sells(orders) = 0
  BY <1>3, SumEmpty, FS_EmptySet DEF BuyLimits, Sells
<1>5. MoneyTypes
  BY <1>1, <1>2 DEF MoneyTypes, InProcess, NoLedger, Ledger
<1>6. ReadsTyped
  BY <1>1, EmptySeq DEF ReadsTyped, Requests
<1>7. SellsHeld /\ Funded /\ Fresh /\ FirstReads
  BY <1>1, <1>2, <1>3, <1>4 DEF SellsHeld, Funded, Fresh, FirstReads, Leaving, Asked, Buying,
     Free, InProcess
<1> QED BY <1>5, <1>6, <1>7 DEF CapitalInv

\* Whoever moves, the gate keeps what it rests on.
LEMMA CapitalStep == LiveInv /\ LiveInv' /\ CapitalInv /\ [Next]_vars => CapitalInv'
<1> SUFFICES ASSUME LiveInv, LiveInv', CapitalInv, [Next]_vars PROVE CapitalInv'
  OBVIOUS
<1>1. CASE MovePrice \/ Deposit \/ SetKillSwitch \/ Approve
  BY <1>1, PriceEases, DepositEases, EasesCapital
<1>2. CASE \E i \in DOMAIN orders : Fill(i) \/ Die(i) \/ Appear(i)
  <2>1. PICK i \in DOMAIN orders : Fill(i) \/ Die(i) \/ Appear(i)
    BY <1>2
  <2>2. Eases
    BY <2>1, FillEases, StatusEases
  <2> QED BY <2>2, EasesCapital
<1>3. CASE \/ Dispatch \/ RestoreNative \/ Bootstrap \/ EndUnexecuted \/ BeginExecute
           \/ EndExecuted \/ EndWithoutReceipt \/ LoseRunner \/ RefuseBuy
  BY <1>3, QuietStep
<1>4. CASE BeginBuy \/ BeginSell
  BY <1>4, BeginStep
<1>5. CASE Read
  BY <1>5, ReadStep
<1>6. CASE Authorise
  BY <1>6, AuthoriseStep
<1>7. CASE Submit
  BY <1>7, SubmitCapital
<1>8. CASE UNCHANGED vars
  <2>1. UNCHANGED <<pos, price, cash, orders, low, job, ledger, reads>>
    BY <1>8 DEF vars, broker, ghosts
  <2>2. /\ pos \in Nat /\ cash \in Int /\ Sells(orders) \in Nat /\ Free \in Int /\ Allocated \in Nat
        /\ price \in Prices /\ low \in Prices /\ (InProcess => low <= price)
    BY MoneyNumbers DEF CapitalInv, MoneyTypes
  <2>3. Free' = Free /\ Allocated' = Allocated
    BY <2>1 DEF Free, Allocated
  <2> QED BY <2>1, <2>2, <2>3, SameBook, EasesCapital
<1> QED BY <1>1, <1>2, <1>3, <1>4, <1>5, <1>6, <1>7, <1>8 DEF Next

\* What the capital gate rests on holds in every reachable state.
LEMMA CapitalInvariant == Spec => [](LiveInv /\ CapitalInv)
<1> QED BY LiveInit, LiveStep, CapitalInit, CapitalStep, PTL DEF Spec

\* trade.py: whatever fills, appears or dies between the reads, the account never
\* goes below zero, the ledger never spends more than a cycle may, and the reads of
\* the snapshot come in their order.
THEOREM LiveTypes == Spec => []TypeOK
<1>1. ASSUME LiveInv, CapitalInv PROVE TypeOK
  <2>1. cash \in Nat
    <3>1. /\ BuyLimits(orders) \in Nat /\ cash \in Int /\ Asked \in Nat /\ Asked <= Free
      BY <1>1, MoneyNumbers DEF CapitalInv, MoneyTypes, Funded
    <3> QED BY <3>1 DEF Free
  <2>2. /\ \A i \in DOMAIN orders : orders[i] \in Order
        /\ \A i \in DOMAIN history : history[i] \in Entry
    BY <1>1, ElementOfSeq, LenProperties DEF LiveInv, Shapes
  <2>3. /\ kill \in BOOLEAN /\ release \in Releases
        /\ job.phase \in {"idle", "start", "restored", "trading", "checking", "authorised"}
        /\ late \in Nat
    BY <1>1 DEF LiveInv, Shapes, SwitchInv, Job
  <2>4. /\ pos \in Nat /\ price \in Prices /\ low \in Prices /\ (InProcess => low <= price)
        /\ ledger.spent \in 0..CycleCap /\ ledger.initial \in Nat
        /\ Len(reads) <= Len(Requests) /\ (reads # <<>> => job.phase = "checking")
    BY <1>1 DEF CapitalInv, MoneyTypes, ReadsTyped, Ledger
  <2> QED BY <2>1, <2>2, <2>3, <2>4 DEF TypeOK, Order, Entry
<1> QED BY <1>1, CapitalInvariant, PTL

\* trade.py:584-606: when a BUY reaches the broker, every lot held at the lowest price the
\* process saw and every BUY still working fit the budget, and cash pays for those BUYs.
THEOREM BuysCoveredCorrect == Spec => BuysCovered
<1> DEFINE Covered == /\ pos' * low' + LimitsOf(Those("buy", Working))' <= Budget
                      /\ LimitsOf(Those("buy", Working))' <= cash'
<1>1. ASSUME LiveInv, LiveInv', CapitalInv, CapitalInv', [Next]_vars, Bought # {}
      PROVE  Covered
  <2>1. CASE Submit
    <3>1. job.side = "buy"
      BY <1>1, <2>1, SubmitMoney DEF Bought
    <3>2. Buying /\ Asked = job.limit
      BY <2>1, <3>1 DEF Submit, Buying, Asked
    <3>3. /\ Allocated' <= Allocated + Asked /\ Allocated' \in Nat
          /\ Free - Asked <= Free' /\ Free' \in Int
      BY <1>1, <2>1, SubmitMoney
    <3>4. Allocated \in Nat /\ Free \in Int /\ Asked \in Nat /\ Budget \in Nat
      BY <1>1, MoneyNumbers DEF CapitalInv
    <3>5. Asked <= Free /\ Allocated + Asked <= Budget
      BY <1>1, <3>2 DEF CapitalInv, Funded
    <3>6. Allocated' <= Budget /\ 0 <= Free'
      BY <3>3, <3>4, <3>5
    <3>7. LimitsOf(Those("buy", Working))' = BuyLimits(orders')
      BY DEF LimitsOf, Those, BuyLimits, WorkingIn, Limits
    <3>8. Allocated' = pos' * low' + BuyLimits(orders') /\ Free' = cash' - BuyLimits(orders')
      BY DEF Allocated, Free
    <3>9. BuyLimits(orders') \in Nat /\ cash' \in Int
      BY <1>1, BuyLimitsNumber DEF LiveInv, Shapes, CapitalInv, MoneyTypes
    <3>10. BuyLimits(orders') <= cash'
      BY <3>6, <3>8, <3>9
    <3> QED BY <3>6, <3>7, <3>8, <3>10
  <2>2. CASE ~Submit
    <3>1. DOMAIN orders' = DOMAIN orders
      <4>1. CASE \E i \in DOMAIN orders : Fill(i) \/ Die(i) \/ Appear(i)
        BY <4>1 DEF Fill, Die, Appear
      <4>2. CASE ~\E i \in DOMAIN orders : Fill(i) \/ Die(i) \/ Appear(i)
        <5>1. orders' = orders
          BY <1>1, <2>2, <4>2 DEF Next, vars, broker, MovePrice, Deposit, SetKillSwitch, Approve,
             Dispatch, RestoreNative, Bootstrap, EndUnexecuted, BeginExecute, EndExecuted,
             EndWithoutReceipt, LoseRunner, BeginBuy, BeginSell, Read, Authorise, RefuseBuy
        <5> QED BY <5>1
      <4> QED BY <4>1, <4>2
    <3> QED BY <1>1, <3>1 DEF Bought
  <2> QED BY <2>1, <2>2
<1>2. LiveInv /\ LiveInv' /\ CapitalInv /\ CapitalInv' /\ [Next]_vars
        => [Bought # {} => Covered]_vars
  BY <1>1
<1> QED BY <1>2, CapitalInvariant, PTL DEF Spec, BuysCovered
=============================================================================
